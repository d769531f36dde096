SPECIFICATION InForceSpec
CONSTANTS
    Host = {x1, x2}
    RawPort <- MCPort
    Num <- MCNum
    Data <- MCData
    Addr = {a1, a2}
    NULL = NULL
    interval = 2
    INT = 1048576
    UINT = 64
    HT_SIZE = 1
    hash <- MCHash
    DIR_KEEPALIVE_INTERVAL = 1
    MaxDelay = 1
INVARIANTS NoGhosts StaysListed
PROPERTY GetsListed
CHECK_DEADLOCK FALSE
