SPECIFICATION MCDaemonSpec
CONSTANTS
    Data = {d1, d2}
    Addr = {a1, a2, a3}
    NULL = NULL
    interval = 2
    UINT = 64
    MaxSkew = 3
PROPERTY ForeachVisitsAll
CHECK_DEADLOCK FALSE
