SPECIFICATION TableSpec
CONSTANTS
    x1 = x1
    x2 = x2
    x3 = x3
    Host = {x1, x2, x3}
    RawPort <- MCRawPort
    Num <- MCNum
    Data <- MCData
    Addr = {a1, a2, a3}
    NULL = NULL
    interval = 2
    INT = 1048576
    UINT = 64
    MaxSkew = 3
    HT_SIZE = 2
    hash <- MCHash
SYMMETRY TableSymmetry
INVARIANTS HTypeOK Indexed ChainsFind Represents WalkSafe HeadPositive ResponseSound
PROPERTIES NoEarlyExpiry ContractSpec ResponseComplete
CHECK_DEADLOCK FALSE
