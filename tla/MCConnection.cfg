SPECIFICATION CFairSpec
CONSTANTS
    MSG_MAX = 7
    JSMN_NTOK = 5
INVARIANTS CTypeOK StopsAtDelimiter
PROPERTY SilenceCloses
CHECK_DEADLOCK FALSE
