SPECIFICATION MCSpec
CONSTANTS
    Line <- MCLine
    Option <- MCOption
    INT = 32
    PORT = 8
    MaxInput = 4
INVARIANTS ErrorIsFirst LastOneCounts Usable
CHECK_DEADLOCK FALSE
