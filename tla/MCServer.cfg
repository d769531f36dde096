SPECIFICATION MCFairSpec
CONSTANTS
    Handler = {h1, h2, h3, h4}
    max_threads = 2
INVARIANTS STypeOK Accounting ThreadLimit
PROPERTY SlotsReturn
CHECK_DEADLOCK FALSE
