SPECIFICATION RSpec
CONSTANTS
    Addr = {a1, a2, a3, a4, a5}
    Router = {r1, r2}
    Walker = {w1, w2}
    NULL = NULL
SYMMETRY Symmetry
INVARIANTS RTypeOK Rings NoEntryLost WalksSeeOneList
