SPECIFICATION FSpec
CONSTANTS
    r1 = r1
    r2 = r2
    c1 = c1
    i1 = i1
    i2 = i2
    NoIP = NoIP
    Router = {r1, r2}
    Client = {c1}
    Id = {m1}
    Slot = {s1, s2}
    IP = {i1, i2}
    V4 = {i1}
    ip <- MCip
    MAX_HOPS = 3
    MaxCasts = 1
    MaxDups = 1
    MaxChanges = 2
    StartHops <- MCStartHops
SYMMETRY Symmetry
INVARIANTS FTypeOK HopLimit FloodOnce
CHECK_DEADLOCK FALSE
