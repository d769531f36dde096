SPECIFICATION FFairSpec
CONSTANTS
    r1 = r1
    r2 = r2
    c1 = c1
    i1 = i1
    i2 = i2
    NoIP = NoIP
    Router = {r1, r2}
    Client = {c1}
    Id = {m1}
    Slot = {s1}
    IP = {i1, i2}
    V4 = {}
    ip <- MCip
    MAX_HOPS = 3
    MaxCasts = 1
    MaxDups = 0
    MaxChanges = 2
    StartHops <- MCStartHops
PROPERTIES Quiescence HandlersFinish
CHECK_DEADLOCK FALSE
