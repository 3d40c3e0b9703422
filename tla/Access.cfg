SPECIFICATION ConnFairSpec
CONSTANTS
    ReqID = {i1, i2}
    Player = {p1}
    Go = {g1, g2}
    None = None
    OutCap = 1
    MaxFrames = 1
INVARIANTS
    RegistryExact
    NoGoroutineLeak
PROPERTIES
    ConnectionReclaimed
    StopEnds
CHECK_DEADLOCK FALSE
