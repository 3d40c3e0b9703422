SPECIFICATION Spec
CONSTANTS
    Window = 2
    MinSamples = 1
    FailNum = 1
    FailDen = 1
    OpenDuration = 1
    Token = {t1, t2}
    MaxInflight = 1
    InflightLease = 2
    Req = {r1, r2}
    MaxResent = 1
INVARIANTS
    ProbeHasOwner
PROPERTY ImplementsInflight
