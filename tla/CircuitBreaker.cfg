SPECIFICATION FairSpec
CONSTANTS
    Call = {c1, c2, c3}
    Window = 3
    MinSamples = 2
    FailNum = 1
    FailDen = 2
    OpenDuration = 2
INVARIANTS
    ClosedIsHealthy
    ProbeOwned
    SingleProbeUndisturbed
PROPERTY NeverWedged
