SPECIFICATION FramesSpec
CONSTANTS
    Go = {g1, g2}
    None = None
    Radix = 2
    PrefixSize = 2
    MaxFrameSize = 2
    WriteLimit = 3
    MaxFrames = 2
INVARIANTS
    FramesIntact
    VerdictExact
CHECK_DEADLOCK FALSE
