SPECIFICATION FilterSpec
CONSTANTS
    Letter = {"a", "b"}
    Terminator = {"."}
    Blank = {" "}
    Banned <- MCBanned
    MaxSegment = 2
    Overlap = 2
    MaxDelta = 3
    MaxInput = 7
INVARIANTS
    Conserved
    NothingBannedSent
    BufferBounded
CHECK_DEADLOCK FALSE
