SPECIFICATION ClientFairSpec
CONSTANTS
    MaxAttempts = 3
    MaxBase = 3
    MaxCap = 5
    RetryAfters = {0, 4}
    MaxDeltas = 2
INVARIANTS
    BackoffExponential
PROPERTIES
    RetriesSafe
    CallEnds
    StopInterrupts
CHECK_DEADLOCK FALSE
