SPECIFICATION QuotaSpec
CONSTANTS
    Req = {r1, r2}
    Limit = 2
    RateWindow = 4
    MaxDelay = 1
    MaxSkew = 1
    TokenBudget = 1
    MaxTokens = 1
    MaxRetries = 1
    DayLength = 3
    MaxTime = 4
INVARIANTS
    QuotaTypeOK
    RateRespected
    OvershootBounded
PROPERTIES
    CountedAllDay
CHECK_DEADLOCK FALSE
