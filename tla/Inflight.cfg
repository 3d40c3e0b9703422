SPECIFICATION FairSpec
CONSTANTS
    Req = {r1, r2, r3}
    Token = {t1, t2, t3}
    MaxInflight = 2
    InflightLease = 3
    MaxResent = 1
INVARIANTS
    Covered
    NoOvercommit
PROPERTIES
    CapacityReturns
