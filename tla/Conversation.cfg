SPECIFICATION FairSpec
CONSTANTS
    Req = {r1, r2, r3}
    ClientConv = {x}
    NoConv = NoConv
    NoReq = NoReq
    LockTTL = 2
    Deadline = 0
    MaxHold = 1
INVARIANTS
    OneCreator
    ResetForgets
PROPERTIES
    ImplementsStore
    OnlyOwnerUnlocks
    WaitersProceed
