SPECIFICATION Spec
CONSTANTS
    Req = {r1, r2, r3}
    ClientConv = {}
    NoConv = NoConv
    NoReq = NoReq
    LockTTL = 2
    Deadline = 0
    MaxHold = 1
INVARIANT NoFork
