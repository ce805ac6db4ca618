SPECIFICATION Spec
CONSTANTS
    w1 = w1
    w2 = w2
    j1 = j1
    j2 = j2
    u1 = u1
    u2 = u2
    NoUser = NoUser
    NoWorker = NoWorker
    NoJob = NoJob
    NoResult = NoResult
    Workers <- OneWorker
    Jobs <- OneJob
    Users <- FirstUser
    Pollers <- Nobody
    Authorized <- FirstUser
    ClaimCount = 1
    ReclaimIdle = 1
    OwnerTTL = 2
    ResultTTL = 2
    FreshRedis = FALSE
    MaxFaults <- OneStop
INVARIANT NoLostJob
