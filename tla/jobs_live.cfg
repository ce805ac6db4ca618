SPECIFICATION FairSpec
CONSTANTS
    w1 = w1
    w2 = w2
    j1 = j1
    j2 = j2
    u1 = u1
    u2 = u2
    NoUser = NoUser
    NoWorker = NoWorker
    NoJob = NoJob
    NoResult = NoResult
    Workers <- TwoWorkers
    Jobs <- TwoJobs
    Users <- FirstUser
    Pollers <- Nobody
    Authorized <- Nobody
    ClaimCount = 2
    ReclaimIdle = 1
    OwnerTTL = 1
    ResultTTL = 1
    FreshRedis = FALSE
    MaxFaults <- CrashAndStop
PROPERTY QueueDrains
PROPERTY StopsEnd
INVARIANT LossIsBounded
