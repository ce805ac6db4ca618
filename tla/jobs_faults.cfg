SPECIFICATION Spec
CONSTANTS
    w1 = w1
    w2 = w2
    j1 = j1
    j2 = j2
    u1 = u1
    u2 = u2
    NoUser = NoUser
    NoWorker = NoWorker
    NoJob = NoJob
    NoResult = NoResult
    Workers <- TwoWorkers
    Jobs <- OneJob
    Users <- BothUsers
    Pollers <- BothUsers
    Authorized <- FirstUser
    ClaimCount = 1
    ReclaimIdle = 1
    OwnerTTL = 2
    ResultTTL = 2
    FreshRedis = TRUE
    MaxFaults <- CrashAndErrors
SYMMETRY WorkersOnly
INVARIANT TypeOK
INVARIANT OwnerOnly
INVARIANT CompletedHasFile
INVARIANT NoImmortalResult
INVARIANT OwnerOutlivesResult
PROPERTY NotFoundIsFinal
PROPERTY ImplementsService
