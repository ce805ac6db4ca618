SPECIFICATION FairSpec
CONSTANTS
    u1 = u1
    Users <- OneUser
    Limit = 2
    Window = 2
    Second = 3
    MaxOutages = 1
INVARIANT WindowBound
INVARIANT BurstBound
INVARIANT RetryAfterSuffices
PROPERTY WindowsEnd
