SPECIFICATION Spec
CONSTANTS
    e1 = e1
    e2 = e2
    h1 = h1
    h2 = h2
    NoEvent = NoEvent
    Events <- OneEvent
    Anonymous <- NoneOfThem
    Handlers <- TwoHandlers
    MaxAge = 1
    Skew = 1
    RetryWindow = 1
    CmdTimeout = 1
    DedupTTL = 5
    MaxClock = 6
    MaxEntries = 2
    MaxFaults = 1
SYMMETRY HandlersSymmetry
CHECK_DEADLOCK FALSE
INVARIANT AnsweredIsKept
