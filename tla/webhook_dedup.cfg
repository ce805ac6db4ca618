SPECIFICATION Spec
CONSTANTS
    e1 = e1
    e2 = e2
    h1 = h1
    h2 = h2
    NoEvent = NoEvent
    Events <- TwoEvents
    Anonymous <- SecondEvent
    Handlers <- TwoHandlers
    MaxAge = 1
    Skew = 1
    RetryWindow = 0
    CmdTimeout = 1
    DedupTTL = 4
    MaxClock = 5
    MaxEntries = 2
    MaxFaults = 1
SYMMETRY HandlersSymmetry
CHECK_DEADLOCK FALSE
INVARIANT TypeOK
INVARIANT AtMostOnce
INVARIANT KeptUnlessFailed
