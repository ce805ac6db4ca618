SPECIFICATION FairSpec
CONSTANTS
    p1 = p1
    r1 = r1
    r2 = r2
    s1 = s1
    NoSession = NoSession
    Idle = Idle
    Procs <- OneProc
    Slots <- TwoSlots
    Sessions <- OneSession
    Claims <- TwoTokens
    Called <- SomeNames
    MaxRaises = 2
INVARIANT TypeOK
INVARIANT PassedTheGuards
INVARIANT AnswersAreLogged
INVARIANT CallableIsListable
INVARIANT UseIsOpen
INVARIANT ClosedAtEnd
PROPERTY ShutdownEnds
PROPERTY RequestsEnd
