SPECIFICATION FairSpec
CONSTANTS
    c1 = c1
    c2 = c2
    Calls <- TwoCalls
    Anonymous <- OneAnonymous
    MaxRetries = 3
    MaxFaults = 1
    MaxLong = 4
    MaxShort = 2
INVARIANT TypeOK
INVARIANT PostedOnce
INVARIANT MeteredOnce
PROPERTY CallsEnd
INVARIANT SearchAsksItsFilters
