SPECIFICATION Spec
CONSTANTS
    s1 = s1
    s2 = s2
    s3 = s3
    r1 = r1
    r2 = r2
    Streams <- TwoStreams
    Readers <- OneReader
    MaxPerStream = 3
    MaxStreams = 2
    MaxEvents = 5
CHECK_DEADLOCK FALSE
INVARIANT ReplayNeverFails
