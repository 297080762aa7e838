SPECIFICATION FairSpec
CONSTANTS
    Channels = {c1, c2}
    Streams = {s1, s2}
    c1 = c1
    s1 = s1
    None = None
    Lines = 2
    SendQueue = 2
    StreamQueue = 1
    UpQueue = 1
    Instances <- MCInstances
INVARIANTS
    TypeOK
    QueuesClosedOnce
    LatestIsActive
PROPERTIES
    StreamsEnd
    ServeReturns
    WorkersStop
    ImplementsPipe
CHECK_DEADLOCK FALSE
