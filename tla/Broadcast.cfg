SPECIFICATION FairSpec
CONSTANTS
    Clients = {c1, c2}
    Clusters = 1
    MaxUpdates = 3
    BroadcastQueue = 2
    UnregisterQueue = 1
    ClientQueue = 1
INVARIANTS
    TypeOK
    RunNeverPanics
    NoUpdateSkipped
PROPERTIES
    UpdatesArrive
    LeaversRemoved
CHECK_DEADLOCK FALSE
