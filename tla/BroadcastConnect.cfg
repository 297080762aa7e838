SPECIFICATION FairSpec
CONSTANTS
    Clients = {c1}
    Clusters = 2
    MaxUpdates = 1
    BroadcastQueue = 1
    UnregisterQueue = 1
    ClientQueue = 1
PROPERTY ConnectCompletes
CHECK_DEADLOCK FALSE
