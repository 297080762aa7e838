SPECIFICATION FairSpec
CONSTANTS
    Procs = {p1}
    Operator = Operator
    Slots = {s1}
    StaticToken = TRUE
    ByHand = FALSE
    MaxIds = 1
    MaxTokens = 4
    MaxFaults = 1
    MaxRotations = 1
    MaxRemovals = 0
PROPERTY ReportersOutliveRotation
CHECK_DEADLOCK FALSE
