SPECIFICATION RecoverySpec
CONSTANTS
    Procs = {p1}
    Operator = Operator
    Slots = {s1, s2}
    StaticToken = TRUE
    ByHand = FALSE
    MaxIds = 5
    MaxTokens = 8
    MaxFaults = 2
    MaxRotations = 0
    MaxRemovals = 4
PROPERTY EnrollmentCompletes
CHECK_DEADLOCK FALSE
