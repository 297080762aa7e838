SPECIFICATION Spec
CONSTANTS
    Procs = {p1, p2}
    Operator = Operator
    Slots = {s1, s2}
    StaticToken = TRUE
    ByHand = TRUE
    MaxIds = 2
    MaxTokens = 3
    MaxFaults = 1
    MaxRotations = 1
    MaxRemovals = 1
SYMMETRY Symmetry
INVARIANTS
    TypeOK
    NoTakeover
    SignalOncePerApproval
PROPERTIES
    ImplementsRegistry
CHECK_DEADLOCK FALSE
