SPECIFICATION Spec
CONSTANTS
    Slots = {s1, s2}
    Monitor = Monitor
    HubFaults = TRUE
    StaleAfter = 3
    Cooldown = 2
    MaxDelay = 1
    Regimes <- Both
SYMMETRY Symmetry
INVARIANTS
    TypeOK
    SilentIsUnreachable
    SteadyIsHealthy
    AlertsSpaced
