SPECIFICATION Spec
CONSTANTS
    Slots = {s1}
    Monitor = Monitor
    HubFaults = FALSE
    StaleAfter = 3
    Cooldown = 30
    MaxDelay = 0
    Regimes <- Healthy
INVARIANT SilentIsAlerted
CONSTRAINT OneTaskAtATime
