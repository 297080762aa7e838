SPECIFICATION LiveSpec
CONSTANTS
    Alerts = {a1, a2}
    MaxAttempts = 3
    RetryBase = 3
    MaxRetryDelay = 4
    BatchLimit = 1
    MaxSendTime = 1
    Overdue = 1
    MaxFaults = 1
INVARIANTS
    TypeOK
PROPERTIES
    BackoffKept
    StatusAdvances
    AlertsSettle
    ImplementsLifecycle
