SPECIFICATION Spec
CONSTANTS
    Targets = {t1}
    Results = {"settled"}
    MaxAttempts = 2
    MaxNoProgress = 2
    AttemptTimeout = 2
    KeepAlive = 1
    RetryInterval = 1
    MaxRetryInterval = 2
    DeliveryRetry = 1
    MaxDelay = 2
    MaxGeneration = 2
    MaxCursor = 0
    MaxFaults = 0
INVARIANTS
    PreservesLaterAdmissions
CHECK_DEADLOCK FALSE
