SPECIFICATION FairSpec
CONSTANTS
    Targets = {t1}
    Results = {"settled", "alive", "pending", "failed", "terminal"}
    MaxAttempts = 2
    MaxNoProgress = 2
    AttemptTimeout = 2
    KeepAlive = 1
    RetryInterval = 1
    MaxRetryInterval = 2
    DeliveryRetry = 1
    MaxDelay = 2
    MaxGeneration = 2
    MaxCursor = 1
    MaxFaults = 1
INVARIANTS
    BoundedRecoveries
    InvalidationFenced
PROPERTIES
    NoForgottenAdmission
    BlockedByOwnBudget
    SupervisionEnds
CHECK_DEADLOCK FALSE
