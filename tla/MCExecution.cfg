SPECIFICATION MCSpec
CONSTANTS
    Origins = {o1, o2}
    ReplyOrigins = {o2}
    NoRef = NoRef
    Unbounded = {o1}
    MayBlock = TRUE
    MaxAttempt = 0
    MaxCrashes = 1
    Threads = {"p", "c"}
    Wants <- MCWants
    Anyone = "any"
    Root = "root"
    Messages = {"m"}
    Timed = {"m"}
    RecoveryDelay = 1
    Deadline = 2
    MaxObjectFaults = 1
INVARIANTS
    ObjectsSound
    NoLeakedJob
    CleanupOwned
    NoLostWakeup
    HonestRecovery
CHECK_DEADLOCK FALSE
