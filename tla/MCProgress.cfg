SPECIFICATION MCFairSpec
CONSTANTS
    Origins = {o1}
    ReplyOrigins = {}
    NoRef = NoRef
    Unbounded = {}
    MayBlock = FALSE
    MaxAttempt = 1
    MaxCrashes = 2
    Threads = {"p"}
    Wants <- MCWants
    Anyone = "any"
    Root = "root"
    Messages = {"m"}
    Timed = {"m"}
    RecoveryDelay = 1
    Deadline = 2
    MaxObjectFaults = 1
PROPERTIES
    ObjectsSettle
    CancellationsEnd
    OperationsEnd
CHECK_DEADLOCK FALSE
