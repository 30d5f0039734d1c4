SPECIFICATION MCSpec
CONSTANTS
    Origins = {o1, o2}
    ReplyOrigins = {o2}
    CheckpointEvery = 3
    MaxPosition = 8
    MaxAttempt = 1
    MaxDomainEvents = 1
    Every = 2
    MaxAtomLog = 5
    MaxLiveLog = 3
    MaxRestarts = 1
    EventKeys = {1, 2, 3}
    Limits = {1, 2}
    BatchSize = 2
    MaxRecords = 3
    Values = {1, 2}
    ViewKeys = {"k", "l"}
    MaxViews = 4
    MaxLength = 3
INVARIANTS
    ReplayEquivalent
    DecidedOnce
    LookupAgrees
    InputsExact
    ReadsExact
    ViewsFixed
PROPERTIES
    LifecycleOfLog
CHECK_DEADLOCK FALSE
