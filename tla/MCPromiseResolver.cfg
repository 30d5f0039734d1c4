SPECIFICATION FairSpec
CONSTANTS
    Refs = {r1}
    Handles <- OneHandle
    Handle <- SharedHandle
    Modes <- OneMode
    Values = {v1, v2}
    Ids = {n1}
    Timeout = 1
    PollInterval = 1
    RetryInterval = 1
    Retention = 1
    MaxClock = 1
    MaxFaults = 1
INVARIANTS
    OneAnswer
    DeadlineDecides
    AlarmCovers
    CancelHolds
PROPERTIES
    Resolved
CHECK_DEADLOCK FALSE
