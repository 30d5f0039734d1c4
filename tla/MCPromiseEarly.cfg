SPECIFICATION FairSpec
CONSTANTS
    Refs = {r1, r2}
    Handles <- OneHandle
    Handle <- SharedHandle
    Modes <- PushedAndPolled
    Values = {v1, v2}
    Ids = {}
    Timeout = 1
    PollInterval = 1
    RetryInterval = 1
    Retention = 1
    MaxClock = 0
    MaxFaults = 0
PROPERTIES
    RetainsEarlyArrivals
CHECK_DEADLOCK FALSE
