SPECIFICATION FairSpec
CONSTANTS
    Ids = {w1, w2}
    RetryDelay = 1
    MaxDelay = 2
    MaxGeneration = 3
    MaxFaults = 1
INVARIANTS
    NoLostWake
    AlarmCovers
PROPERTIES
    WakeDelivered
CHECK_DEADLOCK FALSE
