SPECIFICATION FairSpec
CONSTANTS
    a = a
    b = b
    c = c
    client = client
    Threads = {a, b}
    Scenarios <- OneCall
    Results = {"done", "other"}
    AttemptsBounded = TRUE
    MaxFaults = 0
PROPERTIES
    ReplyProgress
CHECK_DEADLOCK FALSE
