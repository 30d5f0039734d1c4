SPECIFICATION Spec
CONSTANTS
    a = a
    b = b
    c = c
    client = client
    Threads = {a, b, c}
    Scenarios <- Both
    Results = {"done", "other"}
    AttemptsBounded = TRUE
    MaxFaults = 1
INVARIANTS
    AdmittedOnce
    ReplyFaithful
PROPERTIES
    AdmittedIsAcknowledged
CHECK_DEADLOCK FALSE
