SPECIFICATION LegacySpec
CONSTANTS
  Threads = {"P", "C"}
  CallTree <- MCCalls
  Kids <- MCKids
  Outside = "out"
  Deadline = 1
  CancelTimeout = 1
  Capacity = 1
  MaxClock = 2
  MaxGraphFaults = 1
  MaxTurn = 2
  Fallback <- MCFallback
  GiveUpAfter = 2
  Allowed = 0
  Backoffs = 0
  ToolNames = {"a"}
  Concurrency = 2
  ToolLimit <- MCToolLimit
  Batches <- MCBatches
  MaxResponses = 1
  MaxResumes = 1
  MaxFaults = 1
INVARIANTS
  NothingOwed
  ProjectionExact
  AttemptsSound
  NoTurnStranded
PROPERTY
  CancellationSound
CHECK_DEADLOCK FALSE
