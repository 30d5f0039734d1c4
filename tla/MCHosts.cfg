SPECIFICATION HostsSpec
CONSTANTS
  Requests <- MCRequests
  Root <- MCRoot
  NoSeed = "none"
  RetryLimit = 1
  MaxRuntimes = 2
  MaxFaults = 2
  Clients = {"c1", "c2"}
  Watchdog = "w"
  MaxThreadRuntimes = 4
  MaxThreadFaults = 2
  Connections = {"p", "q"}
  Runs <- MCRuns
  MessageIds = {1}
  BatchSize = 1
  MaxWrites = 2
  MaxOpens = 2
  Users = 2
  Names = {"tool", "request_budget"}
  Limit = 1
  Policies = {"deny", "wait", "request"}
  Grant = 1
  Modes = {"deny"}
  Corrections = 1
  Window = 5
  Trigger = 4
  Retain = 2
  MaxCalls = 2
  MaxToolCalls = 2
  MaxTurns = 2
INVARIANTS
  DirectoryAgrees
  RuntimesSound
  TablesExact
  AgentSound
CHECK_DEADLOCK FALSE
