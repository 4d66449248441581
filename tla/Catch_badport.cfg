SPECIFICATION Spec
CHECK_DEADLOCK FALSE
CONSTANTS
  Ids = {1}
  Hosts = {"h"}
  HostOf <- OneHost
  MaxConcurrent = 1
  KeepTerminal = 1
  MaxCalls = 1
  MaxStops = 2
  MaxCrashes = 0
  MaxFailures = 0
  Links = {1, 2}
  PendingMax = 2
  Faults = {"badport"}
INVARIANTS
  LoopSurvives
