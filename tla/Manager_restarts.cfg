SPECIFICATION Spec
CHECK_DEADLOCK FALSE
CONSTANTS
  Ids = {1, 2, 3}
  Hosts = {"g", "h"}
  HostOf <- TwoHosts
  MaxConcurrent = 1
  KeepTerminal = 1
  MaxCalls = 1
  MaxStops = 2
  MaxCrashes = 1
  MaxFailures = 0
INVARIANTS
  StopIsClean
PROPERTIES
  KeepsThePromise
  NotOvertaken
