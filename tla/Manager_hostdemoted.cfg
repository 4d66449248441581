SPECIFICATION Spec
CHECK_DEADLOCK FALSE
CONSTANTS
  Ids = {1, 2}
  Hosts = {"h"}
  HostOf <- OneHost
  MaxConcurrent = 2
  KeepTerminal = 1
  MaxCalls = 1
  MaxStops = 0
  MaxCrashes = 0
  MaxFailures = 0
PROPERTIES
  RetriedBeforeError
