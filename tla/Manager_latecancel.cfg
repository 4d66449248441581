SPECIFICATION Spec
CHECK_DEADLOCK FALSE
CONSTANTS
  Ids = {1, 2}
  Hosts = {"h"}
  HostOf <- OneHost
  MaxConcurrent = 1
  KeepTerminal = 1
  MaxCalls = 2
  MaxStops = 0
  MaxCrashes = 0
  MaxFailures = 0
PROPERTIES
  CancelHonoured
