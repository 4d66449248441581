SPECIFICATION FairSpec
CHECK_DEADLOCK FALSE
CONSTANTS
  Ids = {1, 2}
  Hosts = {"h"}
  HostOf <- OneHost
  MaxConcurrent = 1
  KeepTerminal = 1
  MaxCalls = 3
  MaxStops = 1
  MaxCrashes = 1
  MaxFailures = 0
PROPERTIES
  Settles
  StopEnds
