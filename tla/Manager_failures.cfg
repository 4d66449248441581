SPECIFICATION Spec
CHECK_DEADLOCK FALSE
CONSTANTS
  Ids = {1, 2, 3}
  Hosts = {"h"}
  HostOf <- OneHost
  MaxConcurrent = 2
  KeepTerminal = 1
  MaxCalls = 1
  MaxStops = 1
  MaxCrashes = 0
  MaxFailures = 1
INVARIANTS
  TypeOK
  OneRunPerDownload
  AtMostMaxConcurrent
