SPECIFICATION FairSpec
CHECK_DEADLOCK FALSE
CONSTANTS
  Clients = {c1}
  Pids = {1, 2, 3}
  Ids = {d1, d2}
  MaxCommands = 5
  Faults = {"kill"}
INVARIANTS
  OneOwner
  AcceptedKept
  StoppedIsStopped
  NoOrphan
PROPERTIES
  CommandsEnd
