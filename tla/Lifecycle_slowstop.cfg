SPECIFICATION Spec
CHECK_DEADLOCK FALSE
CONSTANTS
  Clients = {c1}
  Pids = {1, 2, 3}
  Ids = {d1, d2}
  MaxCommands = 3
  Faults = {"slowstop"}
INVARIANTS
  AcceptedKept
