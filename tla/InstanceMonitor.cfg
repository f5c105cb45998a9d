CONSTANTS
  c1 = c1
  c2 = c2
  Clients = {c1}
  Actions = {"restart"}
  MaxTasks = 2
  MaxFaults = 1
  Monitored = TRUE
  AutoRestart = TRUE
SPECIFICATION FairSpec
INVARIANTS
  RestartCap
PROPERTIES
  DriftNoticed
  CancelRestores
CHECK_DEADLOCK FALSE
