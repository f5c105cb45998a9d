CONSTANTS
  c1 = c1
  c2 = c2
  Clients = {c1}
  Actions = {"delete"}
  MaxTasks = 2
  MaxFaults = 0
  Monitored = TRUE
  AutoRestart = TRUE
SPECIFICATION Spec
PROPERTIES
  RemovedClean
CHECK_DEADLOCK FALSE
