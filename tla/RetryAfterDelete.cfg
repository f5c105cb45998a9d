CONSTANTS
  c1 = c1
  c2 = c2
  Clients = {c1}
  Actions = {"stop", "delete"}
  MaxTasks = 4
  MaxFaults = 0
  Monitored = FALSE
  AutoRestart = TRUE
SPECIFICATION Spec
PROPERTIES
  DeletedFinal
CHECK_DEADLOCK FALSE
