CONSTANTS
  c1 = c1
  c2 = c2
  Clients = {c1}
  Actions = {"stop"}
  MaxTasks = 3
  MaxFaults = 1
  Monitored = FALSE
  AutoRestart = TRUE
SPECIFICATION Spec
PROPERTIES
  CanceledLeavesStable
CHECK_DEADLOCK FALSE
