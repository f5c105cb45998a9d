CONSTANTS
  c1 = c1
  c2 = c2
  Clients = {c1}
  Actions = {"start", "stop", "restart", "delete"}
  MaxTasks = 3
  MaxFaults = 1
  Monitored = FALSE
  AutoRestart = TRUE
SPECIFICATION Spec
INVARIANTS
  TypeOK
  OpStatusExplained
  CanceledUntouched
PROPERTIES
  RemovedClean
  AdmittedOnly
  ImplementsTable
CHECK_DEADLOCK FALSE
