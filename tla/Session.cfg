CONSTANTS
  MaxSessions = 2
  MaxCalls = 2
SPECIFICATION Spec
INVARIANTS
  TypeOK
PROPERTIES
  GhostEnds
  GateOpens
CHECK_DEADLOCK FALSE
