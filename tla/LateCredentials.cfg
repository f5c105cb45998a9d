CONSTANTS
  Statuses <- MCStatuses
  Newest <- MCNewest
SPECIFICATION Spec
INVARIANT ClearedOffTab
CHECK_DEADLOCK FALSE
