CONSTANTS
  pg = pg
  a = a
  b = b
  c = c
  h1 = h1
  t1 = t1
  t2 = t2
  Resources = {pg}
  Initial <- MCInitial
  Unreadable = {}
  MaxTasks = 2
  MaxRequests = 2
  MaxTime = 1
  Skew = 1
  Tolerance = 1
  ListLimit = 2
  Gateway = FALSE
  Databases = {"db1", "db2"}
  Versions = {"v1", "v2"}
  Machines = {h1}
  TaskIds = {t1, t2}
  Lifecycle = {"start", "stop"}
  DatabaseStatuses = {"running", "failed"}
  Newest <- MCNewest
  RowTasks <- MCRowTasks
  Probes <- MCProbes
  Attention <- MCAttention
  Origin <- MCOrigin
  Reported <- MCReported
  Connections = {a, b, c}
  KeyOf <- MCKeyOf
  Stored = a
  Fitting = {a, b}
  Runs <- MCRuns
  Sizes = {1, 2}
  Preset <- MCPreset
  MaxLoads = 2
  MaxDeletes = 1
  MaxSaves = 1
  MaxProven = 2
  MaxWork = 2
  MaxCopies = 6
  MaxFollowed = 3
SPECIFICATION BrowserSpec
INVARIANTS
  PagesTypeOK
  SuccessorRecognised
  SavedVerified
  HandoffCurrent
  NeverStuckChecking
  ActioningReleased
PROPERTY
  ReviewedSinceFailure
CHECK_DEADLOCK FALSE
