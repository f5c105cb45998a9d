CONSTANTS
  h1 = h1
  h2 = h2
  pg = pg
  redis = redis
  mysql = mysql
  w1 = w1
  w2 = w2
  NoHost = NoHost
  Hosts = {h1, h2}
  Workers = {w1, w2}
  Resources <- MCResources
  HostOf <- MCHostOf
  Kinds <- MCKinds
  Supported <- MCSupported
  KindsOf <- MCKindsOf
  StagePlan <- MCStagePlan
  Skippable = {"backup.delete"}
  MaxTasks = 2
  MaxLegacy = 1
  MaxFailures = 1
SPECIFICATION FairSpec
PROPERTIES
  QueueServed
  RunningEnds
CHECK_DEADLOCK FALSE
