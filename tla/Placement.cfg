CONSTANTS
  h1 = h1
  i1 = i1
  i2 = i2
  c1 = c1
  c2 = c2
  a1 = a1
  a2 = a2
  r1 = r1
  r2 = r2
  a3 = a3
  k1 = k1
  k2 = k2
  Hosts = {h1}
  Instances = {i1, i2}
  Clients = {c1, c2}
  Addresses = {a1, a2, a3}
  KeyOf <- MCKeyOf
  Roots = {r1}
  Pools <- MCPools
  Sizes = {1, 2}
  Capacities = {1, 3}
  MaxRevivals = 1
  Monitored = TRUE
SYMMETRY PlacementSymmetry
SPECIFICATION Spec
INVARIANTS
  TypeOK
  PortExclusive
  PortInPool
  HostKept
  ProbeHasHost
  KeyMatchesAddress
PROPERTIES
  AdmittedFits
  SettingsHeld
CHECK_DEADLOCK FALSE
