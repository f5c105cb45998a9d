CONSTANTS
  h1 = h1
  i1 = i1
  i2 = i2
  c1 = c1
  c2 = c2
  a1 = a1
  a2 = a2
  r1 = r1
  r2 = r2
  a3 = a3
  k1 = k1
  k2 = k2
  Hosts = {h1}
  Instances = {i1, i2}
  Clients = {c1, c2}
  Addresses = {a1}
  KeyOf <- MCKeyOf
  Roots = {r1, r2}
  Pools <- MCPools
  Sizes = {1}
  Capacities = {2}
  MaxRevivals = 0
  Monitored = FALSE
SYMMETRY PlacementSymmetry
SPECIFICATION Spec
INVARIANTS
  DirectoryUnderRoot
CHECK_DEADLOCK FALSE
