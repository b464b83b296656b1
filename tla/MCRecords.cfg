CONSTANTS
  n1 = n1
  n2 = n2
  c1 = c1
  c2 = c2
  Nodes = {n1, n2}
  Calls = {c1, c2}
  NoNode = NoNode
  FailureLimit = 1
  MaxWrites = 2
  MaxTroubles = 1
  BatchIds = {b1, b2, b3}
  Urgent = {b3}
  Items = {1, 2}
  Workers = {p1, p2}
  MaxActive = 1
  Peers = {n1, n2}
  NoPeer = NoPeer
  Writers = {v1, v2}
  MaxVersions = 3
  MaxSets = 2
  Instances = {i1, i2}
  Jobs = {j1, j2}
  None = None
  MaxBeats = 1
  MaxLapses = 1
SPECIFICATION RecordsSpec
SYMMETRY Symmetry
CHECK_DEADLOCK FALSE
INVARIANTS
  BatchSafe
PROPERTIES
  CacheHolds
  ViewsHold
  LockHolds
