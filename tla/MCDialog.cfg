SPECIFICATION DispatchSpec
CONSTANTS
  Handlers = {h1, h2}
  MaxStarts = 2
  MaxUpdates = 6
  Nodes = {n1, n2}
  Messages = {a, b}
  Copies = 2
  Clients = {n1, n2}
  NoClient = NoClient
  Capacity = 1
  MaxMishaps = 1
  Readers = {r1, r2}
  CopyTtl = 2
  MaxChanges = 2
  Instances = {i1, i2}
  Hosts = {i1, i2}
  NoHost = NoHost
  Tries = {1, 2, 3}
  MaxMoves = 2
  MaxLosses = 1
  Execs = {1, 2}
  Chunks = 2
  MaxRedirects = 1
  i1 = i1
  i2 = i2
  w1 = w1
  w2 = w2
  w3 = w3
  Workers = {w1, w2, w3}
  Home <- Homes
  Nobody = Nobody
  Ttl = 2
  MinStaleAge = 1
  MaxClock = 2
  MaxLeases = 2
CHECK_DEADLOCK FALSE
INVARIANTS
  DialogSafe
  InboxSafe
  GuardSafe
  RouteSafe
  LinkSafe
  LeaseSafe
PROPERTIES
  LeaseSteps
