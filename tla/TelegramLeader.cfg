SPECIFICATION LeaderSpec
CONSTANTS
  Clients = {1, 2, 3, 4}
  None = 0
  MaxRetries = 1
  MaxReconnect = 1
  Threshold = 1
  MaxStartup = 2
  MaxCalls = 2
  MaxReloads = 1
  MaxFaults = 2
CHECK_DEADLOCK FALSE
INVARIANTS
  LeaderSafe
PROPERTIES
  LeaderMoves
