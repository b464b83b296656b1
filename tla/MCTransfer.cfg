CONSTANTS
  Servers = {s1, s2}
  NoServer = none
  Calling = {q1, q2}
  FailureThreshold = 2
  MaxRetries = 1
  MaxOutages = 2
  MaxRemovals = 1
SPECIFICATION TransferSpec
CONSTANTS
  N = 2
  Chunks = 2
  Attempts = {1, 2}
  MaxContexts = 2
  MaxChunkRetries = 1
  MaxIncidents = 1
  t1 = t1
  t2 = t2
  Transfers = {t1, t2}
  Size <- SizeOf
  None = None
  MaxAttempts = 2
  MaxTroubles = 2
  Pipes = {1, 2}
  MaxUpsets = 3
INVARIANTS
  StreamSafe
  DirectSafe
  LiveSafe
  FailoverSafe
