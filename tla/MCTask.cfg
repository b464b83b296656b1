CONSTANTS
  c1 = c1
  c2 = c2
  k1 = k1
  k2 = k2
  Tasks = {t1}
  Calls = {c1, c2}
  Claims = {k1, k2}
  NoClaim = NoClaim
  Operations <- TakeoverOperations
  MaxSends = 2
  MaxClock = 0
  MaxStamp = 4
  Queues = {q1, q2}
  Callers = {a1, a2}
  Keys = {m1}
  None = None
  UseRedis = TRUE
  RawClient = TRUE
  LocalLimit = 1
  MaxDlq = 1
  MaxFaults = 2
SPECIFICATION TaskSpec
SYMMETRY Symmetry
VIEW TaskView
CHECK_DEADLOCK FALSE
INVARIANTS
  StoreSafe
  QueueSafe
PROPERTIES
  AnswersWereTrue
  ImplementsLifecycle
  QueueSteps
