SPECIFICATION ServicesSpec
CONSTANTS
  Executions = {c1, c2, c3}
  FailureThreshold = 3
  SuccessThreshold = 2
  MaxSetbacks = 7
  Requests = {r1, r2, r3}
  Window = 2
  MinLimit = 1
  MaxLimit = 2
  StartLimit = 1
  Tasks = {t1, t2}
  First = 1
  Low = 1
  High = 2
  MaxRetries = 1
  ShortWaits = {1}
  LongWaits = {3, 4}
  MaxFloods = 2
  Ranks = {1, 2}
  Failures = 2
  MaxOutages = 2
  MaxSwitches = 1
  Queues = {u1}
  Callers = {d1, d2}
  Keys = {k1}
  None = None
  Values = {"a", "gone"}
  Absent = "gone"
  Services = {"cache", "logger", "coordinator", "d1"}
  Reloads = {"r1", "r2"}
  MaxEdits = 2
  MaxErrors = 1
  Hooks = {"h1", "h2", "h3", "h4"}
  MaxSignals = 2
CHECK_DEADLOCK FALSE
INVARIANTS
  BreakerSafe
PROPERTIES
  OpensOnFailures
  Recovers
  ProvidersHold
  CallsComeThrough
  ChangesHold
