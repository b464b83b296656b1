CONSTANTS
  Instances = {i1, i2}
  Execs = {x1, x2}
  Nobody = Nobody
  MaxMessages = 2
  MaxLeases = 3
  Incidents = {"crash", "lease", "lock", "queue", "error", "race", "user"}
  MaxIncidents = 2
SPECIFICATION OneFirstLeader
CHECK_DEADLOCK FALSE
INVARIANTS
  ProcessingSafe
PROPERTIES
  EndedStaysEnded
  TaskEnds
