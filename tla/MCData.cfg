SPECIFICATION DataSpec
CONSTANTS
  Runners = {r1, r2}
  Rows = {a}
  MaxFaults = 1
  MaxSlow = 1
  Types = {x}
  Procs = {p1, p2}
  MaxWrites = 2
  MaxMisses = 1
  Tasks = {1, 2}
  Presses = {b1, b2}
  MaxScans = 1
  MaxErrors = 1
  Transfers = {j1, j2}
  MaxBinds = 2
  MaxLogins = 3
  MaxLosses = 1
  Batches = {u1, u2}
  MaxAttempts = 3
  MaxMishaps = 1
CHECK_DEADLOCK FALSE
INVARIANTS
  SchemaSafe
  DrivesSafe
  GroupSafe
  UploadSafe
PROPERTIES
  SessionHolds
