CONSTANTS
  i1 = i1
  i2 = i2
  j1 = j1
  j2 = j2
  m1 = m1
  m2 = m2
  d1 = d1
  d2 = d2
  Instances = {i1, i2}
  Jobs = {j1, j2}
  None = None
  Messages = {m1, m2}
  Deliveries = {d1, d2}
  Carries <- Carried
  Home <- Homes
  MaxBatch = 2
  CasAttempts = 1
  MaxErrors = 2
  MaxEvents = 1
  MaxIncidents = 1
SPECIFICATION Spec
SYMMETRY MCSymmetry
CHECK_DEADLOCK FALSE
INVARIANTS
  GroupsKept
