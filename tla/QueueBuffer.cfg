SPECIFICATION FairSpec
CONSTANTS
  c1 = c1
  c2 = c2
  c3 = c3
  Callers = {c1, c2, c3}
  Direct = {c3}
  batchSize = 2
  maxBufferSize = 2
  MaxFaults = 1
CHECK_DEADLOCK FALSE
PROPERTIES
  BufferedPublishSettles
