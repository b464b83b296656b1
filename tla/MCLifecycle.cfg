SPECIFICATION LifecycleSpec
CONSTANTS
  MaxRequests = 1
  DrainTicks = 2
  StallTicks = 1
  MaxCalls = 2
  Instances = {1, 2}
  Tunnelled = {2}
  Ttl = 3
  Many = 1
  MaxStarts = 2
  MaxFails = 1
  MaxUrls = 1
CHECK_DEADLOCK FALSE
PROPERTIES
  ShutdownHolds
  RegistryHolds
