CONSTANTS
  Servers = {a, b}
  MaxAttempts = 2
  MaxJobs = 3
  MaxLaunches = 0
  MaxCrashes = 1
SPECIFICATION Spec
INVARIANTS
  CacheIsComplete
PROPERTIES
  WaitersMoveOn
