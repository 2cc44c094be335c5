CONSTANTS
  Servers = {a}
  MaxAttempts = 2
  MaxJobs = 2
  MaxLaunches = 3
  MaxCrashes = 1
SPECIFICATION Spec
INVARIANTS
  NoProcessUnderWorker
  MaintenanceFollowsJob
PROPERTIES
  OldIsRetained
  ManualStopWins
  MaintenanceEnds
