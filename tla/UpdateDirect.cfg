CONSTANTS
  Servers = {a}
  MaxAttempts = 1
  MaxJobs = 1
  MaxLaunches = 1
  MaxCrashes = 0
SPECIFICATION Spec
INVARIANTS
  DownloadIsKept
