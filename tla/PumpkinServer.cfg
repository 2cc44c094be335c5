CONSTANTS
  MaxSessions = 2
  MaxLines = 1
  ClearsOutputOnExit = FALSE
SPECIFICATION FairSpec
INVARIANTS
  AtMostOneProcess
  StopBookkeeping
  NormalStopsDoNotRecover
  SessionsKeptApart
PROPERTIES
  TimeoutIsOfThisStop
  ImplementsLifecycle
  StopResolves
  CrashRecovers
