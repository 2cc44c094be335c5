CONSTANTS
  ServerCount = 2
  AutoUpdated = {1, 2}
  Scheduled = {2}
  CountdownFrom = 2
  MaxBuilds = 2
  MaxEvents = 2
SPECIFICATION Spec
CHECK_DEADLOCK FALSE
INVARIANTS
  ChannelIsRespected
  UpToDateIsTrue

  
