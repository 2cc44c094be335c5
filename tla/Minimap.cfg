CONSTANTS
  MaxPid = 2
  MaxEvents = 4
  MaxRequest = 3
  MaxActions = 1
SPECIFICATION Spec
CHECK_DEADLOCK FALSE
INVARIANTS
  BridgeFollowsSwitch
  EndedSessionsLeaveNothing
  ActionsHappenOnce
PROPERTIES
  OnlyOwnRequestIsRevoked
