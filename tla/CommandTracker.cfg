CONSTANTS
  Kinds = {tps, list}
  ReplyTimeout = 1
  MaxPending = 2
  MaxTyped = 2
  MaxPipe = 1
SPECIFICATION Spec
INVARIANTS
  TypeOK
  RepliesReachWhoAsked
PROPERTIES
  PollingContinues
