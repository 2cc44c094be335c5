CONSTANTS
  Texts = {"", "map"}
  Keys = {k1}
  SavedKey = k1
  NoKey = none
  MaxPage = 1
  MaxRequests = 2
  Plugin = {pa, pb}
  OtherName = {}
  NoPlugin = none
  MaxEvents = 4
SPECIFICATION Spec
CHECK_DEADLOCK FALSE
INVARIANTS
  LockNamesFiles
  
PROPERTIES
  
  LoadingEnds
