CONSTANTS
  Server = {s1, s2}
  First = s1
  NoServer = none
  Value = {v1, v2}
  Default = v1
  Invalid = bad
  Domain = {"off", "a", "b"}
  World = {w1, w2}
  Old = w1
  Name = n
  Fresh = {n2}
  Account = {p1}
  MaxEvents = 6
SPECIFICATION Spec
CHECK_DEADLOCK FALSE
INVARIANTS
  WorldsAreTouchedAtRest
  WorldsAreWhole
  
  
  

  
