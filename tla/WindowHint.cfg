CONSTANTS
  Servers = {a, b}
  NoServer = none
  MaxLaunches = 2
SPECIFICATION Spec
INVARIANTS
  HintMeansProcess
