CONSTANTS
  Servers = {a, b}
  NoServer = none
  MaxLaunches = 3
SPECIFICATION Spec
PROPERTIES
  StoppedStaysStopped
