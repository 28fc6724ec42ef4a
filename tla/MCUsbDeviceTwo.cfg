SPECIFICATION Spec
CONSTANTS
  Registered = 2
  Paths <- MCPaths
  StrangerPaths = {}
  Uninitialised <- MCFresh
  MaxLinks = 2
  MaxThreads = 2
  MaxEvents = 2
PROPERTY
  ArrivalsByPort
CHECK_DEADLOCK FALSE
