SPECIFICATION Spec
CONSTANTS
  MaxSessions = 2
  MaxLog = 3
PROPERTY
  KillsReadThread
CHECK_DEADLOCK FALSE
