SPECIFICATION FairSessionSpec
CONSTANTS
  MaxSessions = 2
  MaxLog = 1
  MaxWire = 2
INVARIANT
  SessionTypeOK
PROPERTIES
  ServesItsPeer
  AnsweredIsServed
  KeepsSessions
  HandshakeEnds
  DimsWaitOnlyInGridlock
CHECK_DEADLOCK FALSE
