SPECIFICATION FairSpec
CONSTANTS
  MaxSessions = 3
  MaxLog = 3
INVARIANTS
  TypeOK
  SpeaksProtocol
  NoSessionLost
PROPERTY
  ReadersComeToRest
CHECK_DEADLOCK FALSE
