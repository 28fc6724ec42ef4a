SPECIFICATION FairSpec
CONSTANTS
  Registered = 1
  Paths <- MCRootPaths
  StrangerPaths <- MCStrangerPaths
  Uninitialised <- MCUninitialised
  MaxLinks = 2
  MaxThreads = 2
  MaxEvents = 3
INVARIANTS
  TypeOK
  CallbackHasBuffer
  ShakenHere
  StatusFollowsPlug
PROPERTY
  DisconnectEndsReaders
CHECK_DEADLOCK FALSE
