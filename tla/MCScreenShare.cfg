SPECIFICATION FairSpec
CONSTANTS
  MaxPairs = 2
INVARIANTS
  TypeOK
  LocksOwned
  WaitsEnd
  SharingHasThreads
  SlotInBounds
PROPERTIES
  KeepsPromise
  StartReturns
  KillEndsThreads
