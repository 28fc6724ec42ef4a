SPECIFICATION Spec
CONSTANTS
  PacketSizes <- MCPacketSizes
  Screens <- MCScreens
  StrayNumbers <- MCStrayNumbers
  StrayDims <- MCStrayDims
  MaxCaptures = 2
  WireCap = 1
  MaxPosted = 1
INVARIANTS
  TypeOK
  OnlyStrayDimsCrash
PROPERTY
  WholeFrameAtSyn
CONSTRAINTS
  UntilCrash
  OthersSmall
CHECK_DEADLOCK FALSE
