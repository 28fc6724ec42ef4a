SPECIFICATION Spec
CONSTANTS
  PacketSizes <- MCPacketSize
  Screens <- MCScreens
  StrayNumbers <- MCStrayNumber
  StrayDims <- MCStrayDim
  MaxCaptures = 2
  WireCap = 1
  MaxPosted = 1
PROPERTY
  FullScreenGrab
CONSTRAINT UntilCrash
CHECK_DEADLOCK FALSE
