SPECIFICATION Spec
CONSTANTS
  MaxPairs = 1
PROPERTY
  CloseEndsSending
