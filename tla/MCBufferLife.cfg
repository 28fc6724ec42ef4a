SPECIFICATION BufferSpec
CONSTANTS
  MaxPairs = 2
INVARIANTS
  BufferTypeOK
  PreparedBeforeUse
  BuffersKept
  AtMostTwoUnfilled
CONSTRAINT UntilLastDisturbed
CHECK_DEADLOCK FALSE
