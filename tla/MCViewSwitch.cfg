SPECIFICATION TouchSpec
CONSTANTS
  MaxChoices = 5
  MaxActs = 5
  Positions <- SomePositions
INVARIANTS
  SharedAsShown
  TouchTypeOK
  DragsFollowFinger
PROPERTIES
  PickedIsShared
  ClicksAreTaps
CHECK_DEADLOCK FALSE
