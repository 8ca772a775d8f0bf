CONSTANTS
  Process = {p1, p2}
  None = None
  MaxFailures = 2
  Slots = 2
  MaxTrouble = 2
SPECIFICATION FairSpec
CHECK_DEADLOCK FALSE
INVARIANTS
  TypeOK
  OneFiringPerSlot
  NewMessageEachTime
PROPERTIES
  DueIsServed
