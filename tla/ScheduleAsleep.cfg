CONSTANTS
  Process = {p1}
  None = None
  MaxFailures = 2
  Slots = 1
  MaxTrouble = 1
SPECIFICATION FairSpec
CHECK_DEADLOCK FALSE
PROPERTIES
  PromptIsDelivered
