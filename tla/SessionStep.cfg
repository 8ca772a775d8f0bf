CONSTANTS
  Call = {c1, c2}
  None = None
  MaxAttempts = 2
  MaxStops = 2
SPECIFICATION FairSpec
CHECK_DEADLOCK FALSE
INVARIANTS
  TypeOK
  SettledOnce
  EveryCallSettledFirst
  AgainIsClean
PROPERTIES
  CallsGetResults
