\* Three items, two concurrent requests, three admissions, one interruption or
\* restart.  It stops when the admissions are used up and everybody is done.
CONSTANTS
  Item = {i1, i2, i3}
  Requester = {r1, r2}
  None = None
  MaxSeq = 3
  MaxStops = 1
SPECIFICATION FairSpec
CHECK_DEADLOCK FALSE
INVARIANTS
  TypeOK
  DeliveredOnce
  OneCompaction
  AdmittedIsKept
  RunnerNeverDies
PROPERTIES
  SteersRespectControls
  QueueInOrder
  SteersLeave
