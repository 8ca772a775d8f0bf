\* One key, two callers, two execution objects (a busy period and its successor).
\* No symmetry: it is not sound for the liveness properties.
CONSTANTS
  Execution = {e1, e2}
  Caller = {c1, c2}
  None = None
SPECIFICATION FairSpec
INVARIANTS
  TypeOK
  Serialized
  NoBorrowedInterrupt
  NobodyForgotten
PROPERTIES
  ImplementsDoorbell
  WakeAnswered
  InterruptSettles
  JoinersReturn
