\* A restart at any point, twice, with requests served during the sweep and a budget
\* of one resumption, which runs out.
CONSTANTS
  Execution = {e1, e2}
  None = None
  Caller = {c1}
  Serving = TRUE
  MaxAttempts = 1
  MaxRestarts = 2
SPECIFICATION FairSpec
INVARIANTS
  TypeOK
  UnfinishedTurnKeepsClaim
  FinishedTurnIsReleased
  RecoveryIsBounded
PROPERTIES
  OrphanRecovered
