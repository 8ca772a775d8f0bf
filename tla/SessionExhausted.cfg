\* A request starts the Session while the sweep terminalizes it.
CONSTANTS
  None = None
  Execution = {e1, e2}
  Caller = {c1}
  Serving = TRUE
  MaxAttempts = 1
  MaxRestarts = 2
SPECIFICATION Spec
INVARIANT
  RunningTurnKeepsClaim
