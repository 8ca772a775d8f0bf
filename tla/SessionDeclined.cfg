\* The user declines a tool call.
CONSTANTS
  None = None
  Execution = {e1, e2}
  Caller = {c1}
  Serving = TRUE
  MaxAttempts = 3
  MaxRestarts = 0
SPECIFICATION Spec
INVARIANT
  DeliberateStopReleases
