\* Work that the user moves to the background before interrupting the Session.
CONSTANTS
  None = None
  Job = {shell, child}
  Subagent = {child}
  MaxAttempts = 1
  ChildrenBusy = FALSE
  MaxInterrupts = 1
  MaxCrashes = 0
SPECIFICATION FairSpec
CHECK_DEADLOCK FALSE
PROPERTIES
  BackgroundedIsNotified
