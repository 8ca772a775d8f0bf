\* A shell and a child Session, one interrupted call, three processes that die: enough
\* for a recovery that dies too, and for a death after the child was given up.  Nothing
\* is left to do when everything is reported.
CONSTANTS
  None = None
  Job = {shell, child}
  Subagent = {child}
  MaxAttempts = 1
  ChildrenBusy = TRUE
  MaxInterrupts = 1
  MaxCrashes = 3
SPECIFICATION FairSpec
CHECK_DEADLOCK FALSE
INVARIANTS
  TypeOK
  ReportSurvives
  ReportedOnce
  NoticeIsTrue
PROPERTIES
  NotifiedInTheEnd
