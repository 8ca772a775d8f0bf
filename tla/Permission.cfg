\* Two calls of one Session, two replies at a time that cross each other and close;
\* one publication fails, or the rules are edited once.
CONSTANTS
  q1 = q1
  q2 = q2
  s1 = s1
  read = read
  edit = edit
  p1 = p1
  p2 = p2
  None = None
  Request = {q1, q2}
  Session = {s1}
  Action = {read, edit}
  Replier = {p1, p2}
  Words = {"correct", "always"}
  SessionOf <- MCSessionOf
  Actions <- MCActions
  Savable = {q1}
  Edits <- MCEdits
  MaxTrouble = 1
SPECIFICATION FairSpec
CHECK_DEADLOCK FALSE
INVARIANTS
  TypeOK
  NobodyStranded
  GrantIsBacked
  AnswersAreAnnounced
PROPERTIES
  RefusalEndsWaits
