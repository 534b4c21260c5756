\* A feature over cancelled children waits for ever.
CONSTANTS
  Task = {t1, t2}
  User = {ann}
  Session = {}
  Nobody = Nobody
  NoTask = NoTask
  NoSession = NoSession
  MaxLoad = 7
  MaxFound = 2
SPECIFICATION FairSpec
CONSTRAINT Small
PROPERTIES
  CancelledChildrenRollUp
CHECK_DEADLOCK FALSE
