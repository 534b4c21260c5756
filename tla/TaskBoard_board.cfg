\* Three tasks in any forest, with edges, questions, a conversation and the reconciler.
CONSTANTS
  Task = {t1, t2, t3}
  User = {ann}
  Session = {s1}
  Nobody = Nobody
  NoTask = NoTask
  NoSession = NoSession
  MaxLoad = 3
  MaxFound = 1
SPECIFICATION Spec
CONSTRAINT Small
SYMMETRY Ids
INVARIANTS
  TypeOK
  SessionHeldByOwner
  ClosedAsksNothing
  ClocksMatchState
  DepsAcyclic
PROPERTIES
  VisitsFinishNothingOpen
  RollUpNeverOverOpenWork
  CloseNeverStrandsParent
CHECK_DEADLOCK FALSE
