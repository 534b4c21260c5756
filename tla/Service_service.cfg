CONSTANTS
  ann = ann
  eve = eve
  User = {ann, eve}
  Admin = {ann}
  Project = {home}
  Member <- MCMember
  Web = Web
  NoProject = NoProject
  Home = home
  HomeOwner = {}
  Task = {t1, t2, t3}
  t1 = t1
  t2 = t2
  t3 = t3
  Session = {s1, s2}
  s1 = s1
  s2 = s2
  Nobody = Nobody
  NoTask = NoTask
  NoSession = NoSession
  Step = {u1, u2, u3}
  NoStep = NoStep
  Proc = {c1, c2}
  MaxStepsPerTask = 3
  Question = {q1, q2}
  Text = {yes, no}
  NoText = NoText
  Owner <- MCOwner
  Path = {p1}
  Node = {n1, n2}
  Kind = {k1}
  DefaultKinds = {k1}
  HomeTask = {t1}
  NoNode = NoNode
  NoLock = NoLock
  IdleThreshold = 1
  Focus = {"steps", "starts", "answers", "bells", "board", "cycles", "graph"}
  MaxLoad = 3
  MaxCycles = 2
  MaxWrites = 2
SPECIFICATION MCSpec
INVARIANTS
  ServiceTypeOK
  StepsInOrder
  OpenQuestionsRing
  TaskReadersAgree
PROPERTIES
  StartsOnlyInDoing
  ImplementsMailbox
  OpenWorkMovesOn
  ImplementsBoard
  AbandonedSessionEnds
CHECK_DEADLOCK FALSE
