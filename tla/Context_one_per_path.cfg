CONSTANTS
  ann = ann
  eve = eve
  User = {ann, eve}
  Admin = {ann}
  Project = {home}
  Member <- MCMember
  Web = Web
  NoProject = NoProject
  Proc = {c1, c2}
  Home = home
  Path = {p1, p2}
  Node = {n1, n2}
  DocId = {d1, d2}
  Piece = {x}
  Global = Global
  NoDoc = NoDoc
  NoUrl = NoUrl
  UploadTTL = 0
  Kind = {k1}
  DefaultKinds = {k1}
  Task = {t1, t2}
  HomeTask = {t1}
  NoNode = NoNode
  NoLock = NoLock
  IdleThreshold = 1
  Focus = {"docs"}
  MaxVersions = 3
  MaxUrls = 1
  MaxClock = 1
  MaxWrites = 3
  MaxSessions = 2
SPECIFICATION MCSpec
CONSTRAINT Small
SYMMETRY Interchangeable
INVARIANTS
  OneDocPerPath
CHECK_DEADLOCK FALSE
