\* Two levels and a task that is created meanwhile: closes, reopenings, roll-ups, the reconciler.
CONSTANTS
  Task = {1, 2, 3, 4}
  User = {ann}
  Proc = {p, q}
  Parent <- Tower
  Feature = {1, 2}
  Present = {1, 2, 3}
  Ops = {"set", "create", "visit"}
  Moves = {"todo", "done", "wont_do"}
  MaxLoad = 4
  Nobody = Nobody
  NoTask = NoTask
SPECIFICATION Spec
CONSTRAINT Small
SYMMETRY Clients
PROPERTIES
  SiblingsNeverMissParent
  NoChildSlipsUnderRollUp
CHECK_DEADLOCK FALSE
