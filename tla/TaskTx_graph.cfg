\* Two clients draw edges between four tasks and close them.
CONSTANTS
  Task = {1, 2, 3, 4}
  User = {ann}
  Proc = {p, q}
  Parent <- Flat
  Feature = {}
  Present = {1, 2, 3, 4}
  Ops = {"set", "dep", "undep"}
  Moves = {"done"}
  MaxLoad = 3
  Nobody = Nobody
  NoTask = NoTask
SPECIFICATION Spec
CONSTRAINT Small
SYMMETRY Clients
INVARIANTS
  DepsAcyclic
  CloseSawEveryPrecondition
CHECK_DEADLOCK FALSE
