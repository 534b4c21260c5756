\* Two users after a feature and its child: claims, closes, roll-ups, edges and
\* questions, and the board as their commits write it.
CONSTANTS
  Task = {1, 2}
  User = {ann, bob}
  Proc = {p, q}
  Parent <- Siblings
  Feature = {1}
  Present = {1, 2}
  Ops = {"set", "visit", "claim", "next", "ask", "dep", "undep"}
  Moves = {"todo", "done", "wont_do"}
  MaxLoad = 2
  Nobody = Nobody
  NoTask = NoTask
SPECIFICATION TrackedSpec
CONSTRAINT Small
SYMMETRY Clients
INVARIANTS
  ClosedAsksNothing
PROPERTIES
  ClaimsNeverSteal
  CommitsAreBoardSteps
CHECK_DEADLOCK FALSE
