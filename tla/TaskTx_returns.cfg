\* Every call that waits for a row or the graph: closes with a comment, roll-ups,
\* dependencies, claims and questions.
CONSTANTS
  Task = {1, 2}
  User = {ann}
  Proc = {p, q}
  Parent <- Siblings
  Feature = {1}
  Present = {1, 2}
  Ops = {"set", "close", "dep", "claim", "next", "ask"}
  Moves = {"todo", "done"}
  MaxLoad = 5
  Nobody = Nobody
  NoTask = NoTask
SPECIFICATION FairSpec
PROPERTIES
  EveryCallReturns
CHECK_DEADLOCK FALSE
