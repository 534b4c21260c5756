\* A cancelled task becomes done.
CONSTANTS
  Task = {t1, t2}
  User = {ann}
  Session = {}
  Nobody = Nobody
  NoTask = NoTask
  NoSession = NoSession
  MaxLoad = 3
  MaxFound = 2
SPECIFICATION Spec
CONSTRAINT Small
PROPERTIES
  NoCrossTerminalMove
CHECK_DEADLOCK FALSE
