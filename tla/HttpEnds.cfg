CONSTANTS
  Configs <- Threads
  MaxConns = 1
  Main = Main
SPECIFICATION Spec
INVARIANT EndedByAnyPath
CHECK_DEADLOCK FALSE
