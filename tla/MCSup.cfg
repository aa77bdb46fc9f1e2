CONSTANTS
  Started = 3
  Watched = 2
  MaxChildren = 2
  Ring = 1
  Policies <- BothPolicies
  Default <- OneRestart
  MaxTime = 3
  Watcher = Watcher
SPECIFICATION FairSpec
INVARIANTS TypeOK RestartLimit
PROPERTIES ReturnsWhenDone GivesUpRightly ReportsHeard ChildrenStop
\* The program ends: Watch returns or gives up, or a crash halts it.
CHECK_DEADLOCK FALSE
