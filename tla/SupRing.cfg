CONSTANTS
  Started = 1
  Watched = 1
  MaxChildren = 1
  Ring = 2
  Policies <- ThreeOnly
  Default <- ThreeRestarts
  MaxTime = 4
  Watcher = Watcher
SPECIFICATION FairSpec
PROPERTY GivesUpRightly
CHECK_DEADLOCK FALSE
