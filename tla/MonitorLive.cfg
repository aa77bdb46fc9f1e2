CONSTANTS
  None = None
  Tasks = {t1, t2}
  Threads = {h1}
  MaxOps = 2
  MayRunOut = FALSE
SPECIFICATION FairSpec
PROPERTIES ImplementsMonitor EveryoneGetsIn
CHECK_DEADLOCK FALSE
