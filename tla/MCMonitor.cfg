CONSTANTS
  None = None
  Tasks = {t1, t2}
  Threads = {h1, h2}
  MaxOps = 2
  MayRunOut = TRUE
SPECIFICATION FairSpec
INVARIANTS TypeOK MutualExclusion NoLostEntrant NoLostWaiter ReadyOnce
CHECK_DEADLOCK FALSE
SYMMETRY Alike
