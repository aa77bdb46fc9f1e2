CONSTANTS
  Tasks = {root, t1}
  Root = root
  Holders = {t1}
  Spins = 3
  StealMax = 2
  Poller = Poller
  Thread = Thread
  Overseer = Overseer
  None = None
  Joined = 2
  MaxCarriers = 2
  Budgets <- Both
SPECIFICATION FairSpec
PROPERTIES PinnedStays NoneStranded DeadlockFound
\* The program ends when the deadlock test stops it.
CHECK_DEADLOCK FALSE
