CONSTANTS
  Tasks = {root, t1, t2, t3}
  Root = root
  Holders = {}
  Spins = 3
  StealMax = 2
  Poller = Poller
  Thread = Thread
  Overseer = Overseer
  None = None
  Joined = 1
  MaxCarriers = 2
  Budgets <- Alone
SPECIFICATION Spec
INVARIANTS TypeOK OneStack QueuedOnce
SYMMETRY Alike
\* The program ends when the deadlock test stops it.
CHECK_DEADLOCK FALSE
