CONSTANTS
  t1 = t1
  t2 = t2
  t3 = t3
  f1 = f1
  f2 = f2
  in = in
  Tasks = {t1, t2, t3}
  Fds = {f1, f2}
  Ways = {in}
  None = None
  Asks <- Mixed
  FirstCap = 2
  IntMax = 2
  MaxTime = 3
SPECIFICATION FairSpec
INVARIANTS TypeOK HeapRight NeverNeither
PROPERTIES ImplementsPoller Woken
\* A wait whose timeout has overflowed is endless: the system may stop.
CHECK_DEADLOCK FALSE
