CONSTANTS
  Procs = {p1, p2, p3}
  Vals = {v1, v2}
  Zero = v1
  MaxCap = 2
  None = None
SPECIFICATION FairSpec
INVARIANTS TypeOK NoLostWake
PROPERTIES CapKept ImplementsQueue WaitersEnd
\* Every process may wait for another: the runtime then ends the program.
CHECK_DEADLOCK FALSE
