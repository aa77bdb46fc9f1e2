CONSTANTS
  Crew = {k1, k2, k3}
  Ops = {"a", "b"}
  Sizes = {1, 3}
  MaxRounds = 2
  Main = Main
SPECIFICATION FairSpec
INVARIANTS TypeOK BodiesInRound
PROPERTIES RoundComplete ForReturns CrewEnds
\* The crew ends with Stop.
CHECK_DEADLOCK FALSE
