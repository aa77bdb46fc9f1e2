CONSTANTS
  Configs <- All
  MaxConns = 3
  Main = Main
SPECIFICATION FairSpec
INVARIANTS TypeOK OneHolder CountedOut LastAnswers
PROPERTIES Served StopEnds
\* Run returns.
CHECK_DEADLOCK FALSE
