\* Three networks, one that joins and leads to no portal; two certificate pairs; one loss of
\* power, every exposure excused.
SPECIFICATION Spec
CONSTANTS
  Net <- MCNet
  Joins <- MCNet
  Reach <- MCReach
  MaxPair = 1
  MaxLosses = 1
  Excused = {"early", "chained", "unguarded", "stale"}
CONSTRAINT Promised
CHECK_DEADLOCK FALSE
INVARIANTS WithinReach PairMatches
PROPERTIES ResetIsComplete KeepsConfiguration ComesBack
