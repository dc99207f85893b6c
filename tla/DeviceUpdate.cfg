\* The delivered release and two more, two losses of power. States after an exposure are
\* checked and not explored further.
SPECIFICATION Spec
CONSTANTS
  MaxRelease = 3
  MaxLosses = 2
  MinCore <- MCMinCore
  Excused = {"unrecorded", "halfConfirmed", "fallback", "unmarked"}
CHECK_DEADLOCK FALSE
CONSTRAINT Promised
INVARIANT ResetIsSafe
PROPERTIES NoOrphanedComponent Recovers
