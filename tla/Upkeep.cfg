\* Five boots and two failed writes, with and without a backup memory; two days around each
\* of eleven dates, in six zones; and three changes of the certificate method, three
\* certificates that come of age and two restarts.
CONSTANTS
  MaxBoots = 5
  MaxFaults = 2
  BootExcused = {"lost", "stale"}
  Starts <- MCStarts
  Settings <- MCSettings
  Years <- MCYears
  Horizon = 104
  MaxTurns = 2
  ApiEnabled = TRUE
  MaxChanges = 3
  MaxAges = 3
  MaxCrashes = 2
  Excused = {"between", "overtaken", "unwatched", "unscheduled", "postponed"}
SPECIFICATION UpkeepSpec
INVARIANTS Remembers KeepsChoice
PROPERTIES ClockHolds IdentityLasts
CONSTRAINT InPromise
CHECK_DEADLOCK FALSE
