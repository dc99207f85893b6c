\* The root application, two releases, two runs of a tool, every exposure excused.
SPECIFICATION AppSpec
CONSTANTS
  MaxRelease = 3
  Excused = {"torn", "overwritten", "mismatched", "unconfirmed slot", "commit undone"}
  MaxRuns = 2
  MaxCuts = 2
  UsbExcused = {"keyless", "leftover", "fell back", "early"}
CONSTRAINT BoundedExposure
PROPERTIES UpdateIsAtomic ActiveSlotUntouched OnlyWholeAndNewer UsbHolds
