\* A device whose owner stores lists of modules, one of them without its entities.
SPECIFICATION ModSpec
CONSTANTS
  Plan <- MCPlan
  Calibrated = "voltage"
  Expiry = 0
  Period = 3
  MaxSaves = 2
INVARIANT SavedStarts
