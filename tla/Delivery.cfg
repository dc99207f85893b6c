\* One module whose states are sent in three ways, queues of one state and two
\* critical messages, one fault, and two restarts of Home Assistant.  It rests
\* when the readings, faults and restarts are used up.
SPECIFICATION Spec
CONSTANTS
  Devices <- MCDevices
  Refresher = {"ha_discovery_status"}
  None = "none"
  Configure = "configure"
  CriticalLimit = 2
  StateLimit = 1
  Mode <- MCMode
  MaxValue = 2
  MaxFaults = 1
  MaxBirths = 2
CHECK_DEADLOCK FALSE
INVARIANT OnlineMeansSubscribed
PROPERTIES Fresh Settles
