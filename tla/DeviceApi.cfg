\* Two clients, a history of two events, a queue of three messages; eight lists of modules,
\* stored twice: by the editor, by calibrating or by one of two imports; two publishes and a
\* subscribe, a ring of one message, two breaks, silences or delays.
SPECIFICATION DeviceSpec
CONSTANTS
  MaxEvents = 2
  Changes = 2
  PageLimit = 1
  QueueLimit = 3
  Client = {c1, c2}
  Reader = c1
  MaxClients = 1
  MaxSteps = 4
  ApiExcused = {"reused", "cleared", "unsaved", "overwritten"}
  Plan <- MCPlan
  Calibrated = "voltage"
  Expiry = 0
  Period = 3
  MaxSaves = 2
  Worker = "worker"
  Subscriber = "subscriber"
  Qos = 1
  MaxRepubs = 1
  RingSize = 2
  MaxMessages = 2
  MaxSubscribes = 1
  MaxIncoming = 2
  MaxTroubles = 2
CONSTRAINT FewGaps
INVARIANTS HistoryKept RunsAsConfigured NobodyWaitsForever
PROPERTIES AccessHolds AppliesWhatIsAsked LinkIsTrue
CHECK_DEADLOCK FALSE
