\* Two requests at a time of four, two configurations with a network that can be joined or not;
\* a configuration of before a loss of power counts as the first of them.
CONSTANTS
  Conn = {1, 2}
  Net = {"home", "wrong"}
  InReach = {"home"}
  MaxConfigures = 2
  MaxRequests = 4
  MaxFaults = 1
  Excused = {"stale", "orphaned", "superseded", "halfway", "loose", "unfinished", "waiting", "cut off"}
SPECIFICATION Spec
INVARIANTS  Reachable
PROPERTY Ends
CONSTRAINT Promised
CHECK_DEADLOCK FALSE
