\* One user name besides the administrator's, two sessions, two connections.
SPECIFICATION PortalSpec
CONSTANTS
  Name = {"a", "b"}
  First = "a"
  MaxUsers = 2
  MaxSessions = 2
  Timeout = 1
  Period = 4
  Connection = {c1, c2}
  MaxRequests = 4
  PortalExcused = {"kept", "late", "wrapped"}
CONSTRAINT PortalPromised
SYMMETRY MCSymmetry
INVARIANT AdminRemains
PROPERTY SessionsHold
