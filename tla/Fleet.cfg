\* Two commands, two policies, two releases of each type.
SPECIFICATION Spec
CONSTANTS
  Command = {"a", "b", "c", "d"}
  Does <- MCDoes
  Policies <- MCPolicies
  CompletedLimit = 2
  MaxRelease = 2
  Needs <- MCNeeds
  AutoDownload = TRUE
  AutoActivate = TRUE
  MaxEvents = 1
  Excused = {"torn", "forgotten"}
CONSTRAINT Promised
INVARIANT ApplicationHasItsCore
PROPERTIES AsAsked Completes
