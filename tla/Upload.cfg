\* The owner, one other client and the release download; two chunks an artifact.
\* It rests when the owner is served and the others have had their tries.
SPECIFICATION Spec
CONSTANTS
  Tab = {"owner", "other"}
  Owner = "owner"
  Id = {"f", "a"}
  MaxRelease = 3
  Wanted = 2
  IdOf <- MCIdOf
  Size = 2
  MaxTries = 2
  MaxFaults = 1
  Excused = {"missing", "planLost", "booted", "replaced", "overTrial"}
CHECK_DEADLOCK FALSE
CONSTRAINT Promised
INVARIANT StoreIsSound
PROPERTY OwnerServed
