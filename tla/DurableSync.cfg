SPECIFICATION FairSpec
CONSTANTS
  None = None
  U32Max = 3
  DurationMax = 12
  MaxObjects = 3
  PageSize = 1
  MaxTime = 3
  MaxChanges = 3
  MaxFaults = 1
INVARIANT
  NothingMissed
PROPERTY
  SyncCompletes
CHECK_DEADLOCK FALSE
