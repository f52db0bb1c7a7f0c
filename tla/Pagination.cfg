SPECIFICATION FairSpec
CONSTANTS
  None = None
  Start = Start
  u1 = u1
  u2 = u2
  u3 = u3
  Urls = {u1, u2, u3}
  Links <- MCLinks
  Resolve <- MCResolve
  FirstUrl = u1
  Results <- MCResults
INVARIANTS
  NoUrlFetchedTwice
  EndMeansComplete
  DeliveredInOrder
PROPERTIES
  StreamEnds
CHECK_DEADLOCK FALSE
