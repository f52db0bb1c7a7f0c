SPECIFICATION FairSpec
CONSTANTS
  None = None
  NotAString = NotAString
  a = a
  b = b
  k1 = k1
  k2 = k2
  Slugs = {a, b}
  Notifications = {n1}
  MaxDeliveries = 2
  Policies <- MCPolicies
  Notices <- MCNotices
INVARIANTS
  AckMeansHandled
  AnswerIsTruthful
  BodiesGuarded
  FiltersHold
  FamilyIsClosest
  RefusalsAreFinal
PROPERTY EveryDeliveryEnds
CHECK_DEADLOCK FALSE
