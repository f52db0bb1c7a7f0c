SPECIFICATION FairSpec
CONSTANTS
  None = None
  NotAString = NotAString
  a = a
  b = b
  k1 = k1
  k2 = k2
  Slugs = {a, b}
  Notifications = {n1}
  MaxDeliveries = 1
  Policies <- MCPolicies
  Notices <- MCNotices
INVARIANT CarriesEventIsEventLevel
CHECK_DEADLOCK FALSE
