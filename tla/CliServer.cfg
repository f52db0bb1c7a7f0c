SPECIFICATION FairSpec
CONSTANTS
  None = None
  NotUnicode = NotUnicode
  Unreadable = Unreadable
  NotAString = NotAString
  a = a
  b = b
  k1 = k1
  k2 = k2
  Slugs = {a, b}
  Credentials = {k1, k2}
  Segments = {"webhook", "p", "q"}
  Texts <- MCTexts
  Notifications = {n1}
  MaxDeliveries = 2
  Policies = {}
  BodyLimit = 1
  Settings <- MCSettings
  Targets <- MCTargets
  Notices <- MCNotices
INVARIANTS
  WrittenListsHold
  WarnedIfOpen
  DeliveredIsHandled
PROPERTY ShutdownEnds
CHECK_DEADLOCK FALSE
