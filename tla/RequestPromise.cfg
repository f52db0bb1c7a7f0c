SPECIFICATION MCSpec
CONSTANTS
  None = None
  U32Max = 3
  DurationMax = 12
  c1 = c1
  c2 = c2
  o1 = o1
  Calls = {c1, c2}
  Operations = {o1, o2}
  Requests <- MCRequests
  Retry <- MCRetry
  SuccessStatuses = {200}
  RejectStatuses = {400}
  FailureStatuses = {504}
  RetryAfters = {1}
  MaxIssues <- MCMaxIssues
PROPERTY KeepsPromise
CHECK_DEADLOCK FALSE
