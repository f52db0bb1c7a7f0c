SPECIFICATION MCSpec
CONSTANTS
  None = None
  U32Max = 3
  DurationMax = 12
  Retry <- MCRetry
  Endpoints <- MCEndpoints
  Options <- MCOptions
  Jobs <- MCJobs
  AttemptTime = 2
  Slack = 1
  GatewayStatuses = {429, 503}
  RetryAfters = {0, 3}
INVARIANTS
  TypeOK
  GivesUpInTime
  TimeoutMeansLate
  TruthfulResult
  AcceptedAtMostOnce
PROPERTIES
  PollsSpaced
  EveryWaitReturns
CHECK_DEADLOCK FALSE
