SPECIFICATION Spec
CONSTANTS
  None = None
  U32Max = 3
  DurationMax = 12
  Policies <- MCPolicies
  Kinds <- MCKinds
  Outcomes <- MCOutcomes
INVARIANTS
  TypeOK
  RetriesOnlyRetryable
  GivesUpForAReason
  DelayIsHonoured
  WaitBounded
CHECK_DEADLOCK FALSE
