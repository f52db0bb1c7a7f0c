SPECIFICATION Spec
CONSTANTS
  None = None
  U32Max = 3
  DurationMax = 12
  Policies <- MCPolicies
  Kinds <- MCKinds
  Outcomes <- MCOutcomes
INVARIANT SameRuleAsIsRetryable
CHECK_DEADLOCK FALSE
