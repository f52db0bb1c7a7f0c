SPECIFICATION Spec
CONSTANTS
  Workflows = {"a", "b"}
INVARIANTS
  ResponsesReadable
  ReplayReadsTheSame
PROPERTIES
  EditsApplyAsIntended
CHECK_DEADLOCK FALSE
