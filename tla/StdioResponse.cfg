SPECIFICATION Spec
CONSTANTS
  QueueCap = 2
  PipeCap = 1
  MaxSends = 4
  MaxId = 2
  MaxAsks = 1
INVARIANTS
  ResponseFlowsBack
CHECK_DEADLOCK FALSE
