SPECIFICATION FairSpec
CONSTANTS
  QueueCap = 2
  PipeCap = 1
  MaxSends = 6
  MaxId = 4
  MaxAsks = 1
INVARIANTS
  OwnAnswer
  PendingClean
  PromptFailure
PROPERTIES
  SendReturns
CHECK_DEADLOCK FALSE
