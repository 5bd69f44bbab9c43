SPECIFICATION FairSpec
CONSTANTS
  MaxRetries = 1
  Timeout = 1000
  MaxSends = 4
CHECK_DEADLOCK FALSE
INVARIANTS RepeatsJustified InitializeFirst SendBounded
PROPERTIES SendReturns RemoteRefined
