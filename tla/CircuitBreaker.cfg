SPECIFICATION HFairSpec
CONSTANTS
  FailureThreshold = 3
  RecoveryTimeout = 4
  MaxFailures = 7
  MaxTicks = 18
INVARIANTS
  OpenIffTripped
  OneProbeAtATime
  IsolationBound
PROPERTIES
  AutoReenabled
