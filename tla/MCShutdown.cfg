SPECIFICATION FairShutdown
CONSTANTS
  Tools <- MCTools
  Backends <- MCBackends
  Route <- MCRoute
  Registered <- MCRegistered
  Schemas = {"search", "fetch", "drop"}
  Role = "dev"
  Roles <- MCRoles
  HotConfigs <- MCRestored
  InitialHot <- MCFetchKilled
  FailureThreshold <- MCThreshold
  RecoveryTimeout <- MCRecovery
  Window = 1
  InboundCap = 1
  OutboundCap = 1
  AuditCap = 2
  Script <- MCShortScript
  MaxReloads = 1
INVARIANTS
  AuditDrained
PROPERTIES
  LinesServed
  ReloadInstalled
  MainReturns
  ExitsOnEof
CHECK_DEADLOCK FALSE
