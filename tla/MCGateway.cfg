SPECIFICATION Spec
CONSTANTS
  Tools <- MCTools
  Backends <- MCBackends
  Route <- MCRoute
  Registered <- MCRegistered
  Schemas = {"search", "fetch", "drop"}
  Role = "dev"
  Roles <- MCRoles
  HotConfigs <- MCReloads
  InitialHot <- MCTight
  FailureThreshold <- MCThreshold
  RecoveryTimeout <- MCRecovery
  Window = 1
  InboundCap = 1
  OutboundCap = 1
  AuditCap = 1
  Script <- MCScript
  MaxReloads = 1
INVARIANTS
  CallsGoverned
  ProbesRecorded
  IdsBalanced
  LimiterCurrent
  AuditFaithful
PROPERTIES
  SessionRefined
  CircuitsRefined
