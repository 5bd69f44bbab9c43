SPECIFICATION Spec
CONSTANTS
  Clients = {"alice"}
  Tools = {"search", "fetch"}
  PerTool <- MCPerTool
  DefaultRpm = 1
  Second = 2
  WindowSecs = 2
  MaxReloads = 2
INVARIANTS
  BurstBound
  WindowBudget
  RetryAfterHonoured
