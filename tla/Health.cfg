SPECIFICATION HealthFairSpec
CONSTANTS
  Http = {"n8n", "sqlite", "web"}
  Stdio = {"context7"}
PROPERTIES
  HealthTracks
  ReadinessTracks
  VerdictsOwn
