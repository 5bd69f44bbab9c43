SPECIFICATION FairSpec
CONSTANTS
  MaxRestarts = 3
  MaxSpawns = 5
INVARIANTS
  AllSignalled
  OneLife
  HandleCurrent
  NoOrphans
  AttemptsBounded
PROPERTIES
  ShutdownCompletes
CHECK_DEADLOCK FALSE
