SPECIFICATION Spec
CONSTANTS
  MaxRestarts = 5
  MaxSpawns = 5
INVARIANTS
  AutoRestart
CHECK_DEADLOCK FALSE
