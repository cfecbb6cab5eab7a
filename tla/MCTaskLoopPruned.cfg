SPECIFICATION TaskSpec
CONSTANTS
  NumTasks = 1
  Number <- InOrder
  f = f
  g = g
  File = {f}
  Marked = {1}
  Keep = 2
  HasScript = FALSE
  MaxWork = 5
  MaxCrashes = 0
  MaxRollbacks = 0
INVARIANTS
  CheckpointsRestorable
CHECK_DEADLOCK FALSE
