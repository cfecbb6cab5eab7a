SPECIFICATION AllSpec
CONSTANTS
  f = f
  g = g
  NumTasks = 2
  Number <- InOrder
  File = {f, g}
  Marked = {1, 3}
  Keep = 8
  HasScript = TRUE
  MaxWork = 3
  MaxCrashes = 1
  MaxRollbacks = 1
  NumSteps = 2
  RetryTarget <- AnyEarlier
  MaxRetries = 1
  MaxCheckpoints = 100
  TaskSteps = {1}
  MaxRestarts = 1
  MaxRequests = 1
  MaxNumber = 10
  SamePid = FALSE
  RetryInOrder = TRUE
INVARIANTS
  EarlierTasksKept
  CheckpointsRestorable
  PartsTypeOK
  DoneIsExecutedWithoutTasks
PROPERTIES
  OnlyWhatIsOwed
  StepsEnd
CHECK_DEADLOCK FALSE
