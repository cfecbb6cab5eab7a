SPECIFICATION Spec
CONSTANTS
  NumSteps = 3
  RetryTarget <- AnyEarlier
  MaxRetries = 1
  MaxCheckpoints = 100
  TaskSteps = {1}
  MaxRestarts = 0
  MaxRequests = 0
  MaxNumber = 24
  SamePid = TRUE
  RetryInOrder = TRUE
INVARIANT DoneIsExecuted
CHECK_DEADLOCK FALSE
