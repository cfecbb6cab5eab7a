SPECIFICATION FairSpec
CONSTANTS
  a1 = a1
  a2 = a2
  a3 = a3
  Call = {a1, a2, a3}
  Threshold = 2
  Cooldown = 1
  MaxFactor = 2
  MaxRetries = 1
  Limit = 2
  MaxOutages = 1
  MaxCancels = 1
  ProbeCancels = TRUE
PROPERTY WaitersGetThrough
CHECK_DEADLOCK FALSE
