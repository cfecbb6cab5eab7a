SPECIFICATION AllSpec
CONSTANTS
  q1 = q1
  q2 = q2
  q3 = q3
  k1 = k1
  k2 = k2
  t1 = t1
  t2 = t2
  t3 = t3
  d1 = d1
  d2 = d2
  None = None
  Call = {q1, q2, q3}
  Threshold = 2
  Cooldown = 1
  MaxFactor = 2
  MaxRetries = 1
  Limit = 2
  Turn = {t1, t2, t3}
  KeyOf <- KeyOfTurns
  Daemon = {d1, d2}
  MaxSession = 3
  QueueMax = 1
  Step = {"build", "review"}
  RoleOf <- OwnRole
  ReadOnly = {"review"}
  Compacts = {"build"}
  Corrects = {"build"}
  MaxRecoveries = 2
  MaxCalls = 3
  MaxOutages = 1
  MaxCancels = 1
  ProbeCancels = FALSE
INVARIANTS
  PartsTypeOK
  TurnsAreApart
  StepsAreSound
  ProbeIsUnderWay
PROPERTIES
  WaitersGetThrough
  TurnsEnd
CHECK_DEADLOCK FALSE
