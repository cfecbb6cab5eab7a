SPECIFICATION AllSpec
CONSTANTS
  None = None
  Contracts = {"required", "none"}
  MaxBuilds = 3
  MaxRequests = 2
  Plans <- Confirmed
  Markers <- Languages
  Failures = {{}, {"x"}, {"x", "y"}}
  Call = {"c1"}
  Alone = TRUE
  MaxEdits = 1
  MaxRetries = 1
  File = {"f1", "f2"}
  Base <- Original
  a1 = a1
  a2 = a2
  AgentWrites = {a1, a2}
  UserWrites = {"u1"}
  MaxReworks = 2
  MaxEvidence = 2
  MaxFaults = 1
INVARIANTS
  PartsTypeOK
  AppliedIsReviewed
  AcceptedIsMeasured
  FinalIsOfFindings
PROPERTIES
  EditsSurvive
  DoneIsEarned
SYMMETRY Writes
CHECK_DEADLOCK FALSE
