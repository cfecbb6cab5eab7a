SPECIFICATION EvidenceSpec
CONSTANTS
  Contracts = {"none"}
  MaxBuilds = 3
  MaxRequests = 3
PROPERTY NonBypassable
CHECK_DEADLOCK FALSE
