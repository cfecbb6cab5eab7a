SPECIFICATION AllSpec
CONSTANTS
  p1 = p1
  p2 = p2
  command = command
  server = server
  h1 = h1
  h2 = h2
  Process = {p1, p2}
  Cli = {}
  Creator = p1
  Owner = {h1, h2}
  Nobody = nobody
  OwnerOf <- OwnerIds
  Task = {1, 2, 3}
  MaxUp = 1
  TTL = 2
  MaxToken = 3
  OthersStale = TRUE
  Punctual = TRUE
  PromptFinalize = TRUE
INVARIANTS
  PartsTypeOK
  OneWriter
PROPERTIES
  LeaseSpec
  FencedForever
  NotAbandoned
  OneOrNeither
CHECK_DEADLOCK FALSE
