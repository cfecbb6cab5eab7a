SPECIFICATION AllSpec
CONSTANTS
  c1 = c1
  c2 = c2
  a1 = a1
  a2 = a2
  a3 = a3
  s1 = s1
  s2 = s2
  x1 = x1
  k1 = k1
  k2 = k2
  Controller = {c1, c2}
  Nobody = nobody
  NumFiles = 3
  Old <- OldFiles
  New <- NewFiles
  TTL = 2
  MaxToken = 2
  MaxCrashes = 2
  MaxEdits = 1
  OneAtATime = TRUE
  Punctual = TRUE
  LastInRollback = TRUE
  Process = {p1, p2, p3}
  Cli = {}
  Run = {r1, r2, r3}
  Unattended = {r1, r2}
  None = None
  MaxUp = 1
  CarefulResume = TRUE
  PromptBegin = TRUE
  Server = {s1, s2}
  Command = {x1}
  Agent = {a1, a2, a3}
  KeyOf <- KeyOfAgents
  Pid = {1, 2}
  NoAgent = NoAgent
  Forker = {a1}
  Script = {a1}
  CancelInGrace = FALSE
INVARIANTS
  PartsTypeOK
  JournalIsTrue
  OneWriterHoldsLock
  NoHarm
  NoProcessIsLeft
PROPERTIES
  AllOrNothing
  Settles
CHECK_DEADLOCK FALSE
