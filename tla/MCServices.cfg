SPECIFICATION AllSpec
CONSTANTS
  Run = {r1, r2}
  ProjectOf <- ProjectOfRuns
  StepList <- Lists
  File = {"a/b", "a|b"}
  IdOf <- Ids
  EventKind = {"passed"}
  Keep = 2
  MaxPasses = 4
  OneLock = TRUE
  Nobody = Nobody
  r1 = r1
  r2 = r2
  project = project
  None = None
  Process = {p1, p2, p3}
  MaxUpdates = 2
  Crasher = {p1, p2}
  Slow = FALSE
  NoProcess = NoProcess
  Controller = {k1, k2}
  Latest = 4
  MaxOpenFaults = 2
  Call = {"c1", "c2"}
  Req = {"q1", "q2", "q3"}
  Long = {"q2"}
  HistoryLimit = 3
  RecoveryLimit = 2
  Reuse = TRUE
  Recovery = {"backoff", "handoff"}
  Careful = TRUE
  MaxAsked = 3
  MaxSessions = 4
  MaxFaults = 2
  FlowSteps = 2
  Message <- Messages
  Configured <- RetryTargets
  EscalateTo <- Planner
  EscalateEvery = 2
  Reviews = {2}
  GenerateTests = 0
  RunTest = 0
  Classified = {}
  StreakLimit = 5
  Rotates = {1}
  Budget <- SmallBudget
  RepeatLimit = 2
  NoChangeLimit = 2
  HistoryCap = 4
  BestProject = 1
  MaxFailures = 9
  MaxManual = 1
  Starter = {"server", "cli"}
  Answering = "server"
  System = "gen"
  Workflows = {"gen", "scan"}
  Catalog = {"gen", "scan"}
  Contracts = {"build.yaml", "spec.yaml"}
  Texts = {"build.md", "spec.md"}
  SpecContract = "spec.yaml"
  SpecText = "spec.md"
  Namesake <- NamesOf
  Shipped <- Repository
  Contents <- Edited
  MaxEdits = 2
  MaxStops = 2
  Nothing = Nothing
INVARIANTS
  PartsTypeOK
  TablesAgree
  SchemaIsSafe
  FileIsSafe
  AnsweredOnce
  AgentKnowsTheChat
  BudgetsHold
PROPERTIES
  StartedIsServed
  ServedInTheEnd
CHECK_DEADLOCK FALSE
