SPECIFICATION StepSpec
CONSTANTS
  Step = {"build", "review"}
  RoleOf <- OwnRole
  ReadOnly = {"review"}
  Compacts = {"build"}
  Corrects = {"build"}
  MaxRecoveries = 2
  MaxCalls = 3
INVARIANT CompactHasContext
CHECK_DEADLOCK FALSE
