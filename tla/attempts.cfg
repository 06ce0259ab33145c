SPECIFICATION Spec
CONSTANTS
  MaxIter = 2
  MaxTurns = 3
  Budget = 4
  Floor = 2
  Grace = 1
  KeepTurns = 1
  Windows <- AnyWindow
  Flows <- ToolSets
  MaxCost = 2
  MaxCalls = 2
  MaxVersion = 1
  MaxJobs = 2
  MaxFaults = 1
  MaxCrashes = 1
  None = None
  Mixed = Mixed
INVARIANTS ElidedWasShown BuildIsFresh BudgetBound ScratchIsOwn EnvMatchesRepo
CHECK_DEADLOCK FALSE
