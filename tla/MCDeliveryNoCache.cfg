CONSTANTS
  None = None
  Keys = {"a", "b"}
  Sprint <- MCSprint
  Stages <- MCStages
  Trees = {"a", "b", "repo"}
  TreeOf <- OwnTree
  Verdicts = {"clean"}
  MaxRuns = 2
  MaxFaults = 1
SPECIFICATION Spec
INVARIANT NoCacheForcesExecution
CHECK_DEADLOCK FALSE
