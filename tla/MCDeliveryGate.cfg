CONSTANTS
  None = None
  Keys = {"a", "b"}
  Sprint <- MCSprint
  Stages <- MCStages
  Trees = {"a", "b", "repo"}
  TreeOf <- OwnTree
  Verdicts = {"clean", "gate-failed"}
  MaxRuns = 2
  MaxFaults = 1
SPECIFICATION Spec
INVARIANT NoPrAfterFailedGate
CHECK_DEADLOCK FALSE
