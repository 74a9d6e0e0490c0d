CONSTANTS
  None = None
  Keys = {"a", "b"}
  Sprint <- MCSprint
  Stages <- MCStages
  Trees = {"a", "b"}
  TreeOf <- OwnTree
  Verdicts = {"clean"}
  MaxRuns = 2
  MaxFaults = 2
SPECIFICATION FairSpec
INVARIANTS  SettledAtEnd 
PROPERTY RunEnds
CHECK_DEADLOCK FALSE
