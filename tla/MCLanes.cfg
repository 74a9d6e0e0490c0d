CONSTANTS
  None = None
  Confs <- MCConfs
  WorkTrees <- MCWorkTrees
  MaxDepFindings = 1
  MaxRuns = 2
SPECIFICATION FairSpec
 
PROPERTIES  LaneEnds
CHECK_DEADLOCK FALSE
