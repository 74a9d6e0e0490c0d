CONSTANTS
  Sentinel = Sentinel
  None = None
  Lanes <- MCLanes
  Tuples <- MCTuples
  LaneOf <- MCLaneOf
  Pool <- MCPool
  FollowUps <- MCFollowUps
  Seeds <- MCSeeds
  MaxSize = 1
  MaxFaults = 1
SPECIFICATION FairSpec
INVARIANTS TypeOK NoEarlyClose InSprintOrder
PROPERTIES ImplementsLifecycle Terminates
CHECK_DEADLOCK FALSE
