CONSTANTS
  Clients = {"c1", "c2"}
  MaxStarts = 1
  MaxCancels = 0
SPECIFICATION ServerSpec
PROPERTY EveryStreamCloses
CHECK_DEADLOCK FALSE
