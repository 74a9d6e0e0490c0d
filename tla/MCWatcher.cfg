CONSTANTS
  NoRecord = NoRecord
  Items = {1, 2}
  Versioned = {1}
  Statuses = {1, 2, 3}
  Eligible = {1, 3}
  New = 3
  Levels = {"observe", "plan", "pr"}
  MaxTasks = 1
  MaxEdits = 1
  MaxForced = 1
  MaxFaults = 1
SPECIFICATION FairWatcherSpec
INVARIANT HandledOnce
PROPERTY NoStarvation
CHECK_DEADLOCK FALSE
