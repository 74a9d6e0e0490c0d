CONSTANTS
  Processes = {"p", "q"}
  Workers <- MCWorkers
  Costs <- MCCosts
  Terms <- MCTerms
  MaxReceipts = 2
  MaxDeaths <- MCMaxDeaths
  None = None
  Torn = Torn
  Joined = Joined
  MaxEvents = 3
  Writers = 2
  Interval = 2
  Limits = {1, 3}
  MaxCompacts = 1
  MaxFaults = 1
  MaxCrashes = 1
  Runs = {"r1", "r2"}
  MaxConcurrency = 1
  QueueSize = 2
  MaxTasks = 4
  MaxStarts = 2
  Inputs <- MCInputs
  Schema <- MCSchema
  Limit <- MCLimit
  Spends <- MCSpends
  Retryable = {"TimeoutError"}
  Errors = {"TimeoutError", "ValueError"}
  RetryLimit = 1
  Ttl = 1
  MaxEntries = 2
  MaxClock = 4
  Nothing = Nothing
  Recorders = {"v", "w"}
  Events <- MCEvents
  Window = 2
  OssTitles = {"title"}
  Overlapping <- MCOverlapping
  MaxLog = 4
  Unreadable = Unreadable
  NoCopy = NoCopy
  DeliveryPlan <- MCDeliveryPlan
  Walks = 2
  Level = "plan"
  MaxRequests = 3
  MaxSteps = 1
  MaxPending = 1
  MaxAudit = 2
  Emits <- MCEmits
  MaxEmits = 2
  MaxFrames = 2
  MaxLines = 4
  MaxResumes = 1
  MaxTears = 1
SPECIFICATION Spec
INVARIANTS TypeOK  Receipted NothingLeftBehind ContractsHold  MemoryAddsUp   ToolsTell
PROPERTY NotRunAgain
CHECK_DEADLOCK FALSE
