CONSTANTS
  Threshold = 5
  Approvals = 2
  AutoPublish = 85
  HumanApproval = 70
  ChangedFiles <- MCFiles
  DomainChecks <- MCDomainChecks
  Asking <- MCAsking
  Scores <- MCScores
  Touches <- MCTouches
  MaxDefects = 3
  Human = {TRUE, FALSE}
  MaxRetries = 2
  Faults = {"lint", "coverage", "security"}
  NoReport = NoReport
  Boards <- MCBoards
  Visitors <- MCVisitors
  Filters <- MCFilters
  Workspaces <- MCWorkspaces
  SlugOf <- MCSlug
  PageSize = 2
  MaxMoves = 1
  MaxTears = 1
  Drafts <- MCDrafts
  ListLimit = 3
  MaxIssues = 4
  Accounts = {"ana", "org"}
  Secrets = {"s"}
  Environments <- MCEnvironments
  Terminals = {t1, t2}
  MaxCommands = 3
  Broken = Broken
  NoCommand = NoCommand
  Specs <- MCSpecs
  Releases <- MCReleases
  Starter <- MCStarter
  Projects = {"p1", "p2"}
  Additions <- MCAdditions
  MaxRuns = 2
  MaxEdits = 1
  MaxFaults = 1
  NoRun = NoRun
SPECIFICATION Spec
SYMMETRY TerminalsAlike
INVARIANTS TypeOK FixedIsClean  PublishedOnce RightSecret Provisioned
 
CHECK_DEADLOCK FALSE
