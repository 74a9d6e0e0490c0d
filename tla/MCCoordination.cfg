CONSTANTS
  Agents = {"agent-a", "agent-b"}
  Issues = {"i1", "i2"}
  Trees = {"t1", "t2"}
  Strings = {"src/*", "src/a", "docs/*"}
  Matches <- MCMatches
  Scopes <- MCScopes
  MaxClaims = 3
  Tasks = {"k1", "k2", "k3", "k4", "odd"}
  Supported = {"k1", "k2", "k3", "k4"}
  Unknown = Unknown
  Hosts <- MCHosts
  Policy <- MCPolicy
  MaxTasks = 5
  Commands = {"pause", "resume", "cancel"}
  Runners = {"r1", "r2"}
  Level = 1
  Required <- MCRequired
  MaxSends = 3
  Clients = {"c1", "c2"}
  MaxStarts = 2
  MaxCancels = 1
SPECIFICATION Spec
INVARIANTS TypeOK LocksApart CarriedOutOnce HonestStatus
PROPERTIES OnlyRevivalContests StartsWithinLimit  RunSettles
CHECK_DEADLOCK FALSE
