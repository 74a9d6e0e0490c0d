---------------------------- MODULE MCCoordination ----------------------------
(* The primitives for several agents and the run registry share no state   *)
(* and no caller: one of them is chosen at the start, the others rest.     *)
EXTENDS Ownership, Scheduler, CommandQueue, RunServer

VARIABLE part

parts == <<ownershipVars, schedulerVars, queueVars, serverVars, part>>

(* "src/*" matches "src/a"; a worktree may have the name of a file.        *)
MCMatches == {<<"src/*", "src/*">>, <<"src/a", "src/a">>, <<"src/a", "src/*">>, <<"docs/*", "docs/*">>}

Files(patterns) == [repo |-> "repo", kind |-> "files", key |-> "src/*", patterns |-> patterns]
Named(kind, key) == [repo |-> "repo", kind |-> kind, key |-> key, patterns |-> {}]

MCScopes ==
  {Files({"src/*"}), Files({"src/a"}), Files({"docs/*", "src/a"}), Named("worktree", "src/a"),
   Named("issue", "src/a"), [Named("issue", "src/a") EXCEPT !.repo = "other"]}

MCHosts ==
  {[cpus |-> 8, memory |-> 9, idle |-> Unknown], [cpus |-> 4, memory |-> 5, idle |-> 50],
   [cpus |-> 8, memory |-> 0, idle |-> 90], [cpus |-> 8, memory |-> 1, idle |-> 5]}

MCPolicy ==
  [requested |-> 5, agents |-> 3, reserveCpus |-> 2, reserveMemory |-> 2, perAgent |-> 2, minIdle |-> 15]

MCRequired == [c \in Commands |-> IF c = "cancel" THEN 2 ELSE 0]

Init ==
  /\ OwnershipInit /\ SchedulerInit /\ QueueInit /\ ServerInit
  /\ part \in {"claims", "locks", "tasks", "commands", "server"}
  /\ part # "tasks" => host = CHOOSE h \in Hosts : TRUE

Next ==
  /\ UNCHANGED part
  /\ \/ part = "claims" /\ ClaimsNext /\ UNCHANGED <<schedulerVars, queueVars, serverVars>>
     \/ part = "locks" /\ LocksNext /\ UNCHANGED <<schedulerVars, queueVars, serverVars>>
     \/ part = "tasks" /\ SchedulerNext /\ UNCHANGED <<ownershipVars, queueVars, serverVars>>
     \/ part = "commands" /\ QueueNext /\ UNCHANGED <<ownershipVars, schedulerVars, serverVars>>
     \/ part = "server" /\ ServerNext /\ UNCHANGED <<ownershipVars, schedulerVars, queueVars>>

TypeOK == OwnershipTypeOK /\ SchedulerTypeOK /\ QueueTypeOK /\ ServerTypeOK

Spec == Init /\ [][Next]_parts /\ QueueFairness /\ ServerFairness
===============================================================================
