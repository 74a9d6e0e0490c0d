------------------------------- MODULE OperatorApi -------------------------------
(***************************************************************************)
(* The operator's requests about one run (api/routes/operator.py) through  *)
(* the middlewares of api/security.py to the command queue of              *)
(* status_relay.py and the log of audit.py, and what the control plane     *)
(* shows of the run (api/routes/control_plane.py).  Handlers run in        *)
(* threads of their own, beside the worker of the run.                     *)
(***************************************************************************)
EXTENDS Integers, Sequences, FiniteSets, SequencesExt, FiniteSetsExt

CONSTANTS
  Level,       \* the level of the run: "plan" for every request of this API
  MaxRequests, \* bound on requests
  MaxSteps,    \* bound on step events
  MaxPending,  \* maxlen of _command_queue
  MaxAudit     \* max_entries of the audit log

LevelOrder == <<"observe", "plan", "execute", "commit", "push", "pr", "release", "deploy-callback">>

ASSUME OperatorApiAssumption ==
  /\ Level \in Range(LevelOrder)
  /\ {MaxRequests, MaxSteps} \subseteq Nat /\ {MaxPending, MaxAudit} \subseteq Nat \ {0}

VARIABLES
  run,       \* the RunStatus: its state and its failed flag
  worker,    \* the thread of the run
  steps,     \* the step events of the run, each passed, in error or blocking
  requests,  \* every request, in the order they came
  pending,   \* _command_queue: places in requests
  audit,     \* the log of requests: their places, with the result
  commands   \* places of commands in the order they were queued

operatorVars == <<run, worker, steps, requests, pending, audit, commands>>

OperatorAction == {"pause", "resume", "cancel", "rerun", "approve"}
RunState == {"queued", "running", "done", "failed"}
Answer == {"ok", "unauthorized", "forbidden", "not found", "conflict", "unconfirmed"}

OperatorApiTypeOK ==
  /\ run \in [state : RunState, failed : BOOLEAN]
  /\ worker \in {"new", "working", "ended"}
  /\ steps \in Seq({"passed", "error", "blocking"}) /\ Len(steps) <= MaxSteps
  /\ requests \in Seq([action : OperatorAction \cup {"any"}, at : {"guarded", "queued"} \cup Answer])
  /\ Len(requests) <= MaxRequests
  /\ pending \in Seq(DOMAIN requests) /\ Len(pending) <= MaxPending
  /\ audit \in Seq([of : DOMAIN requests, result : {"ok", "rejected"}]) /\ Len(audit) <= MaxAudit
  /\ commands \in Seq(DOMAIN requests)

OperatorApiInit ==
  /\ run = [state |-> "queued", failed |-> FALSE] /\ worker = "new" /\ steps = <<>>
  /\ requests = <<>> /\ pending = <<>> /\ audit = <<>> /\ commands = <<>>

(* A deque with a maxlen drops from the other end.                         *)
Latter(s, size) == IF Len(s) > size THEN Tail(s) ELSE s

Rank(level) == CHOOSE i \in DOMAIN LevelOrder : LevelOrder[i] = level
Needs == [pause |-> "observe", resume |-> "observe", cancel |-> "plan", rerun |-> "execute", approve |-> "pr"]
MayFrom ==
  [pause |-> {"running"}, resume |-> {"queued", "running"}, cancel |-> {"queued", "running"},
   rerun |-> {"failed"}, approve |-> {"done"}]
Writes ==
  [cancel |-> [state |-> "failed", failed |-> TRUE], rerun |-> [state |-> "running", failed |-> FALSE]]

------------------------------------------------------------------------------
Arrives(action, at) == requests' = Append(requests, [action |-> action, at |-> at])

(* LocalAuthMiddleware, then OriginCheckMiddleware: what either turns away *)
(* is written to the audit log, before any handler sees it.                *)
TurnedAway ==
  /\ Len(requests) < MaxRequests
  /\ \E code \in {"unauthorized", "forbidden"} : Arrives("any", code)
  /\ audit' = Latter(Append(audit, [of |-> Len(requests'), result |-> "rejected"]), MaxAudit)
  /\ UNCHANGED <<run, worker, steps, pending, commands>>

(* The handler's guards, in their order, on the state it reads once.       *)
Guards(action, confirmed) ==
  IF Rank(Needs[action]) > Rank(Level) THEN "forbidden"
  ELSE IF action = "cancel" /\ ~confirmed THEN "unconfirmed"
  ELSE IF run.state \notin MayFrom[action] THEN "conflict"
  ELSE "ok"

Handle(action) ==
  /\ Len(requests) < MaxRequests
  /\ \E confirmed \in BOOLEAN :
       Arrives(action, IF Guards(action, confirmed) = "ok" THEN "guarded" ELSE Guards(action, confirmed))
  /\ UNCHANGED <<run, worker, steps, pending, audit, commands>>

(* A run id nobody started.                                                *)
NotFound ==
  /\ Len(requests) < MaxRequests
  /\ Arrives("any", "not found")
  /\ UNCHANGED <<run, worker, steps, pending, audit, commands>>

(* enqueue_command and what the handler writes into the run, which may     *)
(* have ended in the meantime.                                             *)
Enqueue(r) ==
  /\ requests[r].at = "guarded"
  /\ pending' = Latter(Append(pending, r), MaxPending)
  /\ commands' = Append(commands, r)
  /\ run' = IF requests[r].action \in DOMAIN Writes THEN Writes[requests[r].action] ELSE run
  /\ requests' = [requests EXCEPT ![r].at = "queued"]
  /\ UNCHANGED <<worker, steps, audit>>

(* Mutant of Entry: the record that is due is the newest command's.        *)
EntryOfLast(r) == [of |-> Last(commands), result |-> "ok"]
Entry(r) == [of |-> r, result |-> "ok"]

(* The event, the audit entry and the answer.                              *)
Recorded(r) ==
  /\ requests[r].at = "queued"
  /\ audit' = Latter(Append(audit, Entry(r)), MaxAudit)
  /\ requests' = [requests EXCEPT ![r].at = "ok"]
  /\ UNCHANGED <<run, worker, steps, pending, commands>>

(* drain_commands: one thread takes all there is.  Nothing in the package  *)
(* calls it.                                                               *)
DrainCommands ==
  /\ pending # <<>> /\ pending' = <<>>
  /\ UNCHANGED <<run, worker, steps, requests, audit, commands>>

(* The worker of the run, whatever an operator wrote.                      *)
WorkerStarts ==
  /\ worker = "new" /\ worker' = "working"
  /\ run' = [run EXCEPT !.state = "running"]
  /\ UNCHANGED <<steps, requests, pending, audit, commands>>

StepEvent ==
  /\ worker = "working" /\ Len(steps) < MaxSteps
  /\ \E how \in {"passed", "error", "blocking"} : steps' = Append(steps, how)
  /\ UNCHANGED <<run, worker, requests, pending, audit, commands>>

WorkerEnds ==
  /\ worker = "working" /\ worker' = "ended"
  /\ \E failed \in BOOLEAN : run' = [state |-> IF failed THEN "failed" ELSE "done", failed |-> failed]
  /\ UNCHANGED <<steps, requests, pending, audit, commands>>

OperatorApiNext ==
  \/ \E action \in OperatorAction : Handle(action)
  \/ TurnedAway \/ NotFound
  \/ \E r \in DOMAIN requests : Enqueue(r) \/ Recorded(r)
  \/ DrainCommands \/ WorkerStarts \/ StepEvent \/ WorkerEnds

OperatorApiSpec == OperatorApiInit /\ [][OperatorApiNext]_operatorVars

------------------------------------------------------------------------------
(* _compute_readiness and _build_quality_gate, from the state and events.  *)
Succeeded == run.state = "done" /\ ~run.failed
ShownReadiness(progress) ==
  CASE run.state = "queued" -> "blocked"
    [] run.state = "running" -> IF progress < 50 THEN "blocked" ELSE "needs_human_approval"
    [] OTHER -> IF Succeeded THEN "auto_publish" ELSE "blocked"

ShownGate ==
  IF Succeeded THEN "pass" ELSE IF Range(steps) \subseteq {"passed"} THEN "pass" ELSE "needs_rework"

(* A command that was queued belongs to a request that passed its guards,  *)
(* and every one that was answered has its entry in the audit log; what    *)
(* is no longer in a bounded queue or log was pushed out by as many newer  *)
(* ones as it holds (status_relay.py:123, audit.py:49), rejections         *)
(* included.  A published readiness comes with a gate that passes.         *)
OnTheRecord ==
  LET Logged == {i \in DOMAIN audit : audit[i].result = "ok"}
      Answered == {r \in DOMAIN requests : requests[r].at = "ok"}
      Refused == {r \in DOMAIN requests : requests[r].at \in Answer \ {"ok"}}
  IN /\ Range(commands) = {r \in DOMAIN requests : requests[r].at \in {"queued", "ok"}}
     /\ IsInjective(commands) /\ IsSuffix(pending, commands)
     /\ {audit[i].of : i \in Logged} \subseteq Answered
     /\ \A i, j \in DOMAIN audit : i # j => audit[i].of # audit[j].of
     /\ Len(audit) < MaxAudit => {audit[i].of : i \in Logged} = Answered
     /\ \A i \in DOMAIN audit \ Logged : audit[i].of \in Refused
     /\ \A progress \in {0, 50, 100} : ShownReadiness(progress) = "auto_publish" => ShownGate = "pass"
================================================================================
