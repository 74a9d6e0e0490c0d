------------------------------ MODULE DeliveryRun ------------------------------
(***************************************************************************)
(* SprintFlow.bootstrap of src/sendsprint/flow/sprint_flow.py, run after   *)
(* run under one run id, over what survives a crash: the tuple log, the    *)
(* receipts, the run state, the working trees and the pull requests.  The  *)
(* worker pool in the middle is taken at the grain WorkerPool justifies:   *)
(* one worker per lane, first in first out, idle when no tuple is left.    *)
(***************************************************************************)
EXTENDS Naturals, Sequences

CONSTANTS
  Keys,       \* delivery keys: one work item in one repository
  Sprint,     \* the deliveries in the order of the bootstrap loop
  Stages,     \* the pipeline: the lanes, from dev to pr
  Trees,      \* working directories
  TreeOf,     \* _runtime_work_dir of each delivery
  Verdicts,   \* what a stage before pr may find
  None,       \* no output
  MaxRuns,    \* bound on the number of runs
  MaxFaults   \* bound on crashes and exceptions

ASSUME DeliveryAssumption ==
  /\ Sprint \in Seq(Keys)
  /\ Stages \in Seq(STRING) /\ Len(Stages) > 1
  /\ TreeOf \in [Keys -> Trees]
  /\ None \notin Verdicts \cup {"completed", "failed"}
  /\ MaxRuns \in Nat /\ MaxFaults \in Nat

VARIABLES
  log,        \* tuples of TupleLog in order of emission, materialised
  receipts,   \* find_by_input: output of the ok receipt of a cacheable input
  runState,   \* RunState as on disk
  torn,       \* the state file was being written when the process died
  dirty,      \* deliveries with uncommitted changes in each working tree
  branch,     \* deliveries whose changes are on the branch of a delivery
  opened,     \* pull requests opened for each delivery
  lost,       \* of those, the ones whose receipt was never written
  phase,      \* where bootstrap is
  noCache,    \* the --no-cache flag of this run
  at,         \* position in the sprint, or in the log
  queue,      \* indices in the log of the tuples waiting on each lane
  hand,       \* index of the tuple each worker handles, or 0
  step,       \* how far the worker is with it
  result,     \* output it got
  runs,       \* number of runs started
  forced,     \* of those, the ones with --no-cache
  faults

durable == <<log, receipts, runState, torn, dirty, branch, opened, lost>>
volatile == <<phase, noCache, at, queue, hand, step, result>>
vars == <<durable, volatile, runs, forced, faults>>

Depth == DOMAIN Stages
Last == Len(Stages)

Outputs == Verdicts \cup {"completed", "failed"}

Entry == [key : Keys, stage : Depth, noCache : BOOLEAN, out : Outputs \cup {None},
          status : {"emitted", "consumed", "completed", "err"}]

TypeOK ==
  /\ log \in Seq(Entry)
  /\ receipts \in [Depth \X Keys -> Outputs \cup {None}]
  /\ runState \in [planned : SUBSET Keys, completed : SUBSET Keys, failed : SUBSET Keys]
  /\ torn \in BOOLEAN
  /\ dirty \in [Trees -> SUBSET Keys]
  /\ branch \in [Keys -> SUBSET Keys]
  /\ opened \in [Keys -> Nat] /\ lost \in [Keys -> Nat]
  /\ phase \in {"off", "plan", "pool", "apply"}
  /\ noCache \in BOOLEAN
  /\ at \in 1..(Len(log) + Len(Sprint) + 1)
  /\ queue \in [Depth -> Seq(DOMAIN log)]
  /\ hand \in [Depth -> {0} \cup DOMAIN log]
  /\ step \in [Depth -> {"idle", "consumed", "committed", "effected", "recorded", "marked"}]
  /\ result \in [Depth -> Outputs \cup {None}]
  /\ runs \in 0..MaxRuns /\ forced \in 0..runs /\ faults \in 0..MaxFaults

Idle ==
  [queue |-> [s \in Depth |-> <<>>], hand |-> [s \in Depth |-> 0],
   step |-> [s \in Depth |-> "idle"], result |-> [s \in Depth |-> None]]

Init ==
  /\ log = <<>>
  /\ receipts = [input \in Depth \X Keys |-> None]
  /\ runState = [planned |-> {}, completed |-> {}, failed |-> {}]
  /\ torn = FALSE
  /\ dirty = [t \in Trees |-> {}]
  /\ branch = [k \in Keys |-> {}]
  /\ opened = [k \in Keys |-> 0]
  /\ lost = [k \in Keys |-> 0]
  /\ phase = "off"
  /\ noCache = FALSE
  /\ at = 1
  /\ queue = Idle.queue /\ hand = Idle.hand /\ step = Idle.step /\ result = Idle.result
  /\ runs = 0 /\ forced = 0 /\ faults = 0

------------------------------------------------------------------------------
(* bootstrap up to the pool.                                               *)

(* load_or_create; a torn file fails its validation and ends the call.     *)
Start ==
  /\ phase = "off" /\ ~torn
  /\ runs < MaxRuns
  /\ noCache' \in BOOLEAN
  /\ runs' = runs + 1
  /\ forced' = IF noCache' THEN forced + 1 ELSE forced
  /\ phase' = "plan"
  /\ at' = 1
  /\ UNCHANGED <<durable, queue, hand, step, result, faults>>

NewTuple(k, s, flag) ==
  [key |-> k, stage |-> s, noCache |-> flag, out |-> None, status |-> "emitted"]

(* Only a root tuple has meta.delivery_key.                                *)
PendingRoots(k) ==
  {i \in DOMAIN log : log[i].key = k /\ log[i].stage = 1
                      /\ log[i].status \in {"emitted", "consumed"}}

(* _pending_delivery_tuple, or emit_tuple and append.                      *)
Seed(k) ==
  LET pending == PendingRoots(k)
  IN \/ /\ pending # {}
        /\ \E i \in pending :
             /\ \A j \in pending : i <= j
             /\ queue' = [queue EXCEPT ![1] = Append(@, i)]
        /\ UNCHANGED log
     \/ /\ pending = {}
        /\ log' = Append(log, NewTuple(k, 1, noCache))
        /\ queue' = [queue EXCEPT ![1] = Append(@, Len(log) + 1)]

(* One turn of the loop over items and repositories.                       *)
Plan ==
  /\ phase = "plan" /\ at <= Len(Sprint)
  /\ runState' = [runState EXCEPT !.planned = @ \cup {Sprint[at]}]
  /\ IF Sprint[at] \in runState.completed
       THEN UNCHANGED <<log, queue>>
       ELSE Seed(Sprint[at])
  /\ at' = at + 1
  /\ UNCHANGED <<receipts, torn, dirty, branch, opened, lost,
                 phase, noCache, hand, step, result, runs, forced, faults>>

Planned ==
  /\ phase = "plan" /\ at > Len(Sprint)
  /\ phase' = IF queue[1] = <<>> THEN "off" ELSE "pool"
  /\ UNCHANGED <<durable, noCache, at, queue, hand, step, result, runs, forced, faults>>

------------------------------------------------------------------------------
(* The worker of stage s.                                                  *)

Tuple(s) == log[hand[s]]
Mark(s, status, out) == log' = [log EXCEPT ![hand[s]].status = status, ![hand[s]].out = out]
Goto(s, next) == step' = [step EXCEPT ![s] = next]

Take(s) ==
  /\ phase = "pool" /\ step[s] = "idle" /\ queue[s] # <<>>
  /\ hand' = [hand EXCEPT ![s] = Head(queue[s])]
  /\ queue' = [queue EXCEPT ![s] = Tail(@)]
  /\ log' = [log EXCEPT ![Head(queue[s])].status = "consumed"]
  /\ Goto(s, "consumed")
  /\ UNCHANGED <<receipts, runState, torn, dirty, branch, opened, lost,
                 phase, noCache, at, result, runs, forced, faults>>

(* The dispatcher finds an ok receipt, unless the payload forbids a look.  *)
Cached(s) == ~Tuple(s).noCache /\ receipts[<<s, Tuple(s).key>>] # None

CacheHit(s) ==
  /\ step[s] = "consumed" /\ Cached(s)
  /\ result' = [result EXCEPT ![s] = receipts[<<s, Tuple(s).key>>]]
  /\ Goto(s, "recorded")
  /\ UNCHANGED <<durable, phase, noCache, at, queue, hand, runs, forced, faults>>

(* The executor of a stage before pr; dev leaves changes in its tree.      *)
Execute(s) ==
  /\ s < Last
  /\ step[s] = "consumed" /\ ~Cached(s)
  /\ \E v \in Verdicts : result' = [result EXCEPT ![s] = v]
  /\ dirty' = IF s = 1 THEN [dirty EXCEPT ![TreeOf[Tuple(s).key]] = @ \cup {Tuple(s).key}]
                       ELSE dirty
  /\ Goto(s, "effected")
  /\ UNCHANGED <<log, receipts, runState, torn, branch, opened, lost,
                 phase, noCache, at, queue, hand, runs, forced, faults>>

(* The pr stage: git add -A and commit of all the working tree holds ...   *)
Commit ==
  /\ step[Last] = "consumed" /\ ~Cached(Last)
  /\ LET k == Tuple(Last).key
     IN /\ branch' = [branch EXCEPT ![k] = @ \cup dirty[TreeOf[k]]]
        /\ dirty' = [dirty EXCEPT ![TreeOf[k]] = {}]
  /\ Goto(Last, "committed")
  /\ UNCHANGED <<log, receipts, runState, torn, opened, lost,
                 phase, noCache, at, queue, hand, result, runs, forced, faults>>

(* state_update of the pr output.                                          *)
StateUpdate(created) == IF created THEN "completed" ELSE "failed"

(* ... then push, which may fail unheard, and the call of the provider,    *)
(* which opens a valid pull request or does not.                           *)
OpenPr ==
  /\ step[Last] = "committed"
  /\ \E created \in BOOLEAN :
       /\ opened' = IF created THEN [opened EXCEPT ![Tuple(Last).key] = @ + 1] ELSE opened
       /\ result' = [result EXCEPT ![Last] = StateUpdate(created)]
  /\ Goto(Last, "effected")
  /\ UNCHANGED <<log, receipts, runState, torn, dirty, branch, lost,
                 phase, noCache, at, queue, hand, runs, forced, faults>>

(* Mutant of Record: the receipt lives in memory only.                     *)
RecordNot(s) ==
  /\ step[s] = "effected"
  /\ Goto(s, "recorded")
  /\ UNCHANGED <<durable, phase, noCache, at, queue, hand, result, runs, forced, faults>>

(* write_ok_receipt; the receipt of a payload with no_cache is never       *)
(* looked up.                                                              *)
Record(s) ==
  /\ step[s] = "effected"
  /\ receipts' = IF Tuple(s).noCache THEN receipts
                 ELSE [receipts EXCEPT ![<<s, Tuple(s).key>>] = result[s]]
  /\ Goto(s, "recorded")
  /\ UNCHANGED <<log, runState, torn, dirty, branch, opened, lost,
                 phase, noCache, at, queue, hand, result, runs, forced, faults>>

Complete(s) ==
  /\ step[s] = "recorded"
  /\ Mark(s, "completed", result[s])
  /\ Goto(s, "marked")
  /\ UNCHANGED <<receipts, runState, torn, dirty, branch, opened, lost,
                 phase, noCache, at, queue, hand, result, runs, forced, faults>>

Release(s) ==
  /\ hand' = [hand EXCEPT ![s] = 0]
  /\ result' = [result EXCEPT ![s] = None]
  /\ Goto(s, "idle")

(* _runtime_follow_up: the next lane, whatever the output says.            *)
FollowUp(s) ==
  /\ step[s] = "marked"
  /\ IF s = Last
       THEN UNCHANGED <<log, queue>>
       ELSE /\ log' = Append(log, NewTuple(Tuple(s).key, s + 1, Tuple(s).noCache))
            /\ queue' = [queue EXCEPT ![s + 1] = Append(@, Len(log) + 1)]
  /\ Release(s)
  /\ UNCHANGED <<receipts, runState, torn, dirty, branch, opened, lost,
                 phase, noCache, at, runs, forced, faults>>

(* A pull request that is open while nothing but this process knows.       *)
Unrecorded(k) ==
  IF step[Last] = "effected" /\ Tuple(Last).key = k /\ result[Last] = "completed"
    THEN 1 ELSE 0

(* Mutant of Raise: the worker does not come back for its lane.            *)
RaiseKeepsHand(s) ==
  /\ step[s] \in {"consumed", "committed", "effected"} /\ ~Cached(s)
  /\ faults < MaxFaults
  /\ faults' = faults + 1
  /\ Mark(s, "err", None)
  /\ Goto(s, "idle")
  /\ UNCHANGED <<receipts, runState, torn, dirty, branch, opened, lost,
                 phase, noCache, at, queue, hand, result, runs, forced>>

(* The executor raises, before, between or after its effects (the policy   *)
(* check of the deploy step comes after the pull request): an err receipt, *)
(* which has no output.                                                    *)
Raise(s) ==
  /\ step[s] \in {"consumed", "committed", "effected"} /\ ~Cached(s)
  /\ faults < MaxFaults
  /\ faults' = faults + 1
  /\ lost' = IF s = Last THEN [k \in Keys |-> lost[k] + Unrecorded(k)] ELSE lost
  /\ Mark(s, "err", None)
  /\ Release(s)
  /\ UNCHANGED <<receipts, runState, torn, dirty, branch, opened,
                 phase, noCache, at, queue, runs, forced>>

PoolIdle ==
  /\ phase = "pool"
  /\ \A s \in Depth : queue[s] = <<>> /\ hand[s] = 0
  /\ phase' = "apply"
  /\ at' = 1
  /\ UNCHANGED <<durable, noCache, queue, hand, step, result, runs, forced, faults>>

------------------------------------------------------------------------------
(* _run_delivery_runtime after the pool: every tuple of the log, old runs  *)
(* included, whose receipt has a state_update.                             *)

Applies(i) == log[i].stage = Last /\ log[i].out # None
Remaining == {i \in at..Len(log) : Applies(i)}

Applied(st, i) ==
  IF log[i].out = "completed"
    THEN [st EXCEPT !.completed = @ \cup {log[i].key}, !.failed = @ \ {log[i].key}]
    ELSE [st EXCEPT !.failed = @ \cup {log[i].key}]

(* Mutant of ApplyOutput: only the newest tuple is applied.                *)
ApplyNewest ==
  /\ phase = "apply"
  /\ \E i \in Remaining :
       /\ \A j \in Remaining : j <= i
       /\ runState' = Applied(runState, i)
       /\ at' = i + 1
  /\ UNCHANGED <<log, receipts, torn, dirty, branch, opened, lost,
                 phase, noCache, queue, hand, step, result, runs, forced, faults>>

ApplyOutput ==
  /\ phase = "apply"
  /\ \E i \in Remaining :
       /\ \A j \in Remaining : i <= j
       /\ runState' = Applied(runState, i)
       /\ at' = i + 1
  /\ UNCHANGED <<log, receipts, torn, dirty, branch, opened, lost,
                 phase, noCache, queue, hand, step, result, runs, forced, faults>>

Finish ==
  /\ phase = "apply" /\ Remaining = {}
  /\ phase' = "off"
  /\ UNCHANGED <<durable, noCache, at, queue, hand, step, result, runs, forced, faults>>

(* Mutant of Crash: the working trees belong to the run.                   *)
CrashCleansTrees ==
  /\ phase # "off" /\ faults < MaxFaults
  /\ faults' = faults + 1
  /\ torn' \in {b \in BOOLEAN : b => phase \in {"plan", "apply"}}
  /\ dirty' = [t \in Trees |-> {}]
  /\ lost' = [k \in Keys |-> lost[k] + Unrecorded(k)]
  /\ phase' = "off"
  /\ queue' = Idle.queue /\ hand' = Idle.hand /\ step' = Idle.step /\ result' = Idle.result
  /\ UNCHANGED <<log, receipts, runState, branch, opened, noCache, at, runs, forced>>

(* The process dies.  RunStateStore.save truncates the file before it      *)
(* writes it; log lines and receipts are whole or absent.                  *)
Crash ==
  /\ phase # "off" /\ faults < MaxFaults
  /\ faults' = faults + 1
  /\ torn' \in {b \in BOOLEAN : b => phase \in {"plan", "apply"}}
  /\ lost' = [k \in Keys |-> lost[k] + Unrecorded(k)]
  /\ phase' = "off"
  /\ queue' = Idle.queue /\ hand' = Idle.hand /\ step' = Idle.step /\ result' = Idle.result
  /\ UNCHANGED <<log, receipts, runState, dirty, branch, opened, noCache, at, runs, forced>>

------------------------------------------------------------------------------
Work(s) == Take(s) \/ CacheHit(s) \/ Execute(s) \/ Record(s) \/ Complete(s) \/ FollowUp(s)

Flow ==
  \/ Plan \/ Planned \/ PoolIdle \/ ApplyOutput \/ Finish
  \/ Commit \/ OpenPr
  \/ \E s \in Depth : Work(s)

Next == Start \/ Flow \/ Crash \/ \E s \in Depth : Raise(s)

Spec == Init /\ [][Next]_vars

(* A run goes on until it ends or its process dies; nobody has to start    *)
(* another one.                                                            *)
FairSpec == Spec /\ WF_vars(Flow)

------------------------------------------------------------------------------
(* The run state never claims a delivery that has no pull request          *)
(* (sprint_flow.py:654-656, 731-739), whatever crashed in between.         *)
CompletedHasPr == \A k \in runState.completed : opened[k] > 0

(* Resuming does not deliver twice ("Reuse run state to avoid duplicate    *)
(* delivery", cli.py): a second pull request needs one whose receipt was   *)
(* lost, or a run that was told to ignore receipts.                        *)
NoDuplicateDelivery == \A k \in Keys : opened[k] <= 1 + lost[k] + forced

(* A delivery that counts as completed has its pull request, and only one. *)
OnePrEach == CompletedHasPr /\ NoDuplicateDelivery

(* When a run ends without a crash, every delivery whose last pr tuple     *)
(* completed has the state that tuple's output says; a delivery whose pull *)
(* request was recorded stays completed.                                   *)
SettledAtEnd ==
  phase = "apply" /\ Remaining = {} =>
    \A i \in DOMAIN log : Applies(i) =>
      IF log[i].out = "completed" THEN log[i].key \in runState.completed
      ELSE log[i].key \in runState.failed \cup runState.completed

(* A delivery's pull request holds its own changes and no others           *)
(* ("git add -A && git commit on worktree branch", README.md:107).  With a *)
(* working tree for every delivery this survives crashes: the dev stage is *)
(* not run again, but its changes are still in the tree.                   *)
CommitsOwnWork == \A k \in Keys : opened[k] > 0 => branch[k] = {k}

(* "Bypass receipt cache and force worker execution for this run" (cli.py, *)
(* the help of --no-cache): no tuple of such a run may be served from a    *)
(* receipt.                                                                *)
NoCacheForcesExecution == noCache => \A s \in Depth : step[s] = "consumed" => ~Cached(s)

(* "Fix loop > 3 rounds: mark failed, skip push/PR" (DESIGN.md:102).       *)
NoPrAfterFailedGate ==
  \A k \in Keys : opened[k] > 0 =>
    ~\E s \in Depth : receipts[<<s, k>>] = "gate-failed"

(* A run that was started ends: no delivery waits for ever on another.     *)
RunEnds == phase # "off" ~> phase = "off"
===============================================================================
