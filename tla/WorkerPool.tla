------------------------------ MODULE WorkerPool ------------------------------
(***************************************************************************)
(* WorkerPool.run_until_idle of src/sendsprint/yool/workers.py over the    *)
(* bus: one worker coroutine per lane, and the main coroutine that         *)
(* publishes the seed, drains the bus, closes it and waits for the         *)
(* workers.  Coroutines run one at a time and switch only where they       *)
(* suspend (a get on an empty lane, a put on a full one, a join, the       *)
(* thread that runs the executor), so an action is a stretch of code       *)
(* between two suspensions, or a part of one that commutes with the rest.  *)
(***************************************************************************)
EXTENDS TupleBus

CONSTANTS
  Pool,       \* the lanes of the workers, in the order of WorkerPool.add
  FollowUps,  \* FollowUps[t]: the tuples the follow_up hook makes of t
  Seeds,      \* the seeds the pool may be called with
  None,       \* no tuple in hand
  MaxFaults   \* bound on failed writes of the tuple log

ASSUME PoolAssumption ==
  /\ Pool \in Seq(Lanes)
  /\ \A i, j \in DOMAIN Pool : Pool[i] = Pool[j] => i = j  \* add: ValueError
  /\ FollowUps \in [Tuples -> Seq(Tuples)]
  /\ Seeds \subseteq Seq(Tuples)
  /\ None \notin Tuples
  /\ MaxFaults \in Nat

(* Every emission makes a fresh id, a hash over the parent and the time:   *)
(* no tuple has two parents, is made twice, or is both pending and made.   *)
ASSUME FreshIds ==
  /\ \A p, q \in Tuples : \A i \in DOMAIN FollowUps[p], j \in DOMAIN FollowUps[q] :
       FollowUps[p][i] = FollowUps[q][j] => p = q /\ i = j
  /\ \A s \in Seeds :
       /\ \A i, j \in DOMAIN s : s[i] = s[j] => i = j
       /\ \A i \in DOMAIN s, p \in Tuples : \A k \in DOMAIN FollowUps[p] : FollowUps[p][k] # s[i]

VARIABLES
  seed,      \* the tuples this call publishes (seed, or log.pending())
  next,      \* position in the seed of the next publish
  main,      \* where run_until_idle is suspended
  pass,      \* number of lanes in the list the current drain pass walks
  at,        \* position in that list, or in close's walk
  started,   \* how many worker tasks have run their first step
  worker,    \* where each worker is suspended
  hand,      \* the tuple each worker handles
  todo,      \* follow-ups the worker has still to emit
  status,    \* last marker of each tuple in the log, or "absent"
  faults

poolVars == <<seed, next, main, pass, at, started, worker, hand, todo, status, faults>>
vars == <<busVars, poolVars>>

Final == {"completed", "err", "err.budget"}
Busy == {"run", "emit", "put"}
Statuses == {"absent", "emitted", "consumed"} \cup Final

TypeOK ==
  /\ BusTypeOK
  /\ seed \in Seeds
  /\ next \in 1..(Len(seed) + 1)
  /\ main \in {"seed", "drain", "join", "woken", "close", "gather", "idle"}
  /\ pass \in Nat
  /\ at \in Nat
  /\ started \in 0..Len(Pool)
  /\ worker \in [Lanes -> {"new", "get", "done", "dead"} \cup Busy]
  /\ hand \in [Lanes -> Tuples \cup {None}]
  /\ todo \in [Lanes -> Seq(Tuples)]
  /\ status \in [Tuples -> Statuses]
  /\ faults \in 0..MaxFaults

SeedSet == {seed[i] : i \in DOMAIN seed}

(* The log already holds the seed when the pool is called: freshly emitted *)
(* tuples, or pending ones, which an earlier run may have begun.           *)
Init ==
  /\ BusInit
  /\ seed \in Seeds
  /\ next = 1
  /\ main = "seed"
  /\ pass = 0
  /\ at = 1
  /\ started = 0
  /\ worker = [l \in Lanes |-> "new"]
  /\ hand = [l \in Lanes |-> None]
  /\ todo = [l \in Lanes |-> <<>>]
  /\ status \in [Tuples -> {"absent", "emitted", "consumed"}]
  /\ \A t \in Tuples : status[t] = "absent" <=> t \notin SeedSet
  /\ faults = 0

------------------------------------------------------------------------------
(* The main coroutine.                                                     *)

(* It gives the other tasks a turn only in these places.                   *)
MainSuspended ==
  \/ main \in {"join", "gather"}
  \/ (main = "seed" /\ next <= Len(seed) /\ Full(LaneOf[seed[next]]))
  \/ (main = "close" /\ at <= Len(lanes) /\ Full(lanes[at]))

(* Mutant of PublishSeed: the seed is popped from its end.                 *)
PublishPopped ==
  /\ main = "seed" /\ next <= Len(seed)
  /\ Publish(seed[Len(seed) + 1 - next])
  /\ next' = next + 1
  /\ UNCHANGED <<seed, main, pass, at, started, worker, hand, todo, status, faults>>

PublishSeed ==
  /\ main = "seed" /\ next <= Len(seed)
  /\ Publish(seed[next])
  /\ next' = next + 1
  /\ UNCHANGED <<seed, main, pass, at, started, worker, hand, todo, status, faults>>

SeedPublished ==
  /\ main = "seed" /\ next > Len(seed)
  /\ main' = "drain"
  /\ pass' = Len(lanes)
  /\ at' = 1
  /\ UNCHANGED <<busVars, seed, next, started, worker, hand, todo, status, faults>>

JoinAt(n, i) ==
  /\ pass' = n
  /\ at' = i
  /\ main' = "join"
  /\ UNCHANGED closed

(* Mutant of Drain: the lanes are listed once.                             *)
DrainOnce ==
  /\ main \in {"drain", "woken"}
  /\ LET first == Unjoined(IF main = "woken" THEN at + 1 ELSE at, pass)
     IN \/ \E i \in first : (\A j \in first : i <= j) /\ JoinAt(pass, i)
        \/ /\ first = {}
           /\ closed' = TRUE
           /\ main' = "close"
           /\ at' = 1
           /\ UNCHANGED pass
  /\ UNCHANGED <<lanes, queue, unfinished, seed, next, started, worker, hand, todo, status, faults>>

(* drain, from the lane it is at up to the next join that has to wait; a   *)
(* lane whose join was woken is not looked at again.  A pass that ends     *)
(* with fewer lanes than there are now is followed by another one; a pass  *)
(* that ends with all of them closes the bus.                              *)
Drain ==
  /\ main \in {"drain", "woken"}
  /\ LET first  == Unjoined(IF main = "woken" THEN at + 1 ELSE at, pass)
         again  == IF pass = Len(lanes) THEN {} ELSE Unjoined(1, Len(lanes))
     IN \/ \E i \in first : (\A j \in first : i <= j) /\ JoinAt(pass, i)
        \/ /\ first = {}
           /\ \E i \in again : (\A j \in again : i <= j) /\ JoinAt(Len(lanes), i)
        \/ /\ first = {} /\ again = {}
           /\ closed' = TRUE
           /\ main' = "close"
           /\ at' = 1
           /\ UNCHANGED pass
  /\ UNCHANGED <<lanes, queue, unfinished, seed, next, started, worker, hand, todo, status, faults>>

CloseLane ==
  /\ main = "close" /\ at <= Len(lanes)
  /\ PutSentinel(lanes[at])
  /\ at' = at + 1
  /\ UNCHANGED <<seed, next, main, pass, started, worker, hand, todo, status, faults>>

(* Mutant of CloseDone: the last lane gets no sentinel.                    *)
CloseDoneEarly ==
  /\ main = "close" /\ at >= Len(lanes)
  /\ main' = "gather"
  /\ UNCHANGED <<busVars, seed, next, pass, at, started, worker, hand, todo, status, faults>>

CloseDone ==
  /\ main = "close" /\ at > Len(lanes)
  /\ main' = "gather"
  /\ UNCHANGED <<busVars, seed, next, pass, at, started, worker, hand, todo, status, faults>>

(* Mutant of WorkersGathered: the tasks are not awaited.                   *)
NotGathered ==
  /\ main = "gather"
  /\ main' = "idle"
  /\ UNCHANGED <<busVars, seed, next, pass, at, started, worker, hand, todo, status, faults>>

(* join of the pool: gather(return_exceptions=True) over the tasks.        *)
WorkersGathered ==
  /\ main = "gather"
  /\ \A i \in DOMAIN Pool : worker[Pool[i]] \in {"done", "dead"}
  /\ main' = "idle"
  /\ UNCHANGED <<busVars, seed, next, pass, at, started, worker, hand, todo, status, faults>>

------------------------------------------------------------------------------
(* The worker of lane l.                                                   *)

(* The first step of each task, in the order of start(): subscribe names   *)
(* its lane.  The loop runs the new tasks before anything they wait for.   *)
StartWorker ==
  /\ started < Len(Pool)
  /\ MainSuspended \/ started > 0
  /\ Open(Pool[started + 1])
  /\ worker' = [worker EXCEPT ![Pool[started + 1]] = "get"]
  /\ started' = started + 1
  /\ UNCHANGED <<queue, unfinished, closed, seed, next, main, pass, at, hand, todo, status, faults>>

(* task_done wakes the main coroutine when it joins this lane and this was *)
(* the last unfinished item.                                               *)
Acknowledge(l) ==
  /\ TaskDone(l)
  /\ main' = IF main = "join" /\ lanes[at] = l /\ unfinished[l] = 1 THEN "woken" ELSE main

Take(l) ==
  /\ started = Len(Pool) /\ worker[l] = "get"
  /\ \E t \in Tuples :
       /\ Get(l, t)
       /\ hand' = [hand EXCEPT ![l] = t]
       /\ status' = [status EXCEPT ![t] = "consumed"]
  /\ worker' = [worker EXCEPT ![l] = "run"]
  /\ UNCHANGED <<lanes, unfinished, closed, seed, next, main, pass, at, started, todo, faults>>

TakeSentinel(l) ==
  /\ started = Len(Pool) /\ worker[l] = "get"
  /\ Get(l, Sentinel)
  /\ Acknowledge(l)
  /\ worker' = [worker EXCEPT ![l] = "done"]
  /\ UNCHANGED <<lanes, closed, seed, next, pass, at, started, hand, todo, status, faults>>

(* The end of _handle: back to the subscribe loop, which acknowledges.     *)
Return(l) ==
  /\ Acknowledge(l)
  /\ worker' = [worker EXCEPT ![l] = "get"]
  /\ hand' = [hand EXCEPT ![l] = None]

(* Unknown yool, or the executor raised, or it exceeded its budget.        *)
Fail(l) ==
  /\ worker[l] = "run"
  /\ \E err \in {"err", "err.budget"} : status' = [status EXCEPT ![hand[l]] = err]
  /\ Return(l)
  /\ UNCHANGED <<lanes, queue, closed, seed, next, pass, at, started, todo, faults>>

Complete(l) ==
  /\ worker[l] = "run"
  /\ status' = [status EXCEPT ![hand[l]] = "completed"]
  /\ todo' = [todo EXCEPT ![l] = FollowUps[hand[l]]]
  /\ worker' = [worker EXCEPT ![l] = "emit"]
  /\ UNCHANGED <<busVars, seed, next, main, pass, at, started, hand, faults>>

LogChild(l) == status' = [status EXCEPT ![Head(todo[l])] = "emitted"]

(* A follow-up with room in its lane: logged and published.                *)
Emit(l) ==
  /\ worker[l] = "emit" /\ todo[l] # <<>> /\ ~closed
  /\ LogChild(l)
  /\ Publish(Head(todo[l]))
  /\ todo' = [todo EXCEPT ![l] = Tail(@)]
  /\ UNCHANGED <<seed, next, main, pass, at, started, worker, hand, faults>>

(* A follow-up whose lane is full: logged, and the put suspends.           *)
EmitBlocks(l) ==
  /\ worker[l] = "emit" /\ todo[l] # <<>> /\ ~closed
  /\ Full(LaneOf[Head(todo[l])])
  /\ LogChild(l)
  /\ worker' = [worker EXCEPT ![l] = "put"]
  /\ UNCHANGED <<busVars, seed, next, main, pass, at, started, hand, todo, faults>>

(* The suspended put goes on; it does not look at _closed again.           *)
PutResumes(l) ==
  /\ worker[l] = "put"
  /\ Enqueue(LaneOf[Head(todo[l])], Head(todo[l]))
  /\ todo' = [todo EXCEPT ![l] = Tail(@)]
  /\ worker' = [worker EXCEPT ![l] = "emit"]
  /\ UNCHANGED <<lanes, closed, seed, next, main, pass, at, started, hand, status, faults>>

(* An exception leaves run(): the task ends, the generator's finally       *)
(* clause still acknowledges the item in hand, the rest of the lane stays. *)
Die(l) ==
  /\ Acknowledge(l)
  /\ worker' = [worker EXCEPT ![l] = "dead"]
  /\ hand' = [hand EXCEPT ![l] = None]
  /\ todo' = [todo EXCEPT ![l] = <<>>]

(* publish raises RuntimeError("bus is closed"), after the log has the     *)
(* child.                                                                  *)
EmitOnClosed(l) ==
  /\ worker[l] = "emit" /\ todo[l] # <<>> /\ closed
  /\ LogChild(l)
  /\ Die(l)
  /\ UNCHANGED <<lanes, queue, closed, seed, next, pass, at, started, faults>>

Handled(l) ==
  /\ worker[l] = "emit" /\ todo[l] = <<>>
  /\ Return(l)
  /\ UNCHANGED <<lanes, queue, closed, seed, next, pass, at, started, todo, status, faults>>

(* A write of the tuple log raises (OSError) in _handle.                   *)
LogWriteFails(l) ==
  /\ worker[l] = "run" \/ (worker[l] = "emit" /\ todo[l] # <<>>)
  /\ faults < MaxFaults
  /\ faults' = faults + 1
  /\ Die(l)
  /\ UNCHANGED <<lanes, queue, closed, seed, next, pass, at, started, status>>

------------------------------------------------------------------------------
Main == PublishSeed \/ SeedPublished \/ Drain \/ CloseLane \/ CloseDone \/ WorkersGathered

Work(l) ==
  \/ Take(l) \/ TakeSentinel(l) \/ Fail(l) \/ Complete(l)
  \/ Emit(l) \/ EmitBlocks(l) \/ PutResumes(l) \/ EmitOnClosed(l) \/ Handled(l)

Next ==
  \/ Main
  \/ StartWorker
  \/ \E l \in Lanes : Work(l) \/ LogWriteFails(l)

(* The event loop runs every ready coroutine; executors are assumed to     *)
(* return.                                                                 *)
Fairness ==
  /\ WF_vars(Main)
  /\ WF_vars(StartWorker)
  /\ \A l \in Lanes : WF_vars(Work(l))

Spec == Init /\ [][Next]_vars
FairSpec == Spec /\ Fairness

------------------------------------------------------------------------------
(* What SprintFlow guarantees of its calls: every root tuple is on the     *)
(* first lane, and a follow-up is on a later lane than its parent, so that *)
(* the lanes come into being in the order of the pipeline.                 *)
SeedsAtHead == Pool # <<>> /\ \A t \in SeedSet : LaneOf[t] = Pool[1]

FlowsForward ==
  \A t \in Tuples : \E i \in DOMAIN Pool :
    /\ LaneOf[t] = Pool[i]
    /\ \A k \in DOMAIN FollowUps[t] :
         \E j \in DOMAIN Pool : i < j /\ LaneOf[FollowUps[t][k]] = Pool[j]

Pipelined == SeedsAtHead /\ FlowsForward

Holds(l, t) == \E i \in DOMAIN queue[l] : queue[l][i] = t

(* No tuple waits in lane l and its worker has none in hand.               *)
Quiet(l) == worker[l] \notin Busy /\ \A t \in Tuples : ~Holds(l, t)

(* drain walks the lanes one after another and never looks back, yet in a  *)
(* pipelined call it closes the bus only when no tuple is left anywhere:   *)
(* none waits, and no worker holds one that could still have follow-ups.   *)
NoEarlyClose == closed /\ Pipelined => \A l \in Lanes : Quiet(l)

(* The tuples of a sprint are its items on the lanes; two items are alike  *)
(* when they go through the same ones (sprint_flow.py:430-448).            *)
T(item, lane) == <<item, lane>>
Manned == {Pool[i] : i \in DOMAIN Pool}
Itemised ==
  \A t \in Tuples :
    t = T(t[1], LaneOf[t]) /\ \A k \in DOMAIN FollowUps[t] : FollowUps[t][k][1] = t[1]
Alike(x, y) ==
  \A l \in Manned :
    /\ {T(x, l), T(y, l)} \subseteq Tuples
    /\ DOMAIN FollowUps[T(x, l)] = DOMAIN FollowUps[T(y, l)]
    /\ \A k \in DOMAIN FollowUps[T(x, l)] :
         LaneOf[FollowUps[T(x, l)][k]] = LaneOf[FollowUps[T(y, l)][k]]

(* The tuples still to be published; a tuple a worker of this call took;   *)
(* an item whose way to a lane has ended before it.                        *)
Due == {seed[i] : i \in next..Len(seed)}
Taken(t) == status[t] \notin {"absent", "emitted"} /\ t \notin Due /\ ~Holds(LaneOf[t], t)
Stopped(item, lane) ==
  \E i, j \in DOMAIN Pool : i < j /\ Pool[j] = lane /\
    (status[T(item, Pool[i])] \in {"err", "err.budget"} \/ worker[Pool[i]] = "dead")

(* One worker per lane keeps the order of the sprint: of two items that    *)
(* are alike the second is not taken at a lane before the first, unless    *)
(* the first cannot get there.                                             *)
InSprintOrder ==
  Pipelined /\ Itemised => \A i, j \in DOMAIN seed :
    i < j /\ Alike(seed[i][1], seed[j][1]) => \A l \in Manned :
      Taken(T(seed[j][1], l)) => Taken(T(seed[i][1], l)) \/ Stopped(seed[i][1], l)

(* Every unfinished item is waiting or in a worker's hand; if the count    *)
(* ran ahead the drain would hang, if it fell behind it would close early. *)
InHand(l) == IF worker[l] \in Busy THEN 1 ELSE 0
Accounted == \A l \in Lanes : unfinished[l] = Len(queue[l]) + InHand(l)

(* A call with something to publish returns, unless a worker died: a       *)
(* bounded lane never blocks the pipeline for good.                        *)
Terminates == seed # <<>> => <>(main = "idle" \/ \E l \in Lanes : worker[l] = "dead")

(* After run_worker_pool has replayed the pending tuples of a log, none is *)
(* pending (tests/test_yool_runtime.py:235; resume_run's docstring).  A    *)
(* seed whose lanes come into being out of pipeline order refutes it.      *)
NonePendingAfterReplay ==
  main = "idle" /\ faults = 0 => \A t \in Tuples : status[t] \notin {"emitted", "consumed"}

(* The contract of the log, which this call implements for any seed.       *)
Lifecycle == INSTANCE TupleLifecycle WITH idle <- main = "idle"
ImplementsLifecycle == Lifecycle!Spec
===============================================================================
