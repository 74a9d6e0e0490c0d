------------------------------ MODULE PythonWorker ------------------------------
(***************************************************************************)
(* The asyncio worker (workers/python_worker.py): every command becomes a  *)
(* task of the loop that waits for a semaphore and awaits the executor     *)
(* under a timeout.  A step is what runs between two awaits.  The executor *)
(* is the caller's coroutine: it may return, raise, or answer a            *)
(* cancellation as it likes.                                               *)
(***************************************************************************)
EXTENDS Integers, Sequences, FiniteSets

CONSTANTS
  Runs,           \* run ids
  MaxConcurrency, \* max_concurrency
  QueueSize,      \* queue_size
  MaxTasks,       \* bound on commands
  MaxStarts       \* bound on starts

ASSUME PythonWorkerAssumption ==
  MaxConcurrency \in Nat \ {0} /\ {QueueSize, MaxTasks, MaxStarts} \subseteq Nat

VARIABLES
  started,  \* _started
  life,     \* which semaphore _semaphore is
  tasks,    \* every WorkerTask ever made
  tracked   \* _tasks: the task a run id names, or 0

workerVars == <<started, life, tasks, tracked>>

TaskState == {"queued", "running", "completed", "failed", "cancelled"}
Terminal == {"completed", "failed", "cancelled"}

(* Where the coroutine is, and the semaphore it waits for or holds.        *)
Task ==
  [run : Runs, state : TaskState,
   at : {"created", "waiting", "executing", "expiring", "cancelling", "over"}, sem : 0..MaxStarts]

PythonWorkerTypeOK ==
  /\ started \in BOOLEAN /\ life \in 0..MaxStarts
  /\ tasks \in Seq(Task) /\ Len(tasks) <= MaxTasks
  /\ tracked \in [Runs -> 0..Len(tasks)]

PythonWorkerInit ==
  /\ started = FALSE /\ life = 0
  /\ tasks = <<>> /\ tracked = [r \in Runs |-> 0]

Tracked == {tracked[r] : r \in Runs} \ {0}
Holders(s) == {t \in DOMAIN tasks : tasks[t].at \in {"executing", "expiring", "cancelling"} /\ tasks[t].sem = s}
Waiters(s) == {t \in DOMAIN tasks : tasks[t].at = "waiting" /\ tasks[t].sem = s}

------------------------------------------------------------------------------
StartWorker ==
  /\ ~started /\ life < MaxStarts
  /\ started' = TRUE /\ life' = life + 1
  /\ UNCHANGED <<tasks, tracked>>

(* cancel() of a task: its state at once, its coroutine at its next step.  *)
(* One that has not reached the executor never will.                       *)
Cancelled(task) ==
  [task EXCEPT !.state = "cancelled",
               !.at = IF @ \in {"executing", "expiring"} THEN "cancelling"
                      ELSE IF @ \in {"created", "waiting"} THEN "over" ELSE @]

(* Mutant of StopWorker: it cancels what is running.                       *)
StopWorkerRunning ==
  /\ started
  /\ tasks' = [t \in DOMAIN tasks |->
                 IF t \in Tracked /\ tasks[t].state = "running" THEN Cancelled(tasks[t]) ELSE tasks[t]]
  /\ started' = FALSE
  /\ UNCHANGED <<life, tracked>>

StopWorker ==
  /\ started
  /\ tasks' = [t \in DOMAIN tasks |->
                 IF t \in Tracked /\ tasks[t].state \notin Terminal THEN Cancelled(tasks[t]) ELSE tasks[t]]
  /\ started' = FALSE
  /\ UNCHANGED <<life, tracked>>

(* A command for a run id that is tracked takes the place of the older     *)
(* task, which goes on out of sight.                                       *)
Queue(r) ==
  /\ started
  /\ Cardinality({t \in Tracked : tasks[t].state = "queued"}) < QueueSize
  /\ Len(tasks) < MaxTasks
  /\ tasks' = Append(tasks, [run |-> r, state |-> "queued", at |-> "created", sem |-> 0])
  /\ tracked' = [tracked EXCEPT ![r] = Len(tasks')]
  /\ UNCHANGED <<started, life>>

CancelRun(r) ==
  /\ tracked[r] # 0 /\ tasks[tracked[r]].state \notin Terminal
  /\ tasks' = [tasks EXCEPT ![tracked[r]] = Cancelled(@)]
  /\ UNCHANGED <<started, life, tracked>>

------------------------------------------------------------------------------
Enter(t, s) == tasks' = [tasks EXCEPT ![t].state = "running", ![t].at = "executing", ![t].sem = s]

(* The first step takes the semaphore of that moment, or queues for it;    *)
(* tasks take their first steps in the order they were made.               *)
Begin(t) ==
  /\ tasks[t].at = "created"
  /\ \A u \in 1..t - 1 : tasks[u].at # "created"
  /\ IF Cardinality(Holders(life)) < MaxConcurrency /\ Waiters(life) = {}
       THEN Enter(t, life)
       ELSE tasks' = [tasks EXCEPT ![t].at = "waiting", ![t].sem = life]
  /\ UNCHANGED <<started, life, tracked>>

(* A semaphore wakes its waiters in order.                                 *)
Acquire(t) ==
  /\ tasks[t].at = "waiting"
  /\ Cardinality(Holders(tasks[t].sem)) < MaxConcurrency
  /\ \A u \in Waiters(tasks[t].sem) : t <= u
  /\ Enter(t, tasks[t].sem)
  /\ UNCHANGED <<started, life, tracked>>

Settles(t, how) ==
  /\ tasks' = [tasks EXCEPT ![t].state = how, ![t].at = "over"]
  /\ UNCHANGED <<started, life, tracked>>

(* wait_for: the time is up, and the executor is being cancelled for it.   *)
Expire(t) ==
  /\ tasks[t].at = "executing"
  /\ tasks' = [tasks EXCEPT ![t].at = "expiring"]
  /\ UNCHANGED <<started, life, tracked>>

(* The executor returns, or raises; CancelledError is one it may raise by  *)
(* itself.  Asked to stop, it may return all the same, or raise an error   *)
(* of its own: the state then says so, over the cancellation.              *)
ExecutorReturns(t) == tasks[t].at \in {"executing", "expiring", "cancelling"} /\ Settles(t, "completed")
ExecutorRaises(t) == tasks[t].at \in {"executing", "expiring", "cancelling"} /\ Settles(t, "failed")
ExecutorStops(t) ==
  \/ tasks[t].at = "expiring" /\ Settles(t, "failed")
  \/ tasks[t].at \in {"executing", "cancelling"} /\ Settles(t, "cancelled")

WorkerTaskNext(t) ==
  Begin(t) \/ Acquire(t) \/ Expire(t) \/ ExecutorReturns(t) \/ ExecutorRaises(t) \/ ExecutorStops(t)

PythonWorkerNext ==
  \/ StartWorker \/ StopWorker
  \/ \E r \in Runs : Queue(r) \/ CancelRun(r)
  \/ \E t \in DOMAIN tasks : WorkerTaskNext(t)

PythonWorkerSpec == PythonWorkerInit /\ [][PythonWorkerNext]_workerVars

------------------------------------------------------------------------------
(* After stop no run that status() lists is queued or running; and at any  *)
(* time a task whose coroutine is over has settled, a task has settled     *)
(* before its coroutine is over only when it was cancelled, and each life  *)
(* of the worker has at most max_concurrency executors at work, those of   *)
(* replaced tasks included.                                                *)
NothingLeftBehind ==
  /\ ~started => \A t \in Tracked : tasks[t].state \in Terminal
  /\ \A t \in DOMAIN tasks :
       /\ tasks[t].at = "over" => tasks[t].state \in Terminal
       /\ tasks[t].state \in Terminal => tasks[t].at = "over" \/ tasks[t].state = "cancelled"
  /\ \A s \in 0..MaxStarts : Cardinality(Holders(s)) <= MaxConcurrency
================================================================================
