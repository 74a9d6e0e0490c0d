----------------------------- MODULE Runtime_proofs -----------------------------
(***************************************************************************)
(* What the runtime keeps in queues and on disk: the native worker leaves  *)
(* no run behind that looks alive, the event log keeps what it             *)
(* acknowledged, the operator's commands are on the record, the cache and  *)
(* budget of a tool hold, the ledger of a dispatcher is what its receipts  *)
(* cost, the memory of a repository adds up, and two walks of a rollback   *)
(* undo a run; all parts of MCRuntime together are well typed.             *)
(***************************************************************************)
EXTENDS MCRuntime, Views_proofs

------------------------------------------------------------------------------
(* The native worker, for any run ids, limits and numbers of tasks.        *)
TypedInv ==
  /\ started \in BOOLEAN /\ life \in 0..MaxStarts
  /\ tasks \in Seq(Task)
  /\ tracked \in [Runs -> 0..Len(tasks)]

(* What the state of a task says of its coroutine.                         *)
Corresponds(task) ==
  /\ task.at \in {"created", "waiting"} => task.state = "queued"
  /\ task.at \in {"executing", "expiring"} => task.state = "running"
  /\ task.at = "cancelling" => task.state = "cancelled"
  /\ task.at = "over" => task.state \in Terminal

CoroutineInv == \A t \in DOMAIN tasks : Corresponds(tasks[t])

StoppedInv == ~started => \A t \in Tracked : tasks[t].state \in Terminal

SemaphoreInv == \A s \in 0..MaxStarts : Cardinality(Holders(s)) <= MaxConcurrency

WorkerInv == TypedInv /\ CoroutineInv /\ StoppedInv /\ SemaphoreInv

(* A cancelled task is typed, corresponds, and holds the same semaphore.   *)
LEMMA CancelledTask ==
  ASSUME NEW task \in Task, Corresponds(task)
  PROVE  /\ Cancelled(task) \in Task /\ Corresponds(Cancelled(task))
         /\ Cancelled(task).state = "cancelled" /\ Cancelled(task).sem = task.sem
         /\ Cancelled(task).at \in {"executing", "expiring", "cancelling"} =>
              task.at \in {"executing", "expiring", "cancelling"}
<1> DEFINE next == IF task.at \in {"executing", "expiring"} THEN "cancelling"
                   ELSE IF task.at \in {"created", "waiting"} THEN "over" ELSE task.at
<1>1. next \in {"cancelling", "over"} /\ (next = "cancelling" => task.at \in {"executing", "expiring", "cancelling"})
  BY DEF Task
<1>2. Cancelled(task) = [task EXCEPT !.state = "cancelled", !.at = next]
  BY DEF Cancelled
<1> HIDE DEF next
<1>3. /\ Cancelled(task) \in Task
      /\ Cancelled(task).state = "cancelled" /\ Cancelled(task).sem = task.sem /\ Cancelled(task).at = next
  BY <1>1, <1>2 DEF Task, TaskState
<1> QED
  BY <1>1, <1>3 DEF Corresponds, Terminal

(* Who holds a semaphore is a task, and tasks are finitely many.           *)
LEMMA HoldersFinite ==
  ASSUME TypedInv, NEW s
  PROVE  IsFiniteSet(Holders(s))
<1>1. Len(tasks) \in Nat /\ DOMAIN tasks = 1..Len(tasks)
  BY DEF TypedInv
<1>2. IsFiniteSet(1..Len(tasks))
  BY <1>1, FS_Interval
<1> QED
  BY <1>1, <1>2, FS_Subset DEF Holders

(* Where nobody enters, the semaphores hold.                               *)
LEMMA NobodyEnters ==
  ASSUME TypedInv, SemaphoreInv, \A s \in 0..MaxStarts : Holders(s)' \subseteq Holders(s)
  PROVE  SemaphoreInv'
<1> SUFFICES ASSUME NEW s \in 0..MaxStarts PROVE Cardinality(Holders(s)') <= MaxConcurrency
  BY DEF SemaphoreInv
<1>1. IsFiniteSet(Holders(s)) /\ IsFiniteSet(Holders(s)')
  BY HoldersFinite, FS_Subset
<1>2. Cardinality(Holders(s)') <= Cardinality(Holders(s))
  BY <1>1, FS_Subset
<1>3. Cardinality(Holders(s)) <= MaxConcurrency
  BY DEF SemaphoreInv
<1>4. Cardinality(Holders(s)) \in Nat /\ Cardinality(Holders(s)') \in Nat /\ MaxConcurrency \in Nat
  BY <1>1, FS_CardinalityType, PythonWorkerAssumption
<1> QED
  BY <1>2, <1>3, <1>4

(* One enters where there was room.                                        *)
LEMMA OneEnters ==
  ASSUME TypedInv, SemaphoreInv, NEW t, NEW semaphore \in 0..MaxStarts,
         Cardinality(Holders(semaphore)) < MaxConcurrency,
         Holders(semaphore)' \subseteq Holders(semaphore) \cup {t},
         \A s \in 0..MaxStarts \ {semaphore} : Holders(s)' \subseteq Holders(s)
  PROVE  SemaphoreInv'
<1> SUFFICES ASSUME NEW s \in 0..MaxStarts PROVE Cardinality(Holders(s)') <= MaxConcurrency
  BY DEF SemaphoreInv
<1>1. IsFiniteSet(Holders(s)) /\ MaxConcurrency \in Nat
  BY HoldersFinite, PythonWorkerAssumption
<1>2. Cardinality(Holders(s)) \in Nat /\ Cardinality(Holders(s)) <= MaxConcurrency
  BY <1>1, FS_CardinalityType DEF SemaphoreInv
<1>3. CASE s # semaphore
  <2>1. Holders(s)' \subseteq Holders(s)
    BY <1>3
  <2>2. Cardinality(Holders(s)') <= Cardinality(Holders(s)) /\ Cardinality(Holders(s)') \in Nat
    BY <1>1, <2>1, FS_Subset, FS_CardinalityType
  <2> QED
    BY <1>1, <1>2, <2>2
<1>4. CASE s = semaphore
  <2>1. /\ IsFiniteSet(Holders(s) \cup {t})
        /\ Cardinality(Holders(s) \cup {t}) <= Cardinality(Holders(s)) + 1
    <3>1. /\ IsFiniteSet(Holders(s) \cup {t})
          /\ \/ Cardinality(Holders(s) \cup {t}) = Cardinality(Holders(s))
             \/ Cardinality(Holders(s) \cup {t}) = Cardinality(Holders(s)) + 1
      BY <1>1, FS_AddElement
    <3> QED
      BY <1>2, <3>1
  <2>2. Holders(s)' \subseteq Holders(s) \cup {t}
    BY <1>4
  <2>3. IsFiniteSet(Holders(s)') /\ Cardinality(Holders(s)') <= Cardinality(Holders(s) \cup {t})
    BY <2>1, <2>2, FS_Subset
  <2>4. Cardinality(Holders(s)') \in Nat /\ Cardinality(Holders(s) \cup {t}) \in Nat
    BY <2>1, <2>3, FS_CardinalityType
  <2> QED
    BY <1>1, <1>2, <1>4, <2>1, <2>3, <2>4
<1> QED
  BY <1>3, <1>4

(* Tasks that change their states and ends, and hold no more than before:  *)
(* what a step does that lets nobody in.                                   *)
LEMMA SameTasks ==
  ASSUME WorkerInv,
         Len(tasks') = Len(tasks), tasks' \in Seq(Task), UNCHANGED <<life, tracked>>, started' \in BOOLEAN,
         \A t \in DOMAIN tasks :
           /\ Corresponds(tasks'[t])
           /\ tasks[t].state \in Terminal => tasks'[t].state \in Terminal
           /\ tasks'[t].at \in {"executing", "expiring", "cancelling"} =>
                tasks[t].at \in {"executing", "expiring", "cancelling"} /\ tasks'[t].sem = tasks[t].sem,
         started' = started \/ \A t \in Tracked : tasks'[t].state \in Terminal
  PROVE  WorkerInv'
<1> USE DEF WorkerInv
<1>1. DOMAIN tasks' = DOMAIN tasks /\ DOMAIN tasks = 1..Len(tasks)
  BY DEF TypedInv
<1>2. TypedInv'
  BY DEF TypedInv
<1>3. CoroutineInv'
  BY <1>1 DEF CoroutineInv
<1>4. Tracked' = Tracked /\ Tracked \subseteq DOMAIN tasks
  BY <1>1 DEF Tracked, TypedInv
<1>5. StoppedInv'
  BY <1>4 DEF StoppedInv
<1>6. \A s \in 0..MaxStarts : Holders(s)' \subseteq Holders(s)
  BY <1>1 DEF Holders
<1>7. SemaphoreInv'
  BY <1>6, NobodyEnters
<1> QED
  BY <1>2, <1>3, <1>5, <1>7

(* cancel and stop (python_worker.py): what they reach is cancelled.       *)
LEMMA WorkerInvCancels ==
  ASSUME WorkerInv, NEW reached \in SUBSET Tracked, UNCHANGED <<life, tracked>>, started' \in BOOLEAN,
         \A t \in reached : tasks[t].state \notin Terminal,
         tasks' = [t \in DOMAIN tasks |-> IF t \in reached THEN Cancelled(tasks[t]) ELSE tasks[t]],
         started' = started \/ \A t \in Tracked : tasks[t].state \in Terminal \/ t \in reached
  PROVE  WorkerInv'
<1> USE DEF WorkerInv
<1>1. DOMAIN tasks = 1..Len(tasks) /\ Len(tasks) \in Nat /\ \A t \in DOMAIN tasks : tasks[t] \in Task
  BY DEF TypedInv
<1>2. Tracked \subseteq DOMAIN tasks
  BY <1>1 DEF Tracked, TypedInv
<1>3. ASSUME NEW t \in DOMAIN tasks, t \in reached
      PROVE  /\ tasks'[t] \in Task /\ Corresponds(tasks'[t]) /\ tasks'[t].state = "cancelled"
             /\ tasks'[t].sem = tasks[t].sem
             /\ tasks'[t].at \in {"executing", "expiring", "cancelling"} =>
                  tasks[t].at \in {"executing", "expiring", "cancelling"}
  <2>1. tasks'[t] = Cancelled(tasks[t]) /\ tasks[t] \in Task /\ Corresponds(tasks[t])
    BY <1>1, <1>3 DEF CoroutineInv
  <2> QED
    BY <2>1, CancelledTask
<1>4. ASSUME NEW t \in DOMAIN tasks, t \notin reached PROVE tasks'[t] = tasks[t]
  BY <1>4
<1>5. \A t \in DOMAIN tasks : tasks'[t] \in Task
  BY <1>1, <1>3, <1>4
<1>6. tasks' \in [1..Len(tasks) -> Task]
  BY <1>1, <1>5
<1>7. tasks' \in Seq(Task) /\ Len(tasks') = Len(tasks)
  BY <1>1, <1>6
<1>8. \A t \in DOMAIN tasks : Corresponds(tasks'[t])
  BY <1>3, <1>4 DEF CoroutineInv
<1>9. \A t \in DOMAIN tasks :
        /\ tasks[t].state \in Terminal => tasks'[t].state \in Terminal
        /\ tasks'[t].at \in {"executing", "expiring", "cancelling"} =>
             tasks[t].at \in {"executing", "expiring", "cancelling"} /\ tasks'[t].sem = tasks[t].sem
  BY <1>3, <1>4 DEF Terminal
<1>10. started' = started \/ \A t \in Tracked : tasks'[t].state \in Terminal
  BY <1>2, <1>3, <1>4 DEF Terminal
<1> QED
  BY <1>7, <1>8, <1>9, <1>10, SameTasks

(* stop cancels every task that status() lists as alive.                   *)
LEMMA WorkerInvStop == ASSUME WorkerInv, StopWorker PROVE WorkerInv'
<1> DEFINE reached == {t \in Tracked : tasks[t].state \notin Terminal}
<1>1. tasks' = [t \in DOMAIN tasks |-> IF t \in reached THEN Cancelled(tasks[t]) ELSE tasks[t]]
  BY DEF StopWorker
<1>2. UNCHANGED <<life, tracked>> /\ started' \in BOOLEAN
  BY DEF StopWorker
<1>3. \A t \in Tracked : tasks[t].state \in Terminal \/ t \in reached
  OBVIOUS
<1> QED
  BY <1>1, <1>2, <1>3, WorkerInvCancels

(* cancel reaches the task its run id names.                               *)
LEMMA WorkerInvCancel == ASSUME WorkerInv, NEW r \in Runs, CancelRun(r) PROVE WorkerInv'
<1> DEFINE reached == {tracked[r]}
<1>1. tracked[r] \in Tracked /\ tasks[tracked[r]].state \notin Terminal
  BY DEF CancelRun, Tracked
<1>2. tasks' = [t \in DOMAIN tasks |-> IF t \in reached THEN Cancelled(tasks[t]) ELSE tasks[t]]
  BY DEF CancelRun
<1>3. UNCHANGED <<life, tracked, started>> /\ started' \in BOOLEAN
  BY DEF CancelRun, WorkerInv, TypedInv
<1>4. reached \in SUBSET Tracked /\ \A t \in reached : tasks[t].state \notin Terminal
  BY <1>1
<1> QED
  BY <1>2, <1>3, <1>4, WorkerInvCancels

(* A started worker, and a new task out of the reach of older ones.        *)
LEMMA WorkerInvQueue ==
  ASSUME WorkerInv, StartWorker \/ \E r \in Runs : Queue(r)
  PROVE  WorkerInv'
<1> USE DEF WorkerInv
<1>1. CASE StartWorker
  <2>1. UNCHANGED <<tasks, tracked>> /\ started' = TRUE /\ life' \in 0..MaxStarts
    BY <1>1, PythonWorkerAssumption DEF StartWorker, TypedInv
  <2>2. \A s \in 0..MaxStarts : Holders(s)' \subseteq Holders(s)
    BY <2>1 DEF Holders
  <2>3. SemaphoreInv'
    BY <2>2, NobodyEnters
  <2> QED
    BY <2>1, <2>3 DEF TypedInv, CoroutineInv, StoppedInv
<1>2. ASSUME NEW r \in Runs, Queue(r) PROVE WorkerInv'
  <2> DEFINE new == [run |-> r, state |-> "queued", at |-> "created", sem |-> 0]
             last == Len(tasks) + 1
  <2>1. UNCHANGED <<started, life>> /\ started = TRUE
    BY <1>2 DEF Queue, TypedInv
  <2>2. new \in Task /\ Corresponds(new)
    BY PythonWorkerAssumption DEF Task, TaskState, Corresponds
  <2>3. /\ tasks' \in Seq(Task) /\ Len(tasks') = last /\ Len(tasks) \in Nat
        /\ DOMAIN tasks' = 1..last /\ DOMAIN tasks = 1..Len(tasks)
        /\ tasks'[last] = new /\ \A t \in DOMAIN tasks : tasks'[t] = tasks[t]
    BY <1>2, <2>2 DEF Queue, TypedInv
  <2>4. tracked' \in [Runs -> 0..Len(tasks')]
    BY <1>2, <2>3 DEF Queue, TypedInv
  <2>5. TypedInv'
    BY <2>1, <2>3, <2>4 DEF TypedInv
  <2>6. CoroutineInv'
    BY <2>2, <2>3 DEF CoroutineInv
  <2>7. \A s \in 0..MaxStarts : Holders(s)' \subseteq Holders(s)
    BY <2>3 DEF Holders
  <2>8. SemaphoreInv'
    BY <2>7, NobodyEnters
  <2> QED
    BY <2>1, <2>5, <2>6, <2>8 DEF StoppedInv
<1> QED
  BY <1>1, <1>2

(* One task moves on: what the coroutine of a task may do to it.           *)
LEMMA OneTaskMoves ==
  ASSUME WorkerInv, NEW t \in DOMAIN tasks, NEW new \in Task, Corresponds(new),
         tasks' = [tasks EXCEPT ![t] = new], UNCHANGED <<started, life, tracked>>,
         tasks[t].state \in Terminal => new.state \in Terminal,
         new.at \in {"executing", "expiring", "cancelling"} =>
           \/ tasks[t].at \in {"executing", "expiring", "cancelling"} /\ new.sem = tasks[t].sem
           \/ tasks[t].at \in {"created", "waiting"} /\ Cardinality(Holders(new.sem)) < MaxConcurrency
  PROVE  WorkerInv'
<1> USE DEF WorkerInv
<1>1. /\ tasks' \in Seq(Task) /\ Len(tasks') = Len(tasks) /\ DOMAIN tasks' = DOMAIN tasks
      /\ tasks'[t] = new /\ \A u \in DOMAIN tasks \ {t} : tasks'[u] = tasks[u]
  BY DEF TypedInv
<1>2. TypedInv'
  BY <1>1 DEF TypedInv
<1>3. CoroutineInv'
  BY <1>1 DEF CoroutineInv
<1>4. Tracked' = Tracked /\ Tracked \subseteq DOMAIN tasks
  BY <1>1 DEF Tracked, TypedInv
<1>5. StoppedInv'
  BY <1>1, <1>4 DEF StoppedInv
<1>6. \A s \in 0..MaxStarts : Holders(s)' \subseteq Holders(s) \cup {t}
  BY <1>1 DEF Holders
<1>7. \A s \in 0..MaxStarts \ {new.sem} : Holders(s)' \subseteq Holders(s)
  BY <1>1 DEF Holders
<1>8. new.sem \in 0..MaxStarts
  BY DEF Task
<1>9. SemaphoreInv'
  <2>1. CASE Cardinality(Holders(new.sem)) < MaxConcurrency
    BY <1>6, <1>7, <1>8, <2>1, OneEnters
  <2>2. CASE ~(Cardinality(Holders(new.sem)) < MaxConcurrency)
    <3>1. new.at \in {"executing", "expiring", "cancelling"} =>
            tasks[t].at \in {"executing", "expiring", "cancelling"} /\ new.sem = tasks[t].sem
      BY <2>2
    <3>2. \A s \in 0..MaxStarts : Holders(s)' \subseteq Holders(s)
      BY <1>1, <3>1 DEF Holders
    <3> QED
      BY <3>2, NobodyEnters
  <2> QED
    BY <2>1, <2>2
<1> QED
  BY <1>2, <1>3, <1>5, <1>9

(* A task takes its first step, or the semaphore wakes it: it waits, or it *)
(* enters where there is room (python_worker.py, async with).              *)
LEMMA WorkerInvEntry ==
  ASSUME WorkerInv, NEW t \in DOMAIN tasks, Begin(t) \/ Acquire(t)
  PROVE  WorkerInv'
<1>1. tasks[t] \in Task /\ Corresponds(tasks[t]) /\ life \in 0..MaxStarts
  BY DEF WorkerInv, TypedInv, CoroutineInv
<1>2. tasks[t].at \in {"created", "waiting"} /\ tasks[t].state = "queued" /\ tasks[t].sem \in 0..MaxStarts
  BY <1>1 DEF Begin, Acquire, Corresponds, Task
<1>3. tasks[t].state \notin Terminal
  BY <1>2 DEF Terminal
<1>4. ASSUME NEW s \in 0..MaxStarts, Cardinality(Holders(s)) < MaxConcurrency, Enter(t, s),
             UNCHANGED <<started, life, tracked>>
      PROVE  WorkerInv'
  <2> DEFINE new == [tasks[t] EXCEPT !.state = "running", !.at = "executing", !.sem = s]
  <2>1. new \in Task
    BY <1>1 DEF Task, TaskState
  <2>2. Corresponds(new) /\ new.sem = s
    BY <1>1 DEF Corresponds, Task
  <2>3. tasks' = [tasks EXCEPT ![t] = new]
    BY <1>1, <1>4 DEF Enter, Task
  <2> HIDE DEF new
  <2> QED
    BY <1>2, <1>3, <1>4, <2>1, <2>2, <2>3, OneTaskMoves
<1>5. ASSUME tasks' = [tasks EXCEPT ![t].at = "waiting", ![t].sem = life],
             UNCHANGED <<started, life, tracked>>
      PROVE  WorkerInv'
  <2> DEFINE new == [tasks[t] EXCEPT !.at = "waiting", !.sem = life]
  <2>1. new \in Task
    BY <1>1 DEF Task, TaskState
  <2>2. Corresponds(new) /\ new.at = "waiting"
    BY <1>1, <1>2 DEF Corresponds, Task
  <2>3. tasks' = [tasks EXCEPT ![t] = new]
    BY <1>1, <1>5 DEF Task
  <2> HIDE DEF new
  <2> QED
    BY <1>3, <1>5, <2>1, <2>2, <2>3, OneTaskMoves
<1>6. UNCHANGED <<started, life, tracked>>
  BY DEF Begin, Acquire
<1>7. CASE Begin(t)
  BY <1>1, <1>4, <1>5, <1>6, <1>7 DEF Begin
<1>8. CASE Acquire(t)
  BY <1>2, <1>4, <1>6, <1>8 DEF Acquire
<1> QED
  BY <1>7, <1>8

(* The time is up for an executor.                                         *)
LEMMA WorkerInvExpire == ASSUME WorkerInv, NEW t \in DOMAIN tasks, Expire(t) PROVE WorkerInv'
<1> DEFINE new == [tasks[t] EXCEPT !.at = "expiring"]
<1>1. tasks[t] \in Task /\ Corresponds(tasks[t]) /\ tasks[t].at = "executing"
  BY DEF WorkerInv, TypedInv, CoroutineInv, Expire
<1>2. new \in Task /\ new.at = "expiring" /\ new.state = tasks[t].state /\ new.sem = tasks[t].sem
  BY <1>1 DEF Task
<1>3. Corresponds(new)
  BY <1>1, <1>2 DEF Corresponds
<1>4. tasks' = [tasks EXCEPT ![t] = new] /\ UNCHANGED <<started, life, tracked>>
  BY <1>1 DEF Expire, Task
<1> HIDE DEF new
<1> QED
  BY <1>1, <1>2, <1>3, <1>4, OneTaskMoves

(* An executor ends: its task settles, and lets go of the semaphore.       *)
LEMMA WorkerInvSettles ==
  ASSUME WorkerInv, NEW t \in DOMAIN tasks, NEW how \in Terminal, Settles(t, how)
  PROVE  WorkerInv'
<1> DEFINE new == [tasks[t] EXCEPT !.state = how, !.at = "over"]
<1>1. tasks[t] \in Task
  BY DEF WorkerInv, TypedInv
<1>2. new \in Task /\ new.at = "over" /\ new.state = how
  BY <1>1 DEF Task, TaskState, Terminal
<1>3. Corresponds(new)
  BY <1>2 DEF Corresponds
<1>4. tasks' = [tasks EXCEPT ![t] = new] /\ UNCHANGED <<started, life, tracked>>
  BY <1>1 DEF Settles, Task
<1> HIDE DEF new
<1> QED
  BY <1>2, <1>3, <1>4, OneTaskMoves

(* At first there is no task, and no semaphore.                            *)
LEMMA WorkerInvInit == PythonWorkerInit => WorkerInv
<1> SUFFICES ASSUME PythonWorkerInit PROVE WorkerInv
  OBVIOUS
<1>1. tasks = <<>> /\ tasks \in Seq(Task) /\ Len(tasks) = 0 /\ DOMAIN tasks = {}
  BY DEF PythonWorkerInit
<1>2. tracked \in [Runs -> 0..Len(tasks)]
  BY <1>1 DEF PythonWorkerInit
<1>3. TypedInv
  <2>1. started \in BOOLEAN
    BY DEF PythonWorkerInit
  <2>2. life = 0 /\ MaxStarts \in Nat
    BY PythonWorkerAssumption DEF PythonWorkerInit
  <2>3. life \in 0..MaxStarts
    BY <2>2
  <2> QED
    BY <1>1, <1>2, <2>1, <2>3 DEF TypedInv
<1>4. Tracked = {}
  BY DEF PythonWorkerInit, Tracked
<1>5. \A s : Holders(s) = {}
  BY <1>1 DEF Holders
<1>6. SemaphoreInv
  BY <1>5, FS_EmptySet, PythonWorkerAssumption DEF SemaphoreInv
<1> QED
  BY <1>1, <1>3, <1>4, <1>6 DEF WorkerInv, CoroutineInv, StoppedInv

(* Every step of the worker keeps the invariant.                           *)
LEMMA WorkerInvNext == WorkerInv /\ [PythonWorkerNext]_workerVars => WorkerInv'
<1> SUFFICES ASSUME WorkerInv, [PythonWorkerNext]_workerVars PROVE WorkerInv'
  OBVIOUS
<1>1. CASE StopWorker
  BY <1>1, WorkerInvStop
<1>2. CASE StartWorker \/ \E r \in Runs : Queue(r)
  BY <1>2, WorkerInvQueue
<1>3. ASSUME NEW r \in Runs, CancelRun(r) PROVE WorkerInv'
  BY <1>3, WorkerInvCancel
<1>4. ASSUME NEW t \in DOMAIN tasks, WorkerTaskNext(t) PROVE WorkerInv'
  <2>1. CASE Begin(t) \/ Acquire(t)
    BY <2>1, WorkerInvEntry
  <2>2. CASE Expire(t)
    BY <2>2, WorkerInvExpire
  <2>3. CASE ExecutorReturns(t) \/ ExecutorRaises(t) \/ ExecutorStops(t)
    <3>1. \E how \in Terminal : Settles(t, how)
      BY <2>3 DEF ExecutorReturns, ExecutorRaises, ExecutorStops, Terminal
    <3> QED
      BY <3>1, WorkerInvSettles
  <2> QED
    BY <1>4, <2>1, <2>2, <2>3 DEF WorkerTaskNext
<1>5. CASE UNCHANGED workerVars
  BY <1>5 DEF workerVars, WorkerInv, TypedInv, CoroutineInv, StoppedInv, SemaphoreInv, Tracked, Holders
<1> QED
  BY <1>1, <1>2, <1>3, <1>4, <1>5 DEF PythonWorkerNext

(* After stop no run that status() lists looks alive, a task's state says  *)
(* whether its coroutine is over, and each life of the worker has at most  *)
(* max_concurrency executors, whatever the order of commands, timeouts,    *)
(* cancellations and restarts.                                             *)
THEOREM NothingLeftBehindKept == PythonWorkerSpec => []NothingLeftBehind
<1>1. WorkerInv => NothingLeftBehind
  <2> SUFFICES ASSUME WorkerInv PROVE NothingLeftBehind
    OBVIOUS
  <2>1. ASSUME NEW t \in DOMAIN tasks
        PROVE  /\ tasks[t].at = "over" => tasks[t].state \in Terminal
               /\ tasks[t].state \in Terminal => tasks[t].at = "over" \/ tasks[t].state = "cancelled"
    <3>1. Corresponds(tasks[t]) /\ tasks[t] \in Task
      BY DEF WorkerInv, TypedInv, CoroutineInv
    <3> QED
      BY <3>1 DEF Corresponds, Task, Terminal
  <2> QED
    BY <2>1 DEF WorkerInv, StoppedInv, SemaphoreInv, NothingLeftBehind
<1> QED
  BY <1>1, WorkerInvInit, WorkerInvNext, PTL DEF PythonWorkerSpec

------------------------------------------------------------------------------
(* The event store, for any number of events, writers, faults and crashes. *)
Base == IF snapshot \in Nat THEN snapshot ELSE 0
NumberInv ==
  faults = 0 =>
    /\ IF pc = "closed" THEN events = <<>> ELSE seq = Len(events)
    /\ pc \in {"idle", "snapshot"} => file = Lines
    /\ \A i \in DOMAIN file : file[i] \notin {Torn, Joined} => file[i].seq = i - 1
SnapshotInv ==
  faults = 0 /\ ~stale /\ pc \in {"idle", "closed"} =>
    /\ snapshot # Torn
    /\ Base <= Len(file)
    /\ \A k \in (Base + 1)..Len(file) : k % Interval # 0
CursorInv ==
  compacts = 0 /\ faults = 0 =>
    /\ pc # "rewrite" /\ Parses
    /\ cursor.next <= Len(file)
    /\ \A i \in DOMAIN file : i <= cursor.next => file[i].event \in cursor.seen
AckedInv ==
  /\ AckedOnDisk
  /\ pc # "closed" => acked \subseteq ToSet(events) \cup dropped \cup lost
TimeInv ==
  /\ watch.since \in appended \cup {0}
  /\ ToSet(events) \cup Written(file) \subseteq appended
  /\ pc \in {"idle", "snapshot"} => Written(file) \subseteq ToSet(events)
  /\ \A e \in (ToSet(events) \cup Written(file)) \ late : e < watch.since => e \in watch.seen
StoreInv == StoreTypeOK /\ NumberInv /\ SnapshotInv /\ CursorInv /\ AckedInv /\ TimeInv

Line == [seq : Nat, event : Event] \cup {Torn, Joined}

------------------------------------------------------------------------------
FileTyped == file \in Seq(Line)

(* A line that reads.                                                      *)
LEMMA LineReads ==
  ASSUME NEW line \in Line
  PROVE  /\ line \notin {Torn, Joined} <=> line \in [seq : Nat, event : Event]
         /\ line \notin {Torn, Joined} => line.seq \in Nat /\ line.event \in Event
  BY FileAssumption DEF Line, Event

(* The events whose lines are whole.                                       *)
LEMMA WrittenEvents ==
  ASSUME NEW lines, NEW e
  PROVE  e \in Written(lines) <=>
           e \in Event /\ \E i \in DOMAIN lines : lines[i] \notin {Torn, Joined} /\ lines[i].event = e
  BY DEF Written

(* What is in the set of a list is at one of its places.                   *)
LEMMA InList ==
  ASSUME NEW s, NEW e
  PROVE  e \in ToSet(s) <=> \E i \in DOMAIN s : s[i] = e
  BY DEF ToSet

(* One line more in a file.                                                *)
LEMMA WrittenMore ==
  ASSUME NEW lines \in Seq(Line), NEW line \in Line
  PROVE  /\ Append(lines, line) \in Seq(Line)
         /\ Written(lines) \subseteq Written(Append(lines, line))
         /\ line \in {Torn, Joined} => Written(Append(lines, line)) = Written(lines)
         /\ line \notin {Torn, Joined} => Written(Append(lines, line)) = Written(lines) \cup {line.event}
<1> PICK r : r = Append(lines, line)
  OBVIOUS
<1>1. /\ r \in Seq(Line) /\ Len(lines) \in Nat /\ DOMAIN lines = 1..Len(lines) /\ DOMAIN r = 1..(Len(lines) + 1)
      /\ r[Len(lines) + 1] = line /\ \A j \in 1..Len(lines) : r[j] = lines[j]
  BY Appended
<1>2. \A j : j \in DOMAIN r <=> j \in DOMAIN lines \/ j = Len(lines) + 1
  BY <1>1
<1>3. ASSUME NEW e
      PROVE  e \in Written(r) <=> e \in Written(lines) \/ (e \in Event /\ line \notin {Torn, Joined} /\ line.event = e)
  <2>1. e \in Written(r) <=> e \in Event /\ \E i \in DOMAIN r : r[i] \notin {Torn, Joined} /\ r[i].event = e
    BY WrittenEvents
  <2>2. e \in Written(lines) <=> e \in Event /\ \E i \in DOMAIN lines : lines[i] \notin {Torn, Joined} /\ lines[i].event = e
    BY WrittenEvents
  <2>3. (\E i \in DOMAIN r : r[i] \notin {Torn, Joined} /\ r[i].event = e)
          <=> \/ \E i \in DOMAIN lines : lines[i] \notin {Torn, Joined} /\ lines[i].event = e
              \/ line \notin {Torn, Joined} /\ line.event = e
    BY <1>1, <1>2
  <2> QED BY <2>1, <2>2, <2>3
<1>4. line \notin {Torn, Joined} => line.event \in Event
  BY LineReads
<1> QED BY <1>1, <1>3, <1>4

(* A file without its torn end holds the same events.                      *)
LEMMA WrittenFront ==
  ASSUME FileTyped, TornAtEnd
  PROVE  Front(file) \in Seq(Line) /\ Written(Front(file)) = Written(file)
<1>1. Len(file) \in Nat \ {0} /\ DOMAIN file = 1..Len(file) /\ file[Len(file)] = Torn
  BY DEF FileTyped, TornAtEnd, Last
<1> PICK n : n = Len(file) - 1
  OBVIOUS
<1>2. n \in Nat /\ n + 1 = Len(file) /\ n \in 0..Len(file)
  BY <1>1, Before
<1> PICK r : r = Front(file)
  OBVIOUS
<1>3. r \in Seq(Line) /\ Len(r) = n /\ \A k \in 1..n : r[k] = file[k]
  <2>1. r = SubSeq(file, 1, n) /\ file \in Seq(Line)
    BY DEF Front, FileTyped
  <2> QED BY <1>2, <2>1, Prefix
<1>4. DOMAIN r = 1..n /\ \A k : k \in DOMAIN file <=> k \in 1..n \/ k = Len(file)
  BY <1>1, <1>2, <1>3
<1>5. ASSUME NEW e PROVE e \in Written(r) <=> e \in Written(file)
  BY <1>1, <1>3, <1>4, WrittenEvents
<1> QED BY <1>3, <1>5

(* What a line that is written does to the file.                           *)
LEMMA WriteEventLine ==
  ASSUME FileTyped, seq \in Nat, NEW e \in Event, WriteEvent(e)
  PROVE  /\ FileTyped'
         /\ Written(file) \subseteq Written(file') /\ Written(file') \subseteq Written(file) \cup {e}
         /\ e \in Written(file') \cup lost'
         /\ lost \subseteq lost' /\ lost' \subseteq lost \cup {e}
<1>1. CASE TornAtEnd
  <2>1. file' = Append(Front(file), Joined) /\ lost' = lost \cup {e} /\ Joined \in Line
    BY <1>1 DEF WriteEvent, Line
  <2>2. PICK r \in Seq(Line) : r = Front(file) /\ Written(r) = Written(file)
    BY <1>1, WrittenFront
  <2>3. Append(r, Joined) \in Seq(Line) /\ Written(Append(r, Joined)) = Written(r)
    BY <2>1, WrittenMore
  <2> QED BY <2>1, <2>2, <2>3 DEF FileTyped
<1>2. CASE ~TornAtEnd
  <2> PICK line : line = [seq |-> seq, event |-> e]
    OBVIOUS
  <2>1. file' = Append(file, line) /\ lost' = lost /\ line \in Line /\ line.event = e /\ line \notin {Torn, Joined}
    BY <1>2, LineReads DEF WriteEvent, Line
  <2>2. Append(file, line) \in Seq(Line) /\ Written(Append(file, line)) = Written(file) \cup {e}
    BY <2>1, WrittenMore DEF FileTyped
  <2> QED BY <2>1, <2>2 DEF FileTyped
<1> QED BY <1>1, <1>2

(* The lines of what is in memory.                                         *)
LEMMA LinesOfMemory ==
  ASSUME events \in Seq(Event)
  PROVE  /\ Lines \in Seq(Line) /\ Len(Lines) = Len(events) /\ DOMAIN Lines = DOMAIN events
         /\ \A i \in DOMAIN events : /\ Lines[i] \notin {Torn, Joined}
                                     /\ Lines[i].seq = i - 1 /\ Lines[i].event = events[i]
         /\ Written(Lines) = ToSet(events)
<1>1. Len(events) \in Nat /\ DOMAIN events = 1..Len(events) /\ \A i \in DOMAIN events : events[i] \in Event
  BY Lists
<1>2. Lines = [i \in 1..Len(events) |-> [seq |-> i - 1, event |-> events[i]]]
  BY <1>1 DEF Lines
<1>3. \A i \in 1..Len(events) : [seq |-> i - 1, event |-> events[i]] \in [seq : Nat, event : Event]
  BY <1>1
<1>4. Lines \in [1..Len(events) -> Line] /\ Lines \in Seq(Line) /\ Len(Lines) = Len(events)
  BY <1>1, <1>2, <1>3 DEF Line
<1>5. \A i \in DOMAIN events : Lines[i] \in [seq : Nat, event : Event] /\ Lines[i].seq = i - 1 /\ Lines[i].event = events[i]
  BY <1>1, <1>2, <1>3
<1>6. \A i \in DOMAIN events : Lines[i] \in Line /\ Lines[i] \notin {Torn, Joined}
  BY <1>5, LineReads DEF Line
<1>7. ASSUME NEW e PROVE e \in Written(Lines) <=> e \in ToSet(events)
  <2>1. e \in ToSet(events) <=> \E i \in DOMAIN events : events[i] = e
    BY InList
  <2>2. e \in Written(Lines) <=> e \in Event /\ \E i \in DOMAIN Lines : Lines[i] \notin {Torn, Joined} /\ Lines[i].event = e
    BY WrittenEvents
  <2> QED BY <1>1, <1>2, <1>5, <1>6, <2>1, <2>2
<1> QED BY <1>1, <1>2, <1>4, <1>5, <1>6, <1>7

(* A file that was cut short.                                              *)
LEMMA CutShortLines ==
  ASSUME events \in Seq(Event), CutShort
  PROVE  /\ FileTyped'
         /\ Written(file') \subseteq ToSet(events)
         /\ ToSet(events) \subseteq Written(file') \cup lost' /\ lost \subseteq lost'
         /\ lost' \subseteq lost \cup ToSet(events)
         /\ \A i \in DOMAIN file' : file'[i] \notin {Torn, Joined} => file'[i].seq = i - 1
<1>1. /\ Lines \in Seq(Line) /\ Len(Lines) = Len(events) /\ DOMAIN Lines = DOMAIN events
      /\ \A i \in DOMAIN events : /\ Lines[i] \notin {Torn, Joined}
                                  /\ Lines[i].seq = i - 1 /\ Lines[i].event = events[i]
      /\ Written(Lines) = ToSet(events) /\ Len(events) \in Nat /\ DOMAIN events = 1..Len(events)
  BY LinesOfMemory, Lists
<1>2. PICK n \in 0..(Len(events) - 1) : file' \in {SubSeq(Lines, 1, n), Append(SubSeq(Lines, 1, n), Torn)}
  BY DEF CutShort
<1> PICK all : all = Lines
  OBVIOUS
<1> PICK r : r = SubSeq(all, 1, n)
  OBVIOUS
<1>3. r \in Seq(Line) /\ Len(r) = n /\ n \in Nat /\ DOMAIN r = 1..n /\ \A k \in 1..n : r[k] = all[k]
  <2>1. all \in Seq(Line) /\ n \in 0..Len(all)
    BY <1>1
  <2>2. SubSeq(all, 1, n) \in Seq(Line) /\ Len(SubSeq(all, 1, n)) = n /\ \A k \in 1..n : SubSeq(all, 1, n)[k] = all[k]
    BY <2>1, Prefix
  <2> QED BY <2>2
<1>4. \A k \in 1..n : k \in DOMAIN events /\ k \in DOMAIN all
  BY <1>1
<1>5. \A k \in DOMAIN r : r[k].seq = k - 1
  BY <1>1, <1>3, <1>4
<1>6. Written(r) \subseteq ToSet(events)
  <2> SUFFICES ASSUME NEW e \in Written(r) PROVE e \in ToSet(events)
    OBVIOUS
  <2>0. \E i \in DOMAIN r : r[i] \notin {Torn, Joined} /\ r[i].event = e
    BY DEF Written
  <2>1. PICK i \in DOMAIN r : r[i].event = e
    BY <2>0
  <2> QED BY <1>1, <1>3, <1>4, <2>1, InList
<1>7. CASE file' = r
  <2>1. FileTyped' /\ Written(file') \subseteq ToSet(events)
    BY <1>3, <1>6, <1>7 DEF FileTyped
  <2>2. \A i \in DOMAIN file' : file'[i].seq = i - 1
    BY <1>5, <1>7
  <2> QED BY <2>1, <2>2 DEF CutShort
<1>8. CASE file' = Append(r, Torn)
  <2>1. Torn \in Line
    BY DEF Line
  <2>2. /\ Append(r, Torn) \in Seq(Line) /\ DOMAIN Append(r, Torn) = 1..(n + 1)
        /\ Append(r, Torn)[n + 1] = Torn /\ \A j \in 1..n : Append(r, Torn)[j] = r[j]
    BY <1>3, <2>1, Appended
  <2>3. Written(Append(r, Torn)) = Written(r)
    BY <1>3, <2>1, WrittenMore
  <2>4. FileTyped' /\ Written(file') \subseteq ToSet(events)
    BY <1>6, <1>8, <2>2, <2>3 DEF FileTyped
  <2>5. \A i \in DOMAIN file' : i \in 1..n \/ i = n + 1
    BY <1>3, <1>8, <2>2
  <2>6. \A i \in DOMAIN file' : file'[i] \notin {Torn, Joined} => file'[i].seq = i - 1
    BY <1>3, <1>5, <1>8, <2>2, <2>5
  <2> QED BY <2>4, <2>6 DEF CutShort
<1> QED BY <1>2, <1>7, <1>8

(* What a compaction keeps.                                                *)
LEMMA KeptEvents ==
  ASSUME events \in Seq(Event), NEW cutoff \in Nat, NEW limit \in Nat \ {0}
  PROVE  Kept(cutoff, limit) \in Seq(Event) /\ ToSet(Kept(cutoff, limit)) \subseteq ToSet(events)
<1>0. PICK young : young = Picked(events, {n \in DOMAIN events : events[n] >= cutoff})
  OBVIOUS
<1>1. /\ young \in Seq(Event) /\ Len(young) \in Nat /\ DOMAIN young = 1..Len(young)
      /\ \A j \in DOMAIN young : \E n \in DOMAIN events : young[j] = events[n]
  <2>1. \E K : young = Picked(events, K)
    BY <1>0
  <2>2. PICK K : young = Picked(events, K)
    BY <2>1
  <2>3. events \in Seq(Event)
    OBVIOUS
  <2>4. young \in Seq(Event) /\ \A j \in DOMAIN young : \E n \in DOMAIN events : young[j] = events[n]
    BY <2>2, <2>3, PickedElements
  <2> QED BY <2>4, Lists
<1>2. ToSet(young) \subseteq ToSet(events)
  BY <1>1, InList
<1>3. CASE Len(young) > limit
  <2>0. PICK n : n = Len(young) - limit + 1
    OBVIOUS
  <2>1. PICK r : r = SubSeq(young, n, Len(young))
    OBVIOUS
  <2>2. Kept(cutoff, limit) = r
    BY <1>0, <1>3, <2>0, <2>1 DEF Kept
  <2>3. r \in Seq(Event) /\ \A j \in DOMAIN r : \E m \in DOMAIN young : r[j] = young[m]
    <3>1. young \in Seq(Event) /\ n \in DOMAIN young
      BY <1>1, <1>3, <2>0
    <3>2. /\ SubSeq(young, n, Len(young)) \in Seq(Event)
          /\ \A k \in DOMAIN SubSeq(young, n, Len(young)) :
               \E m \in DOMAIN young : m >= n /\ SubSeq(young, n, Len(young))[k] = young[m]
      BY <3>1, Part
    <3> QED BY <2>1, <3>2
  <2>4. ToSet(r) \subseteq ToSet(young)
    <3> SUFFICES ASSUME NEW e \in ToSet(r) PROVE e \in ToSet(young)
      OBVIOUS
    <3>1. PICK j \in DOMAIN r : r[j] = e
      BY InList
    <3> QED BY <2>3, <3>1, InList
  <2> QED BY <1>2, <2>2, <2>3, <2>4
<1>4. CASE ~(Len(young) > limit)
  <2>1. Kept(cutoff, limit) = young
    BY <1>0, <1>4 DEF Kept
  <2> QED BY <1>1, <1>2, <2>1
<1> QED BY <1>3, <1>4

(* What a restart reads.                                                   *)
LEMMA LoadedLines ==
  ASSUME FileTyped, Parses
  PROVE  /\ Loaded.events \in Seq(Event) /\ Loaded.seq \in Nat
         /\ Len(Loaded.events) = Len(file) /\ DOMAIN Loaded.events = DOMAIN file
         /\ \A i \in DOMAIN file : Loaded.events[i] = file[i].event
         /\ ToSet(Loaded.events) = Written(file)
         /\ (\A i \in DOMAIN file : file[i].seq = i - 1) => Loaded.seq = Len(file)
<1>1. /\ Len(file) \in Nat /\ DOMAIN file = 1..Len(file)
      /\ \A i \in DOMAIN file : file[i].seq \in Nat /\ file[i].event \in Event /\ file[i] \notin {Torn, Joined}
  BY LineReads, Lists DEF FileTyped, Parses
<1>2. Loaded.events = [i \in 1..Len(file) |-> file[i].event]
  BY <1>1 DEF Loaded
<1>3. Loaded.events \in [1..Len(file) -> Event] /\ Loaded.events \in Seq(Event) /\ Len(Loaded.events) = Len(file)
  BY <1>1, <1>2
<1>4. DOMAIN Loaded.events = DOMAIN file /\ \A i \in DOMAIN file : Loaded.events[i] = file[i].event
  BY <1>1, <1>2
<1>5. ASSUME NEW e PROVE e \in ToSet(Loaded.events) <=> e \in Written(file)
  BY <1>1, <1>4, InList, WrittenEvents
<1>6. CASE file = <<>>
  <2>1. Loaded.seq = 0
    BY <1>6 DEF Loaded
  <2>2. Len(file) = 0
    <3>1. Len(<<>>) = 0
      OBVIOUS
    <3> QED BY <1>6, <3>1
  <2>3. Loaded.seq \in Nat /\ Loaded.seq = Len(file)
    BY <2>1, <2>2
  <2> QED BY <1>3, <1>4, <1>5, <2>3
<1>7. CASE file # <<>>
  <2> PICK top : top = CHOOSE n \in {file[i].seq : i \in DOMAIN file} : \A i \in DOMAIN file : file[i].seq <= n
    OBVIOUS
  <2>1. Loaded.seq = 1 + top
    BY <1>7 DEF Loaded
  <2> PICK numbers : numbers = [i \in 1..Len(file) |-> file[i].seq]
    OBVIOUS
  <2>2. numbers \in Seq(Nat) /\ DOMAIN numbers = DOMAIN file /\ \A i \in DOMAIN file : numbers[i] = file[i].seq
    BY <1>1
  <2>3. numbers # <<>>
    BY <1>1, <1>7, <2>2
  <2>4. \E m \in DOMAIN file : \A i \in DOMAIN file : file[i].seq <= file[m].seq
    <3>1. PICK m \in DOMAIN numbers : \A i \in DOMAIN numbers : numbers[i] <= numbers[m]
      BY <2>2, <2>3, Largest
    <3> QED BY <2>2, <3>1
  <2>5. \E n \in {file[i].seq : i \in DOMAIN file} : \A i \in DOMAIN file : file[i].seq <= n
    BY <2>4
  <2>6. top \in {file[i].seq : i \in DOMAIN file} /\ \A i \in DOMAIN file : file[i].seq <= top
    BY <2>5
  <2>7. top \in Nat
    BY <1>1, <2>6
  <2>8. ASSUME \A i \in DOMAIN file : file[i].seq = i - 1 PROVE Loaded.seq = Len(file)
    <3>1. Len(file) \in DOMAIN file
      BY <1>1, <1>7 DEF FileTyped
    <3>2. PICK k \in DOMAIN file : top = k - 1
      BY <2>6, <2>8
    <3> PICK n : n = Len(file)
      OBVIOUS
    <3>3. file[n].seq = n - 1 /\ file[n].seq <= top
      BY <2>6, <2>8, <3>1
    <3>4. k \in 1..n /\ n \in Nat
      BY <1>1
    <3>5. n - 1 <= k - 1
      BY <3>2, <3>3
    <3>6. k = n
      BY <3>4, <3>5
    <3>7. Loaded.seq = 1 + (n - 1)
      BY <2>1, <3>2, <3>6
    <3> QED BY <3>4, <3>7
  <2>9. Loaded.seq \in Nat
    BY <2>1, <2>7
  <2> QED BY <1>3, <1>4, <1>5, <2>8, <2>9
<1> QED BY <1>6, <1>7

(* What every state gives.                                                 *)
LEMMA StoreTypes ==
  ASSUME StoreTypeOK
  PROVE  /\ events \in Seq(Event) /\ seq \in Nat /\ FileTyped
         /\ Len(events) \in Nat /\ DOMAIN events = 1..Len(events)
         /\ Len(file) \in Nat /\ DOMAIN file = 1..Len(file)
         /\ faults \in Nat /\ compacts \in Nat
         /\ acked \subseteq Event /\ appended \subseteq Event /\ dropped \subseteq Event
         /\ lost \subseteq Event /\ late \subseteq Event
         /\ watch.since \in Nat /\ watch.seen \subseteq Event
         /\ cursor.next \in Nat /\ cursor.seen \subseteq Event
         /\ ToSet(events) \subseteq Event
<1>1. events \in Seq(Event) /\ file \in Seq(Line)
  BY DEF StoreTypeOK, Line
<1>2. \A e \in ToSet(events) : e \in Event
  BY <1>1, InList, Lists
<1>3. /\ seq \in Nat /\ FileTyped
      /\ Len(events) \in Nat /\ DOMAIN events = 1..Len(events)
      /\ Len(file) \in Nat /\ DOMAIN file = 1..Len(file)
  BY <1>1, Lists DEF StoreTypeOK, FileTyped
<1>4. faults \in Nat /\ compacts \in Nat
  BY StoreAssumption DEF StoreTypeOK
<1>5. /\ acked \subseteq Event /\ appended \subseteq Event /\ dropped \subseteq Event
      /\ lost \subseteq Event /\ late \subseteq Event
  BY DEF StoreTypeOK
<1>6. watch.since \in Nat /\ watch.seen \subseteq Event /\ cursor.next \in Nat /\ cursor.seen \subseteq Event
  BY StoreAssumption DEF StoreTypeOK
<1> QED BY <1>1, <1>2, <1>3, <1>4, <1>5, <1>6

(* What keeping an event in memory does.                                   *)
LEMMA KeepEvent ==
  ASSUME StoreTypeOK, NEW e \in Event, Keep(e)
  PROVE  /\ pc = "idle" /\ e \notin appended
         /\ events' \in Seq(Event) /\ seq' \in Nat /\ seq' = seq + 1
         /\ Len(events') = Len(events) + 1 /\ DOMAIN events' = 1..(Len(events) + 1)
         /\ events'[Len(events) + 1] = e /\ \A j \in 1..Len(events) : events'[j] = events[j]
         /\ ToSet(events') = ToSet(events) \cup {e}
         /\ appended' = appended \cup {e}
         /\ late \subseteq late' /\ late' \subseteq late \cup {e}
         /\ e \notin late' => \A y \in appended : ~(e < y)
<1>1. events \in Seq(Event) /\ seq \in Nat
  BY StoreTypes
<1>2. events' = Append(events, e) /\ seq' = seq + 1 /\ pc = "idle" /\ e \notin appended /\ appended' = appended \cup {e}
  BY DEF Keep, Waiting
<1>3. /\ Append(events, e) \in Seq(Event) /\ Len(events) \in Nat /\ Len(Append(events, e)) = Len(events) + 1
      /\ DOMAIN events = 1..Len(events) /\ DOMAIN Append(events, e) = 1..(Len(events) + 1)
      /\ Append(events, e)[Len(events) + 1] = e
      /\ \A j \in 1..Len(events) : Append(events, e)[j] = events[j]
  BY <1>1, Appended
<1>4. /\ events' \in Seq(Event) /\ Len(events) \in Nat /\ Len(events') = Len(events) + 1
      /\ DOMAIN events = 1..Len(events) /\ DOMAIN events' = 1..(Len(events) + 1)
      /\ events'[Len(events) + 1] = e /\ \A j \in 1..Len(events) : events'[j] = events[j]
  BY <1>2, <1>3
<1>5. \A j : j \in DOMAIN events' <=> j \in DOMAIN events \/ j = Len(events) + 1
  BY <1>4
<1>6. ASSUME NEW x PROVE x \in ToSet(events') <=> x \in ToSet(events) \/ x = e
  <2>1. x \in ToSet(events') <=> \E j \in DOMAIN events' : events'[j] = x
    BY InList
  <2>2. x \in ToSet(events) <=> \E j \in DOMAIN events : events[j] = x
    BY InList
  <2> QED BY <1>4, <1>5, <2>1, <2>2
<1>7. late' = late \cup {x \in {e} : \E y \in appended : e < y}
  BY DEF Keep
<1>8. late \subseteq late' /\ late' \subseteq late \cup {e} /\ (e \notin late' => \A y \in appended : ~(e < y))
  BY <1>7
<1>9. seq' \in Nat
  BY <1>1, <1>2
<1> QED BY <1>2, <1>4, <1>6, <1>8, <1>9

(* A write that fails.                                                     *)
LEMMA TornWrite ==
  ASSUME FileTyped, NEW e \in Event, AppendFails(e)
  PROVE  FileTyped' /\ Written(file') = Written(file)
<1>1. file' = file \/ file' = Append(file, Torn)
  BY DEF AppendFails
<1>2. Append(file, Torn) \in Seq(Line) /\ Written(Append(file, Torn)) = Written(file)
  <2>1. Torn \in Line /\ file \in Seq(Line)
    BY DEF Line, FileTyped
  <2> QED BY <2>1, WrittenMore
<1> QED BY <1>1, <1>2 DEF FileTyped

------------------------------------------------------------------------------
(* Each step keeps the types.                                              *)
LEMMA TypeNext ==
  ASSUME StoreTypeOK, StoreNext
  PROVE  StoreTypeOK'
<1> USE StoreAssumption
<1>0. FileTyped' => file' \in Seq([seq : Nat, event : Event] \cup {Torn, Joined})
  BY DEF FileTyped, Line
<1>1. ASSUME NEW e \in Event, AppendEvent(e) PROVE StoreTypeOK'
  <2>1. Keep(e) /\ WriteEvent(e) /\ acked' = acked \cup {e} /\ pc' \in {"snapshot", "idle"}
        /\ UNCHANGED <<snapshot, cursor, watch, dropped, stale, compacts, faults, crashes>>
    BY <1>1 DEF AppendEvent, readers, bounds
  <2>2. events' \in Seq(Event) /\ seq' \in Nat /\ appended' = appended \cup {e} /\ late' \subseteq late \cup {e}
    BY <2>1, KeepEvent
  <2>3. FileTyped' /\ lost' \subseteq lost \cup {e}
    BY <2>1, StoreTypes, WriteEventLine
  <2> QED BY <1>0, <2>1, <2>2, <2>3 DEF StoreTypeOK
<1>2. ASSUME NEW e \in Event, AppendFails(e) PROVE StoreTypeOK'
  <2>1. Keep(e) /\ faults < MaxFaults /\ faults' = faults + 1
        /\ UNCHANGED <<snapshot, pc, cursor, watch, acked, dropped, lost, stale, compacts, crashes>>
    BY <1>2 DEF AppendFails, readers
  <2>2. events' \in Seq(Event) /\ seq' \in Nat /\ appended' = appended \cup {e} /\ late' \subseteq late \cup {e}
    BY <2>1, KeepEvent
  <2>3. FileTyped'
    BY <1>2, StoreTypes, TornWrite
  <2>4. faults' \in 0..MaxFaults
    BY <2>1 DEF StoreTypeOK
  <2> QED BY <1>0, <2>1, <2>2, <2>3, <2>4 DEF StoreTypeOK
<1>3. CASE WriteSnapshot
  BY <1>3 DEF WriteSnapshot, StoreTypeOK, inMemory, readers, account, bounds
<1>4. CASE SnapshotFails
  <2>1. faults' \in 0..MaxFaults
    BY <1>4 DEF SnapshotFails, StoreTypeOK
  <2> QED BY <1>4, <2>1 DEF SnapshotFails, StoreTypeOK, inMemory, readers, account, bounds
<1>5. CASE ForceSnapshot
  BY <1>5 DEF ForceSnapshot, StoreTypeOK, inMemory, readers, account, bounds
<1>6. CASE Compact
  <2>1. PICK cutoff \in 1..(MaxEvents + 1), limit \in Limits : events' = Kept(cutoff, limit)
    BY <1>6 DEF Compact
  <2>2. events' \in Seq(Event) /\ ToSet(events') \subseteq ToSet(events)
    <3>1. events \in Seq(Event) /\ cutoff \in Nat /\ limit \in Nat \ {0}
      BY StoreTypes
    <3> QED BY <2>1, <3>1, KeptEvents
  <2>3. seq' = Len(events') /\ dropped' = dropped \cup (ToSet(events) \ ToSet(events')) /\ pc' = "rewrite"
        /\ compacts' = compacts + 1 /\ compacts < MaxCompacts
        /\ UNCHANGED <<file, snapshot, cursor, watch, appended, acked, lost, late, stale, faults, crashes>>
    BY <1>6 DEF Compact, readers
  <2>4. seq' \in Nat /\ dropped' \in SUBSET Event
    BY <2>2, <2>3, StoreTypes, Lists
  <2>5. compacts' \in 0..MaxCompacts
    BY <2>3 DEF StoreTypeOK
  <2> QED BY <2>2, <2>3, <2>4, <2>5 DEF StoreTypeOK
<1>7. CASE Rewrite
  <2>1. Lines \in Seq(Line)
    BY StoreTypes, LinesOfMemory
  <2>2. FileTyped'
    BY <1>7, <2>1 DEF Rewrite, FileTyped
  <2> QED BY <1>0, <1>7, <2>2 DEF Rewrite, StoreTypeOK, inMemory, readers, account, bounds
<1>8. CASE RewriteFails
  <2>1. FileTyped' /\ lost' \subseteq lost \cup ToSet(events)
    BY <1>8, StoreTypes, CutShortLines DEF RewriteFails
  <2>2. lost' \in SUBSET Event
    BY <2>1, StoreTypes
  <2>3. faults' \in 0..MaxFaults
    BY <1>8 DEF RewriteFails, StoreTypeOK
  <2> QED BY <1>0, <1>8, <2>1, <2>2, <2>3 DEF RewriteFails, StoreTypeOK, inMemory, readers
<1>9. CASE Crash
  <2>1. FileTyped' /\ lost' \subseteq lost \cup ToSet(events)
    <3>1. CASE UNCHANGED <<file, lost>>
      BY <3>1, StoreTypes DEF FileTyped
    <3>2. CASE CutShort
      BY <3>2, StoreTypes, CutShortLines
    <3> QED BY <1>9, <3>1, <3>2 DEF Crash
  <2>2. lost' \in SUBSET Event
    BY <2>1, StoreTypes
  <2>3. crashes' \in 0..MaxCrashes
    BY <1>9 DEF Crash, StoreTypeOK
  <2>4. events' = <<>> /\ seq' = 0 /\ pc' = "closed" /\ snapshot' \in {snapshot, Torn}
        /\ UNCHANGED <<cursor, watch, appended, acked, dropped, late, compacts, faults>>
    BY <1>9 DEF Crash, readers
  <2>5. stale' \in BOOLEAN
    BY <1>9 DEF Crash
  <2>6. events' \in Seq(Event)
    BY <2>4
  <2> QED BY <1>0, <2>1, <2>2, <2>3, <2>4, <2>5, <2>6 DEF StoreTypeOK
<1>10. CASE Open
  <2>1. Loaded.events \in Seq(Event) /\ Loaded.seq \in Nat
    BY <1>10, StoreTypes, LoadedLines DEF Open
  <2> QED BY <1>10, <2>1 DEF Open, StoreTypeOK, readers, account, bounds
<1>11. CASE Replay
  <2>1. cursor' = [next |-> Len(events), seen |-> cursor.seen \cup ToSet(SubSeq(events, cursor.next + 1, Len(events)))]
        /\ cursor.next < Len(events)
        /\ UNCHANGED <<inMemory, file, snapshot, pc, watch, account, stale, bounds>>
    BY <1>11 DEF Replay
  <2>2. ToSet(SubSeq(events, cursor.next + 1, Len(events))) \subseteq ToSet(events)
    <3>0. PICK n : n = cursor.next + 1
      OBVIOUS
    <3>1. events \in Seq(Event) /\ n \in DOMAIN events
      BY <2>1, <3>0, StoreTypes
    <3>2. \A k \in DOMAIN SubSeq(events, n, Len(events)) :
            \E m \in DOMAIN events : m >= n /\ SubSeq(events, n, Len(events))[k] = events[m]
      BY <3>1, Part
    <3>3. PICK rest : rest = SubSeq(events, n, Len(events))
      OBVIOUS
    <3>4. \A k \in DOMAIN rest : \E m \in DOMAIN events : rest[k] = events[m]
      BY <3>2, <3>3
    <3>5. ASSUME NEW e \in ToSet(rest) PROVE e \in ToSet(events)
      BY <3>4, InList
    <3> QED BY <3>0, <3>3, <3>5
  <2>3. cursor' \in [next : Nat, seen : SUBSET Event]
    BY <2>1, <2>2, StoreTypes
  <2> QED BY <2>1, <2>3 DEF StoreTypeOK, inMemory, account, bounds
<1>12. CASE ReplayTime
  <2>1. PICK found : /\ found = Picked(events, {n \in DOMAIN events : events[n] >= watch.since})
                     /\ found # <<>> /\ watch' = [since |-> Last(found), seen |-> watch.seen \cup ToSet(found)]
                     /\ UNCHANGED <<inMemory, file, snapshot, pc, cursor, account, stale, bounds>>
    BY <1>12 DEF ReplayTime
  <2>2. found \in Seq(Event)
    <3>1. \E K : found = Picked(events, K)
      BY <2>1
    <3> QED BY <3>1, StoreTypes, PickedElements
  <2>3. Last(found) \in Event /\ ToSet(found) \subseteq Event
    <3>1. Len(found) \in DOMAIN found
      BY <2>1, <2>2
    <3>2. \A k \in DOMAIN found : found[k] \in Event
      BY <2>2
    <3> QED BY <3>1, <3>2, InList DEF Last
  <2>4. Event \subseteq 0..MaxEvents
    BY DEF Event
  <2>5. watch' \in [since : 0..MaxEvents, seen : SUBSET Event]
    BY <2>1, <2>3, <2>4, StoreTypes
  <2> QED BY <2>1, <2>5 DEF StoreTypeOK, inMemory, account, bounds
<1> QED BY <1>1, <1>2, <1>3, <1>4, <1>5, <1>6, <1>7, <1>8, <1>9, <1>10, <1>11, <1>12 DEF StoreNext

(* The steps that leave the list and the file alone.                       *)
Elsewhere == WriteSnapshot \/ SnapshotFails \/ ForceSnapshot \/ Replay \/ ReplayTime

(* What they leave alone.                                                  *)
LEMMA ElsewhereRests ==
  ASSUME Elsewhere
  PROVE  /\ UNCHANGED <<events, seq, file, appended, acked, dropped, lost, late, compacts>>
         /\ pc \in {"idle", "snapshot"} /\ pc' \in {"idle", "snapshot"} /\ (faults' = 0 => faults = 0 \/ faults' = faults + 1)
<1>1. CASE WriteSnapshot
  BY <1>1 DEF WriteSnapshot, inMemory, readers, account, bounds
<1>2. CASE SnapshotFails
  BY <1>2 DEF SnapshotFails, inMemory, readers, account
<1>3. CASE ForceSnapshot
  BY <1>3 DEF ForceSnapshot, inMemory, readers, account, bounds
<1>4. CASE Replay
  BY <1>4 DEF Replay, inMemory, account, bounds
<1>5. CASE ReplayTime
  BY <1>5 DEF ReplayTime, inMemory, account, bounds
<1> QED BY <1>1, <1>2, <1>3, <1>4, <1>5 DEF Elsewhere

(* Faults are only counted up.                                             *)
LEMMA FaultsStay ==
  ASSUME StoreTypeOK, StoreNext, faults' = 0
  PROVE  /\ faults = 0
         /\ ~SnapshotFails /\ ~RewriteFails /\ \A e \in Event : ~AppendFails(e)
<1>1. faults \in Nat
  BY StoreTypes
<1>2. ASSUME faults' = faults + 1 PROVE FALSE
  BY <1>1, <1>2
<1>3. faults' = faults \/ faults' = faults + 1
  BY DEF StoreNext, AppendEvent, AppendFails, WriteSnapshot, SnapshotFails, ForceSnapshot,
         Compact, Rewrite, RewriteFails, Crash, Open, Replay, ReplayTime, bounds
<1>4. faults = 0
  BY <1>2, <1>3
<1> QED BY <1>2, <1>4 DEF SnapshotFails, RewriteFails, AppendFails

(* Compactions are only counted up.                                        *)
LEMMA CompactsStay ==
  ASSUME StoreTypeOK, StoreNext, compacts' = 0
  PROVE  compacts = 0 /\ ~Compact
<1>1. compacts \in Nat
  BY StoreTypes
<1>2. ASSUME compacts' = compacts + 1 PROVE FALSE
  BY <1>1, <1>2
<1>3. compacts' = compacts \/ compacts' = compacts + 1
  BY DEF StoreNext, AppendEvent, AppendFails, WriteSnapshot, SnapshotFails, ForceSnapshot,
         Compact, Rewrite, RewriteFails, Crash, Open, Replay, ReplayTime, bounds
<1> QED BY <1>2, <1>3 DEF Compact

(* A line that follows the lines of memory.                                *)
LEMMA NumberedMore ==
  ASSUME StoreTypeOK, NumberInv, faults = 0, NEW e \in Event, AppendEvent(e)
  PROVE  /\ file' = Lines' /\ seq' = Len(events') /\ pc' \in {"idle", "snapshot"}
         /\ file = Lines /\ seq = Len(events) /\ seq' = seq + 1 /\ Len(file') = seq'
         /\ file' = Append(file, [seq |-> seq, event |-> e])
         /\ \A i \in DOMAIN file' : file'[i].seq = i - 1 /\ file'[i] \notin {Torn, Joined}
<1>1. Keep(e) /\ WriteEvent(e) /\ pc' \in {"idle", "snapshot"}
  BY DEF AppendEvent
<1>2. /\ pc = "idle" /\ events' \in Seq(Event) /\ seq' = seq + 1
      /\ Len(events') = Len(events) + 1 /\ DOMAIN events' = 1..(Len(events) + 1)
      /\ events'[Len(events) + 1] = e /\ \A j \in 1..Len(events) : events'[j] = events[j]
  BY <1>1, KeepEvent
<1>3. seq = Len(events) /\ file = Lines
  BY <1>2 DEF NumberInv
<1>4. /\ events \in Seq(Event) /\ Len(events) \in Nat /\ DOMAIN events = 1..Len(events)
  BY StoreTypes
<1>5. /\ Lines \in Seq(Line) /\ Len(Lines) = Len(events) /\ DOMAIN Lines = DOMAIN events
      /\ \A i \in DOMAIN events : Lines[i] \notin {Torn, Joined}
  BY <1>4, LinesOfMemory
<1>6. ~TornAtEnd
  <2>1. file # <<>> => Len(file) \in DOMAIN file
    BY <1>3, <1>5
  <2> QED BY <1>3, <1>5, <2>1 DEF TornAtEnd, Last
<1>7. PICK line \in Line : line = [seq |-> seq, event |-> e] /\ file' = Append(file, line)
  BY <1>1, <1>4, <1>6, StoreTypes DEF WriteEvent, Line
<1>8. PICK old \in Seq(Line) : old = file /\ Len(old) = Len(events)
  BY <1>3, <1>5
<1>9. /\ Append(old, line) \in Seq(Line) /\ DOMAIN Append(old, line) = 1..(Len(old) + 1)
      /\ Append(old, line)[Len(old) + 1] = line /\ \A j \in 1..Len(old) : Append(old, line)[j] = old[j]
      /\ Len(Append(old, line)) = Len(old) + 1
  BY Appended
<1>10. PICK next : next = Lines'
  OBVIOUS
<1>11. next = [i \in 1..(Len(events) + 1) |-> [seq |-> i - 1, event |-> events'[i]]]
  BY <1>2, <1>10 DEF Lines
<1>12. DOMAIN file' = 1..(Len(events) + 1) /\ file' \in Seq(Line)
  BY <1>7, <1>8, <1>9
<1>13. ASSUME NEW i \in 1..(Len(events) + 1)
       PROVE  file'[i] = next[i]
  <2>1. next[i] = [seq |-> i - 1, event |-> events'[i]]
    BY <1>11
  <2>2. CASE i \in 1..Len(events)
    <3>1. file'[i] = old[i] /\ old[i] = Lines[i]
      BY <1>3, <1>7, <1>8, <1>9, <2>2
    <3>2. Lines[i] = [seq |-> i - 1, event |-> events[i]]
      BY <1>4, <2>2 DEF Lines
    <3> QED BY <1>2, <2>1, <2>2, <3>1, <3>2
  <2>3. CASE i = Len(events) + 1
    <3>1. file'[i] = line
      BY <1>7, <1>8, <1>9, <2>3
    <3>2. i - 1 = seq
      BY <1>3, <1>4, <2>3
    <3> QED BY <1>2, <1>7, <2>1, <2>3, <3>1, <3>2
  <2> QED BY <1>4, <2>2, <2>3
<1>14. file' = next
  <2>1. file' \in [1..(Len(events) + 1) -> Line]
    BY <1>4, <1>12
  <2> QED BY <1>11, <1>13, <2>1
<1>15. /\ Len(next) = Len(events') /\ DOMAIN next = DOMAIN events'
       /\ \A i \in DOMAIN events' : next[i] \notin {Torn, Joined} /\ next[i].seq = i - 1
  <2>1. ASSUME NEW i \in 1..(Len(events) + 1) PROVE next[i] \notin {Torn, Joined} /\ next[i].seq = i - 1
    <3>1. next[i] = [seq |-> i - 1, event |-> events'[i]]
      BY <1>11
    <3>2. i - 1 \in Nat /\ events'[i] \in Event
      BY <1>2, <1>4
    <3>3. next[i] \in [seq : Nat, event : Event]
      BY <3>1, <3>2
    <3> QED BY <3>1, <3>3, LineReads DEF Line
  <2>2. DOMAIN next = 1..(Len(events) + 1) /\ next \in Seq(Line) /\ Len(events) + 1 \in Nat
    BY <1>4, <1>11, <1>12, <1>14
  <2> QED BY <1>2, <2>1, <2>2
<1>16. seq' = Len(events') /\ Len(file') = seq'
  BY <1>2, <1>3, <1>14, <1>15
<1>17. \A i \in DOMAIN file' : file'[i].seq = i - 1 /\ file'[i] \notin {Torn, Joined}
  BY <1>14, <1>15
<1> QED BY <1>1, <1>2, <1>3, <1>7, <1>10, <1>14, <1>16, <1>17

(* Each step keeps the numbers: a line for each event as long as nothing   *)
(* failed, and after a crash the ones that were read.                      *)
LEMMA NumberNext ==
  ASSUME StoreTypeOK, NumberInv, StoreNext
  PROVE  NumberInv'
<1> SUFFICES ASSUME faults' = 0
             PROVE  /\ pc' = "closed" => events' = <<>>
                    /\ pc' # "closed" => seq' = Len(events')
                    /\ pc' \in {"idle", "snapshot"} => file' = Lines'
                    /\ \A i \in DOMAIN file' : file'[i] \notin {Torn, Joined} => file'[i].seq = i - 1
  BY DEF NumberInv
<1>0. faults = 0 /\ ~RewriteFails /\ \A e \in Event : ~AppendFails(e)
  BY FaultsStay
<1>1. /\ pc = "closed" => events = <<>>
      /\ pc # "closed" => seq = Len(events)
      /\ pc \in {"idle", "snapshot"} => file = Lines
      /\ \A i \in DOMAIN file : file[i] \notin {Torn, Joined} => file[i].seq = i - 1
  BY <1>0 DEF NumberInv
<1>2. ASSUME NEW e \in Event, AppendEvent(e) PROVE NumberInv'
  BY <1>0, <1>2, NumberedMore DEF NumberInv
<1>3. CASE Elsewhere
  <2>1. Lines' = Lines
    BY <1>3, ElsewhereRests DEF Lines
  <2> QED BY <1>1, <1>3, <2>1, ElsewhereRests
<1>4. CASE Compact
  BY <1>1, <1>4 DEF Compact
<1>5. CASE Rewrite
  <2>1. pc = "rewrite" /\ pc' = "snapshot" /\ events' = events /\ seq' = seq /\ file' = Lines
    BY <1>5 DEF Rewrite, inMemory
  <2>2. Lines' = Lines
    BY <2>1 DEF Lines
  <2>3. DOMAIN Lines = DOMAIN events /\ \A i \in DOMAIN events : Lines[i].seq = i - 1
    BY StoreTypes, LinesOfMemory
  <2> QED BY <1>1, <2>1, <2>2, <2>3
<1>6. CASE Crash
  <2>1. pc' = "closed" /\ events' = <<>> /\ (UNCHANGED file \/ CutShort)
    BY <1>6 DEF Crash
  <2>2. CutShort => \A i \in DOMAIN file' : file'[i] \notin {Torn, Joined} => file'[i].seq = i - 1
    BY StoreTypes, CutShortLines
  <2> QED BY <1>1, <2>1, <2>2
<1>7. CASE Open
  <2>1. pc = "closed" /\ Parses /\ events' = Loaded.events /\ seq' = Loaded.seq /\ pc' = "idle" /\ file' = file
    BY <1>7 DEF Open
  <2>2. /\ Loaded.events \in Seq(Event) /\ Len(Loaded.events) = Len(file) /\ DOMAIN Loaded.events = DOMAIN file
        /\ \A i \in DOMAIN file : Loaded.events[i] = file[i].event
        /\ (\A i \in DOMAIN file : file[i].seq = i - 1) => Loaded.seq = Len(file)
    BY <2>1, StoreTypes, LoadedLines
  <2>3. \A i \in DOMAIN file : file[i] \notin {Torn, Joined} /\ file[i].seq = i - 1
    BY <1>1, <2>1 DEF Parses
  <2>4. seq' = Len(events')
    BY <2>1, <2>2, <2>3
  <2>5. file = [i \in DOMAIN file |-> [seq |-> i - 1, event |-> file[i].event]]
    <3>1. file \in Seq(Line) /\ DOMAIN file = 1..Len(file)
      BY StoreTypes DEF FileTyped
    <3>2. ASSUME NEW i \in DOMAIN file PROVE file[i] = [seq |-> i - 1, event |-> file[i].event]
      <4>1. file[i] \in Line /\ file[i] \notin {Torn, Joined} /\ file[i].seq = i - 1
        BY <2>3, <3>1
      <4>2. file[i] \in [seq : Nat, event : Event]
        BY <4>1, LineReads
      <4> QED BY <4>1, <4>2
    <3>3. file \in [1..Len(file) -> Line]
      BY <3>1
    <3> QED BY <3>1, <3>2, <3>3
  <2>6. Lines' = [i \in DOMAIN file |-> [seq |-> i - 1, event |-> file[i].event]]
    BY <2>1, <2>2 DEF Lines
  <2> QED BY <1>1, <2>1, <2>4, <2>5, <2>6
<1> QED BY <1>0, <1>2, <1>3, <1>4, <1>5, <1>6, <1>7 DEF StoreNext, Elsewhere, NumberInv

(* The snapshot that counts is the last one written.                       *)
LEMMA SnapshotNext ==
  ASSUME StoreTypeOK, NumberInv, SnapshotInv, StoreNext
  PROVE  SnapshotInv'
<1> SUFFICES ASSUME faults' = 0, ~stale', pc' \in {"idle", "closed"}
             PROVE  /\ snapshot' # Torn /\ Base' <= Len(file')
                    /\ \A k \in (Base' + 1)..Len(file') : k % Interval # 0
  BY DEF SnapshotInv
<1>0. faults = 0 /\ ~SnapshotFails /\ ~RewriteFails /\ \A e \in Event : ~AppendFails(e)
  BY FaultsStay
<1>1. /\ pc # "closed" => seq = Len(events)
      /\ pc \in {"idle", "snapshot"} => file = Lines
  BY <1>0 DEF NumberInv
<1>2. ~stale /\ pc \in {"idle", "closed"} =>
        /\ snapshot # Torn /\ Base <= Len(file)
        /\ \A k \in (Base + 1)..Len(file) : k % Interval # 0
  BY <1>0 DEF SnapshotInv
<1>3. snapshot' = snapshot => Base' = Base
  BY DEF Base
<1>4. Base \in Nat /\ Len(file) \in Nat /\ seq \in Nat
  BY StoreTypes DEF Base
<1>5. ASSUME NEW e \in Event, AppendEvent(e) PROVE SnapshotInv'
  <2>1. /\ snapshot' = snapshot /\ stale' = stale /\ pc = "idle"
        /\ pc' = IF (seq + 1) % Interval = 0 THEN "snapshot" ELSE "idle"
    BY <1>5 DEF AppendEvent, Keep
  <2>2. (seq + 1) % Interval # 0
    BY <2>1
  <2>3. Len(file') = seq + 1 /\ Len(file) = seq
    <3>1. file = Lines /\ seq = Len(events) /\ seq' = seq + 1 /\ Len(file') = seq'
      BY <1>0, <1>5, NumberedMore
    <3>2. Len(Lines) = Len(events)
      BY StoreTypes, LinesOfMemory
    <3> QED BY <3>1, <3>2
  <2>4. snapshot # Torn /\ Base <= seq /\ \A k \in (Base + 1)..seq : k % Interval # 0
    BY <1>2, <2>1, <2>3
  <2>5. \A k \in (Base + 1)..(seq + 1) : k \in (Base + 1)..seq \/ k = seq + 1
    BY <1>4
  <2>6. \A k \in (Base + 1)..(seq + 1) : k % Interval # 0
    BY <2>2, <2>4, <2>5
  <2>7. Base <= seq + 1
    BY <1>4, <2>4
  <2> QED BY <1>3, <2>1, <2>3, <2>4, <2>6, <2>7 DEF SnapshotInv
<1>6. CASE WriteSnapshot
  <2>1. pc = "snapshot" /\ snapshot' = seq /\ file' = file /\ seq = Len(events) /\ file = Lines
    BY <1>1, <1>6 DEF WriteSnapshot
  <2>2. Len(file) = seq
    BY <2>1, StoreTypes, LinesOfMemory
  <2>3. snapshot' # Torn /\ Base' = seq
    BY <1>4, <2>1, FileAssumption DEF Base
  <2>4. (seq + 1)..seq = {} /\ seq <= seq
    BY <1>4
  <2> QED BY <2>1, <2>2, <2>3, <2>4
<1>7. CASE Replay \/ ReplayTime
  <2>1. UNCHANGED <<snapshot, stale, pc, file>>
    BY <1>7 DEF Replay, ReplayTime
  <2> QED BY <1>2, <1>3, <2>1
<1>8. CASE ForceSnapshot \/ Compact \/ Rewrite
  BY <1>8 DEF ForceSnapshot, Compact, Rewrite
<1>9. CASE Crash
  <2>1. pc = "idle" /\ ~stale /\ snapshot' = snapshot /\ file' = file
    BY <1>9 DEF Crash
  <2> QED BY <1>2, <1>3, <2>1
<1>10. CASE Open
  <2>1. UNCHANGED <<snapshot, stale, file>> /\ pc = "closed"
    BY <1>10 DEF Open
  <2> QED BY <1>2, <1>3, <2>1
<1> QED BY <1>0, <1>5, <1>6, <1>7, <1>8, <1>9, <1>10 DEF StoreNext, SnapshotInv

(* As long as nothing failed and nothing was compacted.                    *)
LEMMA CursorNext ==
  ASSUME StoreTypeOK, NumberInv, CursorInv, StoreNext
  PROVE  CursorInv'
<1> SUFFICES ASSUME compacts' = 0, faults' = 0
             PROVE  /\ pc' # "rewrite" /\ Parses' /\ cursor'.next <= Len(file')
                    /\ \A i \in DOMAIN file' : i <= cursor'.next => file'[i].event \in cursor'.seen
  BY DEF CursorInv
<1>0. /\ faults = 0 /\ ~SnapshotFails /\ ~RewriteFails /\ (\A e \in Event : ~AppendFails(e))
      /\ compacts = 0 /\ ~Compact
  BY FaultsStay, CompactsStay
<1>1. /\ pc # "rewrite" /\ Parses /\ cursor.next <= Len(file)
      /\ \A i \in DOMAIN file : i <= cursor.next => file[i].event \in cursor.seen
  BY <1>0 DEF CursorInv
<1>2. file' = file => Parses'
  BY <1>1 DEF Parses
<1>3. ASSUME NEW e \in Event, AppendEvent(e) PROVE CursorInv'
  <2>1. cursor' = cursor /\ pc' # "rewrite"
    BY <1>3 DEF AppendEvent, readers
  <2>2. /\ file = Lines /\ seq = Len(events) /\ seq' = seq + 1 /\ Len(file') = seq'
        /\ file' = Append(file, [seq |-> seq, event |-> e])
        /\ \A i \in DOMAIN file' : file'[i] \notin {Torn, Joined}
    BY <1>0, <1>3, NumberedMore
  <2>3. Len(file) = seq /\ Len(file) \in Nat /\ DOMAIN file = 1..Len(file) /\ cursor.next \in Nat
    BY <2>2, StoreTypes, LinesOfMemory
  <2>4. PICK line \in Line : file' = Append(file, line)
    BY <2>2, StoreTypes DEF Line
  <2>5. /\ DOMAIN Append(file, line) = 1..(Len(file) + 1)
        /\ \A j \in 1..Len(file) : Append(file, line)[j] = file[j]
    BY Appended, StoreTypes DEF FileTyped
  <2>6. \A i \in DOMAIN file' : i <= cursor.next => i \in DOMAIN file /\ file'[i] = file[i]
    BY <1>1, <2>3, <2>4, <2>5
  <2>7. cursor.next <= Len(file')
    BY <1>1, <2>2, <2>3
  <2>8. Parses'
    BY <2>2 DEF Parses
  <2> QED BY <1>1, <2>1, <2>6, <2>7, <2>8 DEF CursorInv
<1>4. CASE Replay
  <2>1. /\ cursor.next < Len(events) /\ file' = file /\ pc = "idle" /\ pc' = "idle"
        /\ cursor' = [next |-> Len(events),
                      seen |-> cursor.seen \cup ToSet(SubSeq(events, cursor.next + 1, Len(events)))]
    BY <1>4 DEF Replay
  <2>2. file = Lines
    BY <1>0, <2>1 DEF NumberInv
  <2>3. /\ Len(file) = Len(events) /\ DOMAIN file = DOMAIN events
        /\ \A i \in DOMAIN events : file[i].event = events[i]
    BY <2>2, StoreTypes, LinesOfMemory
  <2>4. ASSUME NEW i \in DOMAIN file PROVE file[i].event \in cursor'.seen
    <3>1. i \in DOMAIN events /\ i \in Nat /\ cursor.next \in Nat
      BY <2>3, StoreTypes
    <3>2. CASE i <= cursor.next
      BY <1>1, <2>1, <3>2
    <3>3. CASE i > cursor.next
      <4>0. PICK n : n = cursor.next + 1
        OBVIOUS
      <4>1. events \in Seq(Event) /\ n \in DOMAIN events
        BY <2>1, <4>0, StoreTypes
      <4>2. \A m \in DOMAIN events : m >= n =>
              \E k \in DOMAIN SubSeq(events, n, Len(events)) : SubSeq(events, n, Len(events))[k] = events[m]
        BY <4>1, Part
      <4>3. PICK rest : rest = SubSeq(events, n, Len(events))
        OBVIOUS
      <4>4. i >= n
        BY <3>1, <3>3, <4>0
      <4>5. \E k \in DOMAIN rest : rest[k] = events[i]
        BY <3>1, <4>2, <4>3, <4>4
      <4>6. events[i] \in ToSet(rest)
        BY <4>5, InList
      <4> QED BY <2>1, <2>3, <3>1, <4>0, <4>3, <4>6
    <3> QED BY <3>1, <3>2, <3>3
  <2>5. cursor'.next <= Len(file')
    <3>1. cursor'.next = Len(file') /\ Len(file') \in Nat
      BY <2>1, <2>3, StoreTypes
    <3> QED BY <3>1
  <2> QED BY <1>2, <2>1, <2>4, <2>5
<1>5. CASE WriteSnapshot \/ ForceSnapshot \/ ReplayTime \/ Open
  <2>1. file' = file /\ cursor' = cursor /\ pc' # "rewrite"
    BY <1>5 DEF WriteSnapshot, ForceSnapshot, ReplayTime, Open, readers
  <2> QED BY <1>1, <1>2, <2>1
<1>6. CASE Crash
  <2>1. file' = file /\ cursor' = cursor /\ pc' = "closed"
    BY <1>1, <1>6 DEF Crash, readers
  <2> QED BY <1>1, <1>2, <2>1
<1>7. CASE Rewrite
  BY <1>1, <1>7 DEF Rewrite
<1> QED BY <1>0, <1>3, <1>4, <1>5, <1>6, <1>7 DEF StoreNext, CursorInv

(* What memory, the file and the account share after each step.            *)
LEMMA AckedNext ==
  ASSUME StoreTypeOK, AckedInv, StoreNext
  PROVE  AckedInv'
<1>1. acked \subseteq Written(file) \cup dropped \cup lost /\ (pc # "closed" => acked \subseteq ToSet(events) \cup dropped \cup lost)
  BY DEF AckedInv, AckedOnDisk
<1> SUFFICES /\ acked' \subseteq Written(file') \cup dropped' \cup lost'
             /\ pc' # "closed" => acked' \subseteq ToSet(events') \cup dropped' \cup lost'
  BY DEF AckedInv, AckedOnDisk, Written
<1>2. ASSUME NEW e \in Event, AppendEvent(e) PROVE AckedInv'
  <2>1. Keep(e) /\ WriteEvent(e) /\ acked' = acked \cup {e} /\ dropped' = dropped
    BY <1>2 DEF AppendEvent
  <2>2. ToSet(events') = ToSet(events) \cup {e} /\ pc = "idle"
    BY <2>1, KeepEvent
  <2>3. Written(file) \subseteq Written(file') /\ e \in Written(file') \cup lost' /\ lost \subseteq lost'
    BY <2>1, StoreTypes, WriteEventLine
  <2>4. acked' \subseteq Written(file') \cup dropped' \cup lost'
    BY <1>1, <2>1, <2>3
  <2>5. acked' \subseteq ToSet(events') \cup dropped' \cup lost'
    BY <1>1, <2>1, <2>2, <2>3
  <2> QED BY <2>4, <2>5 DEF AckedInv, AckedOnDisk, Written
<1>3. ASSUME NEW e \in Event, AppendFails(e) PROVE AckedInv'
  <2>1. Keep(e) /\ acked' = acked /\ dropped' = dropped /\ lost' = lost
    BY <1>3 DEF AppendFails
  <2>2. ToSet(events') = ToSet(events) \cup {e} /\ pc = "idle"
    BY <2>1, KeepEvent
  <2>3. Written(file') = Written(file)
    BY <1>3, StoreTypes, TornWrite
  <2>4. acked' \subseteq Written(file') \cup dropped' \cup lost'
    BY <1>1, <2>1, <2>3
  <2>5. acked' \subseteq ToSet(events') \cup dropped' \cup lost'
    BY <1>1, <2>1, <2>2
  <2> QED BY <2>4, <2>5 DEF AckedInv, AckedOnDisk, Written
<1>4. CASE Elsewhere
  BY <1>1, <1>4, ElsewhereRests
<1>5. CASE Compact
  <2>1. /\ pc = "idle" /\ dropped' = dropped \cup (ToSet(events) \ ToSet(events'))
        /\ UNCHANGED <<file, acked, lost>>
    BY <1>5 DEF Compact
  <2>2. acked' \subseteq ToSet(events') \cup dropped' \cup lost'
    BY <1>1, <2>1
  <2>3. acked' \subseteq Written(file') \cup dropped' \cup lost'
    BY <1>1, <2>1
  <2> QED BY <2>2, <2>3
<1>6. CASE Rewrite
  <2>1. pc = "rewrite" /\ file' = Lines /\ UNCHANGED <<events, acked, dropped, lost>>
    BY <1>6 DEF Rewrite, inMemory, account
  <2>2. Written(file') = ToSet(events)
    BY <2>1, StoreTypes, LinesOfMemory
  <2> QED BY <1>1, <2>1, <2>2
<1>7. CASE RewriteFails \/ (Crash /\ CutShort)
  <2>1. pc # "closed" /\ CutShort /\ acked' = acked /\ dropped' = dropped
    BY <1>7 DEF RewriteFails, Crash
  <2>2. ToSet(events) \subseteq Written(file') \cup lost' /\ lost \subseteq lost'
    BY <2>1, StoreTypes, CutShortLines
  <2>3. acked' \subseteq Written(file') \cup dropped' \cup lost'
    BY <1>1, <2>1, <2>2
  <2>4. pc' # "closed" => events' = events
    BY <1>7 DEF RewriteFails, Crash, inMemory
  <2>5. pc' # "closed" => acked' \subseteq ToSet(events') \cup dropped' \cup lost'
    BY <1>1, <2>1, <2>2, <2>4
  <2> QED BY <2>3, <2>5
<1>8. CASE Crash /\ UNCHANGED <<file, lost>>
  BY <1>1, <1>8 DEF Crash
<1>9. CASE Open
  <2>1. Parses /\ events' = Loaded.events /\ UNCHANGED <<file, acked, dropped, lost>>
    BY <1>9 DEF Open, account
  <2>2. ToSet(events') = Written(file)
    BY <2>1, StoreTypes, LoadedLines
  <2> QED BY <1>1, <2>1, <2>2
<1> QED BY <1>2, <1>3, <1>4, <1>5, <1>6, <1>7, <1>8, <1>9 DEF StoreNext, Elsewhere, Crash, AckedInv, AckedOnDisk

(* A step that appends nothing: what is shown by time stays complete.      *)
LEMMA TimeKept ==
  ASSUME TimeInv, UNCHANGED <<watch, appended, late>>,
         ToSet(events') \subseteq ToSet(events) \cup Written(file),
         Written(file') \subseteq ToSet(events) \cup Written(file),
         pc' \in {"idle", "snapshot"} => Written(file') \subseteq ToSet(events')
  PROVE  TimeInv'
<1>1. /\ watch.since \in appended \cup {0}
      /\ ToSet(events) \cup Written(file) \subseteq appended
      /\ \A e \in (ToSet(events) \cup Written(file)) \ late : e < watch.since => e \in watch.seen
  BY DEF TimeInv
<1>2. ToSet(events') \cup Written(file') \subseteq ToSet(events) \cup Written(file)
  OBVIOUS
<1>3. ToSet(events') \cup Written(file') \subseteq appended'
  BY <1>1, <1>2
<1>4. \A e \in (ToSet(events') \cup Written(file')) \ late' : e < watch'.since => e \in watch'.seen
  BY <1>1, <1>2
<1>5. watch'.since \in appended' \cup {0}
  BY <1>1
<1> QED BY <1>3, <1>4, <1>5 DEF TimeInv, Written

(* An event that is appended is at least as young as what was read, or it  *)
(* is late.                                                                *)
LEMMA TimeAppended ==
  ASSUME StoreTypeOK, TimeInv, NEW e \in Event, Keep(e), UNCHANGED watch,
         Written(file') \subseteq Written(file) \cup {e}
  PROVE  TimeInv'
<1>1. /\ watch.since \in appended \cup {0}
      /\ ToSet(events) \cup Written(file) \subseteq appended
      /\ \A x \in (ToSet(events) \cup Written(file)) \ late : x < watch.since => x \in watch.seen
      /\ pc \in {"idle", "snapshot"} => Written(file) \subseteq ToSet(events)
  BY DEF TimeInv
<1>2. /\ pc = "idle" /\ ToSet(events') = ToSet(events) \cup {e}
      /\ appended' = appended \cup {e} /\ late \subseteq late'
      /\ e \notin late' => \A y \in appended : ~(e < y)
  BY KeepEvent
<1>3. e \notin late' => ~(e < watch.since)
  BY <1>1, <1>2 DEF Event
<1>4. ToSet(events') \cup Written(file') \subseteq ToSet(events) \cup Written(file) \cup {e}
  BY <1>2
<1>5. \A x \in (ToSet(events') \cup Written(file')) \ late' : x < watch'.since => x \in watch'.seen
  <2> SUFFICES ASSUME NEW x \in (ToSet(events') \cup Written(file')) \ late', x < watch.since
               PROVE  x \in watch.seen
    OBVIOUS
  <2>1. x # e
    BY <1>3
  <2> QED BY <1>1, <1>2, <1>4, <2>1
<1>6. ToSet(events') \cup Written(file') \subseteq appended'
  BY <1>1, <1>2, <1>4
<1>7. Written(file') \subseteq ToSet(events')
  BY <1>1, <1>2
<1> QED BY <1>1, <1>2, <1>5, <1>6, <1>7 DEF TimeInv, Written

(* Each step keeps what a reader by time has seen.                         *)
LEMMA TimeNext ==
  ASSUME StoreTypeOK, TimeInv, StoreNext
  PROVE  TimeInv'
<1>0. pc \in {"idle", "snapshot"} => Written(file) \subseteq ToSet(events)
  BY DEF TimeInv
<1>1. ASSUME NEW e \in Event, AppendEvent(e) PROVE TimeInv'
  <2>1. Keep(e) /\ WriteEvent(e) /\ watch' = watch
    BY <1>1 DEF AppendEvent, readers
  <2>2. Written(file') \subseteq Written(file) \cup {e}
    BY <2>1, StoreTypes, WriteEventLine
  <2> QED BY <2>1, <2>2, TimeAppended
<1>2. ASSUME NEW e \in Event, AppendFails(e) PROVE TimeInv'
  <2>1. Keep(e) /\ watch' = watch
    BY <1>2 DEF AppendFails, readers
  <2>2. Written(file') \subseteq Written(file) \cup {e}
    BY <1>2, StoreTypes, TornWrite
  <2> QED BY <2>1, <2>2, TimeAppended
<1>3. CASE WriteSnapshot \/ SnapshotFails \/ ForceSnapshot \/ Replay
  <2>1. watch' = watch
    BY <1>3 DEF WriteSnapshot, SnapshotFails, ForceSnapshot, Replay, readers
  <2>2. /\ UNCHANGED <<events, file, appended, late>> /\ pc \in {"idle", "snapshot"}
    BY <1>3, ElsewhereRests DEF Elsewhere
  <2> QED BY <1>0, <2>1, <2>2, TimeKept
<1>4. CASE Compact
  <2>1. PICK cutoff \in 1..(MaxEvents + 1), limit \in Limits : events' = Kept(cutoff, limit)
    BY <1>4 DEF Compact
  <2>2. events \in Seq(Event) /\ cutoff \in Nat /\ limit \in Nat \ {0}
    BY StoreTypes, StoreAssumption
  <2>3. ToSet(events') \subseteq ToSet(events)
    BY <2>1, <2>2, KeptEvents
  <2>4. UNCHANGED <<watch, file, appended, late>> /\ pc' = "rewrite"
    BY <1>4 DEF Compact, readers
  <2> QED BY <2>3, <2>4, TimeKept
<1>5. CASE Rewrite
  <2>1. file' = Lines /\ UNCHANGED <<events, watch, appended, late>>
    BY <1>5 DEF Rewrite, inMemory, readers, account
  <2>2. Written(file') = ToSet(events)
    BY <2>1, StoreTypes, LinesOfMemory
  <2> QED BY <2>1, <2>2, TimeKept
<1>6. CASE RewriteFails
  <2>1. CutShort /\ UNCHANGED <<events, watch, appended, late>>
    BY <1>6 DEF RewriteFails, inMemory, readers
  <2>2. Written(file') \subseteq ToSet(events)
    BY <2>1, StoreTypes, CutShortLines
  <2> QED BY <2>1, <2>2, TimeKept
<1>7. CASE Crash
  <2>1. events' = <<>> /\ pc' = "closed" /\ UNCHANGED <<watch, appended, late>> /\ (UNCHANGED file \/ CutShort)
    BY <1>7 DEF Crash, readers
  <2>2. Written(file') \subseteq ToSet(events) \cup Written(file)
    BY <2>1, StoreTypes, CutShortLines
  <2>3. ToSet(events') = {}
    BY <2>1 DEF ToSet
  <2> QED BY <2>1, <2>2, <2>3, TimeKept
<1>8. CASE Open
  <2>1. Parses /\ events' = Loaded.events /\ UNCHANGED <<file, watch, appended, late>>
    BY <1>8 DEF Open, readers, account
  <2>2. ToSet(events') = Written(file)
    BY <2>1, StoreTypes, LoadedLines
  <2> QED BY <2>1, <2>2, TimeKept
<1>9. CASE ReplayTime
  <2>1. PICK found : /\ found = Picked(events, {n \in DOMAIN events : events[n] >= watch.since})
                     /\ found # <<>> /\ watch' = [since |-> Last(found), seen |-> watch.seen \cup ToSet(found)]
                     /\ pc = "idle" /\ UNCHANGED <<inMemory, file, pc, account>>
    BY <1>9 DEF ReplayTime
  <2>2. PICK K : found = Picked(events, K) /\ K = {n \in DOMAIN events : events[n] >= watch.since}
    BY <2>1
  <2>3. /\ found \in Seq(Event)
        /\ \A j \in DOMAIN found : \E n \in DOMAIN events \cap K : found[j] = events[n]
        /\ \A n \in DOMAIN events \cap K : \E j \in DOMAIN found : found[j] = events[n]
    <3>1. events \in Seq(Event)
      BY StoreTypes
    <3>2. found = Picked(events, K)
      BY <2>2
    <3> QED BY <3>1, <3>2, PickedElements
  <2>4. Len(found) \in DOMAIN found /\ Last(found) = found[Len(found)]
    BY <2>1, <2>3 DEF Last
  <2>5. Last(found) \in ToSet(events)
    BY <2>3, <2>4, InList
  <2>6. \A e \in ToSet(events) : e >= watch.since => e \in ToSet(found)
    <3> SUFFICES ASSUME NEW e \in ToSet(events), e >= watch.since PROVE e \in ToSet(found)
      OBVIOUS
    <3>1. PICK n \in DOMAIN events : events[n] = e
      BY InList
    <3>2. n \in K
      BY <2>2, <3>1
    <3> QED BY <2>3, <3>1, <3>2, InList
  <2>7. /\ Written(file) \subseteq ToSet(events) /\ ToSet(events) \subseteq appended
        /\ \A e \in ToSet(events) \ late : e < watch.since => e \in watch.seen
    BY <2>1, <1>0 DEF TimeInv
  <2>8. \A e \in ToSet(events) \ late : e \in watch'.seen
    <3> SUFFICES ASSUME NEW e \in ToSet(events) \ late PROVE e \in watch'.seen
      OBVIOUS
    <3>1. e \in Nat /\ watch.since \in Nat
      BY StoreTypes DEF Event
    <3>2. e < watch.since \/ e >= watch.since
      BY <3>1
    <3> QED BY <2>1, <2>6, <2>7, <3>2
  <2>9. UNCHANGED <<events, file, appended, late, pc>>
    BY <2>1 DEF inMemory, account
  <2>10. watch'.since \in appended'
    BY <2>1, <2>5, <2>7, <2>9
  <2> QED BY <2>7, <2>8, <2>9, <2>10 DEF TimeInv, Written
<1> QED BY <1>1, <1>2, <1>3, <1>4, <1>5, <1>6, <1>7, <1>8, <1>9 DEF StoreNext

------------------------------------------------------------------------------
(* The invariant of the store holds at the start ...                       *)
LEMMA StoreStart == StoreInit => StoreInv
<1> SUFFICES ASSUME StoreInit PROVE StoreInv
  OBVIOUS
<1>0. /\ events = <<>> /\ seq = 0 /\ file = <<>> /\ snapshot = None /\ pc = "idle"
      /\ cursor = [next |-> 0, seen |-> {}] /\ watch = [since |-> 0, seen |-> {}]
      /\ appended = {} /\ acked = {} /\ dropped = {} /\ lost = {} /\ late = {} /\ stale = FALSE
      /\ compacts = 0 /\ faults = 0 /\ crashes = 0
  BY DEF StoreInit
<1>1. StoreTypeOK
  <2>1. \A S : <<>> \in Seq(S)
    OBVIOUS
  <2>2. 0 \in 0..MaxEvents /\ 0 \in 0..MaxCompacts /\ 0 \in 0..MaxFaults /\ 0 \in 0..MaxCrashes
    BY StoreAssumption
  <2> QED BY <1>0, <2>1, <2>2 DEF StoreTypeOK
<1>2. Len(events) = 0 /\ Len(file) = 0 /\ DOMAIN events = {} /\ DOMAIN file = {}
  BY <1>0
<1>3. NumberInv
  <2>1. Lines = <<>>
    BY <1>0, <1>2 DEF Lines
  <2> QED BY <1>0, <1>2, <2>1 DEF NumberInv
<1>4. SnapshotInv
  <2>1. Base = 0
    BY <1>0, FileAssumption DEF Base
  <2>2. snapshot # Torn
    BY <1>0, FileAssumption
  <2>3. (Base + 1)..Len(file) = {}
    BY <1>2, <2>1
  <2> QED BY <1>0, <1>2, <2>1, <2>2, <2>3 DEF SnapshotInv
<1>5. CursorInv
  BY <1>0, <1>2 DEF CursorInv, Parses
<1>6. AckedInv
  BY <1>0 DEF AckedInv, AckedOnDisk
<1>7. TimeInv
  <2>1. ToSet(events) = {} /\ Written(file) = {}
    BY <1>2 DEF ToSet, Written
  <2> QED BY <1>0, <2>1 DEF TimeInv
<1> QED BY <1>1, <1>3, <1>4, <1>5, <1>6, <1>7 DEF StoreInv

(* ... every step keeps it ...                                             *)
LEMMA StoreStep == StoreInv /\ [StoreNext]_storeVars => StoreInv'
<1> SUFFICES ASSUME StoreInv, [StoreNext]_storeVars PROVE StoreInv'
  OBVIOUS
<1>1. CASE StoreNext
  BY <1>1, TypeNext, NumberNext, SnapshotNext, CursorNext, AckedNext, TimeNext DEF StoreInv
<1>2. CASE UNCHANGED storeVars
  <2>1. /\ UNCHANGED <<events, seq, file, snapshot, pc, cursor, watch, appended, acked, dropped, lost, late>>
        /\ UNCHANGED <<stale, compacts, faults, crashes>>
    BY <1>2 DEF storeVars, inMemory, readers, account, bounds
  <2>2. StoreTypeOK'
    BY <2>1 DEF StoreInv, StoreTypeOK
  <2>3. NumberInv'
    BY <2>1 DEF StoreInv, NumberInv, Lines
  <2>4. SnapshotInv'
    BY <2>1 DEF StoreInv, SnapshotInv, Base
  <2>5. CursorInv'
    BY <2>1 DEF StoreInv, CursorInv, Parses
  <2>6. AckedInv'
    BY <2>1 DEF StoreInv, AckedInv, AckedOnDisk, Written
  <2>7. TimeInv'
    BY <2>1 DEF StoreInv, TimeInv, Written
  <2> QED BY <2>2, <2>3, <2>4, <2>5, <2>6, <2>7 DEF StoreInv
<1> QED BY <1>1, <1>2

(* ... and it says that the log is durable.                                *)
LEMMA StoreKeeps == StoreInv => DurableLog
<1> SUFFICES ASSUME StoreInv PROVE DurableLog
  OBVIOUS
<1>0. StoreTypeOK /\ NumberInv /\ SnapshotInv /\ CursorInv /\ AckedInv /\ TimeInv
  BY DEF StoreInv
<1>1. ReloadsMemory
  <2> SUFFICES ASSUME pc = "idle", faults = 0 PROVE Parses /\ Loaded = [events |-> events, seq |-> seq]
    BY DEF ReloadsMemory
  <2>1. seq = Len(events) /\ file = Lines
    BY <1>0 DEF NumberInv
  <2>2. /\ Len(Lines) = Len(events) /\ DOMAIN Lines = DOMAIN events
        /\ \A i \in DOMAIN events : /\ Lines[i] \notin {Torn, Joined}
                                    /\ Lines[i].seq = i - 1 /\ Lines[i].event = events[i]
    BY <1>0, StoreTypes, LinesOfMemory
  <2>3. Parses
    BY <2>1, <2>2 DEF Parses
  <2>4. /\ Loaded.events \in Seq(Event) /\ Len(Loaded.events) = Len(file) /\ DOMAIN Loaded.events = DOMAIN file
        /\ \A i \in DOMAIN file : Loaded.events[i] = file[i].event
        /\ (\A i \in DOMAIN file : file[i].seq = i - 1) => Loaded.seq = Len(file)
    BY <1>0, <2>3, StoreTypes, LoadedLines
  <2>5. Loaded.seq = seq
    BY <2>1, <2>2, <2>4
  <2>6. \A i \in DOMAIN events : Loaded.events[i] = events[i]
    BY <2>1, <2>2, <2>4
  <2>7. Loaded.events = events
    <3>1. events \in [1..Len(events) -> Event] /\ Loaded.events \in [1..Len(events) -> Event]
      BY <1>0, <2>1, <2>2, <2>4, StoreTypes
    <3> QED BY <2>6, <3>1
  <2>8. Loaded = [events |-> Loaded.events, seq |-> Loaded.seq]
    BY DEF Loaded
  <2> QED BY <2>3, <2>5, <2>7, <2>8
<1>2. SeqIsPosition
  BY <1>0 DEF SeqIsPosition, NumberInv
<1>3. SnapshotFollows
  <2> SUFFICES ASSUME pc = "idle", faults = 0, ~stale PROVE Base <= seq /\ seq < Base + Interval
    BY DEF SnapshotFollows, Base
  <2>1. seq = Len(events) /\ file = Lines
    BY <1>0 DEF NumberInv
  <2>2. Len(file) = seq
    BY <1>0, <2>1, StoreTypes, LinesOfMemory
  <2>3. Base <= seq /\ \A k \in (Base + 1)..seq : k % Interval # 0
    BY <1>0, <2>2 DEF SnapshotInv
  <2>4. Base \in Nat /\ seq \in Nat /\ Interval \in Nat \ {0}
    BY <1>0, StoreTypes, StoreAssumption DEF Base
  <2>5. PICK b \in Nat, n \in Nat \ {0} : b = Base /\ n = Interval
    BY <2>4
  <2>6. PICK k \in (b + 1)..(b + n) : k % n = 0
    BY MultipleAhead
  <2>7. k \notin (b + 1)..seq
    BY <2>3, <2>5, <2>6
  <2>8. seq < b + n
    BY <2>4, <2>6, <2>7
  <2> QED BY <2>3, <2>5, <2>8
<1>4. CursorMissesNothing
  <2> SUFFICES ASSUME compacts = 0, faults = 0, NEW i \in DOMAIN events, i <= cursor.next
               PROVE  events[i] \in cursor.seen
    BY DEF CursorMissesNothing
  <2>1. CASE pc = "closed"
    BY <1>0, <2>1 DEF NumberInv
  <2>2. CASE pc # "closed"
    <3>1. pc \in {"idle", "snapshot"} /\ \A j \in DOMAIN file : j <= cursor.next => file[j].event \in cursor.seen
      BY <1>0, <2>2 DEF CursorInv, StoreTypeOK
    <3>2. file = Lines
      BY <1>0, <3>1 DEF NumberInv
    <3>3. DOMAIN file = DOMAIN events /\ file[i].event = events[i]
      BY <1>0, <3>2, StoreTypes, LinesOfMemory
    <3> QED BY <3>1, <3>3
  <2> QED BY <2>1, <2>2
<1>5. TimeMissesNothing
  BY <1>0 DEF TimeMissesNothing, TimeInv
<1>6. AckedOnDisk
  BY <1>0 DEF AckedInv
<1> QED BY <1>1, <1>2, <1>3, <1>4, <1>5, <1>6 DEF DurableLog

(* While nothing fails, a restart reads what is in memory and finds the    *)
(* seq it had reached, a snapshot is never an interval behind, a cursor    *)
(* that replays by number misses nothing, a reader by time nothing that    *)
(* came in time; and whatever happens, an event is acknowledged only if it *)
(* is in memory or on disk, unless a compaction dropped it or a failed     *)
(* rewrite lost it (event_store.py:95-212).                                *)
THEOREM DurableLogKept == StoreSpec => []DurableLog
<1>1. StoreSpec => []StoreInv
  BY StoreStart, StoreStep, PTL DEF StoreSpec
<1> QED BY <1>1, StoreKeeps, PTL

------------------------------------------------------------------------------
(* The operator's endpoint, for any limits of its queue and its log.       *)
Request == [action : OperatorAction \cup {"any"}, at : {"guarded", "queued"} \cup Answer]
AuditEntry == [of : Nat, result : {"ok", "rejected"}]

(* What a place in a bounded list may hold: nothing but numbers.           *)
ApiTyped ==
  /\ requests \in Seq(Request) /\ audit \in Seq(AuditEntry)
  /\ pending \in Seq(Nat) /\ commands \in Seq(Nat)

CommandsFit ==
  /\ \A k \in DOMAIN commands : commands[k] \in DOMAIN requests /\ requests[commands[k]].at \in {"queued", "ok"}
  /\ \A r \in DOMAIN requests : requests[r].at \in {"queued", "ok"} => \E k \in DOMAIN commands : commands[k] = r
  /\ \A k, l \in DOMAIN commands : commands[k] = commands[l] => k = l

(* Counted from the end, where a deque with a maxlen takes its elements.   *)
EndsLike(s, t) == Len(s) <= Len(t) /\ \A i \in Nat : i < Len(s) => s[Len(s) - i] = t[Len(t) - i]

AuditFits ==
  /\ \A i \in DOMAIN audit : /\ audit[i].of \in DOMAIN requests
                             /\ audit[i].result = "ok" => requests[audit[i].of].at = "ok"
                             /\ audit[i].result # "ok" => requests[audit[i].of].at \in Answer \ {"ok"}
  /\ \A i, j \in DOMAIN audit : audit[i].of = audit[j].of => i = j
  /\ Len(audit) < MaxAudit =>
       \A r \in DOMAIN requests : requests[r].at = "ok" => \E i \in DOMAIN audit : audit[i].result = "ok" /\ audit[i].of = r

RecordInv == ApiTyped /\ CommandsFit /\ EndsLike(pending, commands) /\ AuditFits

(* A list that ends like another is a suffix of it.                        *)
LEMMA SuffixOf ==
  ASSUME NEW S, NEW s \in Seq(S), NEW t \in Seq(S), EndsLike(s, t)
  PROVE  IsSuffix(s, t)
<1>1. /\ Len(s) \in Nat /\ Len(t) \in Nat /\ Len(s) <= Len(t)
      /\ \A i \in 1..Len(s) : s[i] \in S
      /\ \A i \in 1..Len(t) : t[i] \in S
  BY DEF EndsLike
<1>2. PICK r : r = Reverse(s)
  OBVIOUS
<1>3. PICK q : q = Reverse(t)
  OBVIOUS
<1>4. /\ r \in Seq(S) /\ Len(r) = Len(s) /\ q \in Seq(S) /\ Len(q) = Len(t)
      /\ \A i \in 1..Len(s) : r[i] = s[(Len(s) - i) + 1]
      /\ \A i \in 1..Len(t) : q[i] = t[(Len(t) - i) + 1]
  <2>1. \A i \in 1..Len(s) : (Len(s) - i) + 1 \in 1..Len(s)
    BY <1>1
  <2>2. \A i \in 1..Len(t) : (Len(t) - i) + 1 \in 1..Len(t)
    BY <1>1
  <2>3. r = [i \in 1..Len(s) |-> s[(Len(s) - i) + 1]]
    BY <1>2 DEF Reverse
  <2>4. q = [i \in 1..Len(t) |-> t[(Len(t) - i) + 1]]
    BY <1>3 DEF Reverse
  <2>5. r \in Seq(S) /\ Len(r) = Len(s) /\ \A i \in 1..Len(s) : r[i] = s[(Len(s) - i) + 1]
    BY <1>1, <2>1, <2>3
  <2>6. q \in Seq(S) /\ Len(q) = Len(t) /\ \A i \in 1..Len(t) : q[i] = t[(Len(t) - i) + 1]
    BY <1>1, <2>2, <2>4
  <2> QED BY <2>5, <2>6
<1>5. \A i \in 1..Len(s) : r[i] = q[i]
  <2> SUFFICES ASSUME NEW i \in 1..Len(s) PROVE r[i] = q[i]
    OBVIOUS
  <2>1. PICK n : n = i - 1
    OBVIOUS
  <2>2. n \in Nat /\ n < Len(s) /\ (Len(s) - i) + 1 = Len(s) - n /\ (Len(t) - i) + 1 = Len(t) - n /\ i \in 1..Len(t)
    BY <1>1, <2>1
  <2>3. s[Len(s) - n] = t[Len(t) - n]
    BY <2>2 DEF EndsLike
  <2> QED BY <1>4, <2>2, <2>3
<1>6. PICK n \in Nat : n = Len(r) /\ n <= Len(q)
  BY <1>1, <1>4
<1>7. SubSeq(r, 1, n) \in Seq(S) /\ SubSeq(q, 1, n) \in Seq(S) /\ Len(SubSeq(r, 1, n)) = n /\ Len(SubSeq(q, 1, n)) = n
      /\ \A k \in 1..n : SubSeq(r, 1, n)[k] = r[k] /\ SubSeq(q, 1, n)[k] = q[k]
  <2>1. n \in 0..Len(r) /\ n \in 0..Len(q)
    BY <1>6
  <2> QED BY <1>4, <2>1, Prefix
<1>8. SubSeq(r, 1, n) = SubSeq(q, 1, n)
  BY <1>4, <1>5, <1>6, <1>7
<1> QED BY <1>1, <1>2, <1>3, <1>4, <1>6, <1>8 DEF IsSuffix, IsPrefix

(* What a bounded list keeps of s and e: all, or all but the oldest.       *)
Keeps(S, s, e, size, r) ==
  /\ r \in Seq(S) /\ Len(r) \in Nat \ {0} /\ DOMAIN r = 1..Len(r) /\ r[Len(r)] = e
  /\ \E d \in {0, 1} : /\ Len(r) + d = Len(s) + 1 /\ (Len(r) < size => d = 0)
                       /\ \A j \in 1..(Len(r) - 1) : j + d \in 1..Len(s) /\ r[j] = s[j + d]

(* A list with a maxlen of its own.                                        *)
LEMMA LatterList ==
  ASSUME NEW S, NEW s \in Seq(S), NEW e \in S, NEW size \in Nat \ {0}
  PROVE  Keeps(S, s, e, size, Latter(Append(s, e), size))
<1>0. PICK r : r = Latter(Append(s, e), size)
  OBVIOUS
<1>1. PICK q : q = Append(s, e)
  OBVIOUS
<1>2. /\ q \in Seq(S) /\ Len(s) \in Nat /\ Len(q) = Len(s) + 1 /\ DOMAIN q = 1..(Len(s) + 1)
      /\ q[Len(s) + 1] = e /\ \A j \in 1..Len(s) : q[j] = s[j]
  BY <1>1, Appended
<1>3. ASSUME Len(q) > size PROVE Keeps(S, s, e, size, r)
  <2>1. r = Tail(q) /\ q # <<>>
    BY <1>0, <1>1, <1>2, <1>3 DEF Latter
  <2>2. r \in Seq(S) /\ Len(r) = Len(s) /\ DOMAIN r = 1..Len(s) /\ \A j \in 1..Len(s) : r[j] = q[j + 1]
    BY <1>2, <2>1
  <2>3. Len(s) >= size /\ Len(s) \in Nat \ {0}
    BY <1>2, <1>3
  <2>4. \A j \in 1..(Len(r) - 1) : j + 1 \in 1..Len(s) /\ r[j] = s[j + 1]
    BY <1>2, <2>2
  <2>5. r[Len(r)] = e
    BY <1>2, <2>2, <2>3
  <2>6. ~(Len(r) < size) /\ Len(r) + 1 = Len(s) + 1
    BY <2>2, <2>3
  <2> QED BY <2>2, <2>3, <2>4, <2>5, <2>6 DEF Keeps
<1>4. ASSUME ~(Len(q) > size) PROVE Keeps(S, s, e, size, r)
  <2>1. r = q
    BY <1>0, <1>1, <1>4 DEF Latter
  <2>2. Len(r) + 0 = Len(s) + 1 /\ Len(r) \in Nat \ {0} /\ DOMAIN r = 1..Len(r) /\ r \in Seq(S) /\ r[Len(r)] = e
    BY <1>2, <2>1
  <2>3. \A j \in 1..(Len(r) - 1) : j + 0 \in 1..Len(s) /\ r[j] = s[j + 0]
    BY <1>2, <2>1
  <2> QED BY <2>2, <2>3 DEF Keeps
<1> QED BY <1>0, <1>3, <1>4

(* A command more, and what the queue keeps of it.                         *)
LEMMA QueuedMore ==
  ASSUME NEW r \in Nat, ApiTyped, EndsLike(pending, commands),
         pending' = Latter(Append(pending, r), MaxPending), commands' = Append(commands, r)
  PROVE  pending' \in Seq(Nat) /\ commands' \in Seq(Nat) /\ EndsLike(pending', commands')
<1>1. pending \in Seq(Nat) /\ commands \in Seq(Nat) /\ MaxPending \in Nat \ {0} /\ Len(pending) \in Nat
  BY OperatorApiAssumption DEF ApiTyped
<1>2. PICK p, c : p = pending' /\ c = commands'
  OBVIOUS
<1>3. p = Latter(Append(pending, r), MaxPending)
  BY <1>2
<1>0. Keeps(Nat, pending, r, MaxPending, p)
  BY <1>1, <1>3, LatterList
<1>4. p \in Seq(Nat) /\ Len(p) \in Nat \ {0} /\ p[Len(p)] = r
  BY <1>0 DEF Keeps
<1>5. PICK d \in {0, 1} : /\ Len(p) + d = Len(pending) + 1
                          /\ \A j \in 1..(Len(p) - 1) : j + d \in 1..Len(pending) /\ p[j] = pending[j + d]
  BY <1>0 DEF Keeps
<1>6. /\ c \in Seq(Nat) /\ Len(commands) \in Nat /\ Len(c) = Len(commands) + 1
      /\ c[Len(commands) + 1] = r /\ \A j \in 1..Len(commands) : c[j] = commands[j]
  BY <1>1, <1>2, Appended
<1>7. Len(pending) <= Len(commands) /\ \A i \in Nat : i < Len(pending) => pending[Len(pending) - i] = commands[Len(commands) - i]
  BY DEF EndsLike
<1>8. Len(p) <= Len(c)
  BY <1>1, <1>4, <1>5, <1>6, <1>7
<1>9. ASSUME NEW i \in Nat, i < Len(p) PROVE p[Len(p) - i] = c[Len(c) - i]
  <2>1. CASE i = 0
    BY <1>4, <1>6, <2>1
  <2>2. CASE i # 0
    <3>1. PICK n : n = i - 1
      OBVIOUS
    <3>2. PICK j : j = Len(p) - i
      OBVIOUS
    <3>3. n \in Nat /\ j \in 1..(Len(p) - 1)
      BY <1>4, <1>9, <2>2, <3>1, <3>2
    <3>4. j + d \in 1..Len(pending) /\ p[j] = pending[j + d]
      BY <1>5, <3>3
    <3>5. j + d = Len(pending) - n
      BY <1>1, <1>4, <1>5, <3>1, <3>2
    <3>6. n < Len(pending)
      BY <1>1, <3>3, <3>4, <3>5
    <3>7. pending[Len(pending) - n] = commands[Len(commands) - n]
      BY <1>7, <3>3, <3>6
    <3>8. Len(commands) - n \in 1..Len(commands) /\ Len(commands) - n = Len(c) - i
      BY <1>1, <1>6, <1>7, <3>1, <3>3, <3>6
    <3>9. c[Len(c) - i] = commands[Len(commands) - n]
      BY <1>6, <3>8
    <3> QED BY <3>2, <3>4, <3>5, <3>7, <3>9
  <2> QED BY <2>1, <2>2
<1>10. EndsLike(p, c)
  BY <1>8, <1>9 DEF EndsLike
<1> QED BY <1>2, <1>4, <1>6, <1>10

(* An entry more in the audit log.                                         *)
LEMMA AuditMore ==
  ASSUME ApiTyped, AuditFits, NEW e \in AuditEntry, audit' = Latter(Append(audit, e), MaxAudit),
         e.of \in DOMAIN requests', e.result = "ok" => requests'[e.of].at = "ok",
         e.result # "ok" => requests'[e.of].at \in Answer \ {"ok"},
         \A i \in DOMAIN audit : /\ audit[i].of # e.of /\ audit[i].of \in DOMAIN requests'
                                 /\ requests'[audit[i].of].at = requests[audit[i].of].at,
         \A r \in DOMAIN requests' : requests'[r].at = "ok" =>
           (r \in DOMAIN requests /\ requests[r].at = "ok") \/ (r = e.of /\ e.result = "ok")
  PROVE  AuditFits' /\ audit' \in Seq(AuditEntry)
<1>1. audit \in Seq(AuditEntry) /\ MaxAudit \in Nat \ {0} /\ Len(audit) \in Nat /\ DOMAIN audit = 1..Len(audit)
  BY OperatorApiAssumption DEF ApiTyped
<1>2. PICK a : a = audit'
  OBVIOUS
<1>3. a = Latter(Append(audit, e), MaxAudit)
  BY <1>2
<1>0. Keeps(AuditEntry, audit, e, MaxAudit, a)
  BY <1>1, <1>3, LatterList
<1>4. a \in Seq(AuditEntry) /\ Len(a) \in Nat \ {0} /\ DOMAIN a = 1..Len(a) /\ a[Len(a)] = e
  BY <1>0 DEF Keeps
<1>5. PICK d \in {0, 1} : /\ Len(a) + d = Len(audit) + 1 /\ (Len(a) < MaxAudit => d = 0)
                          /\ \A j \in 1..(Len(a) - 1) : j + d \in 1..Len(audit) /\ a[j] = audit[j + d]
  BY <1>0 DEF Keeps
<1>6. \A j \in DOMAIN a : j = Len(a) \/ j \in 1..(Len(a) - 1)
  BY <1>4
<1>7. /\ \A i \in DOMAIN audit : /\ audit[i].of \in DOMAIN requests
                                 /\ audit[i].result = "ok" => requests[audit[i].of].at = "ok"
                                 /\ audit[i].result # "ok" => requests[audit[i].of].at \in Answer \ {"ok"}
      /\ \A i, j \in DOMAIN audit : audit[i].of = audit[j].of => i = j
  BY DEF AuditFits
<1>8. ASSUME NEW j \in DOMAIN a
      PROVE  /\ a[j].of \in DOMAIN requests'
             /\ a[j].result = "ok" => requests'[a[j].of].at = "ok"
             /\ a[j].result # "ok" => requests'[a[j].of].at \in Answer \ {"ok"}
  <2>1. CASE j = Len(a)
    BY <1>4, <2>1
  <2>2. CASE j \in 1..(Len(a) - 1)
    <3>1. PICK i \in DOMAIN audit : a[j] = audit[i]
      BY <1>1, <1>5, <2>2
    <3> QED BY <1>7, <3>1
  <2> QED BY <1>6, <2>1, <2>2
<1>9. ASSUME NEW i \in DOMAIN a, NEW j \in DOMAIN a, a[i].of = a[j].of PROVE i = j
  <2>1. CASE i \in 1..(Len(a) - 1) /\ j \in 1..(Len(a) - 1)
    <3>1. i + d \in DOMAIN audit /\ j + d \in DOMAIN audit /\ a[i] = audit[i + d] /\ a[j] = audit[j + d]
      BY <1>1, <1>5, <2>1
    <3>2. i + d = j + d
      BY <1>7, <1>9, <3>1
    <3> QED BY <1>4, <3>2
  <2>2. CASE i = Len(a) /\ j \in 1..(Len(a) - 1)
    <3>1. PICK k \in DOMAIN audit : a[j] = audit[k]
      BY <1>1, <1>5, <2>2
    <3> QED BY <1>4, <1>9, <2>2, <3>1
  <2>3. CASE j = Len(a) /\ i \in 1..(Len(a) - 1)
    <3>1. PICK k \in DOMAIN audit : a[i] = audit[k]
      BY <1>1, <1>5, <2>3
    <3> QED BY <1>4, <1>9, <2>3, <3>1
  <2> QED BY <1>6, <2>1, <2>2, <2>3
<1>10. ASSUME Len(a) < MaxAudit, NEW r \in DOMAIN requests', requests'[r].at = "ok"
       PROVE  \E i \in DOMAIN a : a[i].result = "ok" /\ a[i].of = r
  <2>0. d = 0
    BY <1>5, <1>10
  <2>1. Len(a) = Len(audit) + 1 /\ \A j \in 1..(Len(a) - 1) : a[j] = audit[j]
    <3>0. Len(a) + d = Len(audit) + 1 /\ Len(a) \in Nat /\ Len(audit) \in Nat
      BY <1>1, <1>4, <1>5
    <3>1. \A j \in 1..(Len(a) - 1) : a[j] = audit[j + 0]
      BY <1>5, <2>0
    <3>2. Len(a) = Len(audit) + 1
      BY <2>0, <3>0
    <3>3. \A j \in 1..(Len(a) - 1) : j + 0 = j
      BY <1>4
    <3> QED BY <3>1, <3>2, <3>3
  <2>2. CASE r = e.of /\ e.result = "ok"
    BY <1>4, <2>2
  <2>3. CASE r \in DOMAIN requests /\ requests[r].at = "ok"
    <3>1. Len(audit) < MaxAudit
      BY <1>1, <1>10, <2>1
    <3>2. PICK i \in DOMAIN audit : audit[i].result = "ok" /\ audit[i].of = r
      BY <2>3, <3>1 DEF AuditFits
    <3>3. i \in 1..(Len(a) - 1)
      BY <1>1, <2>1
    <3>4. a[i] = audit[i] /\ i \in DOMAIN a
      BY <1>4, <2>1, <3>3
    <3> QED BY <3>2, <3>4
  <2> QED BY <1>10, <2>2, <2>3
<1> QED BY <1>2, <1>4, <1>8, <1>9, <1>10 DEF AuditFits

(* A request that arrives, and one that goes on.                           *)
LEMMA RequestArrives ==
  ASSUME ApiTyped, NEW request \in Request, requests' = Append(requests, request)
  PROVE  /\ requests' \in Seq(Request) /\ Len(requests') = Len(requests) + 1 /\ Len(requests) \in Nat
         /\ DOMAIN requests = 1..Len(requests) /\ DOMAIN requests' = 1..(Len(requests) + 1)
         /\ requests'[Len(requests) + 1] = request /\ \A r \in DOMAIN requests : requests'[r] = requests[r]
<1>1. PICK q \in Seq(Request) : q = requests
  BY DEF ApiTyped
<1>2. PICK p : p = Append(q, request)
  OBVIOUS
<1>3. /\ p \in Seq(Request) /\ Len(q) \in Nat /\ Len(p) = Len(q) + 1 /\ DOMAIN q = 1..Len(q)
      /\ DOMAIN p = 1..(Len(q) + 1) /\ p[Len(q) + 1] = request /\ \A j \in 1..Len(q) : p[j] = q[j]
  BY <1>2, Appended
<1> QED BY <1>1, <1>2, <1>3

(* A request that goes on.                                                 *)
LEMMA RequestMoves ==
  ASSUME ApiTyped, NEW r \in DOMAIN requests, NEW at \in {"queued", "ok"}, requests' = [requests EXCEPT ![r].at = at]
  PROVE  /\ requests' \in Seq(Request) /\ DOMAIN requests' = DOMAIN requests
         /\ requests'[r].at = at /\ \A q \in DOMAIN requests \ {r} : requests'[q] = requests[q]
         /\ r \in Nat
<1>1. requests \in Seq(Request) /\ DOMAIN requests = 1..Len(requests) /\ requests[r] \in Request /\ Len(requests) \in Nat
  BY DEF ApiTyped
<1>2. [requests[r] EXCEPT !.at = at] \in Request /\ [requests[r] EXCEPT !.at = at].at = at
  BY <1>1 DEF Request, Answer
<1>3. requests' = [requests EXCEPT ![r] = [requests[r] EXCEPT !.at = at]]
  BY <1>1
<1> QED BY <1>1, <1>2, <1>3, Rewritten

(* The parts that only look at the places of the requests.                 *)
LEMMA NewRequestFits ==
  ASSUME RecordInv, NEW request \in Request, request.at \notin {"queued", "ok"},
         requests' = Append(requests, request), UNCHANGED <<pending, commands>>
  PROVE  CommandsFit' /\ EndsLike(pending', commands') /\ requests' \in Seq(Request)
         /\ pending' \in Seq(Nat) /\ commands' \in Seq(Nat)
<1>1. ApiTyped /\ CommandsFit /\ EndsLike(pending, commands)
  BY DEF RecordInv
<1>2. /\ requests' \in Seq(Request) /\ Len(requests) \in Nat
      /\ DOMAIN requests = 1..Len(requests) /\ DOMAIN requests' = 1..(Len(requests) + 1)
      /\ requests'[Len(requests) + 1] = request /\ \A r \in DOMAIN requests : requests'[r] = requests[r]
  BY <1>1, RequestArrives
<1>3. \A r \in DOMAIN requests' : r \in DOMAIN requests \/ r = Len(requests) + 1
  BY <1>2
<1>4. DOMAIN requests \subseteq DOMAIN requests'
  BY <1>2
<1>5. \A k \in DOMAIN commands' : commands'[k] \in DOMAIN requests' /\ requests'[commands'[k]].at \in {"queued", "ok"}
  BY <1>1, <1>2, <1>4 DEF CommandsFit
<1>6. \A r \in DOMAIN requests' : requests'[r].at \in {"queued", "ok"} => \E k \in DOMAIN commands' : commands'[k] = r
  BY <1>1, <1>2, <1>3 DEF CommandsFit
<1>7. \A k, l \in DOMAIN commands' : commands'[k] = commands'[l] => k = l
  BY <1>1 DEF CommandsFit
<1> QED BY <1>1, <1>2, <1>5, <1>6, <1>7 DEF CommandsFit, ApiTyped

(* A request that is refused without an entry, or let through.             *)
LEMMA ArrivesKeeps ==
  ASSUME RecordInv, NEW request \in Request, request.at \notin {"queued", "ok"},
         requests' = Append(requests, request), UNCHANGED <<pending, audit, commands>>
  PROVE  RecordInv'
<1>1. CommandsFit' /\ EndsLike(pending', commands') /\ ApiTyped'
  BY NewRequestFits DEF RecordInv, ApiTyped
<1>2. ApiTyped /\ AuditFits
  BY DEF RecordInv
<1>3. /\ Len(requests) \in Nat /\ DOMAIN requests = 1..Len(requests) /\ DOMAIN requests' = 1..(Len(requests) + 1)
      /\ requests'[Len(requests) + 1] = request /\ \A r \in DOMAIN requests : requests'[r] = requests[r]
  BY <1>2, RequestArrives
<1>4. \A r \in DOMAIN requests' : r \in DOMAIN requests \/ r = Len(requests) + 1
  BY <1>3
<1>5. DOMAIN requests \subseteq DOMAIN requests'
  BY <1>3
<1>6. \A i \in DOMAIN audit' : /\ audit'[i].of \in DOMAIN requests'
                               /\ audit'[i].result = "ok" => requests'[audit'[i].of].at = "ok"
                               /\ audit'[i].result # "ok" => requests'[audit'[i].of].at \in Answer \ {"ok"}
  BY <1>2, <1>3, <1>5 DEF AuditFits
<1>7. \A i, j \in DOMAIN audit' : audit'[i].of = audit'[j].of => i = j
  BY <1>2 DEF AuditFits
<1>8. Len(audit') < MaxAudit =>
        \A r \in DOMAIN requests' : requests'[r].at = "ok" => \E i \in DOMAIN audit' : audit'[i].result = "ok" /\ audit'[i].of = r
  BY <1>2, <1>3, <1>4 DEF AuditFits
<1>9. AuditFits'
  BY <1>6, <1>7, <1>8 DEF AuditFits
<1> QED BY <1>1, <1>9 DEF RecordInv

(* A request that is turned away with an entry.                            *)
LEMMA TurnedAwayKeeps == ASSUME RecordInv, TurnedAway PROVE RecordInv'
<1>0. PICK code \in {"unauthorized", "forbidden"} : requests' = Append(requests, [action |-> "any", at |-> code])
  BY DEF TurnedAway, Arrives
<1>1. PICK request : request = [action |-> "any", at |-> code]
  OBVIOUS
<1>2. request \in Request /\ requests' = Append(requests, request) /\ request.at = code /\ code \in Answer \ {"ok"}
      /\ request.at \notin {"queued", "ok"}
  BY <1>0, <1>1 DEF Request, Answer
<1>3. UNCHANGED <<pending, commands>>
  BY DEF TurnedAway
<1>4. ApiTyped /\ AuditFits
  BY DEF RecordInv
<1>5. /\ CommandsFit' /\ EndsLike(pending', commands') /\ requests' \in Seq(Request)
      /\ pending' \in Seq(Nat) /\ commands' \in Seq(Nat)
  BY <1>1, <1>2, <1>3, NewRequestFits
<1>6. /\ Len(requests) \in Nat /\ DOMAIN requests = 1..Len(requests) /\ DOMAIN requests' = 1..(Len(requests) + 1)
      /\ requests'[Len(requests) + 1] = request /\ \A r \in DOMAIN requests : requests'[r] = requests[r]
      /\ Len(requests') = Len(requests) + 1
  BY <1>2, <1>4, RequestArrives
<1>7. PICK e : e = [of |-> Len(requests'), result |-> "rejected"]
  OBVIOUS
<1>8. e \in AuditEntry /\ e.result # "ok" /\ e.of = Len(requests) + 1 /\ audit' = Latter(Append(audit, e), MaxAudit)
  BY <1>6, <1>7 DEF TurnedAway, AuditEntry
<1>9. e.of \in DOMAIN requests' /\ requests'[e.of].at \in Answer \ {"ok"}
  <2>1. Len(requests) + 1 \in DOMAIN requests'
    BY <1>6
  <2> QED BY <1>2, <1>6, <1>8, <2>1
<1>10. \A i \in DOMAIN audit : /\ audit[i].of # e.of /\ audit[i].of \in DOMAIN requests'
                               /\ requests'[audit[i].of].at = requests[audit[i].of].at
  <2>1. \A i \in DOMAIN audit : audit[i].of \in DOMAIN requests
    BY <1>4 DEF AuditFits
  <2>2. \A r \in DOMAIN requests : r # e.of /\ r \in DOMAIN requests' /\ requests'[r] = requests[r]
    BY <1>6, <1>8
  <2> QED BY <2>1, <2>2
<1>11. \A r \in DOMAIN requests' : requests'[r].at = "ok" => r \in DOMAIN requests /\ requests[r].at = "ok"
  <2>1. \A r \in DOMAIN requests' : r \in DOMAIN requests \/ r = Len(requests) + 1
    BY <1>6
  <2> QED BY <1>2, <1>6, <2>1
<1>12. AuditFits' /\ audit' \in Seq(AuditEntry)
  BY <1>4, <1>8, <1>9, <1>10, <1>11, AuditMore
<1> QED BY <1>5, <1>12 DEF RecordInv, ApiTyped

(* A request that becomes a command.                                       *)
LEMMA EnqueueKeeps == ASSUME RecordInv, NEW r \in DOMAIN requests, Enqueue(r) PROVE RecordInv'
<1>0. ApiTyped /\ CommandsFit /\ EndsLike(pending, commands) /\ AuditFits
  BY DEF RecordInv
<1>1. /\ requests[r].at = "guarded" /\ pending' = Latter(Append(pending, r), MaxPending)
      /\ commands' = Append(commands, r) /\ requests' = [requests EXCEPT ![r].at = "queued"] /\ audit' = audit
  BY DEF Enqueue
<1>2. /\ requests' \in Seq(Request) /\ DOMAIN requests' = DOMAIN requests
      /\ requests'[r].at = "queued" /\ \A q \in DOMAIN requests \ {r} : requests'[q] = requests[q]
      /\ r \in Nat
  BY <1>0, <1>1, RequestMoves
<1>3. pending' \in Seq(Nat) /\ commands' \in Seq(Nat) /\ EndsLike(pending', commands')
  BY <1>0, <1>1, <1>2, QueuedMore
<1>4. PICK c : c = commands'
  OBVIOUS
<1>5. /\ Len(commands) \in Nat /\ DOMAIN commands = 1..Len(commands) /\ DOMAIN c = 1..(Len(commands) + 1)
      /\ c[Len(commands) + 1] = r /\ \A j \in 1..Len(commands) : c[j] = commands[j]
  <2>1. commands \in Seq(Nat) /\ r \in Nat /\ c = Append(commands, r)
    BY <1>0, <1>1, <1>2, <1>4 DEF ApiTyped
  <2> QED BY <2>1, Appended
<1>6. \A k \in DOMAIN c : k \in DOMAIN commands \/ k = Len(commands) + 1
  BY <1>5
<1>7. /\ \A k \in DOMAIN commands : commands[k] # r /\ commands[k] \in DOMAIN requests /\ requests[commands[k]].at \in {"queued", "ok"}
      /\ \A q \in DOMAIN requests : requests[q].at \in {"queued", "ok"} => \E k \in DOMAIN commands : commands[k] = q
      /\ \A k, l \in DOMAIN commands : commands[k] = commands[l] => k = l
  BY <1>0, <1>1 DEF CommandsFit
<1>8. \A k \in DOMAIN c : c[k] \in DOMAIN requests' /\ requests'[c[k]].at \in {"queued", "ok"}
  BY <1>2, <1>5, <1>6, <1>7
<1>9. ASSUME NEW q \in DOMAIN requests', requests'[q].at \in {"queued", "ok"} PROVE \E k \in DOMAIN c : c[k] = q
  <2>1. CASE q = r
    BY <1>5, <2>1
  <2>2. CASE q # r
    <3>1. PICK k \in DOMAIN commands : commands[k] = q
      BY <1>2, <1>7, <1>9, <2>2
    <3>2. k \in DOMAIN c /\ c[k] = commands[k]
      BY <1>5
    <3> QED BY <3>1, <3>2
  <2> QED BY <2>1, <2>2
<1>10. ASSUME NEW k \in DOMAIN c, NEW l \in DOMAIN c, c[k] = c[l] PROVE k = l
  BY <1>5, <1>6, <1>7, <1>10
<1>11. CommandsFit'
  BY <1>4, <1>8, <1>9, <1>10 DEF CommandsFit
<1>12. AuditFits'
  <2>1. \A i \in DOMAIN audit : audit[i].of \in DOMAIN requests \ {r}
    BY <1>0, <1>1 DEF AuditFits, Answer
  <2> QED BY <1>0, <1>1, <1>2, <2>1 DEF AuditFits
<1> QED BY <1>0, <1>1, <1>2, <1>3, <1>11, <1>12 DEF RecordInv, ApiTyped

(* A command that is written to the audit log.                             *)
LEMMA RecordedKeeps == ASSUME RecordInv, NEW r \in DOMAIN requests, Recorded(r) PROVE RecordInv'
<1>0. ApiTyped /\ CommandsFit /\ EndsLike(pending, commands) /\ AuditFits
  BY DEF RecordInv
<1>1. /\ requests[r].at = "queued" /\ audit' = Latter(Append(audit, Entry(r)), MaxAudit)
      /\ requests' = [requests EXCEPT ![r].at = "ok"] /\ UNCHANGED <<pending, commands>>
  BY DEF Recorded
<1>2. /\ requests' \in Seq(Request) /\ DOMAIN requests' = DOMAIN requests
      /\ requests'[r].at = "ok" /\ \A q \in DOMAIN requests \ {r} : requests'[q] = requests[q]
      /\ r \in Nat
  BY <1>0, <1>1, RequestMoves
<1>3. PICK e : e = Entry(r)
  OBVIOUS
<1>4. e \in AuditEntry /\ e.result = "ok" /\ e.of = r /\ audit' = Latter(Append(audit, e), MaxAudit)
  BY <1>1, <1>2, <1>3 DEF Entry, AuditEntry
<1>5. \A i \in DOMAIN audit : audit[i].of \in DOMAIN requests \ {r}
  BY <1>0, <1>1 DEF AuditFits, Answer
<1>6. \A q \in DOMAIN requests' : requests'[q].at = "ok" => (q \in DOMAIN requests /\ requests[q].at = "ok") \/ q = r
  BY <1>2
<1>7. AuditFits' /\ audit' \in Seq(AuditEntry)
  BY <1>0, <1>2, <1>4, <1>5, <1>6, AuditMore
<1>8. CommandsFit'
  BY <1>0, <1>1, <1>2 DEF CommandsFit
<1> QED BY <1>0, <1>1, <1>2, <1>7, <1>8 DEF RecordInv, ApiTyped

(* Each step keeps the record.                                             *)
LEMMA RecordNext == RecordInv /\ [OperatorApiNext]_operatorVars => RecordInv'
<1> SUFFICES ASSUME RecordInv, [OperatorApiNext]_operatorVars PROVE RecordInv'
  OBVIOUS
<1>1. ASSUME NEW action \in OperatorAction, Handle(action) PROVE RecordInv'
  <2>1. PICK confirmed \in BOOLEAN :
          requests' = Append(requests, [action |-> action,
                                        at |-> IF Guards(action, confirmed) = "ok" THEN "guarded" ELSE Guards(action, confirmed)])
    BY <1>1 DEF Handle, Arrives
  <2>2. Guards(action, confirmed) \in Answer
    BY DEF Guards, Answer
  <2>3. PICK at : at = IF Guards(action, confirmed) = "ok" THEN "guarded" ELSE Guards(action, confirmed)
    OBVIOUS
  <2>4. at \in ({"guarded"} \cup Answer) \ {"ok", "queued"}
    BY <2>2, <2>3 DEF Answer
  <2>5. PICK request : request = [action |-> action, at |-> at]
    OBVIOUS
  <2>6. request \in Request /\ request.at \notin {"queued", "ok"} /\ requests' = Append(requests, request)
    BY <2>1, <2>3, <2>4, <2>5 DEF Request
  <2>7. UNCHANGED <<pending, audit, commands>>
    BY <1>1 DEF Handle
  <2> QED BY <2>6, <2>7, ArrivesKeeps
<1>2. CASE NotFound
  <2>1. PICK request : request = [action |-> "any", at |-> "not found"]
    OBVIOUS
  <2>2. request \in Request /\ request.at \notin {"queued", "ok"}
    BY <2>1 DEF Request, Answer
  <2>3. requests' = Append(requests, request) /\ UNCHANGED <<pending, audit, commands>>
    BY <1>2, <2>1 DEF NotFound, Arrives
  <2> QED BY <2>2, <2>3, ArrivesKeeps
<1>3. CASE DrainCommands
  <2>1. pending' = <<>> /\ UNCHANGED <<requests, audit, commands>>
    BY <1>3 DEF DrainCommands
  <2>2. ApiTyped' /\ Len(pending') = 0 /\ Len(commands) \in Nat
    BY <2>1 DEF RecordInv, ApiTyped
  <2>3. EndsLike(pending', commands')
    BY <2>1, <2>2 DEF EndsLike
  <2> QED BY <2>1, <2>2, <2>3 DEF RecordInv, CommandsFit, AuditFits
<1>4. CASE WorkerStarts \/ StepEvent \/ WorkerEnds \/ UNCHANGED operatorVars
  <2>1. UNCHANGED <<requests, pending, audit, commands>>
    BY <1>4 DEF WorkerStarts, StepEvent, WorkerEnds, operatorVars
  <2> QED BY <2>1 DEF RecordInv, ApiTyped, CommandsFit, AuditFits, EndsLike
<1> QED BY <1>1, <1>2, <1>3, <1>4, TurnedAwayKeeps, EnqueueKeeps, RecordedKeeps DEF OperatorApiNext

(* There is nothing on record at the start.                                *)
LEMMA RecordStart == OperatorApiInit => RecordInv
<1> SUFFICES ASSUME OperatorApiInit PROVE RecordInv
  OBVIOUS
<1>1. requests = <<>> /\ pending = <<>> /\ audit = <<>> /\ commands = <<>>
  BY DEF OperatorApiInit
<1>2. Len(pending) = 0 /\ DOMAIN commands = {} /\ DOMAIN requests = {} /\ DOMAIN audit = {} /\ Len(commands) = 0
  BY <1>1
<1>3. ApiTyped
  BY <1>1 DEF ApiTyped
<1>4. CommandsFit /\ AuditFits
  BY <1>2 DEF CommandsFit, AuditFits
<1>5. EndsLike(pending, commands)
  BY <1>2 DEF EndsLike
<1> QED BY <1>3, <1>4, <1>5 DEF RecordInv

(* The record says what the property asks of it.                           *)
LEMMA RecordKeeps == RecordInv => OnTheRecord
<1> SUFFICES ASSUME RecordInv PROVE OnTheRecord
  OBVIOUS
<1>0. ApiTyped /\ CommandsFit /\ EndsLike(pending, commands) /\ AuditFits
  BY DEF RecordInv
<1>1. Range(commands) = {r \in DOMAIN requests : requests[r].at \in {"queued", "ok"}}
  BY <1>0 DEF CommandsFit, Range
<1>2. IsInjective(commands)
  BY <1>0 DEF CommandsFit, IsInjective
<1>3. IsSuffix(pending, commands)
  BY <1>0, SuffixOf DEF ApiTyped
<1>4. \A i \in DOMAIN audit : audit[i].result = "ok" => audit[i].of \in DOMAIN requests /\ requests[audit[i].of].at = "ok"
  BY <1>0 DEF AuditFits
<1>5. \A i, j \in DOMAIN audit : i # j => audit[i].of # audit[j].of
  BY <1>0 DEF AuditFits
<1>6. Len(audit) < MaxAudit =>
        \A r \in DOMAIN requests : requests[r].at = "ok" => \E i \in DOMAIN audit : audit[i].result = "ok" /\ audit[i].of = r
  BY <1>0 DEF AuditFits
<1>7. \A i \in DOMAIN audit : audit[i].result # "ok" =>
        audit[i].of \in {r \in DOMAIN requests : requests[r].at \in Answer \ {"ok"}}
  BY <1>0 DEF AuditFits
<1>8. \A progress \in {0, 50, 100} : ShownReadiness(progress) = "auto_publish" => ShownGate = "pass"
  <2> SUFFICES ASSUME NEW progress \in {0, 50, 100}, ~Succeeded PROVE ShownReadiness(progress) # "auto_publish"
    BY DEF ShownGate
  <2>1. CASE run.state = "queued"
    BY <2>1 DEF ShownReadiness
  <2>2. CASE run.state = "running"
    BY <2>2 DEF ShownReadiness
  <2>3. CASE run.state # "queued" /\ run.state # "running"
    BY <2>3 DEF ShownReadiness
  <2> QED BY <2>1, <2>2, <2>3
<1>9. LET Logged == {i \in DOMAIN audit : audit[i].result = "ok"}
          Answered == {r \in DOMAIN requests : requests[r].at = "ok"}
      IN /\ {audit[i].of : i \in Logged} \subseteq Answered
         /\ Len(audit) < MaxAudit => {audit[i].of : i \in Logged} = Answered
  BY <1>4, <1>6
<1> QED BY <1>1, <1>2, <1>3, <1>5, <1>7, <1>8, <1>9 DEF OnTheRecord

(* The queue ends with the newest commands, each asked for by one request  *)
(* that passed the guards, in order; the audit log has no more than one    *)
(* entry for each request and none without its answer; and the cockpit     *)
(* never shows a run as fit to publish whose gate has not passed           *)
(* (operator_actions.py:101-226, control_plane.py:85-104), whatever the    *)
(* limits of the two lists.                                                *)
THEOREM OnTheRecordKept == OperatorApiSpec => []OnTheRecord
  BY RecordStart, RecordNext, RecordKeeps, PTL DEF OperatorApiSpec

------------------------------------------------------------------------------
(* Tool contracts: the cache of inputs, the budget and the retries.        *)
CacheTyped ==
  /\ now \in Nat
  /\ store \in [Inputs -> Nat \cup {Nothing}] /\ put \in [Inputs -> Nat \cup {Nothing}]
  /\ \A i \in Inputs : put[i] # Nothing => put[i] <= now

CacheHolds ==
  /\ IsFiniteSet(Entries) /\ Cardinality(Entries) <= MaxEntries
  /\ \A i \in Inputs :
       /\ i \in Entries => store[i] = put[i]
       /\ i \notin Entries /\ put[i] # Nothing => \A j \in Entries : store[j] >= put[i]

BudgetHolds ==
  /\ used \in [Dimension -> Nat] /\ \A d \in Dimension : Limit[d] > 0 => used[d] <= Limit[d]
  /\ attempt \in Nat /\ attempt <= RetryLimit

CallFits == call # Nothing => call.of \in Inputs

ContractsInv == CacheTyped /\ CacheHolds /\ BudgetHolds /\ CallFits

(* An entry that goes, with what was put.                                  *)
LEMMA EntryGoes ==
  ASSUME CacheTyped, CacheHolds, NEW i \in Inputs,
         store' = [store EXCEPT ![i] = Nothing], put' = [put EXCEPT ![i] = Nothing], now' = now
  PROVE  CacheTyped' /\ CacheHolds'
<1>1. /\ \A j \in Inputs \ {i} : store'[j] = store[j] /\ put'[j] = put[j]
      /\ store'[i] = Nothing /\ put'[i] = Nothing
      /\ store' \in [Inputs -> Nat \cup {Nothing}] /\ put' \in [Inputs -> Nat \cup {Nothing}]
  BY DEF CacheTyped
<1>2. Entries' = Entries \ {i}
  BY <1>1 DEF Entries
<1>3. IsFiniteSet(Entries') /\ Cardinality(Entries') <= MaxEntries
  <2>1. IsFiniteSet(Entries') /\ Cardinality(Entries') <= Cardinality(Entries)
    BY <1>2, FS_Subset DEF CacheHolds
  <2>2. Cardinality(Entries') \in Nat /\ Cardinality(Entries) \in Nat
    BY <2>1, FS_CardinalityType DEF CacheHolds
  <2> QED BY <2>1, <2>2, ToolContractsAssumption DEF CacheHolds
<1>4. CacheTyped'
  BY <1>1 DEF CacheTyped
<1>5. \A k \in Inputs : k \in Entries' => store'[k] = put'[k]
  BY <1>1, <1>2 DEF CacheHolds
<1>6. \A k \in Inputs : k \notin Entries' /\ put'[k] # Nothing => \A j \in Entries' : store'[j] >= put'[k]
  <2> SUFFICES ASSUME NEW k \in Inputs, k \notin Entries', put'[k] # Nothing, NEW j \in Entries'
               PROVE  store'[j] >= put'[k]
    OBVIOUS
  <2>1. k # i /\ j # i /\ j \in Inputs
    BY <1>1, <1>2 DEF Entries
  <2>2. k \notin Entries /\ j \in Entries /\ put[k] # Nothing /\ put'[k] = put[k] /\ store'[j] = store[j]
    BY <1>1, <1>2, <2>1
  <2> QED BY <2>2 DEF CacheHolds
<1> QED BY <1>3, <1>4, <1>5, <1>6 DEF CacheHolds

(* A put: an entry is renewed, or one is made and the oldest may make room.*)
LEMMA PutKeeps ==
  ASSUME CacheTyped, CacheHolds, NEW i \in Inputs, CachePut(i), now' = now
  PROVE  CacheTyped' /\ CacheHolds'
<1>1. PICK left : /\ \/ left = Entries /\ ~(Cardinality(Entries) >= MaxEntries /\ i \notin Entries)
                     \/ \E o \in Oldest(Entries) : left = Entries \ {o} /\ Cardinality(Entries) >= MaxEntries /\ i \notin Entries
                  /\ store' = [j \in Inputs |-> IF j = i THEN now ELSE IF j \in left THEN store[j] ELSE Nothing]
  BY DEF CachePut
<1>2. put' = [put EXCEPT ![i] = now]
  BY DEF CachePut
<1>3. now \in Nat /\ now # Nothing /\ put \in [Inputs -> Nat \cup {Nothing}] /\ store \in [Inputs -> Nat \cup {Nothing}]
  BY EntryAssumption DEF CacheTyped
<1>4. left \subseteq Entries /\ \A j \in Entries : j \in Inputs /\ store[j] \in Nat /\ store[j] # Nothing /\ store[j] = put[j] /\ store[j] <= now
  BY <1>1, <1>3 DEF Entries, CacheTyped, CacheHolds
<1>5. /\ store'[i] = now /\ put'[i] = now /\ \A j \in Inputs \ {i} : put'[j] = put[j]
      /\ \A j \in left \ {i} : store'[j] = store[j]
      /\ \A j \in Inputs \ (left \cup {i}) : store'[j] = Nothing
  BY <1>1, <1>2, <1>3, <1>4
<1>6. Entries' = left \cup {i}
  <2>1. \A j \in left \cup {i} : j \in Inputs /\ store'[j] # Nothing
    BY <1>3, <1>4, <1>5
  <2>2. \A j \in Inputs : store'[j] # Nothing => j \in left \cup {i}
    BY <1>5
  <2> QED BY <2>1, <2>2 DEF Entries
<1>7. CacheTyped'
  <2>1. store' \in [Inputs -> Nat \cup {Nothing}] /\ put' \in [Inputs -> Nat \cup {Nothing}]
    BY <1>1, <1>2, <1>3, <1>4
  <2>2. \A j \in Inputs : put'[j] # Nothing => put'[j] <= now
    BY <1>3, <1>5 DEF CacheTyped
  <2> QED BY <1>3, <2>1, <2>2 DEF CacheTyped
<1>8. IsFiniteSet(Entries') /\ Cardinality(Entries') <= MaxEntries
  <2>0. IsFiniteSet(Entries) /\ Cardinality(Entries) \in Nat /\ Cardinality(Entries) <= MaxEntries /\ MaxEntries \in Nat
    BY FS_CardinalityType, ToolContractsAssumption DEF CacheHolds
  <2>1. CASE i \in Entries
    BY <1>1, <1>6, <2>0, <2>1
  <2>2. CASE i \notin Entries /\ left = Entries /\ ~(Cardinality(Entries) >= MaxEntries)
    <3>1. IsFiniteSet(Entries \cup {i}) /\ Cardinality(Entries \cup {i}) = Cardinality(Entries) + 1
      BY <2>0, <2>2, FS_AddElement
    <3> QED BY <1>6, <2>0, <2>2, <3>1
  <2>3. CASE \E o \in Oldest(Entries) : left = Entries \ {o} /\ i \notin Entries
    <3>1. PICK o \in Entries : left = Entries \ {o}
      BY <2>3 DEF Oldest
    <3>2. IsFiniteSet(left) /\ Cardinality(left) = Cardinality(Entries) - 1
      BY <2>0, <3>1, FS_RemoveElement
    <3>3. i \notin left
      BY <2>3, <1>4
    <3>4. IsFiniteSet(left \cup {i}) /\ Cardinality(left \cup {i}) = Cardinality(left) + 1
      BY <3>2, <3>3, FS_AddElement
    <3>5. Cardinality(left) \in Nat
      BY <3>2, FS_CardinalityType
    <3> QED BY <1>6, <2>0, <3>2, <3>4, <3>5
  <2> QED BY <1>1, <2>1, <2>2, <2>3
<1>9. \A j \in Entries' : store'[j] = put'[j]
  BY <1>4, <1>5, <1>6
<1>10. ASSUME NEW k \in Inputs, k \notin Entries', put'[k] # Nothing, NEW j \in Entries'
       PROVE  store'[j] >= put'[k]
  <2>1. k # i /\ k \notin left /\ put'[k] = put[k] /\ put[k] \in Nat /\ put[k] <= now
    BY <1>3, <1>5, <1>6, <1>10 DEF CacheTyped
  <2>2. CASE j = i
    BY <1>3, <1>5, <2>1, <2>2
  <2>3. CASE j # i /\ k \notin Entries
    <3>1. j \in Entries /\ store'[j] = store[j]
      BY <1>4, <1>5, <1>6, <1>10, <2>3
    <3> QED BY <1>10, <2>1, <2>3, <3>1 DEF CacheHolds
  <2>4. CASE j # i /\ k \in Entries
    <3>1. j \in left /\ j \in Entries /\ store'[j] = store[j]
      BY <1>4, <1>5, <1>6, <1>10, <2>4
    <3>2. PICK o \in Oldest(Entries) : left = Entries \ {o}
      BY <1>1, <2>1, <2>4
    <3>3. k = o
      BY <2>1, <2>4, <3>2
    <3>4. store[k] <= store[j]
      BY <3>1, <3>2, <3>3 DEF Oldest
    <3> QED BY <1>4, <2>1, <2>4, <3>1, <3>4
  <2> QED BY <2>2, <2>3, <2>4
<1> QED BY <1>7, <1>8, <1>9, <1>10 DEF CacheHolds

(* What an attempt is allowed to spend stays within the budget.            *)
LEMMA SpendKeeps ==
  ASSUME BudgetHolds, NEW spend \in Spends, Affords(spend), Commit(spend)
  PROVE  used' \in [Dimension -> Nat] /\ \A d \in Dimension : Limit[d] > 0 => used'[d] <= Limit[d]
<1>1. spend \in [Dimension -> Nat] /\ used \in [Dimension -> Nat]
  BY ToolContractsAssumption DEF BudgetHolds
<1>2. \A d \in Dimension : used'[d] = used[d] + spend[d] /\ used'[d] \in Nat
  BY <1>1 DEF Commit
<1>3. used' = [d \in Dimension |-> used[d] + spend[d]]
  BY DEF Commit
<1>4. used' \in [Dimension -> Nat]
  BY <1>1, <1>3
<1> QED BY <1>2, <1>4 DEF Affords

(* Each step keeps the cache and the budget.                               *)
LEMMA ContractsNext == ContractsInv /\ [ToolContractsNext]_toolVars => ContractsInv'
<1> SUFFICES ASSUME ContractsInv, [ToolContractsNext]_toolVars PROVE ContractsInv'
  OBVIOUS
<1>0. CacheTyped /\ CacheHolds /\ BudgetHolds /\ CallFits
  BY DEF ContractsInv
<1>1. UNCHANGED <<now, store, put>> => CacheTyped' /\ CacheHolds'
  BY <1>0 DEF CacheTyped, CacheHolds, Entries
<1>2. UNCHANGED <<attempt, used>> => BudgetHolds'
  BY <1>0 DEF BudgetHolds
<1>11. ASSUME NEW i \in Inputs, NEW s, Stage(i, s) PROVE CallFits'
  BY <1>11 DEF Stage, CallFits
<1>12. UNCHANGED call => CallFits'
  BY <1>0 DEF CallFits
<1>3. ASSUME NEW i \in Inputs, CallBegins(i) PROVE ContractsInv'
  <2>8. CallFits'
    BY <1>3, <1>11 DEF CallBegins
  <2>1. now' = now /\ \/ UNCHANGED <<store, put>>
                      \/ store' = [store EXCEPT ![i] = Nothing] /\ put' = [put EXCEPT ![i] = Nothing]
    BY <1>3 DEF CallBegins, cached
  <2>2. CacheTyped' /\ CacheHolds'
    BY <1>0, <1>1, <2>1, EntryGoes
  <2>3. attempt' = 0 /\ used' = [d \in Dimension |-> 0]
    BY <1>3 DEF CallBegins, Unused
  <2>4. used' \in [Dimension -> Nat] /\ \A d \in Dimension : used'[d] = 0
    BY <2>3
  <2>5. \A d \in Dimension : Limit[d] \in Nat
    BY ToolContractsAssumption
  <2>6. RetryLimit \in Nat
    BY ToolContractsAssumption
  <2>7. BudgetHolds'
    BY <2>3, <2>4, <2>5, <2>6 DEF BudgetHolds
  <2> QED BY <2>2, <2>7, <2>8 DEF ContractsInv
<1>4. ASSUME NEW i \in Inputs, Invalidate(i) PROVE ContractsInv'
  <2>1. CacheTyped' /\ CacheHolds'
    BY <1>0, <1>4, EntryGoes DEF Invalidate
  <2> QED BY <1>2, <1>4, <1>12, <2>1 DEF Invalidate, ContractsInv
<1>5. CASE CheckRaises
  <2>1. call.of \in Inputs /\ Stage(call.of, "over budget")
    BY <1>0, <1>5 DEF CheckRaises, CallFits
  <2>2. CallFits'
    BY <1>11, <2>1
  <2> QED BY <1>1, <1>2, <1>5, <2>2 DEF CheckRaises, cached, ContractsInv
<1>6. CASE AttemptFails
  <2>1. PICK spend \in Spends, error \in Errors :
          /\ Affords(spend) /\ Commit(spend)
          /\ \/ attempt < RetryLimit /\ attempt' = attempt + 1
             \/ attempt' = attempt
    BY <1>6 DEF AttemptFails, MayRetry
  <2>2. used' \in [Dimension -> Nat] /\ \A d \in Dimension : Limit[d] > 0 => used'[d] <= Limit[d]
    BY <1>0, <2>1, SpendKeeps
  <2>3. attempt \in Nat /\ attempt <= RetryLimit /\ RetryLimit \in Nat
    BY <1>0, ToolContractsAssumption DEF BudgetHolds
  <2>4. attempt' \in Nat /\ attempt' <= RetryLimit
    BY <2>1, <2>3
  <2>5. BudgetHolds'
    BY <2>2, <2>4 DEF BudgetHolds
  <2>6. call.of \in Inputs /\ (UNCHANGED call \/ Stage(call.of, "failed"))
    BY <1>0, <1>6 DEF AttemptFails, CallFits
  <2>7. CallFits'
    BY <1>11, <1>12, <2>6
  <2> QED BY <1>1, <1>6, <2>5, <2>7 DEF AttemptFails, cached, ContractsInv
<1>7. CASE AttemptAnswers
  <2>1. PICK spend \in Spends : Affords(spend) /\ Commit(spend)
    BY <1>7 DEF AttemptAnswers
  <2>2. used' \in [Dimension -> Nat] /\ \A d \in Dimension : Limit[d] > 0 => used'[d] <= Limit[d]
    BY <1>0, <2>1, SpendKeeps
  <2>3. BudgetHolds'
    BY <1>0, <1>7, <2>2 DEF AttemptAnswers, BudgetHolds
  <2>4. now' = now /\ CachePut(call.of) /\ call.of \in Inputs /\ Stage(call.of, "answered")
    BY <1>0, <1>7 DEF AttemptAnswers, CallFits
  <2>5. CacheTyped' /\ CacheHolds'
    BY <1>0, <2>4, PutKeeps
  <2>6. CallFits'
    BY <1>11, <2>4
  <2> QED BY <2>3, <2>5, <2>6 DEF ContractsInv
<1>8. CASE Clear
  <2>1. now' = now /\ store' = [i \in Inputs |-> Nothing] /\ put' = [i \in Inputs |-> Nothing] /\ UNCHANGED <<attempt, used>>
    BY <1>8 DEF Clear
  <2>2. Entries' = {}
    BY <2>1 DEF Entries
  <2>3. CacheTyped' /\ CacheHolds'
    BY <1>0, <2>1, <2>2, FS_EmptySet, ToolContractsAssumption DEF CacheTyped, CacheHolds
  <2> QED BY <1>2, <1>8, <1>12, <2>1, <2>3 DEF Clear, ContractsInv
<1>9. CASE Tick
  <2>1. now' = now + 1 /\ UNCHANGED <<store, put, attempt, used>>
    BY <1>9 DEF Tick, cached
  <2>2. CacheTyped'
    BY <1>0, <2>1 DEF CacheTyped
  <2>3. CacheHolds'
    BY <1>0, <2>1 DEF CacheHolds, Entries
  <2> QED BY <1>2, <1>9, <1>12, <2>1, <2>2, <2>3 DEF Tick, ContractsInv
<1>10. CASE UNCHANGED toolVars
  BY <1>1, <1>2, <1>10, <1>12 DEF toolVars, cached, ContractsInv
<1> QED BY <1>3, <1>4, <1>5, <1>6, <1>7, <1>8, <1>9, <1>10 DEF ToolContractsNext

(* The cache is empty and nothing is spent at the start.                   *)
LEMMA ContractsStart == ToolContractsInit => ContractsInv
<1> SUFFICES ASSUME ToolContractsInit PROVE ContractsInv
  OBVIOUS
<1>1. /\ now = 0 /\ store = [i \in Inputs |-> Nothing] /\ put = [i \in Inputs |-> Nothing]
      /\ attempt = 0 /\ used = [d \in Dimension |-> 0]
  BY DEF ToolContractsInit, Unused
<1>2. Entries = {}
  BY <1>1 DEF Entries
<1>3. CacheTyped /\ CacheHolds
  BY <1>1, <1>2, FS_EmptySet, ToolContractsAssumption DEF CacheTyped, CacheHolds
<1>4. \A d \in Dimension : Limit[d] \in Nat /\ used[d] = 0
  BY <1>1, ToolContractsAssumption
<1>5. used \in [Dimension -> Nat] /\ RetryLimit \in Nat
  BY <1>1, ToolContractsAssumption
<1>6. BudgetHolds
  BY <1>1, <1>4, <1>5 DEF BudgetHolds
<1>7. CallFits
  BY DEF ToolContractsInit, CallFits
<1> QED BY <1>3, <1>6, <1>7 DEF ContractsInv

(* The cache is never over its limit, serves what was put last and gives   *)
(* up only what is older than all it keeps; a call never spends over its   *)
(* budget and never tries more often than the policy says                  *)
(* (contracts.py:282-420), for any inputs, limits and spendings.           *)
THEOREM ContractsHoldKept == ToolContractsSpec => []ContractsHold
<1>1. ContractsInv => ContractsHold
  <2>1. Entries \subseteq Inputs
    BY DEF Entries
  <2> QED BY <2>1 DEF ContractsInv, CacheHolds, BudgetHolds, ContractsHold
<1> QED BY <1>1, ContractsStart, ContractsNext, PTL DEF ToolContractsSpec

------------------------------------------------------------------------------
(* The dispatcher, for any processes, workers, costs, terms and deaths.    *)

DispatchTyped ==
  /\ receipts \in Seq(Receipt)
  /\ \A id \in DOMAIN receipts : /\ receipts[id].yool = receipts[id].by[2]
                                 /\ receipts[id].life <= lives[receipts[id].by[1]]
  /\ index \in [Processes -> [Yools -> Nat]]
  /\ loaded \in [Processes -> BOOLEAN]
  /\ listing \in [Workers -> SUBSET (Nat \X {"tmp", "final", "orphan"})]
  /\ ledger \in [Processes -> [Yools -> Cost]]
  /\ stage \in [Workers -> {"off", "look", "scan", "execute", "put", "record", "latest", "scan again", "ended", "dead"}]
  /\ job \in [Workers -> [id : Nat, marker : Nat]]
  /\ lives \in [Processes -> Nat]
  /\ held \in [Processes -> SUBSET Yools] /\ raced \in [Processes -> SUBSET Yools]
  /\ \A p \in Processes : \A y \in Yools : index[p][y] # 0 => index[p][y] \in DOMAIN receipts

(* What a worker knows of the receipt of its dispatch.                     *)
JobFits(w) ==
  /\ stage[w] \in {"look", "scan", "execute"} => job[w].id = 0
  /\ stage[w] \in {"look", "scan", "execute", "put", "record", "latest", "scan again"} => job[w].marker = 0
  /\ stage[w] \in {"put", "record"} => job[w].id # 0 /\ receipts[job[w].id].life = lives[w[1]]
  /\ stage[w] \in {"put", "record", "latest", "scan again"} /\ job[w].id # 0 =>
       /\ job[w].id \in DOMAIN receipts /\ receipts[job[w].id].by = w
       /\ \A id \in DOMAIN receipts : receipts[id].by = w => id <= job[w].id
       /\ stage[w] # "put" => receipts[job[w].id].file = "final"
  /\ stage[w] = "scan again" /\ job[w].id # 0 => <<job[w].id, "final">> \in listing[w]

(* What it shows for it in the end.                                        *)
MarkerFits(w) ==
  stage[w] = "ended" /\ job[w].id # 0 =>
    \/ job[w].marker = job[w].id
    \/ /\ job[w].marker > job[w].id /\ job[w].marker \in DOMAIN receipts
       /\ receipts[job[w].marker].by[1] # w[1]

(* A scan under way has found what its process put, unless that raced.     *)
ScanFits(w) ==
  stage[w] = "scan" =>
    \A id \in DOMAIN receipts :
      /\ receipts[id].by[1] = w[1] /\ receipts[id].life = lives[w[1]]
      /\ receipts[id].status = "ok" /\ receipts[id].file = "final"
      /\ receipts[id].by[2] \notin raced[w[1]]
      => <<id, "final">> \in listing[w]

HeldFits == \A p \in Processes : \A y \in held[p] \ raced[p] : index[p][y] # 0

DispatchInv ==
  /\ DispatchTyped /\ HeldFits /\ LedgerIsReceipts
  /\ \A w \in Workers : JobFits(w) /\ MarkerFits(w) /\ ScanFits(w)

(* A worker is a process and a yool.                                       *)
LEMMA WorkerIs ==
  ASSUME NEW w \in Workers
  PROVE  w[1] \in Processes /\ w[2] \in Yools /\ w = <<w[1], w[2]>>
  BY DispatchAssumption DEF Yools

(* What the types say of each part.                                        *)
LEMMA DispatchTypes ==
  ASSUME DispatchTyped
  PROVE  /\ receipts \in Seq(Receipt) /\ Len(receipts) \in Nat /\ DOMAIN receipts = 1..Len(receipts)
         /\ \A id \in DOMAIN receipts :
              /\ receipts[id] \in Receipt /\ receipts[id].by \in Workers /\ receipts[id].by[1] \in Processes
              /\ receipts[id].yool = receipts[id].by[2] /\ receipts[id].life \in Nat /\ id \in Nat \ {0}
              /\ receipts[id].cost \in Cost
              /\ receipts[id].life <= lives[receipts[id].by[1]]
         /\ \A w \in Workers : /\ job[w] \in [id : Nat, marker : Nat] /\ job[w].id \in Nat /\ job[w].marker \in Nat
                               /\ lives[w[1]] \in Nat /\ index[w[1]][w[2]] \in Nat
                               /\ index[w[1]][w[2]] # 0 => index[w[1]][w[2]] \in DOMAIN receipts
<1>1. receipts \in Seq(Receipt) /\ Len(receipts) \in Nat /\ DOMAIN receipts = 1..Len(receipts)
  <2>1. receipts \in Seq(Receipt)
    BY DEF DispatchTyped
  <2> QED BY <2>1, Lists
<1>2. ASSUME NEW id \in DOMAIN receipts
      PROVE  /\ receipts[id] \in Receipt /\ receipts[id].by \in Workers /\ receipts[id].by[1] \in Processes
             /\ receipts[id].yool = receipts[id].by[2] /\ receipts[id].life \in Nat /\ id \in Nat \ {0}
             /\ receipts[id].cost \in Cost
             /\ receipts[id].life <= lives[receipts[id].by[1]]
  <2>1. receipts[id] \in Receipt /\ id \in Nat \ {0}
    BY <1>1
  <2>2. receipts[id].by \in Workers /\ receipts[id].life \in Nat /\ receipts[id].cost \in Cost
    BY <2>1 DEF Receipt
  <2> QED BY <2>1, <2>2, WorkerIs DEF DispatchTyped
<1>3. ASSUME NEW w \in Workers
      PROVE  /\ job[w] \in [id : Nat, marker : Nat] /\ job[w].id \in Nat /\ job[w].marker \in Nat
             /\ lives[w[1]] \in Nat /\ index[w[1]][w[2]] \in Nat
             /\ index[w[1]][w[2]] # 0 => index[w[1]][w[2]] \in DOMAIN receipts
  <2>1. w[1] \in Processes /\ w[2] \in Yools
    BY WorkerIs
  <2>2. job[w] \in [id : Nat, marker : Nat]
    BY DEF DispatchTyped
  <2>3. lives[w[1]] \in Nat
    BY <2>1 DEF DispatchTyped
  <2>4. index[w[1]] \in [Yools -> Nat]
    BY <2>1 DEF DispatchTyped
  <2>5. index[w[1]][w[2]] \in Nat
    BY <2>1, <2>4
  <2>6. index[w[1]][w[2]] # 0 => index[w[1]][w[2]] \in DOMAIN receipts
    BY <2>1 DEF DispatchTyped
  <2> QED BY <2>2, <2>3, <2>5, <2>6
<1> QED BY <1>1, <1>2, <1>3

(* A receipt stays where it is, what it says of itself, and in place.      *)
ReceiptsKept ==
  /\ receipts' \in Seq(Receipt) /\ DOMAIN receipts \subseteq DOMAIN receipts'
  /\ \A id \in DOMAIN receipts :
       /\ receipts'[id].by = receipts[id].by /\ receipts'[id].life = receipts[id].life
       /\ receipts'[id].yool = receipts[id].yool /\ receipts'[id].status = receipts[id].status
       /\ receipts'[id].cost = receipts[id].cost
       /\ receipts[id].file = "final" => receipts'[id].file = "final"

(* The new receipt of an execution.                                        *)
LEMMA ExecuteWrites ==
  ASSUME DispatchTyped, NEW w \in Workers, Execute(w)
  PROVE  \E new \in Receipt :
           /\ receipts' = Append(receipts, new) /\ new.yool = w[2] /\ new.by = w /\ new.life = lives[w[1]] /\ new.file = "tmp"
           /\ Len(receipts') = Len(receipts) + 1 /\ DOMAIN receipts' = DOMAIN receipts \cup {Len(receipts) + 1}
           /\ receipts'[Len(receipts) + 1] = new /\ \A id \in DOMAIN receipts : receipts'[id] = receipts[id]
           /\ job'[w].id = Len(receipts) + 1 /\ job'[w].marker = job[w].marker
           /\ ReceiptsKept
<1>1. PICK cost \in Costs, status \in {"ok", "err"} : receipts' = Append(receipts, NewReceipt(w, status, cost))
  BY DEF Execute
<1>2. PICK new : new = NewReceipt(w, status, cost)
  OBVIOUS
<1>3. cost \in Cost /\ [cost EXCEPT !.tokens = 0] \in Cost
  BY DispatchAssumption DEF Cost
<1>4. PICK paid \in Cost : paid = IF status = "ok" THEN cost ELSE [cost EXCEPT !.tokens = 0]
  BY <1>3
<1>5. new = [yool |-> w[2], by |-> w, life |-> lives[w[1]], status |-> status, file |-> "tmp", cost |-> paid]
  BY <1>2, <1>4 DEF NewReceipt
<1>6. lives[w[1]] \in Nat /\ w[2] \in Yools
  BY DispatchTypes, WorkerIs
<1>7. new \in Receipt /\ new.yool = w[2] /\ new.by = w /\ new.life = lives[w[1]] /\ new.file = "tmp"
  BY <1>5, <1>6 DEF Receipt
<1>8. /\ receipts' \in Seq(Receipt) /\ Len(receipts) \in Nat /\ Len(receipts') = Len(receipts) + 1
      /\ DOMAIN receipts = 1..Len(receipts) /\ DOMAIN receipts' = 1..(Len(receipts) + 1)
      /\ receipts'[Len(receipts) + 1] = new
      /\ \A j \in 1..Len(receipts) : receipts'[j] = receipts[j]
  <2>1. PICK q : q = receipts
    OBVIOUS
  <2>2. PICK r : r = Append(q, new)
    OBVIOUS
  <2>3. q \in Seq(Receipt) /\ r = receipts'
    BY <1>1, <1>2, <2>1, <2>2, DispatchTypes
  <2>4. /\ r \in Seq(Receipt) /\ Len(q) \in Nat /\ Len(r) = Len(q) + 1
        /\ DOMAIN q = 1..Len(q) /\ DOMAIN r = 1..(Len(q) + 1)
        /\ r[Len(q) + 1] = new /\ \A j \in 1..Len(q) : r[j] = q[j]
    <3>1. q \in Seq(Receipt) /\ new \in Receipt /\ r = Append(q, new)
      BY <1>7, <2>2, <2>3
    <3> QED BY <3>1, Appended
  <2> QED BY <2>1, <2>3, <2>4
<1>9. DOMAIN receipts' = DOMAIN receipts \cup {Len(receipts) + 1}
  BY <1>8
<1>10. job' = [job EXCEPT ![w].id = Len(receipts')] /\ job[w] \in [id : Nat, marker : Nat] /\ job \in [Workers -> [id : Nat, marker : Nat]]
  BY DispatchTypes DEF Execute, DispatchTyped
<1>11. job'[w].id = Len(receipts) + 1 /\ job'[w].marker = job[w].marker
  BY <1>8, <1>10
<1>12. ReceiptsKept
  BY <1>8, <1>9 DEF ReceiptsKept
<1> QED BY <1>1, <1>2, <1>7, <1>8, <1>9, <1>11, <1>12

(* A put: the file is in place.                                            *)
LEMMA PutInPlace ==
  ASSUME DispatchTyped, NEW w \in Workers, Put(w), job[w].id \in DOMAIN receipts
  PROVE  /\ DOMAIN receipts' = DOMAIN receipts /\ receipts'[job[w].id].file = "final"
         /\ \A id \in DOMAIN receipts \ {job[w].id} : receipts'[id] = receipts[id]
         /\ ReceiptsKept
<1>0. PICK k : k = job[w].id
  OBVIOUS
<1>1. PICK new : new = [receipts[k] EXCEPT !.file = "final"]
  OBVIOUS
<1>2. receipts \in Seq(Receipt) /\ receipts[k] \in Receipt /\ k \in DOMAIN receipts
  BY <1>0, DispatchTypes
<1>3. /\ new \in Receipt /\ new.file = "final" /\ new.by = receipts[k].by /\ new.life = receipts[k].life
      /\ new.yool = receipts[k].yool /\ new.status = receipts[k].status /\ new.cost = receipts[k].cost
  BY <1>1, <1>2 DEF Receipt
<1>4. receipts' = [receipts EXCEPT ![k] = new]
  BY <1>0, <1>1 DEF Put
<1>5. /\ receipts' \in Seq(Receipt) /\ DOMAIN receipts' = DOMAIN receipts /\ receipts'[k] = new
      /\ \A id \in DOMAIN receipts \ {k} : receipts'[id] = receipts[id]
  <2>1. PICK q : q = receipts
    OBVIOUS
  <2>2. PICK r : r = [q EXCEPT ![k] = new]
    OBVIOUS
  <2>3. q \in Seq(Receipt) /\ k \in DOMAIN q /\ r = receipts'
    BY <1>2, <1>4, <2>1, <2>2
  <2>4. r \in Seq(Receipt) /\ DOMAIN r = DOMAIN q /\ r[k] = new /\ \A id \in DOMAIN q \ {k} : r[id] = q[id]
    BY <1>3, <2>2, <2>3, Rewritten
  <2> QED BY <2>1, <2>3, <2>4
<1>6. ReceiptsKept
  BY <1>3, <1>5 DEF ReceiptsKept
<1> QED BY <1>0, <1>3, <1>5, <1>6

(* A death: temporary files of the process are orphans.                    *)
LEMMA DeathLeaves ==
  ASSUME DispatchTyped, NEW p \in Processes, DispatcherDies(p)
  PROVE  /\ ReceiptsKept /\ DOMAIN receipts' = DOMAIN receipts
         /\ lives' \in [Processes -> Nat] /\ lives'[p] = lives[p] + 1 /\ \A q \in Processes \ {p} : lives'[q] = lives[q]
<1>1. receipts' = [id \in DOMAIN receipts |->
                    IF receipts[id].file = "tmp" /\ receipts[id].by[1] = p
                    THEN [receipts[id] EXCEPT !.file = "orphan"] ELSE receipts[id]]
  BY DEF DispatcherDies
<1>2. DOMAIN receipts' = DOMAIN receipts
  BY <1>1
<1>3. ASSUME NEW id \in DOMAIN receipts
      PROVE  /\ receipts'[id] \in Receipt /\ receipts'[id].by = receipts[id].by /\ receipts'[id].life = receipts[id].life
             /\ receipts'[id].yool = receipts[id].yool /\ receipts'[id].status = receipts[id].status
             /\ receipts'[id].cost = receipts[id].cost
             /\ receipts[id].file = "final" => receipts'[id].file = "final"
  <2>1. receipts[id] \in Receipt
    BY DispatchTypes
  <2>2. CASE receipts[id].file = "tmp" /\ receipts[id].by[1] = p
    <3>1. receipts'[id] = [receipts[id] EXCEPT !.file = "orphan"]
      BY <1>1, <2>2
    <3> QED BY <2>1, <2>2, <3>1 DEF Receipt
  <2>3. CASE ~(receipts[id].file = "tmp" /\ receipts[id].by[1] = p)
    BY <1>1, <2>1, <2>3
  <2> QED BY <2>2, <2>3
<1>4. receipts' \in Seq(Receipt)
  <2>1. Len(receipts) \in Nat /\ DOMAIN receipts = 1..Len(receipts)
    BY DispatchTypes
  <2>2. PICK n \in Nat : n = Len(receipts)
    BY <2>1
  <2>3. PICK r : r = receipts'
    OBVIOUS
  <2>4. r \in [1..n -> Receipt]
    BY <1>1, <1>2, <1>3, <2>1, <2>2, <2>3
  <2>5. r \in Seq(Receipt)
    BY <2>2, <2>4
  <2> QED BY <2>3, <2>5
<1>5. lives' = [lives EXCEPT ![p] = @ + 1] /\ lives \in [Processes -> Nat]
  BY DEF DispatcherDies, DispatchTyped
<1>6. lives' \in [Processes -> Nat] /\ lives'[p] = lives[p] + 1 /\ \A q \in Processes \ {p} : lives'[q] = lives[q]
  BY <1>5
<1> QED BY <1>2, <1>3, <1>4, <1>6 DEF ReceiptsKept

(* The newest of some receipts, or none.                                   *)
LEMMA LatestOf ==
  ASSUME DispatchTyped, NEW ids, ids \subseteq DOMAIN receipts
  PROVE  /\ Latest(ids) \in ids \cup {0} /\ Latest(ids) \in Nat
         /\ \A id \in ids : Latest(ids) >= id
<1>1. PICK n \in Nat : n = Len(receipts)
  BY DispatchTypes
<1>2. DOMAIN receipts = 1..n
  BY <1>1, DispatchTypes
<1>3. PICK all : all = ids \cup {0}
  OBVIOUS
<1>4. all \subseteq 0..n /\ all # {}
  BY <1>2, <1>3
<1>5. \E x \in all : \A y \in all : x >= y
  BY <1>4, MaxOfNats
<1>6. PICK x : x = Max(all)
  OBVIOUS
<1>7. x \in all /\ \A y \in all : x >= y
  BY <1>5, <1>6 DEF Max
<1>8. Latest(ids) = x
  BY <1>3, <1>6 DEF Latest
<1> QED BY <1>3, <1>4, <1>7, <1>8

(* What a worker does leaves the others where they are.                    *)
Aside(w) ==
  /\ ReceiptsKept /\ lives' = lives
  /\ \A v \in Workers \ {w} : stage'[v] = stage[v] /\ job'[v] = job[v] /\ listing'[v] = listing[v]
  /\ \A id \in DOMAIN receipts' \ DOMAIN receipts : receipts'[id].by = w /\ receipts'[id].file = "tmp"
                                                    /\ receipts'[id].life = lives[w[1]] /\ receipts'[id].yool = w[2]

WorkerStep(w) ==
  \/ DispatchBegins(w) \/ ScanLists(w) \/ IndexLoads(w) \/ ScanRaises(w) \/ Look(w)
  \/ Execute(w) \/ Put(w) \/ Record(w) \/ LatestReceipt(w)

(* That is so of each step of a worker.                                    *)
LEMMA StepsAside ==
  ASSUME DispatchTyped, NEW w \in Workers, JobFits(w), WorkerStep(w)
  PROVE  Aside(w)
<1>0. /\ stage \in [Workers -> {"off", "look", "scan", "execute", "put", "record", "latest", "scan again", "ended", "dead"}]
      /\ job \in [Workers -> [id : Nat, marker : Nat]]
      /\ listing \in [Workers -> SUBSET (Nat \X {"tmp", "final", "orphan"})]
      /\ receipts \in Seq(Receipt)
  BY DEF DispatchTyped
<1>1. CASE UNCHANGED <<receipts, lives>>
  <2>1. ReceiptsKept
    BY <1>0, <1>1 DEF ReceiptsKept
  <2>2. \A v \in Workers \ {w} : stage'[v] = stage[v]
    BY <1>0, <1>1 DEF WorkerStep, DispatchBegins, ScanLists, IndexLoads, ScanRaises, Look, Serve, Execute, Put, Record, LatestReceipt, Go
  <2>3. \A v \in Workers \ {w} : job'[v] = job[v]
    BY <1>0, <1>1 DEF WorkerStep, DispatchBegins, ScanLists, IndexLoads, ScanRaises, Look, Serve, Execute, Put, Record, LatestReceipt
  <2>4. \A v \in Workers \ {w} : listing'[v] = listing[v]
    BY <1>0, <1>1 DEF WorkerStep, DispatchBegins, ScanLists, IndexLoads, ScanRaises, Look, Serve, Execute, Put, Record, LatestReceipt
  <2> QED BY <1>1, <2>1, <2>2, <2>3, <2>4 DEF Aside
<1>2. CASE Execute(w)
  <2>1. PICK new \in Receipt :
           /\ new.yool = w[2] /\ new.by = w /\ new.life = lives[w[1]] /\ new.file = "tmp"
           /\ DOMAIN receipts' = DOMAIN receipts \cup {Len(receipts) + 1}
           /\ receipts'[Len(receipts) + 1] = new /\ ReceiptsKept
    BY <1>2, ExecuteWrites
  <2>2. \A id \in DOMAIN receipts' \ DOMAIN receipts : receipts'[id] = new
    BY <2>1
  <2>3. \A v \in Workers \ {w} : stage'[v] = stage[v] /\ job'[v] = job[v] /\ listing'[v] = listing[v]
    BY <1>0, <1>2 DEF Execute, Go
  <2>4. lives' = lives
    BY <1>2 DEF Execute
  <2> QED BY <2>1, <2>2, <2>3, <2>4 DEF Aside
<1>3. CASE Put(w)
  <2>1. job[w].id \in DOMAIN receipts
    BY <1>3, DispatchTypes DEF Put, JobFits
  <2>2. ReceiptsKept /\ DOMAIN receipts' = DOMAIN receipts
    BY <1>3, <2>1, PutInPlace
  <2>3. \A v \in Workers \ {w} : stage'[v] = stage[v] /\ job'[v] = job[v] /\ listing'[v] = listing[v]
    BY <1>0, <1>3 DEF Put, Go
  <2>4. lives' = lives
    BY <1>3 DEF Put
  <2> QED BY <2>2, <2>3, <2>4 DEF Aside
<1> QED BY <1>1, <1>2, <1>3 DEF WorkerStep, DispatchBegins, ScanLists, IndexLoads, ScanRaises, Look, Record, LatestReceipt

(* A worker that rests keeps what it knows of its receipt.                 *)
LEMMA RestingFits ==
  ASSUME DispatchTyped, NEW v \in Workers, JobFits(v), MarkerFits(v), ReceiptsKept,
         stage'[v] = stage[v], job'[v] = job[v], listing'[v] = listing[v], lives'[v[1]] = lives[v[1]],
         \A id \in DOMAIN receipts' \ DOMAIN receipts : receipts'[id].by # v
  PROVE  JobFits(v)' /\ MarkerFits(v)'
<1>1. /\ DOMAIN receipts \subseteq DOMAIN receipts'
      /\ \A id \in DOMAIN receipts :
           /\ receipts'[id].by = receipts[id].by /\ receipts'[id].life = receipts[id].life
           /\ receipts[id].file = "final" => receipts'[id].file = "final"
  BY DEF ReceiptsKept
<1>2. \A id \in DOMAIN receipts' : receipts'[id].by = v => id \in DOMAIN receipts /\ receipts[id].by = v
  BY <1>1
<1>3. JobFits(v)'
  BY <1>1, <1>2 DEF JobFits
<1>4. MarkerFits(v)'
  BY <1>1 DEF MarkerFits
<1> QED BY <1>3, <1>4

(* What a worker knows of the receipt of its dispatch, after each step.    *)
LEMMA WorkerFits ==
  ASSUME DispatchTyped, NEW w \in Workers, JobFits(w), MarkerFits(w), WorkerStep(w)
  PROVE  JobFits(w)' /\ MarkerFits(w)'
<1>0. /\ stage \in [Workers -> {"off", "look", "scan", "execute", "put", "record", "latest", "scan again", "ended", "dead"}]
      /\ job \in [Workers -> [id : Nat, marker : Nat]] /\ job[w].id \in Nat /\ job[w].marker \in Nat
      /\ listing \in [Workers -> SUBSET (Nat \X {"tmp", "final", "orphan"})]
      /\ Len(receipts) \in Nat /\ DOMAIN receipts = 1..Len(receipts)
  BY DispatchTypes DEF DispatchTyped
<1>1. CASE DispatchBegins(w)
  <2>1. job'[w] = Idle /\ stage'[w] \in {"look", "execute"}
    BY <1>0, <1>1 DEF DispatchBegins, Go
  <2>2. job'[w].id = 0 /\ job'[w].marker = 0
    BY <2>1 DEF Idle
  <2> QED BY <2>1, <2>2 DEF JobFits, MarkerFits
<1>2. CASE ScanLists(w)
  <2>1. /\ UNCHANGED <<receipts, lives, job>> /\ listing'[w] = Files
        /\ \/ stage[w] = "look" /\ stage'[w] = "scan"
           \/ stage[w] = "latest" /\ stage'[w] = "scan again"
    BY <1>0, <1>2 DEF ScanLists, Go
  <2>2. stage[w] = "latest" /\ job[w].id # 0 => <<job[w].id, "final">> \in Files
    BY DEF JobFits, Files
  <2> QED BY <2>1, <2>2 DEF JobFits, MarkerFits
<1>3. CASE IndexLoads(w)
  <2>1. UNCHANGED <<receipts, lives, job>> /\ stage[w] = "scan" /\ stage'[w] = "look"
    BY <1>0, <1>3 DEF IndexLoads, Go
  <2> QED BY <2>1 DEF JobFits, MarkerFits
<1>4. CASE ScanRaises(w)
  <2>1. /\ UNCHANGED <<receipts, lives, job>>
        /\ \/ stage[w] = "scan" /\ stage'[w] = "latest"
           \/ stage[w] = "scan again" /\ stage'[w] = "dead"
    BY <1>0, <1>4 DEF ScanRaises, Go
  <2> QED BY <2>1 DEF JobFits, MarkerFits
<1>5. CASE Look(w)
  <2>1. UNCHANGED <<receipts, lives>> /\ stage[w] = "look"
    BY <1>5 DEF Look
  <2>2. \/ stage'[w] = "execute" /\ job' = job
        \/ stage'[w] = "ended" /\ job'[w].id = job'[w].marker
    <3>1. PICK id : id = index[w[1]][w[2]]
      OBVIOUS
    <3>2. \/ Go(w, "execute") /\ job' = job
          \/ Go(w, "ended") /\ job' = [job EXCEPT ![w].id = id, ![w].marker = id]
      BY <1>5, <3>1 DEF Look, Serve
    <3>3. CASE Go(w, "execute") /\ job' = job
      BY <1>0, <3>3 DEF Go
    <3>4. CASE Go(w, "ended") /\ job' = [job EXCEPT ![w].id = id, ![w].marker = id]
      <4>1. job'[w] = [[job[w] EXCEPT !.id = id] EXCEPT !.marker = id]
        BY <1>0, <3>4
      <4>2. stage'[w] = "ended" /\ job[w] \in [id : Nat, marker : Nat]
        BY <1>0, <3>4 DEF Go
      <4> QED BY <4>1, <4>2
    <3> QED BY <3>2, <3>3, <3>4
  <2> QED BY <2>1, <2>2 DEF JobFits, MarkerFits
<1>6. CASE Execute(w)
  <2>1. stage[w] = "execute" /\ stage'[w] = "put" /\ lives' = lives
    BY <1>0, <1>6 DEF Execute, Go
  <2>2. PICK new \in Receipt :
           /\ new.by = w /\ new.life = lives[w[1]]
           /\ DOMAIN receipts' = DOMAIN receipts \cup {Len(receipts) + 1}
           /\ receipts'[Len(receipts) + 1] = new
           /\ job'[w].id = Len(receipts) + 1 /\ job'[w].marker = job[w].marker
    BY <1>6, ExecuteWrites
  <2>5. PICK n \in Nat : n = Len(receipts)
    BY <1>0
  <2>6. DOMAIN receipts' = 1..n \cup {n + 1} /\ job'[w].id = n + 1
    BY <1>0, <2>2, <2>5
  <2>3. \A id \in DOMAIN receipts' : id <= job'[w].id
    BY <2>6
  <2>4. job'[w].id # 0 /\ job'[w].id \in DOMAIN receipts'
    BY <2>6
  <2> QED BY <2>1, <2>2, <2>3, <2>4 DEF JobFits, MarkerFits
<1>7. CASE Put(w)
  <2>1. stage[w] = "put" /\ stage'[w] = "record" /\ lives' = lives /\ job' = job
    BY <1>0, <1>7 DEF Put, Go
  <2>2. job[w].id \in DOMAIN receipts
    BY <2>1 DEF JobFits
  <2>3. /\ DOMAIN receipts' = DOMAIN receipts /\ receipts'[job[w].id].file = "final"
        /\ \A id \in DOMAIN receipts : receipts'[id].by = receipts[id].by /\ receipts'[id].life = receipts[id].life
    BY <1>7, <2>2, PutInPlace DEF ReceiptsKept
  <2> QED BY <2>1, <2>2, <2>3 DEF JobFits, MarkerFits
<1>8. CASE Record(w)
  <2>1. UNCHANGED <<receipts, lives>> /\ stage[w] = "record"
    BY <1>8 DEF Record
  <2>2. \/ stage'[w] = "ended" /\ job'[w].id = job[w].id /\ job'[w].marker = job[w].marker + job[w].id
        \/ stage'[w] = "latest" /\ job' = job
    BY <1>0, <1>8 DEF Record, Go
  <2>3. job[w].marker = 0
    BY <2>1 DEF JobFits
  <2>5. PICK n \in Nat : n = job[w].id
    BY <1>0
  <2>6. 0 + n = n
    OBVIOUS
  <2>4. job[w].marker + job[w].id = job[w].id
    BY <2>3, <2>5, <2>6
  <2> QED BY <2>1, <2>2, <2>4 DEF JobFits, MarkerFits
<1>9. CASE LatestReceipt(w)
  <2>1. UNCHANGED <<receipts, lives>> /\ stage[w] = "scan again" /\ stage'[w] = "ended"
    BY <1>0, <1>9 DEF LatestReceipt, Go
  <2>2. PICK found \in SUBSET (DOMAIN receipts) :
          Readable(w, found) /\ job' = [job EXCEPT ![w].marker = Latest({id \in found : receipts[id].yool = w[2]})]
    BY <1>9 DEF LatestReceipt
  <2>3. PICK last : last = Latest({id \in found : receipts[id].yool = w[2]})
    OBVIOUS
  <2>4. job'[w].id = job[w].id /\ job'[w].marker = last
    BY <1>0, <2>2, <2>3
  <2>5. CASE job[w].id = 0
    BY <2>1, <2>4, <2>5 DEF JobFits, MarkerFits
  <2>6. CASE job[w].id # 0
    <3>1. PICK own : own = job[w].id
      OBVIOUS
    <3>2. /\ own \in DOMAIN receipts /\ receipts[own].by = w /\ <<own, "final">> \in listing[w]
          /\ \A id \in DOMAIN receipts : receipts[id].by = w => id <= own
      BY <2>1, <2>6, <3>1 DEF JobFits
    <3>3. own \in found
      <4>1. <<own, "final">>[1] = own /\ <<own, "final">>[2] = "final"
        OBVIOUS
      <4> QED BY <2>2, <3>2, <4>1 DEF Readable
    <3>4. receipts[own].yool = w[2]
      BY <3>2, DispatchTypes
    <3>5. /\ last \in {id \in found : receipts[id].yool = w[2]} \cup {0} /\ last \in Nat
          /\ \A id \in {id \in found : receipts[id].yool = w[2]} : last >= id
      <4>1. PICK ids : ids = {id \in found : receipts[id].yool = w[2]}
        OBVIOUS
      <4>2. ids \subseteq DOMAIN receipts
        BY <2>2, <4>1
      <4> QED BY <2>3, <4>1, <4>2, LatestOf
    <3>6. own \in Nat /\ last >= own
      BY <1>0, <3>1, <3>3, <3>4, <3>5
    <3>7. CASE last = own
      BY <2>1, <2>4, <3>1, <3>7 DEF JobFits, MarkerFits
    <3>8. CASE last # own
      <4>5. last > own /\ ~(last <= own) /\ (last # 0 \/ own = 0)
        BY <3>5, <3>6, <3>8
      <4>6. last # 0
        BY <2>6, <3>1, <4>5
      <4>0. last \in DOMAIN receipts /\ receipts[last].yool = w[2] /\ last > own
        BY <2>2, <3>5, <4>5, <4>6
      <4>1. receipts[last].by # w
        BY <3>2, <4>0, <4>5
      <4>2. receipts[last].by \in Workers /\ receipts[last].by[2] = w[2]
        BY <4>0, DispatchTypes
      <4>3. receipts[last].by[1] # w[1]
        BY <4>1, <4>2, WorkerIs
      <4> QED BY <2>1, <2>4, <3>1, <4>0, <4>3 DEF JobFits, MarkerFits
    <3> QED BY <3>7, <3>8
  <2> QED BY <2>5, <2>6
<1> QED BY <1>1, <1>2, <1>3, <1>4, <1>5, <1>6, <1>7, <1>8, <1>9 DEF WorkerStep

(* The receipts stay typed.                                                *)
ReceiptsTyped ==
  /\ receipts \in Seq(Receipt) /\ lives \in [Processes -> Nat]
  /\ \A id \in DOMAIN receipts : /\ receipts[id].yool = receipts[id].by[2]
                                 /\ receipts[id].life <= lives[receipts[id].by[1]]

(* They do so in each step of a worker.                                    *)
LEMMA ReceiptsStay ==
  ASSUME DispatchTyped, ReceiptsKept, NEW w \in Workers, Aside(w)
  PROVE  ReceiptsTyped'
<1>1. receipts' \in Seq(Receipt) /\ lives' = lives /\ lives \in [Processes -> Nat]
  BY DEF ReceiptsKept, Aside, DispatchTyped
<1>2. ASSUME NEW id \in DOMAIN receipts'
      PROVE  receipts'[id].yool = receipts'[id].by[2] /\ receipts'[id].life <= lives'[receipts'[id].by[1]]
  <2>1. CASE id \in DOMAIN receipts
    BY <1>1, <2>1, DispatchTypes DEF ReceiptsKept
  <2>2. CASE id \notin DOMAIN receipts
    <3>1. receipts'[id].by = w /\ receipts'[id].life = lives[w[1]] /\ receipts'[id].yool = w[2] /\ lives[w[1]] \in Nat
      BY <2>2, DispatchTypes DEF Aside
    <3> QED BY <1>1, <3>1
  <2> QED BY <2>1, <2>2
<1> QED BY <1>1, <1>2 DEF ReceiptsTyped

(* What a load of the index finds is a receipt.                            *)
LEMMA LoadedIndex ==
  ASSUME DispatchTyped, NEW w \in Workers, IndexLoads(w)
  PROVE  \E found \in SUBSET (DOMAIN receipts), entry \in [Yools -> Nat] :
           /\ Readable(w, found) /\ index' = [index EXCEPT ![w[1]] = entry]
           /\ \A y \in Yools : /\ entry[y] # 0 => entry[y] \in DOMAIN receipts
                               /\ \A id \in found : receipts[id].yool = y /\ receipts[id].status = "ok" => entry[y] # 0
           /\ held' = [held EXCEPT ![w[1]] =
                           {y \in Yools : \/ y \in held[w[1]] /\ PutHere(w[1], y)
                                          \/ entry[y] # 0 /\ receipts[entry[y]].file = "final"}]
<1>1. PICK found \in SUBSET (DOMAIN receipts) :
        /\ Readable(w, found)
        /\ index' = [index EXCEPT ![w[1]] = [y \in Yools |-> Latest({id \in found : receipts[id].yool = y /\ receipts[id].status = "ok"})]]
        /\ held' = [held EXCEPT ![w[1]] =
                           {y \in Yools : \/ y \in @ /\ PutHere(w[1], y)
                                          \/ /\ Latest({id \in found : receipts[id].yool = y /\ receipts[id].status = "ok"}) # 0
                                             /\ receipts[Latest({id \in found : receipts[id].yool = y /\ receipts[id].status = "ok"})].file = "final"}]
  BY DEF IndexLoads
<1>2. PICK entry : entry = [y \in Yools |-> Latest({id \in found : receipts[id].yool = y /\ receipts[id].status = "ok"})]
  OBVIOUS
<1>3. ASSUME NEW y \in Yools
      PROVE  /\ entry[y] \in Nat /\ (entry[y] # 0 => entry[y] \in DOMAIN receipts)
             /\ \A id \in found : receipts[id].yool = y /\ receipts[id].status = "ok" => entry[y] # 0
             /\ entry[y] = Latest({id \in found : receipts[id].yool = y /\ receipts[id].status = "ok"})
  <2>1. PICK ids : ids = {id \in found : receipts[id].yool = y /\ receipts[id].status = "ok"}
    OBVIOUS
  <2>2. ids \subseteq DOMAIN receipts /\ entry[y] = Latest(ids)
    BY <1>2, <2>1
  <2>3. entry[y] \in ids \cup {0} /\ entry[y] \in Nat /\ \A id \in ids : entry[y] >= id
    BY <2>2, LatestOf
  <2>4. \A id \in ids : id \in Nat \ {0}
    BY <2>2, DispatchTypes
  <2>5. \A id \in ids : entry[y] # 0
    BY <2>3, <2>4
  <2> QED BY <2>1, <2>2, <2>3, <2>5
<1>4. entry \in [Yools -> Nat]
  BY <1>2, <1>3
<1>5. held[w[1]] \subseteq Yools /\ held \in [Processes -> SUBSET Yools] /\ w[1] \in Processes
  BY WorkerIs DEF DispatchTyped
<1>6. PICK yet : yet = {y \in Yools : \/ y \in held[w[1]] /\ PutHere(w[1], y)
                                      \/ entry[y] # 0 /\ receipts[entry[y]].file = "final"}
  OBVIOUS
<1>7. yet = {y \in Yools : \/ y \in held[w[1]] /\ PutHere(w[1], y)
                           \/ /\ Latest({id \in found : receipts[id].yool = y /\ receipts[id].status = "ok"}) # 0
                              /\ receipts[Latest({id \in found : receipts[id].yool = y /\ receipts[id].status = "ok"})].file = "final"}
  BY <1>3, <1>6
<1>8. held' = [held EXCEPT ![w[1]] = yet]
  BY <1>1, <1>5, <1>7
<1>9. index' = [index EXCEPT ![w[1]] = entry]
  BY <1>1, <1>2
<1>10. held' = [held EXCEPT ![w[1]] =
                           {y \in Yools : \/ y \in held[w[1]] /\ PutHere(w[1], y)
                                          \/ entry[y] # 0 /\ receipts[entry[y]].file = "final"}]
  BY <1>6, <1>8
<1>11. Readable(w, found)
  BY <1>1
<1>12. \A y \in Yools : /\ entry[y] # 0 => entry[y] \in DOMAIN receipts
                        /\ \A id \in found : receipts[id].yool = y /\ receipts[id].status = "ok" => entry[y] # 0
  BY <1>3
<1> QED BY <1>4, <1>9, <1>10, <1>11, <1>12

(* Each step of a worker keeps the types.                                  *)
LEMMA TypedStep ==
  ASSUME DispatchTyped, NEW w \in Workers, JobFits(w), WorkerStep(w)
  PROVE  DispatchTyped'
<1>0. /\ stage \in [Workers -> {"off", "look", "scan", "execute", "put", "record", "latest", "scan again", "ended", "dead"}]
      /\ job \in [Workers -> [id : Nat, marker : Nat]]
      /\ listing \in [Workers -> SUBSET (Nat \X {"tmp", "final", "orphan"})]
      /\ index \in [Processes -> [Yools -> Nat]] /\ loaded \in [Processes -> BOOLEAN]
      /\ ledger \in [Processes -> [Yools -> Cost]]
      /\ held \in [Processes -> SUBSET Yools] /\ raced \in [Processes -> SUBSET Yools]
      /\ w[1] \in Processes /\ w[2] \in Yools
  BY WorkerIs DEF DispatchTyped
<1>1. Aside(w) /\ ReceiptsTyped'
  BY StepsAside, ReceiptsStay DEF Aside
<1>2. DOMAIN receipts \subseteq DOMAIN receipts' /\ \A id \in DOMAIN receipts : id \in Nat
  BY <1>1, DispatchTypes DEF Aside, ReceiptsKept
<1>3. stage' \in [Workers -> {"off", "look", "scan", "execute", "put", "record", "latest", "scan again", "ended", "dead"}]
  BY <1>0 DEF WorkerStep, DispatchBegins, ScanLists, IndexLoads, ScanRaises, Look, Serve, Execute, Put, Record, LatestReceipt, Go
<1>4. listing' \in [Workers -> SUBSET (Nat \X {"tmp", "final", "orphan"})]
  <2>1. Files \in SUBSET (Nat \X {"tmp", "final", "orphan"})
    <3>1. \A id \in DOMAIN receipts : id \in Nat /\ receipts[id].file \in {"tmp", "final", "orphan"}
      BY DispatchTypes DEF Receipt
    <3> QED BY <3>1 DEF Files
  <2>2. \/ listing' = listing \/ listing' = [listing EXCEPT ![w] = {}] \/ listing' = [listing EXCEPT ![w] = Files]
    BY DEF WorkerStep, DispatchBegins, ScanLists, IndexLoads, ScanRaises, Look, Serve, Execute, Put, Record, LatestReceipt
  <2> QED BY <1>0, <2>1, <2>2
<1>5. job' \in [Workers -> [id : Nat, marker : Nat]]
  <2>1. ASSUME NEW i \in Nat, NEW m \in Nat, \/ job' = [job EXCEPT ![w].id = i]
                                             \/ job' = [job EXCEPT ![w].marker = m]
                                             \/ job' = [job EXCEPT ![w].id = i, ![w].marker = m]
                                             \/ job' = [job EXCEPT ![w] = Idle]
        PROVE  job' \in [Workers -> [id : Nat, marker : Nat]]
    <3>1. PICK new : new \in [id : Nat, marker : Nat] /\ job' = [job EXCEPT ![w] = new]
      <4>1. CASE job' = [job EXCEPT ![w].id = i]
        <5>1. [job[w] EXCEPT !.id = i] \in [id : Nat, marker : Nat] /\ job' = [job EXCEPT ![w] = [job[w] EXCEPT !.id = i]]
          BY <1>0, <4>1
        <5> QED BY <5>1
      <4>2. CASE job' = [job EXCEPT ![w].marker = m]
        <5>1. [job[w] EXCEPT !.marker = m] \in [id : Nat, marker : Nat] /\ job' = [job EXCEPT ![w] = [job[w] EXCEPT !.marker = m]]
          BY <1>0, <4>2
        <5> QED BY <5>1
      <4>3. CASE job' = [job EXCEPT ![w].id = i, ![w].marker = m]
        <5>1. PICK new : new = [[job[w] EXCEPT !.id = i] EXCEPT !.marker = m]
          OBVIOUS
        <5>2. new \in [id : Nat, marker : Nat]
          BY <1>0, <5>1
        <5>3. job' = [job EXCEPT ![w] = new]
          BY <1>0, <4>3, <5>1
        <5> QED BY <5>2, <5>3
      <4>4. CASE job' = [job EXCEPT ![w] = Idle]
        BY <4>4 DEF Idle
      <4> QED BY <2>1, <4>1, <4>2, <4>3, <4>4
    <3> QED BY <1>0, <3>1
  <2>2. CASE UNCHANGED job
    BY <1>0, <2>2
  <2>3. CASE DispatchBegins(w)
    BY <2>1, <2>3 DEF DispatchBegins
  <2>4. CASE Look(w)
    <3>1. PICK i \in Nat : i = index[w[1]][w[2]]
      BY DispatchTypes
    <3>2. UNCHANGED job \/ job' = [job EXCEPT ![w].id = i, ![w].marker = i]
      BY <2>4, <3>1 DEF Look, Serve
    <3> QED BY <2>1, <2>2, <3>2
  <2>5. CASE Execute(w)
    <3>1. Len(receipts') \in Nat /\ job' = [job EXCEPT ![w].id = Len(receipts')]
      <4>1. receipts' \in Seq(Receipt)
        BY <1>1 DEF ReceiptsTyped
      <4> QED BY <2>5, <4>1, Lists DEF Execute
    <3> QED BY <2>1, <3>1
  <2>6. CASE Record(w)
    <3>1. PICK m \in Nat : m = job[w].marker + job[w].id
      BY DispatchTypes
    <3>2. UNCHANGED job \/ job' = [job EXCEPT ![w].marker = m]
      BY <1>0, <2>6, <3>1 DEF Record
    <3> QED BY <2>1, <2>2, <3>2
  <2>7. CASE LatestReceipt(w)
    <3>1. PICK found \in SUBSET (DOMAIN receipts) :
            job' = [job EXCEPT ![w].marker = Latest({id \in found : receipts[id].yool = w[2]})]
      BY <2>7 DEF LatestReceipt
    <3>2. PICK ids : ids = {id \in found : receipts[id].yool = w[2]}
      OBVIOUS
    <3>3. ids \subseteq DOMAIN receipts
      BY <3>2
    <3>4. Latest(ids) \in Nat
      BY <3>3, LatestOf
    <3> QED BY <2>1, <3>1, <3>2, <3>4
  <2> QED BY <2>2, <2>3, <2>4, <2>5, <2>6, <2>7 DEF WorkerStep, ScanLists, IndexLoads, ScanRaises, Put
<1>6. loaded' \in [Processes -> BOOLEAN]
  BY <1>0 DEF WorkerStep, DispatchBegins, ScanLists, IndexLoads, ScanRaises, Look, Execute, Put, Record, LatestReceipt, memory
<1>7. ledger' \in [Processes -> [Yools -> Cost]]
  <2>1. ASSUME NEW c \in Cost, ledger' = [ledger EXCEPT ![w[1]][w[2]] = Plus(@, c)] PROVE ledger' \in [Processes -> [Yools -> Cost]]
    <3>1. ledger[w[1]][w[2]] \in Cost
      BY <1>0
    <3>2. \A d \in Cost : Plus(d, c) \in Cost
      BY DEF Plus, Cost
    <3>3. PICK new \in Cost : new = Plus(ledger[w[1]][w[2]], c)
      BY <3>1, <3>2
    <3>4. ledger' = [ledger EXCEPT ![w[1]] = [ledger[w[1]] EXCEPT ![w[2]] = new]]
      BY <1>0, <2>1, <3>3
    <3> QED BY <1>0, <3>4
  <2>2. CASE Look(w)
    <3>1. UNCHANGED ledger \/ ledger' = [ledger EXCEPT ![w[1]][w[2]] = Plus(@, Free)]
      BY <2>2 DEF Look, Serve
    <3>2. Free \in Cost
      BY DEF Free, Cost
    <3> QED BY <1>0, <2>1, <3>1, <3>2
  <2>3. CASE Record(w)
    <3>1. PICK c : c = receipts[job[w].id].cost
      OBVIOUS
    <3>2. c \in Cost
      BY <2>3, <3>1, DispatchTypes DEF Record, JobFits
    <3> QED BY <2>1, <2>3, <3>1, <3>2 DEF Record
  <2> QED BY <1>0, <2>2, <2>3 DEF WorkerStep, DispatchBegins, ScanLists, IndexLoads, ScanRaises, Execute, Put, LatestReceipt, memory
<1>8. /\ index' \in [Processes -> [Yools -> Nat]]
      /\ \A p \in Processes : \A y \in Yools : index'[p][y] # 0 => index'[p][y] \in DOMAIN receipts
  <2>0. \A p \in Processes : \A y \in Yools : index[p][y] # 0 => index[p][y] \in DOMAIN receipts
    BY DEF DispatchTyped
  <2>1. CASE IndexLoads(w)
    <3>1. PICK entry \in [Yools -> Nat] : /\ index' = [index EXCEPT ![w[1]] = entry]
                                          /\ \A y \in Yools : entry[y] # 0 => entry[y] \in DOMAIN receipts
      BY <2>1, LoadedIndex
    <3> QED BY <1>0, <2>0, <3>1
  <2>2. CASE Put(w)
    <3>1. job[w].id \in DOMAIN receipts /\ job[w].id \in Nat
      BY <2>2, DispatchTypes DEF Put, JobFits
    <3>2. UNCHANGED index \/ index' = [index EXCEPT ![w[1]][w[2]] = job[w].id]
      BY <2>2 DEF Put
    <3>3. PICK row : row = [index[w[1]] EXCEPT ![w[2]] = job[w].id]
      OBVIOUS
    <3>4. index[w[1]] \in [Yools -> Nat]
      BY <1>0
    <3>5. row \in [Yools -> Nat] /\ \A y \in Yools : row[y] # 0 => row[y] \in DOMAIN receipts
      BY <1>0, <2>0, <3>1, <3>3, <3>4
    <3>6. UNCHANGED index \/ index' = [index EXCEPT ![w[1]] = row]
      BY <1>0, <3>2, <3>3
    <3> QED BY <1>0, <2>0, <3>5, <3>6
  <2> QED BY <1>0, <2>0, <2>1, <2>2 DEF WorkerStep, DispatchBegins, ScanLists, ScanRaises, Look, Execute, Record, LatestReceipt, memory
<1>9. held' \in [Processes -> SUBSET Yools] /\ raced' \in [Processes -> SUBSET Yools]
  <2>1. CASE IndexLoads(w)
    <3>1. PICK H \in SUBSET Yools : held' = [held EXCEPT ![w[1]] = H]
      BY <2>1, LoadedIndex
    <3>2. raced' = raced
      BY <2>1 DEF IndexLoads
    <3> QED BY <1>0, <3>1, <3>2
  <2>2. CASE Put(w)
    <3>1. \/ UNCHANGED <<held, raced>>
          \/ held' = [held EXCEPT ![w[1]] = @ \cup {w[2]}] /\ (raced' = raced \/ raced' = [raced EXCEPT ![w[1]] = @ \cup {w[2]}])
      BY <2>2 DEF Put
    <3>2. held[w[1]] \cup {w[2]} \in SUBSET Yools /\ raced[w[1]] \cup {w[2]} \in SUBSET Yools
      BY <1>0
    <3>3. PICK H \in SUBSET Yools, R \in SUBSET Yools : H = held[w[1]] \cup {w[2]} /\ R = raced[w[1]] \cup {w[2]}
      BY <3>2
    <3>4. held' = held \/ held' = [held EXCEPT ![w[1]] = H]
      BY <3>1, <3>3
    <3>5. raced' = raced \/ raced' = [raced EXCEPT ![w[1]] = R]
      BY <3>1, <3>3
    <3> QED BY <1>0, <3>4, <3>5
  <2> QED BY <1>0, <2>1, <2>2 DEF WorkerStep, DispatchBegins, ScanLists, ScanRaises, Look, Execute, Record, LatestReceipt, memory
<1>10. \A p \in Processes : \A y \in Yools : index'[p][y] # 0 => index'[p][y] \in DOMAIN receipts'
  BY <1>2, <1>8
<1> QED BY <1>1, <1>3, <1>4, <1>5, <1>6, <1>7, <1>8, <1>9, <1>10 DEF DispatchTyped, ReceiptsTyped

(* A scan under way has what it had; a put of its process meanwhile raced. *)
LEMMA ScanStep ==
  ASSUME DispatchTyped, NEW w \in Workers, JobFits(w), WorkerStep(w), NEW v \in Workers, ScanFits(v)
  PROVE  ScanFits(v)'
<1>0. /\ stage \in [Workers -> {"off", "look", "scan", "execute", "put", "record", "latest", "scan again", "ended", "dead"}]
      /\ listing \in [Workers -> SUBSET (Nat \X {"tmp", "final", "orphan"})]
      /\ raced \in [Processes -> SUBSET Yools] /\ w[1] \in Processes /\ v[1] \in Processes
  BY WorkerIs DEF DispatchTyped
<1>1. Aside(w) /\ ReceiptsKept
  BY StepsAside DEF Aside
<1> SUFFICES ASSUME stage'[v] = "scan", NEW id \in DOMAIN receipts',
                    receipts'[id].by[1] = v[1], receipts'[id].life = lives'[v[1]],
                    receipts'[id].status = "ok", receipts'[id].file = "final", receipts'[id].by[2] \notin raced'[v[1]]
             PROVE  <<id, "final">> \in listing'[v]
  BY DEF ScanFits
<1>2. id \in DOMAIN receipts
  BY <1>1 DEF Aside
<1>3. /\ receipts[id].by = receipts'[id].by /\ receipts[id].life = receipts'[id].life
      /\ receipts[id].status = receipts'[id].status /\ lives' = lives
  BY <1>1, <1>2 DEF Aside, ReceiptsKept
<1>4. CASE ScanLists(w) /\ v = w
  <2>1. listing'[v] = Files /\ receipts' = receipts
    BY <1>0, <1>4 DEF ScanLists
  <2> QED BY <1>2, <2>1 DEF Files
<1>5. CASE ~(ScanLists(w) /\ v = w)
  <2>1. stage[v] = "scan" /\ listing'[v] = listing[v]
    <3>1. CASE v # w
      BY <1>1, <3>1 DEF Aside
    <3>2. CASE v = w
      <4>1. stage'[w] # "scan"
        BY <1>0, <1>5, <3>2 DEF WorkerStep, DispatchBegins, IndexLoads, ScanRaises, Look, Serve, Execute, Put, Record, LatestReceipt, Go
      <4> QED BY <3>2, <4>1
    <3> QED BY <3>1, <3>2
  <2>2. receipts[id].file = "final" /\ receipts[id].by[2] \notin raced[v[1]]
    <3>1. CASE Put(w)
      <4>1. job[w].id \in DOMAIN receipts /\ receipts[job[w].id].by = w
        BY <3>1 DEF Put, JobFits
      <4>2. raced[v[1]] \subseteq raced'[v[1]]
        <5>1. raced' = raced \/ raced' = [raced EXCEPT ![w[1]] = @ \cup {w[2]}]
          BY <3>1 DEF Put
        <5> QED BY <1>0, <5>1
      <4>3. CASE id # job[w].id
        <5>1. receipts'[id] = receipts[id]
          BY <1>2, <3>1, <4>1, <4>3, PutInPlace
        <5> QED BY <4>2, <5>1
      <4>4. CASE id = job[w].id
        <5>1. w[1] = v[1] /\ receipts'[id].by = w /\ receipts[job[w].id].status = "ok"
          BY <1>3, <4>1, <4>4
        <5>2. raced' = [raced EXCEPT ![w[1]] = @ \cup {w[2]}]
          BY <2>1, <3>1, <5>1 DEF Put
        <5>3. w[2] \in raced'[v[1]]
          BY <1>0, <5>1, <5>2
        <5> QED BY <5>1, <5>3
      <4> QED BY <4>3, <4>4
    <3>2. CASE Execute(w)
      <4>1. receipts'[id] = receipts[id]
        BY <1>2, <3>2, ExecuteWrites
      <4>2. raced' = raced
        BY <3>2 DEF Execute, memory
      <4> QED BY <4>1, <4>2
    <3>3. CASE UNCHANGED <<receipts, raced>>
      BY <3>3
    <3> QED BY <3>1, <3>2, <3>3 DEF WorkerStep, DispatchBegins, ScanLists, IndexLoads, ScanRaises, Look, Record, LatestReceipt, memory
  <2> QED BY <1>2, <1>3, <2>1, <2>2 DEF ScanFits
<1> QED BY <1>4, <1>5

(* What is held has an entry, unless it raced.                             *)
LEMMA HeldStep ==
  ASSUME DispatchTyped, HeldFits, NEW w \in Workers, JobFits(w), ScanFits(w), WorkerStep(w)
  PROVE  HeldFits'
<1>0. /\ index \in [Processes -> [Yools -> Nat]] /\ held \in [Processes -> SUBSET Yools]
      /\ raced \in [Processes -> SUBSET Yools] /\ w[1] \in Processes /\ w[2] \in Yools
  BY WorkerIs DEF DispatchTyped
<1> SUFFICES ASSUME NEW p \in Processes, NEW y \in held'[p] \ raced'[p] PROVE index'[p][y] # 0
  BY DEF HeldFits
<1>1. y \in held[p] \ raced[p] => index[p][y] # 0
  BY DEF HeldFits
<1>2. CASE IndexLoads(w)
  <2>1. PICK found \in SUBSET (DOMAIN receipts), entry \in [Yools -> Nat] :
           /\ Readable(w, found) /\ index' = [index EXCEPT ![w[1]] = entry]
           /\ \A x \in Yools : \A id \in found : receipts[id].yool = x /\ receipts[id].status = "ok" => entry[x] # 0
           /\ held' = [held EXCEPT ![w[1]] =
                           {x \in Yools : \/ x \in held[w[1]] /\ PutHere(w[1], x)
                                          \/ entry[x] # 0 /\ receipts[entry[x]].file = "final"}]
    BY <1>2, LoadedIndex
  <2>2. raced' = raced /\ stage[w] = "scan"
    BY <1>2 DEF IndexLoads
  <2>3. CASE p # w[1]
    BY <1>0, <1>1, <2>1, <2>2, <2>3
  <2>4. CASE p = w[1]
    <3>1. index'[p] = entry /\ y \in Yools /\ (entry[y] # 0 \/ PutHere(w[1], y))
      BY <1>0, <2>1, <2>4
    <3>2. CASE PutHere(w[1], y)
      <4>1. PICK id \in DOMAIN receipts :
              /\ receipts[id].by = <<w[1], y>> /\ receipts[id].life = lives[w[1]]
              /\ receipts[id].status = "ok" /\ receipts[id].file = "final"
        BY <3>2 DEF PutHere
      <4>2. <<w[1], y>>[1] = w[1] /\ <<w[1], y>>[2] = y
        OBVIOUS
      <4>3. <<id, "final">> \in listing[w]
        BY <2>2, <2>4, <4>1, <4>2 DEF ScanFits
      <4>4. id \in found
        <5>1. <<id, "final">>[1] = id /\ <<id, "final">>[2] = "final"
          OBVIOUS
        <5> QED BY <2>1, <4>3, <5>1 DEF Readable
      <4>5. receipts[id].yool = y
        BY <4>1, <4>2, DispatchTypes
      <4> QED BY <2>1, <3>1, <4>1, <4>4, <4>5
    <3> QED BY <3>1, <3>2
  <2> QED BY <2>3, <2>4
<1>3. CASE Put(w)
  <2>1. job[w].id # 0
    BY <1>3 DEF Put, JobFits
  <2>2. \/ UNCHANGED <<index, held, raced>>
        \/ /\ index' = [index EXCEPT ![w[1]][w[2]] = job[w].id]
           /\ held' = [held EXCEPT ![w[1]] = @ \cup {w[2]}]
           /\ (raced' = raced \/ raced' = [raced EXCEPT ![w[1]] = @ \cup {w[2]}])
    BY <1>3 DEF Put
  <2>3. CASE UNCHANGED <<index, held, raced>>
    BY <1>1, <2>3
  <2>4. CASE /\ index' = [index EXCEPT ![w[1]][w[2]] = job[w].id]
             /\ held' = [held EXCEPT ![w[1]] = @ \cup {w[2]}]
             /\ (raced' = raced \/ raced' = [raced EXCEPT ![w[1]] = @ \cup {w[2]}])
    <3>1. y \in held[p] \/ (p = w[1] /\ y = w[2])
      BY <1>0, <2>4
    <3>2. y \notin raced[p] /\ y \in Yools
      BY <1>0, <2>4
    <3>3. CASE p = w[1] /\ y = w[2]
      BY <1>0, <2>1, <2>4, <3>3
    <3>4. CASE ~(p = w[1] /\ y = w[2])
      <4>1. index'[p][y] = index[p][y]
        BY <1>0, <2>4, <3>2, <3>4
      <4> QED BY <1>1, <3>1, <3>2, <3>4, <4>1
    <3> QED BY <3>3, <3>4
  <2> QED BY <2>2, <2>3, <2>4
<1>4. CASE UNCHANGED <<index, held, raced>>
  BY <1>1, <1>4
<1> QED BY <1>2, <1>3, <1>4 DEF WorkerStep, DispatchBegins, ScanLists, ScanRaises, Look, Execute, Record, LatestReceipt, memory

------------------------------------------------------------------------------
(* What is counted is finitely many receipts.                              *)
LEMMA CountedFinite ==
  ASSUME DispatchTyped, NEW p, NEW y
  PROVE  IsFiniteSet(Counted(p, y)) /\ Counted(p, y) \subseteq DOMAIN receipts
<1>1. PICK n \in Nat : n = Len(receipts)
  BY DispatchTypes
<1>2. DOMAIN receipts = 1..n
  BY <1>1, DispatchTypes
<1>3. Counted(p, y) \subseteq DOMAIN receipts
  BY DEF Counted
<1>4. IsFiniteSet(1..n)
  BY FS_Interval
<1> QED BY <1>2, <1>3, <1>4, FS_Subset

Balance(p, y) == [tokens |-> SumFunctionOnSet(Tokens, Counted(p, y)), wall |-> SumFunctionOnSet(Walls, Counted(p, y))]

(* Where the same receipts are counted, they cost the same.                *)
LEMMA SameBalance ==
  ASSUME DispatchTyped, ReceiptsKept, NEW p, NEW y, Counted(p, y)' = Counted(p, y)
  PROVE  Balance(p, y)' = Balance(p, y)
<1>1. PICK C : C = Counted(p, y)
  OBVIOUS
<1>2. IsFiniteSet(C) /\ C \subseteq DOMAIN receipts /\ DOMAIN receipts \subseteq DOMAIN receipts'
  BY <1>1, CountedFinite DEF ReceiptsKept
<1>3. PICK f, g : f = Tokens /\ g = Tokens'
  OBVIOUS
<1>4. PICK h, k : h = Walls /\ k = Walls'
  OBVIOUS
<1>5. \A id \in C : f[id] = g[id] /\ h[id] = k[id]
  BY <1>2, <1>3, <1>4 DEF Tokens, Walls, ReceiptsKept
<1>6. SumFunctionOnSet(f, C) = SumFunctionOnSet(g, C) /\ SumFunctionOnSet(h, C) = SumFunctionOnSet(k, C)
  BY <1>2, <1>5, SumSame
<1> QED BY <1>1, <1>3, <1>4, <1>6 DEF Balance

(* A dispatch is counted, once, when it is recorded.                       *)
LEMMA RecordedOnce ==
  ASSUME DispatchTyped, NEW w \in Workers, JobFits(w), Record(w)
  PROVE  Balance(w[1], w[2])' = Plus(Balance(w[1], w[2]), receipts[job[w].id].cost)
<1>0. PICK p, y : p = w[1] /\ y = w[2] /\ w = <<p, y>>
  BY WorkerIs
<1>1. PICK C : C = Counted(p, y)
  OBVIOUS
<1>2. PICK i : i = job[w].id
  OBVIOUS
<1>3. stage[w] = "record" /\ UNCHANGED <<receipts, lives>> /\ stage'[w] \in {"ended", "latest"}
  BY DEF Record, Go, DispatchTyped
<1>4. i \in DOMAIN receipts /\ receipts[i].by = <<p, y>> /\ receipts[i].life = lives[p]
  BY <1>0, <1>2, <1>3 DEF JobFits
<1>5. i \notin C /\ Counted(p, y)' = C \cup {i}
  BY <1>0, <1>1, <1>2, <1>3, <1>4 DEF Counted
<1>6. IsFiniteSet(C) /\ C \subseteq DOMAIN receipts
  BY <1>1, CountedFinite
<1>7. PICK f, h : f = Tokens /\ h = Walls
  OBVIOUS
<1>8. Tokens' = f /\ Walls' = h
  BY <1>3, <1>7 DEF Tokens, Walls
<1>9. \A id \in DOMAIN receipts : f[id] = receipts[id].cost.tokens /\ h[id] = receipts[id].cost.wall
  BY <1>7 DEF Tokens, Walls
<1>10. \A id \in DOMAIN receipts : f[id] \in Nat /\ h[id] \in Nat
  BY <1>9, DispatchTypes DEF Cost
<1>11. \A id \in C \cup {i} : f[id] \in Nat /\ h[id] \in Nat
  BY <1>4, <1>6, <1>10
<1>12. SumFunctionOnSet(f, C \cup {i}) = SumFunctionOnSet(f, C) + f[i]
  BY <1>5, <1>6, <1>11, SumMore
<1>13. SumFunctionOnSet(h, C \cup {i}) = SumFunctionOnSet(h, C) + h[i]
  BY <1>5, <1>6, <1>11, SumMore
<1>14. Balance(p, y)' = [tokens |-> SumFunctionOnSet(f, C \cup {i}), wall |-> SumFunctionOnSet(h, C \cup {i})]
  BY <1>5, <1>8 DEF Balance
<1>15. Balance(p, y) = [tokens |-> SumFunctionOnSet(f, C), wall |-> SumFunctionOnSet(h, C)]
  BY <1>1, <1>7 DEF Balance
<1>16. Balance(p, y)' = Plus(Balance(p, y), receipts[i].cost)
  BY <1>4, <1>9, <1>12, <1>13, <1>14, <1>15 DEF Plus
<1> QED BY <1>0, <1>2, <1>16

(* Nobody but the worker that records changes what is counted.             *)
LEMMA CountedStays ==
  ASSUME DispatchTyped, NEW w \in Workers, JobFits(w), WorkerStep(w), NEW p \in Processes, NEW y \in Yools,
         <<p, y>> \in Workers, ~(Record(w) /\ w = <<p, y>>)
  PROVE  Counted(p, y)' = Counted(p, y)
<1>0. /\ stage \in [Workers -> {"off", "look", "scan", "execute", "put", "record", "latest", "scan again", "ended", "dead"}]
      /\ job \in [Workers -> [id : Nat, marker : Nat]]
  BY DEF DispatchTyped
<1>1. Aside(w) /\ ReceiptsKept
  BY StepsAside DEF Aside
<1>2. PICK v \in Workers : v = <<p, y>>
  OBVIOUS
<1>3. /\ \A id \in DOMAIN receipts : /\ id \in DOMAIN receipts' /\ receipts'[id].by = receipts[id].by
                                     /\ receipts'[id].life = receipts[id].life
      /\ lives' = lives
  BY <1>1 DEF Aside, ReceiptsKept
<1>4. Counted(p, y) = {id \in DOMAIN receipts : /\ receipts[id].by = v /\ receipts[id].life = lives[p]
                                                /\ ~(stage[v] \in {"put", "record"} /\ job[v].id = id)}
  BY <1>2 DEF Counted
<1>5. Counted(p, y)' = {id \in DOMAIN receipts' : /\ receipts'[id].by = v /\ receipts'[id].life = lives[p]
                                                  /\ ~(stage'[v] \in {"put", "record"} /\ job'[v].id = id)}
  BY <1>2, <1>3 DEF Counted
<1>6. CASE v # w
  <2>1. stage'[v] = stage[v] /\ job'[v] = job[v] /\ \A id \in DOMAIN receipts' \ DOMAIN receipts : receipts'[id].by # v
    BY <1>1, <1>6 DEF Aside
  <2> QED BY <1>3, <1>4, <1>5, <2>1
<1>7. CASE v = w /\ Execute(w)
  <2>1. stage[w] = "execute" /\ stage'[w] = "put"
    BY <1>0, <1>7 DEF Execute, Go
  <2>2. DOMAIN receipts' = DOMAIN receipts \cup {Len(receipts) + 1} /\ job'[w].id = Len(receipts) + 1
    BY <1>7, ExecuteWrites
  <2>3. Len(receipts) + 1 \notin DOMAIN receipts
    <3>1. PICK n \in Nat : n = Len(receipts)
      BY DispatchTypes
    <3>2. DOMAIN receipts = 1..n
      BY <3>1, DispatchTypes
    <3> QED BY <3>1, <3>2
  <2> QED BY <1>3, <1>4, <1>5, <1>7, <2>1, <2>2, <2>3
<1>8. CASE v = w /\ Put(w)
  <2>1. stage[w] = "put" /\ stage'[w] = "record" /\ job' = job
    BY <1>0, <1>8 DEF Put, Go
  <2>2. DOMAIN receipts' = DOMAIN receipts
    BY <1>8, <2>1, PutInPlace DEF JobFits
  <2> QED BY <1>3, <1>4, <1>5, <1>8, <2>1, <2>2
<1>9. CASE v = w /\ ~Execute(w) /\ ~Put(w)
  <2>1. stage[w] \notin {"put", "record"} /\ stage'[w] \notin {"put", "record"} /\ receipts' = receipts
    BY <1>0, <1>2, <1>9 DEF WorkerStep, DispatchBegins, ScanLists, IndexLoads, ScanRaises, Look, Serve, LatestReceipt, Go
  <2> QED BY <1>3, <1>4, <1>5, <1>9, <2>1
<1> QED BY <1>6, <1>7, <1>8, <1>9

(* The ledger is the cost of the receipts, after each step.                *)
LEMMA LedgerStep ==
  ASSUME DispatchTyped, LedgerIsReceipts, NEW w \in Workers, JobFits(w), WorkerStep(w)
  PROVE  LedgerIsReceipts'
<1>0. ledger \in [Processes -> [Yools -> Cost]] /\ w[1] \in Processes /\ w[2] \in Yools /\ w = <<w[1], w[2]>>
  BY WorkerIs DEF DispatchTyped
<1>1. ReceiptsKept
  BY StepsAside DEF Aside
<1> SUFFICES ASSUME NEW p \in Processes, NEW y \in Yools, <<p, y>> \in Workers
             PROVE  ledger'[p][y] = Balance(p, y)'
  BY DEF LedgerIsReceipts, Balance
<1>2. ledger[p][y] = Balance(p, y) /\ ledger[p][y] \in Cost
  BY <1>0 DEF LedgerIsReceipts, Balance
<1>3. CASE Record(w) /\ w = <<p, y>>
  <2>1. w[1] = p /\ w[2] = y
    BY <1>3
  <2>2. ledger'[p][y] = Plus(ledger[p][y], receipts[job[w].id].cost)
    BY <1>0, <1>3, <2>1 DEF Record
  <2>3. Balance(p, y)' = Plus(Balance(p, y), receipts[job[w].id].cost)
    BY <1>3, <2>1, RecordedOnce
  <2> QED BY <1>2, <2>2, <2>3
<1>4. CASE ~(Record(w) /\ w = <<p, y>>)
  <2>1. Balance(p, y)' = Balance(p, y)
    BY <1>1, <1>4, CountedStays, SameBalance
  <2>2. ledger'[p][y] = ledger[p][y]
    <3>1. CASE Record(w)
      <4>1. ~(w[1] = p /\ w[2] = y)
        BY <1>0, <1>4, <3>1
      <4>2. PICK new : ledger' = [ledger EXCEPT ![w[1]][w[2]] = new]
        BY <3>1 DEF Record
      <4> QED BY <1>0, <4>1, <4>2
    <3>2. CASE Look(w)
      <4>1. Plus(ledger[w[1]][w[2]], Free) = ledger[w[1]][w[2]]
        <5>1. ledger[w[1]][w[2]] \in Cost
          BY <1>0
        <5>2. \A c \in Cost : Plus(c, Free) = c
          BY DEF Cost, Plus, Free
        <5> QED BY <5>1, <5>2
      <4>2. ledger' = ledger \/ ledger' = [ledger EXCEPT ![w[1]][w[2]] = ledger[w[1]][w[2]]]
        BY <1>0, <3>2, <4>1 DEF Look, Serve
      <4> QED BY <1>0, <4>2
    <3> QED BY <3>1, <3>2 DEF WorkerStep, DispatchBegins, ScanLists, IndexLoads, ScanRaises, Execute, Put, LatestReceipt, memory
  <2> QED BY <1>2, <2>1, <2>2
<1> QED BY <1>3, <1>4

(* A death leaves the types.                                               *)
LEMMA DeathTyped ==
  ASSUME DispatchTyped, NEW p \in Processes, DispatcherDies(p)
  PROVE  DispatchTyped'
<1>0. /\ index \in [Processes -> [Yools -> Nat]] /\ loaded \in [Processes -> BOOLEAN]
      /\ listing \in [Workers -> SUBSET (Nat \X {"tmp", "final", "orphan"})]
      /\ ledger \in [Processes -> [Yools -> Cost]]
      /\ stage \in [Workers -> {"off", "look", "scan", "execute", "put", "record", "latest", "scan again", "ended", "dead"}]
      /\ job \in [Workers -> [id : Nat, marker : Nat]]
      /\ lives \in [Processes -> Nat]
      /\ held \in [Processes -> SUBSET Yools] /\ raced \in [Processes -> SUBSET Yools]
  BY DEF DispatchTyped
<1>1. /\ ReceiptsKept /\ DOMAIN receipts' = DOMAIN receipts
      /\ lives' \in [Processes -> Nat] /\ lives'[p] = lives[p] + 1 /\ \A q \in Processes \ {p} : lives'[q] = lives[q]
  BY DeathLeaves
<1>2. \A id \in DOMAIN receipts' : /\ receipts'[id].yool = receipts'[id].by[2]
                                   /\ receipts'[id].life <= lives'[receipts'[id].by[1]]
  <2> SUFFICES ASSUME NEW id \in DOMAIN receipts
               PROVE  receipts'[id].yool = receipts'[id].by[2] /\ receipts'[id].life <= lives'[receipts'[id].by[1]]
    BY <1>1
  <2>1. PICK q \in Processes : q = receipts[id].by[1]
    BY DispatchTypes
  <2>2. receipts[id].yool = receipts[id].by[2] /\ receipts[id].life \in Nat /\ receipts[id].life <= lives[q]
    BY <2>1, DispatchTypes
  <2>3. /\ receipts'[id].by = receipts[id].by /\ receipts'[id].life = receipts[id].life
        /\ receipts'[id].yool = receipts[id].yool
    BY <1>1 DEF ReceiptsKept
  <2>4. lives[q] \in Nat /\ lives'[q] >= lives[q] /\ lives'[q] \in Nat
    <3>0. PICK n \in Nat : n = lives[q]
      BY <1>0
    <3>1. CASE q = p
      <4>1. lives'[q] = n + 1
        BY <1>1, <3>0, <3>1
      <4>2. n + 1 >= n /\ n + 1 \in Nat
        OBVIOUS
      <4> QED BY <3>0, <4>1, <4>2
    <3>2. CASE q # p
      <4>1. lives'[q] = n
        BY <1>1, <3>0, <3>2
      <4>2. n >= n
        OBVIOUS
      <4> QED BY <3>0, <4>1, <4>2
    <3> QED BY <3>1, <3>2
  <2>5. receipts[id].life <= lives'[q]
    BY <2>2, <2>4
  <2> QED BY <2>1, <2>2, <2>3, <2>5
<1>3. PICK none : none = [y \in Yools |-> 0]
  OBVIOUS
<1>4. index' = [index EXCEPT ![p] = none] /\ none \in [Yools -> Nat] /\ \A y \in Yools : none[y] = 0
  BY <1>3 DEF DispatcherDies
<1>5. index' \in [Processes -> [Yools -> Nat]]
  BY <1>0, <1>4
<1>6. \A q \in Processes : \A y \in Yools : index'[q][y] # 0 => index'[q][y] \in DOMAIN receipts'
  BY <1>0, <1>1, <1>4 DEF DispatchTyped
<1>7. loaded' \in [Processes -> BOOLEAN]
  BY <1>0 DEF DispatcherDies
<1>8. listing' \in [Workers -> SUBSET (Nat \X {"tmp", "final", "orphan"})]
  BY <1>0 DEF DispatcherDies
<1>9. ledger' \in [Processes -> [Yools -> Cost]]
  <2>1. Free \in Cost
    BY DEF Free, Cost
  <2>2. [y \in Yools |-> Free] \in [Yools -> Cost]
    BY <2>1
  <2> QED BY <1>0, <2>2 DEF DispatcherDies
<1>10. stage' \in [Workers -> {"off", "look", "scan", "execute", "put", "record", "latest", "scan again", "ended", "dead"}]
  BY <1>0 DEF DispatcherDies
<1>11. job' \in [Workers -> [id : Nat, marker : Nat]]
  <2>1. Idle \in [id : Nat, marker : Nat]
    BY DEF Idle
  <2> QED BY <1>0, <2>1 DEF DispatcherDies
<1>12. held' \in [Processes -> SUBSET Yools] /\ raced' \in [Processes -> SUBSET Yools]
  BY <1>0 DEF DispatcherDies
<1>13. receipts' \in Seq(Receipt)
  BY <1>1 DEF ReceiptsKept
<1> QED BY <1>1, <1>2, <1>5, <1>6, <1>7, <1>8, <1>9, <1>10, <1>11, <1>12, <1>13 DEF DispatchTyped

(* A death leaves the ledgers: nothing that was written before it counts.  *)
LEMMA DeathLedger ==
  ASSUME DispatchTyped, LedgerIsReceipts, NEW p \in Processes, DispatcherDies(p)
  PROVE  LedgerIsReceipts'
<1>0. ledger \in [Processes -> [Yools -> Cost]]
  BY DEF DispatchTyped
<1>1. /\ ReceiptsKept /\ DOMAIN receipts' = DOMAIN receipts
      /\ lives' \in [Processes -> Nat] /\ lives'[p] = lives[p] + 1 /\ \A q \in Processes \ {p} : lives'[q] = lives[q]
  BY DeathLeaves
<1>2. \A id \in DOMAIN receipts : receipts'[id].by = receipts[id].by /\ receipts'[id].life = receipts[id].life
  BY <1>1 DEF ReceiptsKept
<1> SUFFICES ASSUME NEW q \in Processes, NEW y \in Yools, <<q, y>> \in Workers
             PROVE  ledger'[q][y] = Balance(q, y)'
  BY DEF LedgerIsReceipts, Balance
<1>3. PICK v \in Workers : v = <<q, y>> /\ v[1] = q
  OBVIOUS
<1>4. CASE q = p
  <2>1. ASSUME NEW id \in DOMAIN receipts, receipts[id].by = v, receipts[id].life = lives'[p] PROVE FALSE
    <3>1. receipts[id].life <= lives[p] /\ lives[p] \in Nat
      BY <1>3, <1>4, <2>1, DispatchTypes
    <3> QED BY <1>1, <2>1, <3>1
  <2>2. Counted(q, y)' = {}
    BY <1>1, <1>2, <1>3, <1>4, <2>1 DEF Counted
  <2>3. Balance(q, y)' = Free
    BY <2>2, SumNone DEF Balance, Free
  <2>4. ledger'[q] = [x \in Yools |-> Free]
    BY <1>0, <1>4 DEF DispatcherDies
  <2> QED BY <2>3, <2>4
<1>5. CASE q # p
  <2>1. stage'[v] = stage[v] /\ job'[v] = job[v] /\ lives'[q] = lives[q]
    BY <1>1, <1>3, <1>5 DEF DispatcherDies
  <2>2. Counted(q, y)' = Counted(q, y)
    BY <1>1, <1>2, <1>3, <2>1 DEF Counted
  <2>3. Balance(q, y)' = Balance(q, y)
    BY <1>1, <2>2, SameBalance
  <2>4. ledger'[q] = ledger[q]
    BY <1>0, <1>5 DEF DispatcherDies
  <2> QED BY <2>3, <2>4 DEF LedgerIsReceipts, Balance
<1> QED BY <1>4, <1>5

(* A death leaves the invariant.                                           *)
LEMMA DeathKeeps ==
  ASSUME DispatchInv, NEW p \in Processes, DispatcherDies(p)
  PROVE  DispatchInv'
<1>0. /\ DispatchTyped /\ HeldFits /\ LedgerIsReceipts
      /\ \A w \in Workers : JobFits(w) /\ MarkerFits(w) /\ ScanFits(w)
  BY DEF DispatchInv
<1>1. DispatchTyped' /\ LedgerIsReceipts'
  BY <1>0, DeathTyped, DeathLedger
<1>2. /\ ReceiptsKept /\ DOMAIN receipts' = DOMAIN receipts /\ \A q \in Processes \ {p} : lives'[q] = lives[q]
  BY <1>0, DeathLeaves
<1>3. HeldFits'
  <2> SUFFICES ASSUME NEW q \in Processes, NEW y \in held'[q] \ raced'[q] PROVE index'[q][y] # 0
    BY DEF HeldFits
  <2>1. q # p /\ held'[q] = held[q] /\ raced'[q] = raced[q] /\ index'[q] = index[q]
    BY <1>0 DEF DispatcherDies, DispatchTyped
  <2> QED BY <1>0, <2>1 DEF HeldFits
<1>4. ASSUME NEW w \in Workers PROVE JobFits(w)' /\ MarkerFits(w)' /\ ScanFits(w)'
  <2>1. CASE w[1] = p
    <3>1. stage'[w] = "off"
      BY <2>1 DEF DispatcherDies
    <3> QED BY <3>1 DEF JobFits, MarkerFits, ScanFits
  <2>2. CASE w[1] # p
    <3>1. /\ stage'[w] = stage[w] /\ job'[w] = job[w] /\ listing'[w] = listing[w]
          /\ raced'[w[1]] = raced[w[1]] /\ lives'[w[1]] = lives[w[1]]
      BY <1>0, <1>2, <2>2, WorkerIs DEF DispatcherDies, DispatchTyped
    <3>2. JobFits(w)' /\ MarkerFits(w)'
      BY <1>0, <1>2, <3>1, RestingFits
    <3>3. \A id \in DOMAIN receipts : receipts[id].by[1] = w[1] => receipts'[id] = receipts[id]
      BY <2>2 DEF DispatcherDies
    <3>4. \A id \in DOMAIN receipts : receipts'[id].by = receipts[id].by
      BY <1>2 DEF ReceiptsKept
    <3>5. ScanFits(w)'
      <4> SUFFICES ASSUME stage'[w] = "scan", NEW id \in DOMAIN receipts',
                    receipts'[id].by[1] = w[1], receipts'[id].life = lives'[w[1]],
                    receipts'[id].status = "ok", receipts'[id].file = "final", receipts'[id].by[2] \notin raced'[w[1]]
             PROVE  <<id, "final">> \in listing'[w]
        BY DEF ScanFits
      <4>1. id \in DOMAIN receipts /\ receipts'[id] = receipts[id]
        BY <1>2, <3>3, <3>4
      <4> QED BY <1>0, <3>1, <4>1 DEF ScanFits
    <3> QED BY <3>2, <3>5
  <2> QED BY <2>1, <2>2
<1> QED BY <1>1, <1>3, <1>4 DEF DispatchInv

(* So does a step of a worker.                                             *)
LEMMA WorkerKeeps ==
  ASSUME DispatchInv, NEW w \in Workers, WorkerStep(w)
  PROVE  DispatchInv'
<1>0. /\ DispatchTyped /\ HeldFits /\ LedgerIsReceipts
      /\ \A v \in Workers : JobFits(v) /\ MarkerFits(v) /\ ScanFits(v)
  BY DEF DispatchInv
<1>1. DispatchTyped'
  BY <1>0, TypedStep
<1>2. HeldFits'
  BY <1>0, HeldStep
<1>3. LedgerIsReceipts'
  BY <1>0, LedgerStep
<1>4. ASSUME NEW v \in Workers PROVE JobFits(v)' /\ MarkerFits(v)' /\ ScanFits(v)'
  <2>1. ScanFits(v)'
    BY <1>0, ScanStep
  <2>2. CASE v = w
    BY <1>0, <2>1, <2>2, WorkerFits
  <2>3. CASE v # w
    <3>1. Aside(w)
      BY <1>0, StepsAside
    <3>2. /\ ReceiptsKept /\ stage'[v] = stage[v] /\ job'[v] = job[v] /\ listing'[v] = listing[v]
          /\ lives'[v[1]] = lives[v[1]] /\ \A id \in DOMAIN receipts' \ DOMAIN receipts : receipts'[id].by # v
      BY <2>3, <3>1 DEF Aside
    <3>3. JobFits(v)' /\ MarkerFits(v)'
      BY <1>0, <3>2, RestingFits
    <3> QED BY <2>1, <3>3
  <2> QED BY <2>2, <2>3
<1> QED BY <1>1, <1>2, <1>3, <1>4 DEF DispatchInv

(* The invariant is inductive.                                             *)
LEMMA DispatchInvKept ==
  DispatchSpec => []DispatchInv
<1>1. ASSUME DispatchInit PROVE DispatchInv
  <2>1. /\ receipts = <<>> /\ DOMAIN receipts = {} /\ receipts \in Seq(Receipt)
    BY <1>1 DEF DispatchInit
  <2>2. /\ index = [p \in Processes |-> [y \in Yools |-> 0]]
        /\ loaded = [p \in Processes |-> FALSE]
        /\ listing = [w \in Workers |-> {}]
        /\ ledger = [p \in Processes |-> [y \in Yools |-> Free]]
        /\ stage = [w \in Workers |-> "off"]
        /\ job = [w \in Workers |-> Idle]
        /\ lives = [p \in Processes |-> 0]
        /\ held = [p \in Processes |-> {}] /\ raced = [p \in Processes |-> {}]
    BY <1>1 DEF DispatchInit
  <2>3. Free \in Cost /\ Idle \in [id : Nat, marker : Nat]
    BY DEF Free, Cost, Idle
  <2>4. DispatchTyped
    BY <2>1, <2>2, <2>3 DEF DispatchTyped
  <2>5. HeldFits
    BY <2>2 DEF HeldFits
  <2>6. \A w \in Workers : JobFits(w) /\ MarkerFits(w) /\ ScanFits(w)
    BY <2>2 DEF JobFits, MarkerFits, ScanFits
  <2>7. LedgerIsReceipts
    <3>1. ASSUME NEW p \in Processes, NEW y \in Yools, <<p, y>> \in Workers PROVE ledger[p][y] = Balance(p, y)
      <4>1. Counted(p, y) = {}
        BY <2>1 DEF Counted
      <4>2. Balance(p, y) = Free
        BY <4>1, SumNone DEF Balance, Free
      <4> QED BY <2>2, <4>2
    <3> QED BY <3>1 DEF LedgerIsReceipts, Balance
  <2> QED BY <2>4, <2>5, <2>6, <2>7 DEF DispatchInv
<1>2. ASSUME DispatchInv, [DispatchNext]_dispatchVars PROVE DispatchInv'
  <2>1. CASE \E w \in Workers : WorkerStep(w)
    BY <1>2, <2>1, WorkerKeeps
  <2>2. CASE \E p \in Processes : DispatcherDies(p)
    BY <1>2, <2>2, DeathKeeps
  <2>3. CASE UNCHANGED dispatchVars
    <3>1. DispatchTyped'
      BY <1>2, <2>3 DEF DispatchInv, DispatchTyped, dispatchVars
    <3>2. HeldFits' /\ \A w \in Workers : JobFits(w)' /\ MarkerFits(w)' /\ ScanFits(w)'
      BY <1>2, <2>3 DEF DispatchInv, HeldFits, JobFits, MarkerFits, ScanFits, dispatchVars
    <3>3. /\ \A p, y : Counted(p, y)' = Counted(p, y)
          /\ Tokens' = Tokens /\ Walls' = Walls /\ ledger' = ledger
      BY <2>3 DEF Counted, Tokens, Walls, dispatchVars
    <3>4. LedgerIsReceipts'
      BY <1>2, <3>3 DEF DispatchInv, LedgerIsReceipts
    <3> QED BY <3>1, <3>2, <3>4 DEF DispatchInv
  <2> QED BY <1>2, <2>1, <2>2, <2>3 DEF DispatchNext, WorkerStep
<1> QED BY <1>1, <1>2, PTL DEF DispatchSpec

(* The ledger of a process is the cost of what its life has run, to the    *)
(* token: what is served costs nothing, a dispatch is counted once; and a  *)
(* worker shows the receipt of its own dispatch, or a later one of another *)
(* process (yool/dispatcher.py:72, 114, 127, 140, workers.py:82-135), for  *)
(* any processes, workers, costs, terms and deaths.                        *)
THEOREM ReceiptedKept ==
  DispatchSpec => []Receipted
<1>1. DispatchInv => Receipted
  BY DEF DispatchInv, Receipted, OwnReceipt, MarkerFits
<1> QED BY <1>1, DispatchInvKept, PTL

(* What a process has put, or its load has found in place, is served and   *)
(* not run again, unless its put raced with a load of the index or a       *)
(* receipt newer than it is not in place (receipts.py:122-131, 160-172).   *)
THEOREM NotRunAgainKept ==
  DispatchSpec => NotRunAgain
<1>1. ASSUME DispatchInv, [DispatchNext]_dispatchVars, NEW w \in Workers, stage[w] = "look", stage'[w] = "execute"
      PROVE  \/ w[2] \notin held[w[1]] \ raced[w[1]]
             \/ \E id \in {index[w[1]][w[2]]} \ {0} : receipts[id].file # "final"
  <2>0. DispatchTyped /\ HeldFits /\ \A v \in Workers : JobFits(v)
    BY <1>1 DEF DispatchInv
  <2>00. stage \in [Workers -> {"off", "look", "scan", "execute", "put", "record", "latest", "scan again", "ended", "dead"}]
    BY <2>0 DEF DispatchTyped
  <2>1. \E v \in Workers : WorkerStep(v)
    <3>1. CASE UNCHANGED dispatchVars
      BY <1>1, <3>1 DEF dispatchVars
    <3>2. CASE \E p \in Processes : DispatcherDies(p)
      BY <1>1, <3>2 DEF DispatcherDies
    <3> QED BY <1>1, <3>1, <3>2 DEF DispatchNext, WorkerStep
  <2>2. WorkerStep(w)
    <3>1. PICK v \in Workers : WorkerStep(v)
      BY <2>1
    <3>2. Aside(v)
      BY <2>0, <3>1, StepsAside
    <3>3. v = w
      BY <1>1, <3>2 DEF Aside
    <3> QED BY <3>1, <3>3
  <2>3. Look(w)
    BY <1>1, <2>00, <2>2 DEF WorkerStep, DispatchBegins, ScanLists, IndexLoads, ScanRaises, Execute, Put, Record, LatestReceipt, Go
  <2>4. ~(index[w[1]][w[2]] # 0 /\ receipts[index[w[1]][w[2]]].file = "final")
    <3>1. PICK id : id = index[w[1]][w[2]]
      OBVIOUS
    <3>2. id # 0 /\ receipts[id].file = "final" => stage'[w] = "ended"
      BY <2>00, <2>3, <3>1 DEF Look, Serve, Go
    <3> QED BY <1>1, <3>1, <3>2
  <2>5. w[2] \in held[w[1]] \ raced[w[1]] => index[w[1]][w[2]] # 0
    BY <2>0, WorkerIs DEF HeldFits
  <2> QED BY <2>4, <2>5
<1>2. DispatchInv /\ [DispatchNext]_dispatchVars =>
        [\A w \in Workers :
           stage[w] = "look" /\ stage'[w] = "execute" =>
             \/ w[2] \notin held[w[1]] \ raced[w[1]]
             \/ \E id \in {index[w[1]][w[2]]} \ {0} : receipts[id].file # "final"]_dispatchVars
  BY <1>1
<1> QED BY <1>2, DispatchInvKept, PTL DEF DispatchSpec, NotRunAgain

(* What a worker knows of are receipts, of which there are few.            *)
Known == {0} \cup DOMAIN receipts
KnownFits(w) ==
  /\ job[w].id \in Known /\ job[w].marker \in Known
  /\ \A f \in listing[w] : f[1] \in DOMAIN receipts

ReceiptsFew == Len(receipts) <= MaxReceipts

(* The newest of some receipts is one of them, if there is any.            *)
LEMMA LatestKnown ==
  ASSUME DispatchTyped, NEW ids \in SUBSET (DOMAIN receipts)
  PROVE  Latest(ids) \in Known
<1>1. PICK n \in Nat : n = Len(receipts) /\ DOMAIN receipts = 1..n
  BY DispatchTypes
<1>2. ids \subseteq 1..n
  BY <1>1
<1>3. Latest(ids) \in ids \cup {0}
  BY <1>2, LatestOf
<1> QED BY <1>3 DEF Known

(* What it knows, it knows after a step that is not its own.               *)
LEMMA KnownRests ==
  ASSUME NEW v, KnownFits(v), ReceiptsKept, job'[v] = job[v], listing'[v] = listing[v]
  PROVE  KnownFits(v)'
  BY DEF KnownFits, Known, ReceiptsKept

(* A step of a worker adds one receipt at most.                            *)
LEMMA FewStep ==
  ASSUME DispatchTyped, NEW w \in Workers, JobFits(w), WorkerStep(w), ReceiptsFew
  PROVE  ReceiptsFew'
<1>1. Len(receipts) \in Nat /\ MaxReceipts \in Nat
  BY DispatchTypes, DispatchAssumption
<1>2. CASE Execute(w)
  <2>1. Len(receipts') = Len(receipts) + 1
    BY <1>2, ExecuteWrites
  <2>2. Len(receipts) < MaxReceipts
    BY <1>2 DEF Execute
  <2> QED BY <1>1, <2>1, <2>2 DEF ReceiptsFew
<1>3. CASE Put(w)
  <2>1. job[w].id \in DOMAIN receipts
    BY <1>3, DispatchTypes DEF Put, JobFits
  <2>2. ReceiptsKept /\ DOMAIN receipts' = DOMAIN receipts
    BY <1>3, <2>1, PutInPlace
  <2>3. PICK r : r = receipts'
    OBVIOUS
  <2>4. DOMAIN r = DOMAIN receipts /\ r \in Seq(Receipt) /\ receipts \in Seq(Receipt)
    BY <2>2, <2>3 DEF ReceiptsKept, DispatchTyped
  <2>5. Len(r) = Len(receipts)
    BY <2>4, SameLength
  <2> QED BY <2>3, <2>5 DEF ReceiptsFew
<1>4. CASE UNCHANGED receipts
  BY <1>4 DEF ReceiptsFew
<1> QED
  BY <1>2, <1>3, <1>4
  DEF WorkerStep, DispatchBegins, ScanLists, IndexLoads, ScanRaises, Look, Serve, Record, LatestReceipt

(* What it knows afterwards.                                               *)
LEMMA KnownStep ==
  ASSUME DispatchTyped, NEW w \in Workers, JobFits(w), KnownFits(w), WorkerStep(w)
  PROVE  KnownFits(w)'
<1>0. /\ job \in [Workers -> [id : Nat, marker : Nat]] /\ job[w] \in [id : Nat, marker : Nat]
      /\ listing \in [Workers -> SUBSET (Nat \X {"tmp", "final", "orphan"})]
  BY DispatchTypes DEF DispatchTyped
<1>1. Aside(w) /\ DOMAIN receipts \subseteq DOMAIN receipts'
  BY StepsAside DEF Aside, ReceiptsKept
<1>2. CASE Execute(w)
  <2>1. /\ job'[w].id = Len(receipts) + 1 /\ job'[w].marker = job[w].marker
        /\ DOMAIN receipts' = DOMAIN receipts \cup {Len(receipts) + 1}
    BY <1>2, ExecuteWrites
  <2>2. listing' = listing
    BY <1>2 DEF Execute
  <2> QED BY <2>1, <2>2 DEF KnownFits, Known
<1>3. CASE Put(w)
  <2>1. job' = job /\ listing' = listing
    BY <1>3 DEF Put
  <2> QED BY <1>1, <2>1, KnownRests DEF Aside
<1>4. CASE DispatchBegins(w)
  <2>1. job'[w] = Idle /\ listing' = listing /\ receipts' = receipts
    BY <1>0, <1>4 DEF DispatchBegins
  <2> QED BY <2>1 DEF KnownFits, Known, Idle
<1>5. CASE ScanLists(w)
  <2>1. job' = job /\ receipts' = receipts /\ listing'[w] = Files
    BY <1>0, <1>5 DEF ScanLists
  <2>2. \A f \in Files : f[1] \in DOMAIN receipts
    BY DEF Files
  <2> QED BY <2>1, <2>2 DEF KnownFits, Known
<1>6. CASE IndexLoads(w) \/ ScanRaises(w)
  <2>1. job' = job /\ receipts' = receipts /\ listing'[w] = {}
    BY <1>0, <1>6 DEF IndexLoads, ScanRaises
  <2> QED BY <2>1 DEF KnownFits, Known
<1>7. CASE Look(w)
  <2>1. /\ listing' = listing /\ receipts' = receipts
        /\ \/ job' = job
           \/ index[w[1]][w[2]] # 0 /\ job' = [job EXCEPT ![w].id = index[w[1]][w[2]], ![w].marker = index[w[1]][w[2]]]
    BY <1>7 DEF Look, Serve
  <2>2. index[w[1]][w[2]] # 0 => index[w[1]][w[2]] \in DOMAIN receipts
    BY DispatchTypes, WorkerIs
  <2>3. job'[w].id \in Known /\ job'[w].marker \in Known
    <3>1. CASE job' = job
      BY <3>1 DEF KnownFits
    <3>2. PICK i : i = index[w[1]][w[2]]
      OBVIOUS
    <3>3. CASE i # 0 /\ job' = [job EXCEPT ![w].id = i, ![w].marker = i]
      <4>1. job'[w].id = i /\ job'[w].marker = i
        BY <1>0, <3>3
      <4> QED BY <2>2, <3>2, <3>3, <4>1 DEF Known
    <3> QED BY <2>1, <3>1, <3>2, <3>3
  <2> QED BY <2>1, <2>3 DEF KnownFits, Known
<1>8. CASE Record(w)
  <2>1. listing' = listing /\ receipts' = receipts
        /\ \/ job' = job \/ job' = [job EXCEPT ![w].marker = @ + job[w].id]
    BY <1>8 DEF Record
  <2>2. job[w].marker = 0 /\ job[w].id \in Known
    BY <1>8 DEF Record, JobFits, KnownFits
  <2>3. job'[w].id \in Known /\ job'[w].marker \in Known
    <3>1. CASE job' = job
      BY <3>1 DEF KnownFits
    <3>2. PICK i \in Nat : i = job[w].id
      BY <1>0
    <3>3. CASE job' = [job EXCEPT ![w].marker = @ + i]
      <4>1. job'[w].id = i /\ job'[w].marker = job[w].marker + i
        BY <1>0, <3>2, <3>3
      <4> QED BY <2>2, <3>2, <4>1
    <3> QED BY <2>1, <3>1, <3>2, <3>3
  <2> QED BY <2>1, <2>3 DEF KnownFits, Known
<1>9. CASE LatestReceipt(w)
  <2>1. PICK found \in SUBSET (DOMAIN receipts) :
          job' = [job EXCEPT ![w].marker = Latest({id \in found : receipts[id].yool = w[2]})]
    BY <1>9 DEF LatestReceipt
  <2>2. PICK m : m = Latest({id \in found : receipts[id].yool = w[2]})
    OBVIOUS
  <2>3. m \in Known
    BY <2>2, LatestKnown DEF Known
  <2>4. listing'[w] = {} /\ receipts' = receipts
    BY <1>0, <1>9 DEF LatestReceipt
  <2>5. job'[w].id = job[w].id /\ job'[w].marker = m
    BY <1>0, <2>1, <2>2
  <2> QED BY <2>3, <2>4, <2>5 DEF KnownFits, Known
<1> QED BY <1>2, <1>3, <1>4, <1>5, <1>6, <1>7, <1>8, <1>9 DEF WorkerStep

(* A death makes no receipt.                                               *)
LEMMA KnownDies ==
  ASSUME DispatchTyped, ReceiptsFew, \A w \in Workers : KnownFits(w), NEW p \in Processes, DispatcherDies(p)
  PROVE  ReceiptsFew' /\ \A w \in Workers : KnownFits(w)'
<1>1. ReceiptsKept /\ DOMAIN receipts' = DOMAIN receipts
  BY DeathLeaves
<1>2. ReceiptsFew'
  <2>1. PICK r : r = receipts'
    OBVIOUS
  <2>2. DOMAIN r = DOMAIN receipts /\ r \in Seq(Receipt) /\ receipts \in Seq(Receipt)
    BY <1>1, <2>1 DEF ReceiptsKept, DispatchTyped
  <2>3. Len(r) = Len(receipts)
    BY <2>2, SameLength
  <2> QED BY <2>1, <2>3 DEF ReceiptsFew
<1>3. ASSUME NEW w \in Workers PROVE KnownFits(w)'
  <2>1. \/ job'[w] = Idle /\ listing'[w] = {}
        \/ job'[w] = job[w] /\ listing'[w] = listing[w]
    BY DEF DispatcherDies, DispatchTyped
  <2>2. CASE job'[w] = Idle /\ listing'[w] = {}
    BY <2>2 DEF KnownFits, Known, Idle
  <2>3. CASE job'[w] = job[w] /\ listing'[w] = listing[w]
    BY <1>1, <2>3, KnownRests
  <2> QED BY <2>1, <2>2, <2>3
<1> QED BY <1>2, <1>3

(* What the types say of the state, with the bounds of the run.            *)
LEMMA TypesOf ==
  ASSUME DispatchTyped, ReceiptsFew, \A w \in Workers : KnownFits(w)
  PROVE  DispatchTypeOK
<1>1. PICK n \in Nat : n = Len(receipts) /\ DOMAIN receipts = 1..n
  BY DispatchTypes
<1>2. n <= MaxReceipts /\ MaxReceipts \in Nat
  BY <1>1, DispatchAssumption DEF ReceiptsFew
<1>3. DOMAIN receipts \subseteq 1..MaxReceipts /\ Known \subseteq 0..MaxReceipts
  BY <1>1, <1>2 DEF Known
<1>4. index \in [Processes -> [Yools -> 0..MaxReceipts]]
  <2>1. ASSUME NEW p \in Processes PROVE index[p] \in [Yools -> 0..MaxReceipts]
    <3>1. index[p] \in [Yools -> Nat] /\ \A y \in Yools : index[p][y] # 0 => index[p][y] \in DOMAIN receipts
      BY DEF DispatchTyped
    <3>2. \A y \in Yools : index[p][y] \in Known
      BY <3>1 DEF Known
    <3> QED BY <1>3, <3>1, <3>2
  <2> QED BY <2>1 DEF DispatchTyped
<1>5. job \in [Workers -> [id : 0..MaxReceipts, marker : 0..MaxReceipts]]
  <2>1. ASSUME NEW w \in Workers PROVE job[w] \in [id : 0..MaxReceipts, marker : 0..MaxReceipts]
    <3>1. job[w] \in [id : Nat, marker : Nat]
      BY DEF DispatchTyped
    <3>2. job[w].id \in 0..MaxReceipts /\ job[w].marker \in 0..MaxReceipts
      BY <1>3 DEF KnownFits
    <3> QED BY <3>1, <3>2
  <2> QED BY <2>1 DEF DispatchTyped
<1>6. listing \in [Workers -> SUBSET ((1..MaxReceipts) \X {"tmp", "final", "orphan"})]
  <2>1. ASSUME NEW w \in Workers PROVE listing[w] \in SUBSET ((1..MaxReceipts) \X {"tmp", "final", "orphan"})
    <3>1. listing[w] \in SUBSET (Nat \X {"tmp", "final", "orphan"})
      BY DEF DispatchTyped
    <3>2. ASSUME NEW f \in listing[w] PROVE f \in (1..MaxReceipts) \X {"tmp", "final", "orphan"}
      <4>1. f \in Nat \X {"tmp", "final", "orphan"}
        BY <3>1
      <4>2. f[1] \in 1..MaxReceipts
        BY <1>3 DEF KnownFits
      <4> QED BY <4>1, <4>2
    <3> QED BY <3>2
  <2> QED BY <2>1 DEF DispatchTyped
<1> QED BY <1>1, <1>2, <1>4, <1>5, <1>6 DEF DispatchTyped, DispatchTypeOK

(* The state of the dispatchers stays well typed: the index, the markers   *)
(* and the listings name receipts that were written, through loads that    *)
(* race with puts, failed scans and deaths (receipts.py:122-172).          *)
THEOREM DispatchTypeOKKept ==
  DispatchSpec => []DispatchTypeOK
<1> DEFINE Few == ReceiptsFew /\ \A w \in Workers : KnownFits(w)
<1>1. DispatchInit => Few
  <2> SUFFICES ASSUME DispatchInit PROVE Few
    OBVIOUS
  <2>1. receipts = <<>> /\ Len(receipts) = 0 /\ listing = [w \in Workers |-> {}] /\ job = [w \in Workers |-> Idle]
    BY DEF DispatchInit
  <2>2. ReceiptsFew
    BY <2>1, DispatchAssumption DEF ReceiptsFew
  <2> QED BY <2>1, <2>2 DEF KnownFits, Known, Idle
<1>2. DispatchInv /\ Few /\ [DispatchNext]_dispatchVars => Few'
  <2> SUFFICES ASSUME DispatchInv, Few, [DispatchNext]_dispatchVars PROVE Few'
    OBVIOUS
  <2>0. DispatchTyped /\ \A w \in Workers : JobFits(w)
    BY DEF DispatchInv
  <2>1. ASSUME NEW w \in Workers, WorkerStep(w) PROVE Few'
    <3>1. ReceiptsFew'
      BY <2>0, <2>1, FewStep
    <3>2. Aside(w)
      BY <2>0, <2>1, StepsAside
    <3>3. ASSUME NEW v \in Workers PROVE KnownFits(v)'
      <4>1. CASE v = w
        BY <2>0, <2>1, <4>1, KnownStep
      <4>2. CASE v # w
        BY <3>2, <4>2, KnownRests DEF Aside
      <4> QED BY <4>1, <4>2
    <3> QED BY <3>1, <3>3
  <2>2. ASSUME NEW p \in Processes, DispatcherDies(p) PROVE Few'
    BY <2>0, <2>2, KnownDies
  <2>3. CASE UNCHANGED dispatchVars
    BY <2>3 DEF dispatchVars, ReceiptsFew, KnownFits, Known
  <2> QED BY <2>1, <2>2, <2>3 DEF DispatchNext, WorkerStep
<1>3. DispatchInv /\ Few => DispatchTypeOK
  BY TypesOf DEF DispatchInv
<1>4. DispatchSpec => []Few
  BY <1>1, <1>2, DispatchInvKept, PTL DEF DispatchSpec
<1> QED BY <1>3, <1>4, DispatchInvKept, PTL

------------------------------------------------------------------------------
(* The memory of a repository, for any recorders, events and titles.       *)
Noted(l) == Picked(l, {i \in DOMAIN l : l[i] \in Events})
Tells(q, f, s) == {i \in DOMAIN q : q[i].fingerprint = f /\ q[i].status = s}
Times(q, f, s) == Cardinality(Tells(q, f, s))

(* What a list of events and one of operations have to do with a memory.   *)
RecentOf(r, q) == r = Ending(q, Window)
CountsOf(g, q) == \A f \in Fingerprints : g[f].failed = Times(q, f, "failed") /\ g[f].passed = Times(q, f, "passed")
MarksOf(b, l) == \A t \in OssTitles : [title |-> t] \in Range(l) => t \in b
RecallsOf(m, l) == RecentOf(m.recent, Noted(l)) /\ CountsOf(m.learned, Noted(l)) /\ MarksOf(m.markers, l)

(* What holds of a memory whoever wrote it, after n operations at most.    *)
LearnedEntry == [failed : Nat, passed : Nat, turns : Nat, last : {"none", "passed", "failed"}, category : Category]
EntryFits(g, n) ==
  /\ g \in LearnedEntry /\ g.failed <= n /\ g.passed <= n /\ g.turns <= n
  /\ g.turns > 0 => g.failed > 0 /\ g.passed > 0
  /\ g.last = "failed" => g.failed > 0
  /\ g.last = "passed" => g.passed > 0
ShownCounted(r, g) ==
  \A f \in Fingerprints : Times(r, f, "failed") <= g[f].failed /\ Times(r, f, "passed") <= g[f].passed
Whole(m, n) ==
  /\ m \in [recent : Seq(Events), learned : [Fingerprints -> LearnedEntry], markers : SUBSET OssTitles]
  /\ Len(m.recent) <= Window
  /\ \A f \in Fingerprints : EntryFits(m.learned[f], n)
  /\ ShownCounted(m.recent, m.learned)

------------------------------------------------------------------------------
(* An event more in a list: it tells once more what it tells.              *)
LEMMA TellsFinite ==
  ASSUME NEW q \in Seq(Events), NEW f, NEW s
  PROVE  Tells(q, f, s) \subseteq 1..Len(q) /\ IsFiniteSet(Tells(q, f, s)) /\ Times(q, f, s) \in Nat
<1>1. Len(q) \in Nat /\ DOMAIN q = 1..Len(q) /\ IsFiniteSet(1..Len(q))
  BY FS_Interval
<1>2. Tells(q, f, s) \subseteq 1..Len(q)
  BY <1>1 DEF Tells
<1>3. IsFiniteSet(Tells(q, f, s))
  BY <1>1, <1>2, FS_Subset
<1> QED BY <1>2, <1>3, FS_CardinalityType DEF Times

(* An event more tells of one fingerprint and status once more.            *)
LEMMA TellsMore ==
  ASSUME NEW q \in Seq(Events), NEW e \in Events, NEW f, NEW s
  PROVE  Times(Append(q, e), f, s) = IF e.fingerprint = f /\ e.status = s THEN Times(q, f, s) + 1 ELSE Times(q, f, s)
<1>1. PICK a : a = Append(q, e)
  OBVIOUS
<1>2. /\ a \in Seq(Events) /\ Len(q) \in Nat /\ DOMAIN q = 1..Len(q) /\ DOMAIN a = 1..(Len(q) + 1)
      /\ a[Len(q) + 1] = e /\ \A j \in 1..Len(q) : a[j] = q[j]
  BY <1>1, Appended
<1>3. PICK n : n = Len(q) + 1
  OBVIOUS
<1>4. n \notin 1..Len(q) /\ DOMAIN a = 1..Len(q) \cup {n} /\ a[n] = e
  BY <1>2, <1>3
<1>5. IsFiniteSet(Tells(q, f, s)) /\ n \notin Tells(q, f, s)
  BY <1>4, TellsFinite
<1>6. CASE e.fingerprint = f /\ e.status = s
  <2>1. Tells(a, f, s) = Tells(q, f, s) \cup {n}
    BY <1>2, <1>4, <1>6 DEF Tells
  <2>2. Cardinality(Tells(q, f, s) \cup {n}) = Cardinality(Tells(q, f, s)) + 1
    BY <1>5, FS_AddElement
  <2> QED BY <1>1, <1>6, <2>1, <2>2 DEF Times
<1>7. CASE ~(e.fingerprint = f /\ e.status = s)
  <2>1. Tells(a, f, s) = Tells(q, f, s)
    BY <1>2, <1>4, <1>7 DEF Tells
  <2> QED BY <1>1, <1>7, <2>1 DEF Times
<1> QED BY <1>6, <1>7

(* The end of a list tells no more than the list.                          *)
LEMMA TellsEnd ==
  ASSUME NEW q \in Seq(Events), NEW n \in 1..(Len(q) + 1), NEW f, NEW s
  PROVE  Times(SubSeq(q, n, Len(q)), f, s) <= Times(q, f, s)
<1>1. PICK r : r = SubSeq(q, n, Len(q))
  OBVIOUS
<1>2. /\ Len(q) \in Nat /\ DOMAIN q = 1..Len(q) /\ r \in Seq(Events) /\ DOMAIN r = 1..(Len(q) - n + 1)
      /\ \A i \in DOMAIN r : n + i - 1 \in 1..Len(q) /\ r[i] = q[n + i - 1]
  BY <1>1
<1>3. PICK h : h = [i \in Tells(r, f, s) |-> n + i - 1]
  OBVIOUS
<1>4. /\ Tells(r, f, s) \subseteq DOMAIN r /\ \A i \in Tells(r, f, s) : r[i].fingerprint = f /\ r[i].status = s
  BY DEF Tells
<1>0. IsFiniteSet(Tells(q, f, s))
  BY TellsFinite
<1>5. h \in [Tells(r, f, s) -> Tells(q, f, s)]
  <2>1. ASSUME NEW i \in Tells(r, f, s) PROVE n + i - 1 \in Tells(q, f, s)
    BY <1>2, <1>4 DEF Tells
  <2> QED BY <1>3, <2>1
<1>6. \A i, j \in Tells(r, f, s) : h[i] = h[j] => i = j
  <2>1. \A i \in Tells(r, f, s) : i \in Nat /\ h[i] = n + i - 1
    BY <1>2, <1>3, <1>4
  <2> QED BY <2>1
<1>7. h \in Injection(Tells(r, f, s), Tells(q, f, s))
  BY <1>5, <1>6 DEF Injection, IsInjective
<1>8. Cardinality(Tells(r, f, s)) <= Cardinality(Tells(q, f, s))
  BY <1>0, <1>7, FS_Injection DEF ExistsInjection
<1> QED BY <1>1, <1>8 DEF Times

(* The window slides by one event.                                         *)
LEMMA SlidFits ==
  ASSUME NEW r \in Seq(Events), NEW e \in Events
  PROVE  LET n == Ending(Append(r, e), Window)
         IN /\ n \in Seq(Events) /\ Len(n) <= Window
            /\ \A f, s : Times(n, f, s) <= Times(Append(r, e), f, s)
<1>1. Append(r, e) \in Seq(Events) /\ Window \in Nat
  BY MemoryAssumption
<1> QED BY <1>1, EndingFits, TellsEnd

(* The window after an event is the window of the longer history.          *)
LEMMA RecentMore ==
  ASSUME NEW q \in Seq(Events), NEW e \in Events, NEW r, RecentOf(r, q)
  PROVE  RecentOf(Ending(Append(r, e), Window), Append(q, e))
  BY EndingMore, MemoryAssumption DEF RecentOf

(* What an entry learns of an event.                                       *)
LEMMA LearnedOnce ==
  ASSUME NEW n \in Nat, NEW g, EntryFits(g, n), NEW e \in Events
  PROVE  /\ EntryFits(Learn(g, e), n + 1)
         /\ e.status = "failed" => Learn(g, e).failed = g.failed + 1 /\ Learn(g, e).passed = g.passed
         /\ e.status = "passed" => Learn(g, e).passed = g.passed + 1 /\ Learn(g, e).failed = g.failed
<1>1. e.status \in {"passed", "failed"} /\ e.says \subseteq Range(Words)
  BY MemoryAssumption
<1>2. Classify(e.says) \in Category
  <2>1. CASE e.says = {}
    BY <2>1 DEF Classify, Category
  <2>2. CASE e.says # {}
    <3>1. PICK T : T = {i \in 1..6 : Words[i] \in e.says}
      OBVIOUS
    <3>2. DOMAIN Words = 1..6
      BY DEF Words
    <3>3. T \in SUBSET Nat /\ T # {}
      BY <1>1, <2>2, <3>1, <3>2 DEF Range
    <3>4. PICK i \in T : \A j \in T : i <= j
      BY <3>3, LeastNat
    <3>5. i \in DOMAIN Words /\ Words[i] \in e.says /\ \A j \in 1..i - 1 : Words[j] \notin e.says
      BY <3>1, <3>2, <3>4
    <3>6. PICK k : k = CHOOSE i_1 \in DOMAIN Words : Words[i_1] \in e.says /\ \A j \in 1..i_1 - 1 : Words[j] \notin e.says
      OBVIOUS
    <3>7. k \in DOMAIN Words
      BY <3>5, <3>6
    <3>8. Classify(e.says) = Words[k]
      BY <2>2, <3>6 DEF Classify
    <3> QED BY <3>7, <3>8 DEF Category, Range
  <2> QED BY <2>1, <2>2
<1>3. PICK c \in Category : c = IF g.last = "none" THEN Classify(e.says) ELSE g.category
  BY <1>2 DEF EntryFits, LearnedEntry
<1>4. PICK t : t = IF g.last # "none" /\ g.last # e.status THEN g.turns + 1 ELSE g.turns
  OBVIOUS
<1>5. PICK h : h = [failed |-> IF e.status = "failed" THEN g.failed + 1 ELSE g.failed,
                    passed |-> IF e.status = "passed" THEN g.passed + 1 ELSE g.passed,
                    turns |-> t, last |-> e.status, category |-> c]
  OBVIOUS
<1>6. g \in LearnedEntry /\ g.failed \in Nat /\ g.passed \in Nat /\ g.turns \in Nat
  BY DEF EntryFits, LearnedEntry
<1>7. Learn(g, e) = h
  <2>1. PICK u \in LearnedEntry : u = IF g.last = "none" THEN [g EXCEPT !.category = c] ELSE g
    BY <1>6 DEF LearnedEntry
  <2>2. /\ u.category = c /\ u.last = g.last /\ u.failed = g.failed /\ u.passed = g.passed /\ u.turns = g.turns
    BY <1>3, <1>6, <2>1 DEF LearnedEntry
  <2>3. Learn(g, e) = [u EXCEPT ![e.status] = @ + 1, !.last = e.status, !.turns = t]
    BY <1>3, <1>4, <2>1, <2>2 DEF Learn
  <2>4. CASE e.status = "failed"
    <3>1. Learn(g, e) = [u EXCEPT !.failed = @ + 1, !.last = e.status, !.turns = t]
      BY <2>3, <2>4
    <3>2. Learn(g, e) = [failed |-> u.failed + 1, passed |-> u.passed, turns |-> t, last |-> e.status, category |-> u.category]
      BY <3>1 DEF LearnedEntry
    <3> QED BY <1>5, <2>2, <2>4, <3>2
  <2>5. CASE e.status = "passed"
    <3>1. Learn(g, e) = [u EXCEPT !.passed = @ + 1, !.last = e.status, !.turns = t]
      BY <2>3, <2>5
    <3>2. Learn(g, e) = [failed |-> u.failed, passed |-> u.passed + 1, turns |-> t, last |-> e.status, category |-> u.category]
      BY <3>1 DEF LearnedEntry
    <3> QED BY <1>5, <2>2, <2>5, <3>2
  <2> QED BY <1>1, <2>4, <2>5
<1>8. h \in LearnedEntry
  <2>1. t \in Nat /\ h.failed \in Nat /\ h.passed \in Nat
    BY <1>4, <1>5, <1>6
  <2>2. h = [failed |-> h.failed, passed |-> h.passed, turns |-> t, last |-> e.status, category |-> c]
    BY <1>5
  <2> QED BY <1>1, <2>1, <2>2 DEF LearnedEntry
<1>9. h.failed <= n + 1 /\ h.passed <= n + 1 /\ h.turns <= n + 1
  BY <1>1, <1>4, <1>5, <1>6 DEF EntryFits
<1>10. h.turns > 0 => h.failed > 0 /\ h.passed > 0
  BY <1>1, <1>4, <1>5, <1>6 DEF EntryFits, LearnedEntry
<1>11. (h.last = "failed" => h.failed > 0) /\ (h.last = "passed" => h.passed > 0)
  BY <1>1, <1>5, <1>6
<1>12. EntryFits(h, n + 1)
  BY <1>8, <1>9, <1>10, <1>11 DEF EntryFits
<1> QED BY <1>5, <1>7, <1>12

(* An operation records an event or remembers a title.                     *)
LEMMA OpIs ==
  ASSUME NEW op \in Ops
  PROVE  /\ op \in Events => op.fingerprint \in Fingerprints /\ op.status \in {"passed", "failed"}
         /\ op \notin Events => \E t \in OssTitles : op = [title |-> t] /\ op.title = t
         /\ \A t : [title |-> t] \notin Events
<1>1. op \in Events => op.fingerprint \in Fingerprints /\ op.status \in {"passed", "failed"}
  BY MemoryAssumption DEF Fingerprints
<1>2. op \notin Events => \E t \in OssTitles : op = [title |-> t] /\ op.title = t
  BY DEF Ops
<1>3. \A t : [title |-> t] \notin [fingerprint : STRING, status : {"passed", "failed"}, says : SUBSET Range(Words)]
  OBVIOUS
<1> QED BY <1>1, <1>2, <1>3, MemoryAssumption

(* The events of a longer history.                                         *)
LEMMA NotedMore ==
  ASSUME NEW l \in Seq(Ops), NEW op \in Ops
  PROVE  /\ Noted(l) \in Seq(Events)
         /\ op \in Events => Noted(Append(l, op)) = Append(Noted(l), op)
         /\ op \notin Events => Noted(Append(l, op)) = Noted(l)
<1>1. PICK K : K = {i \in DOMAIN l : l[i] \in Events}
  OBVIOUS
<1>2. PICK a : a = Append(l, op)
  OBVIOUS
<1>3. PICK L : L = {i \in DOMAIN a : a[i] \in Events}
  OBVIOUS
<1>4. /\ Len(l) \in Nat /\ DOMAIN l = 1..Len(l) /\ DOMAIN a = 1..(Len(l) + 1)
      /\ a[Len(l) + 1] = op /\ \A j \in 1..Len(l) : a[j] = l[j]
  BY <1>2, Appended
<1>5. (\A n \in 1..Len(l) : n \in K <=> n \in L) /\ (Len(l) + 1 \in L <=> op \in Events)
  BY <1>1, <1>3, <1>4
<1>6. Picked(a, L) = IF Len(l) + 1 \in L THEN Append(Picked(l, K), op) ELSE Picked(l, K)
  BY <1>2, <1>5, PickedMore
<1>7. Noted(l) = Picked(l, K) /\ Noted(a) = Picked(a, L)
  BY <1>1, <1>3 DEF Noted
<1>8. Picked(l, K) \in Seq(Events)
  <2>1. PICK p : p = Picked(l, K)
    OBVIOUS
  <2>2. p \in Seq(Ops) /\ \A j \in DOMAIN p : \E n \in DOMAIN l \cap K : p[j] = l[n]
    BY <2>1, PickedElements
  <2>3. \A j \in DOMAIN p : p[j] \in Events
    BY <1>1, <2>2
  <2>4. p \in Seq(Events)
    BY <2>2, <2>3
  <2> QED BY <2>1, <2>4
<1> QED BY <1>2, <1>5, <1>6, <1>7, <1>8

(* Bounds may be larger.                                                   *)
LEMMA EntryLarger ==
  ASSUME NEW n \in Nat, NEW g, EntryFits(g, n)
  PROVE  EntryFits(g, n + 1)
<1>1. g.failed <= n + 1 /\ g.passed <= n + 1 /\ g.turns <= n + 1
  <2>1. g.failed \in Nat /\ g.passed \in Nat /\ g.turns \in Nat
    BY DEF EntryFits, LearnedEntry
  <2> QED BY <2>1 DEF EntryFits
<1> QED BY <1>1 DEF EntryFits

(* The same of a whole memory.                                             *)
LEMMA WholeLarger ==
  ASSUME NEW n \in Nat, NEW m, Whole(m, n)
  PROVE  Whole(m, n + 1)
  BY EntryLarger DEF Whole

(* What an event makes of a memory.                                        *)
LEMMA RememberedIs ==
  ASSUME NEW m, NEW n \in Nat, Whole(m, n), NEW e \in Events
  PROVE  LET r == Remembered(m, e)
         IN /\ r \in [recent : Seq(Events), learned : [Fingerprints -> LearnedEntry], markers : SUBSET OssTitles]
            /\ r.recent = Ending(Append(m.recent, e), Window) /\ r.markers = m.markers
            /\ r.learned[e.fingerprint] = Learn(m.learned[e.fingerprint], e)
            /\ \A f \in Fingerprints : f # e.fingerprint => r.learned[f] = m.learned[f]
<1>1. e.fingerprint \in Fingerprints /\ m.recent \in Seq(Events) /\ m.learned \in [Fingerprints -> LearnedEntry]
  BY DEF Fingerprints, Whole
<1>2. PICK q : q = Ending(Append(m.recent, e), Window)
  OBVIOUS
<1>3. q \in Seq(Events)
  BY <1>1, <1>2, SlidFits
<1>4. PICK g : g = [m.learned EXCEPT ![e.fingerprint] = Learn(@, e)]
  OBVIOUS
<1>5. Learn(m.learned[e.fingerprint], e) \in LearnedEntry
  <2>1. EntryFits(m.learned[e.fingerprint], n)
    BY <1>1 DEF Whole
  <2> QED BY <2>1, LearnedOnce DEF EntryFits
<1>6. /\ g \in [Fingerprints -> LearnedEntry] /\ g[e.fingerprint] = Learn(m.learned[e.fingerprint], e)
      /\ \A f \in Fingerprints : f # e.fingerprint => g[f] = m.learned[f]
  BY <1>1, <1>4, <1>5
<1>7. Remembered(m, e) = [m EXCEPT !.recent = q, !.learned = g]
  <2>1. Remembered(m, e) = [m EXCEPT !.recent = q, !.learned[e.fingerprint] = Learn(@, e)]
    BY <1>2 DEF Remembered, Ending
  <2> QED BY <1>4, <2>1 DEF Whole
<1>8. Remembered(m, e) = [recent |-> q, learned |-> g, markers |-> m.markers]
  BY <1>7 DEF Whole
<1> QED BY <1>2, <1>3, <1>6, <1>8 DEF Whole

(* An event makes a whole memory of a whole memory, one count higher.      *)
LEMMA RememberedWhole ==
  ASSUME NEW m, NEW n \in Nat, Whole(m, n), NEW e \in Events
  PROVE  Whole(Remembered(m, e), n + 1)
<1>1. PICK r : r = Remembered(m, e)
  OBVIOUS
<1>2. /\ r \in [recent : Seq(Events), learned : [Fingerprints -> LearnedEntry], markers : SUBSET OssTitles]
      /\ r.recent = Ending(Append(m.recent, e), Window)
      /\ r.learned[e.fingerprint] = Learn(m.learned[e.fingerprint], e)
      /\ \A f \in Fingerprints : f # e.fingerprint => r.learned[f] = m.learned[f]
  BY <1>1, RememberedIs
<1>3. m.recent \in Seq(Events) /\ \A f \in Fingerprints : EntryFits(m.learned[f], n)
  BY DEF Whole
<1>4. Len(r.recent) <= Window /\ \A f, s : Times(r.recent, f, s) <= Times(Append(m.recent, e), f, s)
  BY <1>2, <1>3, SlidFits
<1>5. e.fingerprint \in Fingerprints /\ e.status \in {"passed", "failed"}
  BY OpIs DEF Ops
<1>6. \A f \in Fingerprints : EntryFits(r.learned[f], n + 1)
  <2> SUFFICES ASSUME NEW f \in Fingerprints PROVE EntryFits(r.learned[f], n + 1)
    OBVIOUS
  <2>1. EntryFits(Learn(m.learned[f], e), n + 1) /\ EntryFits(m.learned[f], n + 1)
    BY <1>3, LearnedOnce, EntryLarger
  <2> QED BY <1>2, <1>5, <2>1
<1>7. ShownCounted(r.recent, r.learned)
  <2> SUFFICES ASSUME NEW f \in Fingerprints
               PROVE  Times(r.recent, f, "failed") <= r.learned[f].failed /\ Times(r.recent, f, "passed") <= r.learned[f].passed
    BY DEF ShownCounted
  <2>1. PICK a, b : a = Times(m.recent, f, "failed") /\ b = Times(m.recent, f, "passed")
    OBVIOUS
  <2>2. PICK c, d : c = m.learned[f].failed /\ d = m.learned[f].passed
    OBVIOUS
  <2>3. a \in Nat /\ b \in Nat /\ c \in Nat /\ d \in Nat /\ a <= c /\ b <= d
    <3>1. a \in Nat /\ b \in Nat
      BY <1>3, <2>1, TellsFinite
    <3>2. c \in Nat /\ d \in Nat
      BY <1>3, <2>2 DEF EntryFits, LearnedEntry
    <3> QED BY <2>1, <2>2, <3>1, <3>2 DEF Whole, ShownCounted
  <2>4. PICK v, w : v = Times(r.recent, f, "failed") /\ w = Times(r.recent, f, "passed")
    OBVIOUS
  <2>5. v \in Nat /\ w \in Nat
    BY <1>2, <2>4, TellsFinite
  <2>6. CASE e.fingerprint # f
    <3>1. Times(Append(m.recent, e), f, "failed") = a /\ Times(Append(m.recent, e), f, "passed") = b
      BY <1>3, <2>1, <2>6, TellsMore
    <3>2. v <= a /\ w <= b
      BY <1>4, <2>4, <3>1
    <3>3. v <= c /\ w <= d
      BY <2>3, <2>5, <3>2
    <3> QED BY <1>2, <2>2, <2>4, <2>6, <3>3
  <2>7. CASE e.fingerprint = f /\ e.status = "failed"
    <3>1. Times(Append(m.recent, e), f, "failed") = a + 1 /\ Times(Append(m.recent, e), f, "passed") = b
      BY <1>3, <2>1, <2>7, TellsMore
    <3>2. v <= a + 1 /\ w <= b
      BY <1>4, <2>4, <3>1
    <3>3. v <= c + 1 /\ w <= d
      BY <2>3, <2>5, <3>2
    <3>4. r.learned[f].failed = c + 1 /\ r.learned[f].passed = d
      BY <1>2, <1>3, <2>2, <2>7, LearnedOnce
    <3> QED BY <2>4, <3>3, <3>4
  <2>8. CASE e.fingerprint = f /\ e.status = "passed"
    <3>1. Times(Append(m.recent, e), f, "failed") = a /\ Times(Append(m.recent, e), f, "passed") = b + 1
      BY <1>3, <2>1, <2>8, TellsMore
    <3>2. v <= a /\ w <= b + 1
      BY <1>4, <2>4, <3>1
    <3>3. v <= c /\ w <= d + 1
      BY <2>3, <2>5, <3>2
    <3>4. r.learned[f].failed = c /\ r.learned[f].passed = d + 1
      BY <1>2, <1>3, <2>2, <2>8, LearnedOnce
    <3> QED BY <2>4, <3>3, <3>4
  <2> QED BY <1>5, <2>6, <2>7, <2>8
<1> QED BY <1>1, <1>2, <1>4, <1>6, <1>7 DEF Whole

(* So does any operation.                                                  *)
LEMMA AppliedWhole ==
  ASSUME NEW m, NEW n \in Nat, Whole(m, n), NEW op \in Ops
  PROVE  Whole(Applied(m, op), n + 1)
<1>1. CASE op \in Events
  BY <1>1, RememberedWhole DEF Applied
<1>2. CASE op \notin Events
  <2>1. PICK t \in OssTitles : op.title = t
    BY <1>2, OpIs
  <2>2. PICK r : r = [m EXCEPT !.markers = @ \cup {t}]
    OBVIOUS
  <2>3. /\ r \in [recent : Seq(Events), learned : [Fingerprints -> LearnedEntry], markers : SUBSET OssTitles]
        /\ r.recent = m.recent /\ r.learned = m.learned
    BY <2>2 DEF Whole
  <2>4. Whole(r, n + 1)
    BY <2>3, WholeLarger DEF Whole
  <2>5. Applied(m, op) = r
    BY <1>2, <2>1, <2>2 DEF Applied
  <2> QED BY <2>4, <2>5
<1> QED BY <1>1, <1>2

(* A memory that recalls a history recalls the longer one.                 *)
LEMMA AppliedRecalls ==
  ASSUME NEW m, NEW n \in Nat, Whole(m, n), NEW op \in Ops, NEW l \in Seq(Ops), RecallsOf(m, l)
  PROVE  RecallsOf(Applied(m, op), Append(l, op))
<1>0. PICK q : q = Noted(l)
  OBVIOUS
<1>1. q \in Seq(Events) /\ RecentOf(m.recent, q) /\ CountsOf(m.learned, q) /\ MarksOf(m.markers, l)
  BY <1>0, NotedMore DEF RecallsOf
<1>2. \A x : x \in Range(Append(l, op)) => x \in Range(l) \/ x = op
  <2>1. PICK a : a = Append(l, op)
    OBVIOUS
  <2>2. /\ Len(l) \in Nat /\ DOMAIN l = 1..Len(l) /\ DOMAIN a = 1..(Len(l) + 1)
        /\ a[Len(l) + 1] = op /\ \A j \in 1..Len(l) : a[j] = l[j]
    BY <2>1, Appended
  <2>3. \A j \in DOMAIN a : a[j] = op \/ (j \in DOMAIN l /\ a[j] = l[j])
    BY <2>2
  <2> QED BY <2>1, <2>3 DEF Range
<1>3. CASE op \in Events
  <2>1. PICK r : r = Remembered(m, op)
    OBVIOUS
  <2>2. /\ r.recent = Ending(Append(m.recent, op), Window) /\ r.markers = m.markers
        /\ r.learned[op.fingerprint] = Learn(m.learned[op.fingerprint], op)
        /\ \A f \in Fingerprints : f # op.fingerprint => r.learned[f] = m.learned[f]
    BY <1>3, <2>1, RememberedIs
  <2>3. RecentOf(r.recent, Append(q, op))
    BY <1>1, <1>3, <2>2, RecentMore
  <2>4. CountsOf(r.learned, Append(q, op))
    <3> SUFFICES ASSUME NEW f \in Fingerprints
                 PROVE  /\ r.learned[f].failed = Times(Append(q, op), f, "failed")
                        /\ r.learned[f].passed = Times(Append(q, op), f, "passed")
      BY DEF CountsOf
    <3>1. m.learned[f].failed = Times(q, f, "failed") /\ m.learned[f].passed = Times(q, f, "passed")
      BY <1>1 DEF CountsOf
    <3>2. EntryFits(m.learned[f], n) /\ op.status \in {"passed", "failed"}
      BY <1>3, OpIs DEF Whole
    <3>3. CASE f # op.fingerprint
      BY <1>1, <1>3, <2>2, <3>1, <3>3, TellsMore
    <3>4. CASE f = op.fingerprint /\ op.status = "failed"
      BY <1>1, <1>3, <2>2, <3>1, <3>2, <3>4, TellsMore, LearnedOnce
    <3>5. CASE f = op.fingerprint /\ op.status = "passed"
      BY <1>1, <1>3, <2>2, <3>1, <3>2, <3>5, TellsMore, LearnedOnce
    <3> QED BY <3>2, <3>3, <3>4, <3>5
  <2>5. MarksOf(r.markers, Append(l, op))
    <3>1. \A t : [title |-> t] # op
      BY <1>3, OpIs
    <3> QED BY <1>1, <1>2, <2>2, <3>1 DEF MarksOf
  <2>6. Noted(Append(l, op)) = Append(q, op) /\ Applied(m, op) = r
    BY <1>0, <1>3, <2>1, NotedMore DEF Applied
  <2> QED BY <2>3, <2>4, <2>5, <2>6 DEF RecallsOf
<1>4. CASE op \notin Events
  <2>1. PICK t \in OssTitles : op = [title |-> t] /\ op.title = t
    BY <1>4, OpIs
  <2>2. PICK r : r = [m EXCEPT !.markers = @ \cup {t}]
    OBVIOUS
  <2>3. r.recent = m.recent /\ r.learned = m.learned /\ r.markers = m.markers \cup {t}
    BY <2>2 DEF Whole
  <2>4. Noted(Append(l, op)) = q /\ Applied(m, op) = r
    BY <1>0, <1>4, <2>1, <2>2, NotedMore DEF Applied
  <2>5. MarksOf(r.markers, Append(l, op))
    <3>1. \A u : [title |-> u] = op => u = t
      BY <2>1
    <3> QED BY <1>1, <1>2, <2>3, <3>1 DEF MarksOf
  <2> QED BY <1>1, <2>3, <2>4, <2>5 DEF RecallsOf
<1> QED BY <1>3, <1>4

Busy == {v \in Recorders : place[v] # "idle"}

MemoryTyped ==
  /\ place \in [Recorders -> {"idle", "changed", "writing", "overtaken"}]
  /\ copy = [w \in Recorders |-> copy[w]]
  /\ log \in Seq(Ops) /\ apart \in BOOLEAN
  /\ Len(log) + Cardinality(Busy) <= MaxLog

(* Whoever wrote it, and whoever will.                                     *)
CopyFits(c, n) == c.op \in Ops /\ Whole(c.memory, n)
FilesFit ==
  /\ stored # Unreadable => Whole(stored, Len(log))
  /\ \A w \in Recorders : IF place[w] = "idle" THEN copy[w] = NoCopy ELSE CopyFits(copy[w], Len(log) + 1)

(* Recorders that kept apart: the file recalls the history, or the one     *)
(* that writes will make it so.                                            *)
ApartFits ==
  apart =>
    /\ \A v, w \in Busy : v = w
    /\ \A w \in Busy : place[w] \in {"changed", "writing"} /\ RecallsOf(copy[w].memory, Append(log, copy[w].op))
    /\ (\A w \in Recorders : place[w] \in {"idle", "changed"}) => stored # Unreadable /\ RecallsOf(stored, log)

MemoryInv == MemoryTyped /\ FilesFit /\ ApartFits

------------------------------------------------------------------------------
(* A whole memory within the bound is one of the module's, and parses.     *)
LEMMA WholeIsMemory ==
  ASSUME NEW m, NEW n \in 0..MaxLog, Whole(m, n)
  PROVE  IsMemory(m) /\ m # Unreadable
<1>1. m \in [recent : Seq(Events), learned : [Fingerprints -> LearnedEntry], markers : SUBSET OssTitles]
  BY DEF Whole
<1>2. \A f \in Fingerprints : m.learned[f] \in Learned
  <2> SUFFICES ASSUME NEW f \in Fingerprints PROVE m.learned[f] \in Learned
    OBVIOUS
  <2>1. PICK g : g = m.learned[f]
    OBVIOUS
  <2>2. g \in LearnedEntry /\ g.failed <= n /\ g.passed <= n /\ g.turns <= n
    BY <2>1 DEF Whole, EntryFits
  <2>3. g.failed \in 0..MaxLog /\ g.passed \in 0..MaxLog /\ g.turns \in 0..MaxLog
    <3>1. PICK a, b, c : a = g.failed /\ b = g.passed /\ c = g.turns
      OBVIOUS
    <3>2. a \in Nat /\ b \in Nat /\ c \in Nat
      BY <2>2, <3>1 DEF LearnedEntry
    <3>3. n \in Nat /\ MaxLog \in Nat /\ n <= MaxLog
      BY MemoryAssumption
    <3> QED BY <2>2, <3>1, <3>2, <3>3
  <2> QED BY <2>1, <2>2, <2>3 DEF LearnedEntry, Learned
<1>3. m.learned \in [Fingerprints -> Learned]
  BY <1>1, <1>2
<1>4. m \in Memories
  BY <1>1, <1>3 DEF Memories
<1> QED BY <1>4, ReadableApart DEF Whole, IsMemory

(* Who is at work, and how many.                                           *)
LEMMA BusyFinite == IsFiniteSet(Busy) /\ Cardinality(Busy) \in Nat
<1>1. Busy \subseteq Recorders /\ IsFiniteSet(Recorders)
  BY MemoryAssumption DEF Busy
<1>2. IsFiniteSet(Busy)
  BY <1>1, FS_Subset
<1> QED BY <1>2, FS_CardinalityType

(* A copy fits a later history too.                                        *)
LEMMA CopyLarger ==
  ASSUME NEW c, NEW n \in Nat, CopyFits(c, n)
  PROVE  CopyFits(c, n + 1)
  BY WholeLarger DEF CopyFits

(* A recorder loads the file and changes its copy.                         *)
LEMMA LoadKeeps ==
  ASSUME MemoryInv, NEW w \in Recorders, LoadAndChange(w)
  PROVE  MemoryInv'
<1>0. MemoryTyped /\ FilesFit /\ ApartFits /\ Len(log) \in Nat
  BY DEF MemoryInv, MemoryTyped
<1>1. PICK op \in Ops : copy' = [copy EXCEPT ![w] = [op |-> op, memory |-> Applied(stored, op)]]
  BY DEF LoadAndChange
<1>2. /\ place[w] = "idle" /\ stored # Unreadable /\ place' = [place EXCEPT ![w] = "changed"]
      /\ stored' = stored /\ log' = log /\ apart' = (apart /\ Busy = {})
      /\ Len(log) + Cardinality(Busy) < MaxLog
  BY DEF LoadAndChange, Busy
<1>3. PICK c : c = [op |-> op, memory |-> Applied(stored, op)]
  OBVIOUS
<1>4. c.op = op /\ c.memory = Applied(stored, op) /\ Whole(stored, Len(log)) /\ CopyFits(c, Len(log) + 1)
  <2>1. Whole(stored, Len(log))
    BY <1>0, <1>2 DEF FilesFit
  <2>2. Whole(Applied(stored, op), Len(log) + 1)
    BY <1>0, <2>1, AppliedWhole
  <2> QED BY <1>3, <2>1, <2>2 DEF CopyFits
<1>5. /\ copy' = [v \in Recorders |-> copy'[v]] /\ copy'[w] = c /\ \A v \in Recorders : v # w => copy'[v] = copy[v]
      /\ place' \in [Recorders -> {"idle", "changed", "writing", "overtaken"}]
      /\ place'[w] = "changed" /\ \A v \in Recorders : v # w => place'[v] = place[v]
  BY <1>0, <1>1, <1>2, <1>3 DEF MemoryTyped
<1>6. Busy' = Busy \cup {w} /\ w \notin Busy
  BY <1>2, <1>5 DEF Busy
<1>7. Cardinality(Busy') = Cardinality(Busy) + 1
  BY <1>6, BusyFinite, FS_AddElement
<1>8. MemoryTyped'
  <2>1. Len(log) + (Cardinality(Busy) + 1) <= MaxLog
    BY <1>0, <1>2, BusyFinite, MemoryAssumption
  <2>2. apart' \in BOOLEAN
    BY <1>2
  <2> QED BY <1>0, <1>2, <1>5, <1>7, <2>1, <2>2 DEF MemoryTyped
<1>9. FilesFit'
  BY <1>0, <1>2, <1>4, <1>5 DEF FilesFit
<1>10. ApartFits'
  <2> SUFFICES ASSUME apart' PROVE ApartFits'
    BY DEF ApartFits
  <2>1. apart /\ Busy = {}
    BY <1>2
  <2>2. stored # Unreadable /\ RecallsOf(stored, log)
    BY <1>0, <2>1 DEF ApartFits, Busy
  <2>3. RecallsOf(c.memory, Append(log, c.op))
    BY <1>0, <1>4, <2>2, AppliedRecalls DEF MemoryTyped
  <2>4. Busy' = {w}
    BY <1>6, <2>1
  <2> QED BY <1>2, <1>5, <2>2, <2>3, <2>4 DEF ApartFits
<1> QED BY <1>8, <1>9, <1>10 DEF MemoryInv

(* It truncates the file: only its copy is whole now.                      *)
LEMMA TruncateKeeps ==
  ASSUME MemoryInv, NEW w \in Recorders, Truncate(w)
  PROVE  MemoryInv'
<1>0. MemoryTyped /\ FilesFit /\ ApartFits
  BY DEF MemoryInv
<1>1. /\ place[w] = "changed" /\ stored' = Unreadable /\ place' = [place EXCEPT ![w] = "writing"]
      /\ UNCHANGED <<copy, log, apart>>
  BY DEF Truncate
<1>2. /\ place' \in [Recorders -> {"idle", "changed", "writing", "overtaken"}]
      /\ place'[w] = "writing" /\ \A v \in Recorders : v # w => place'[v] = place[v]
  BY <1>0, <1>1 DEF MemoryTyped
<1>3. Busy' = Busy
  BY <1>1, <1>2 DEF Busy
<1>4. MemoryTyped'
  BY <1>0, <1>1, <1>2, <1>3 DEF MemoryTyped
<1>5. FilesFit'
  BY <1>0, <1>1, <1>2 DEF FilesFit
<1>6. ApartFits'
  BY <1>0, <1>1, <1>2, <1>3 DEF ApartFits
<1> QED BY <1>4, <1>5, <1>6 DEF MemoryInv

(* It writes its copy back, or a mix of two that does not parse.           *)
LEMMA WriteBackKeeps ==
  ASSUME MemoryInv, NEW w \in Recorders, WriteBack(w)
  PROVE  MemoryInv'
<1>0. MemoryTyped /\ FilesFit /\ ApartFits /\ Len(log) \in Nat /\ log \in Seq(Ops)
  BY DEF MemoryInv, MemoryTyped
<1>1. /\ place[w] \in {"writing", "overtaken"}
      /\ stored' = copy[w].memory \/ (place[w] = "overtaken" /\ stored' = Unreadable)
      /\ log' = Append(log, copy[w].op) /\ copy' = [copy EXCEPT ![w] = NoCopy] /\ apart' = apart
      /\ place' = [v \in Recorders |-> IF v = w THEN "idle"
                                       ELSE IF place[v] = "writing" THEN "overtaken" ELSE place[v]]
  BY DEF WriteBack
<1>2. CopyFits(copy[w], Len(log) + 1) /\ w \in Busy
  BY <1>0, <1>1 DEF FilesFit, Busy
<1>3. log' \in Seq(Ops) /\ Len(log') = Len(log) + 1
  <2>1. copy[w].op \in Ops
    BY <1>2 DEF CopyFits
  <2> QED BY <1>0, <1>1, <2>1
<1>4. /\ place' \in [Recorders -> {"idle", "changed", "writing", "overtaken"}]
      /\ place'[w] = "idle"
      /\ \A v \in Recorders : v # w => (place'[v] = "idle" <=> place[v] = "idle")
      /\ copy' = [v \in Recorders |-> copy'[v]] /\ copy'[w] = NoCopy /\ \A v \in Recorders : v # w => copy'[v] = copy[v]
  BY <1>0, <1>1 DEF MemoryTyped
<1>5. Busy' = Busy \ {w}
  BY <1>2, <1>4 DEF Busy
<1>6. Cardinality(Busy') = Cardinality(Busy) - 1
  BY <1>2, <1>5, BusyFinite, FS_RemoveElement
<1>7. MemoryTyped'
  <2>1. PICK k \in Nat : k = Cardinality(Busy)
    BY BusyFinite
  <2>2. (Len(log) + 1) + (k - 1) <= MaxLog
    BY <1>0, <2>1, MemoryAssumption DEF MemoryTyped
  <2>3. apart' \in BOOLEAN
    BY <1>0, <1>1 DEF MemoryTyped
  <2> QED BY <1>3, <1>4, <1>6, <2>1, <2>2, <2>3 DEF MemoryTyped
<1>8. FilesFit'
  <2>1. stored' # Unreadable => Whole(stored', Len(log) + 1)
    BY <1>1, <1>2 DEF CopyFits
  <2>2. ASSUME NEW v \in Recorders, v # w, place[v] # "idle" PROVE CopyFits(copy[v], (Len(log) + 1) + 1)
    <3>1. CopyFits(copy[v], Len(log) + 1) /\ Len(log) + 1 \in Nat
      BY <1>0, <2>2 DEF FilesFit
    <3> QED BY <3>1, CopyLarger
  <2>3. \A v \in Recorders : v # w /\ place[v] = "idle" => copy[v] = NoCopy
    BY <1>0 DEF FilesFit
  <2>4. \A v \in Recorders : IF place'[v] = "idle" THEN copy'[v] = NoCopy ELSE CopyFits(copy'[v], Len(log') + 1)
    BY <1>3, <1>4, <2>2, <2>3
  <2> QED BY <1>3, <2>1, <2>4 DEF FilesFit
<1>9. ApartFits'
  <2> SUFFICES ASSUME apart PROVE ApartFits'
    BY <1>1 DEF ApartFits
  <2>1. Busy = {w} /\ place[w] = "writing" /\ RecallsOf(copy[w].memory, Append(log, copy[w].op))
    BY <1>0, <1>1, <1>2 DEF ApartFits
  <2>2. Busy' = {}
    BY <1>5, <2>1
  <2>3. stored' = copy[w].memory
    BY <1>1, <2>1
  <2>4. stored' # Unreadable
    <3>1. PICK n : n = Len(log) + 1
      OBVIOUS
    <3>2. n \in 0..MaxLog
      <4>1. MemoryTyped' /\ Cardinality(Busy') = 0
        BY <1>7, <2>2, FS_EmptySet
      <4>2. Len(log) + 1 <= MaxLog
        BY <1>0, <1>3, <4>1, MemoryAssumption DEF MemoryTyped
      <4> QED BY <1>0, <3>1, <4>2, MemoryAssumption
    <3> QED BY <1>2, <2>3, <3>1, <3>2, WholeIsMemory DEF CopyFits
  <2> QED BY <1>1, <2>1, <2>2, <2>3, <2>4 DEF ApartFits
<1> QED BY <1>7, <1>8, <1>9 DEF MemoryInv

(* It dies: before it truncated the file this loses the operation only.    *)
LEMMA DiesKeepsMemory ==
  ASSUME MemoryInv, NEW w \in Recorders, WriterDies(w)
  PROVE  MemoryInv'
<1>0. MemoryTyped /\ FilesFit /\ ApartFits /\ Len(log) \in Nat
  BY DEF MemoryInv, MemoryTyped
<1>1. /\ place[w] # "idle" /\ copy' = [copy EXCEPT ![w] = NoCopy] /\ place' = [place EXCEPT ![w] = "idle"]
      /\ apart' = (apart /\ place[w] = "changed") /\ UNCHANGED <<stored, log>>
  BY DEF WriterDies
<1>2. /\ place' \in [Recorders -> {"idle", "changed", "writing", "overtaken"}]
      /\ place'[w] = "idle" /\ \A v \in Recorders : v # w => place'[v] = place[v]
      /\ copy' = [v \in Recorders |-> copy'[v]] /\ copy'[w] = NoCopy /\ \A v \in Recorders : v # w => copy'[v] = copy[v]
  BY <1>0, <1>1 DEF MemoryTyped
<1>3. Busy' = Busy \ {w} /\ w \in Busy
  BY <1>1, <1>2 DEF Busy
<1>4. Cardinality(Busy') = Cardinality(Busy) - 1
  BY <1>3, BusyFinite, FS_RemoveElement
<1>5. MemoryTyped'
  <2>1. PICK k \in Nat : k = Cardinality(Busy)
    BY BusyFinite
  <2>2. Len(log) + (k - 1) <= MaxLog
    BY <1>0, <2>1, MemoryAssumption DEF MemoryTyped
  <2>3. apart' \in BOOLEAN
    BY <1>1
  <2> QED BY <1>0, <1>1, <1>2, <1>4, <2>1, <2>2, <2>3 DEF MemoryTyped
<1>6. FilesFit'
  BY <1>0, <1>1, <1>2 DEF FilesFit
<1>7. ApartFits'
  <2> SUFFICES ASSUME apart, place[w] = "changed" PROVE ApartFits'
    BY <1>1 DEF ApartFits
  <2>1. Busy = {w}
    BY <1>0, <1>3 DEF ApartFits
  <2>2. Busy' = {} /\ \A v \in Recorders : place[v] \in {"idle", "changed"}
    BY <1>3, <2>1 DEF Busy
  <2>3. stored # Unreadable /\ RecallsOf(stored, log)
    BY <1>0, <2>2 DEF ApartFits
  <2> QED BY <1>1, <2>2, <2>3 DEF ApartFits
<1> QED BY <1>5, <1>6, <1>7 DEF MemoryInv

(* An empty history.                                                       *)
LEMMA NothingNoted == Noted(<<>>) = <<>> /\ Ending(<<>>, Window) = <<>> /\ \A f, s : Times(<<>>, f, s) = 0
<1>1. \A K : Picked(<<>>, K) = <<>>
  BY PickingRec DEF Picked
<1>2. Ending(<<>>, Window) = <<>>
  <2>1. <<>> \in Seq(Events) /\ Window \in Nat /\ Len(<<>>) <= Window
    BY MemoryAssumption
  <2> QED BY <2>1, EndingIs
<1>3. \A f, s : Tells(<<>>, f, s) = {}
  BY DEF Tells
<1>4. \A f, s : Times(<<>>, f, s) = 0
  BY <1>3, FS_EmptySet DEF Times
<1> QED BY <1>1, <1>2, <1>4 DEF Noted

(* The memory of a repository that has none.                               *)
LEMMA EmptyFits == Whole(Empty, 0) /\ RecallsOf(Empty, <<>>)
<1>1. Empty.recent = <<>> /\ Empty.learned = [f \in Fingerprints |-> Unseen] /\ Empty.markers = {}
  BY DEF Empty
<1>2. Unseen \in LearnedEntry /\ Unseen.failed = 0 /\ Unseen.passed = 0 /\ Unseen.turns = 0 /\ Unseen.last = "none"
  BY DEF Unseen, LearnedEntry, Category
<1>3. EntryFits(Unseen, 0)
  BY <1>2 DEF EntryFits
<1>4. Empty \in [recent : Seq(Events), learned : [Fingerprints -> LearnedEntry], markers : SUBSET OssTitles]
  BY <1>2 DEF Empty
<1>5. ShownCounted(Empty.recent, Empty.learned)
  BY <1>1, <1>2, NothingNoted DEF ShownCounted
<1>6. Len(Empty.recent) <= Window
  BY <1>1, MemoryAssumption
<1>7. Whole(Empty, 0)
  BY <1>1, <1>3, <1>4, <1>5, <1>6 DEF Whole
<1>8. RecallsOf(Empty, <<>>)
  <2>1. CountsOf(Empty.learned, <<>>)
    BY <1>1, <1>2, NothingNoted DEF CountsOf
  <2>2. MarksOf(Empty.markers, <<>>)
    BY DEF MarksOf, Range
  <2> QED BY <1>1, <2>1, <2>2, NothingNoted DEF RecallsOf, RecentOf
<1> QED BY <1>7, <1>8

(* No recorder is at work at the start.                                    *)
LEMMA MemoryInvInit == MemoryInit => MemoryInv
<1> SUFFICES ASSUME MemoryInit PROVE MemoryInv
  OBVIOUS
<1>1. /\ stored = Empty /\ copy = [w \in Recorders |-> NoCopy] /\ place = [w \in Recorders |-> "idle"]
      /\ log = <<>> /\ apart = TRUE
  BY DEF MemoryInit
<1>2. Busy = {} /\ Cardinality({}) = 0
  BY <1>1, FS_EmptySet DEF Busy
<1>3. Whole(stored, 0) /\ RecallsOf(stored, log) /\ Len(log) = 0
  BY <1>1, EmptyFits
<1>4. MemoryTyped
  BY <1>1, <1>2, <1>3, MemoryAssumption DEF MemoryTyped
<1>5. FilesFit
  BY <1>1, <1>3 DEF FilesFit
<1>6. stored # Unreadable
  <2>1. 0 \in 0..MaxLog
    BY MemoryAssumption
  <2> QED BY <1>3, <2>1, WholeIsMemory
<1>7. ApartFits
  BY <1>2, <1>3, <1>6 DEF ApartFits
<1> QED BY <1>4, <1>5, <1>7 DEF MemoryInv

(* The invariant is kept by every step of every recorder.                  *)
LEMMA MemoryInvNext ==
  ASSUME MemoryInv, [MemoryNext]_memoryVars
  PROVE  MemoryInv'
<1>1. CASE MemoryNext
  BY <1>1, LoadKeeps, TruncateKeeps, WriteBackKeeps, DiesKeepsMemory DEF MemoryNext
<1>2. CASE UNCHANGED memoryVars
  <2>1. UNCHANGED <<stored, copy, place, log, apart>>
    BY <1>2 DEF memoryVars
  <2>2. Busy' = Busy
    BY <2>1 DEF Busy
  <2>3. MemoryTyped'
    BY <2>1, <2>2 DEF MemoryInv, MemoryTyped
  <2>4. FilesFit'
    BY <2>1 DEF MemoryInv, FilesFit
  <2>5. ApartFits'
    BY <2>1, <2>2 DEF MemoryInv, ApartFits
  <2> QED BY <2>3, <2>4, <2>5 DEF MemoryInv
<1> QED BY <1>1, <1>2

(* High trust is weighed against the failures first of all.                *)
LEMMA TrustHigh ==
  ASSUME NEW r \in Seq(Events), Trust(r) = "high"
  PROVE  3 * Cardinality({i \in DOMAIN r : r[i].status = "failed"}) <= Len(r)
<1>1. Penalty(r) <= 4 * Len(r)
  BY DEF Trust
<1>2. Len(r) \in Nat /\ DOMAIN r = 1..Len(r) /\ IsFiniteSet(1..Len(r))
  BY FS_Interval
<1>3. \A T \in SUBSET DOMAIN r : Cardinality(T) \in Nat
  BY <1>2, FS_Subset, FS_CardinalityType
<1>4. PICK T, U, V : /\ T = {i \in DOMAIN r : r[i].status = "failed"}
                     /\ U \in SUBSET DOMAIN r /\ V \in SUBSET DOMAIN r
                     /\ Penalty(r) = 12 * Cardinality(T) + 5 * Cardinality(U) + 3 * Cardinality(V)
  <2>1. PICK T, U, V : /\ T = {i \in DOMAIN r : r[i].status = "failed"}
             /\ U = {i \in DOMAIN r : /\ \E j \in DOMAIN r : r[j].fingerprint = r[i].fingerprint /\ r[j].status = "failed"
                                      /\ \E j \in DOMAIN r : r[j].fingerprint = r[i].fingerprint /\ r[j].status = "passed"}
             /\ V = {i \in DOMAIN r : Classify(r[i].says) = "unknown"}
    OBVIOUS
  <2>2. Penalty(r) = 12 * Cardinality(T) + 5 * Cardinality(U) + 3 * Cardinality(V)
    BY <2>1 DEF Penalty
  <2> QED BY <2>1, <2>2
<1>5. PICK a \in Nat, b \in Nat, c \in Nat : a = Cardinality(T) /\ b = Cardinality(U) /\ c = Cardinality(V)
  BY <1>3, <1>4
<1>6. 12 * a + 5 * b + 3 * c <= 4 * Len(r)
  BY <1>1, <1>4, <1>5
<1>7. 3 * a <= Len(r)
  BY <1>2, <1>6
<1> QED BY <1>4, <1>5, <1>7

(* What a memory shows, its counts have learned.                           *)
LEMMA WholeAddsUp ==
  ASSUME NEW m, NEW n \in Nat, Whole(m, n)
  PROVE  /\ \A f \in Fingerprints :
               /\ m.learned[f].failed >= Cardinality({i \in DOMAIN m.recent : m.recent[i].fingerprint = f /\ m.recent[i].status = "failed"})
               /\ m.learned[f].passed >= Cardinality({i \in DOMAIN m.recent : m.recent[i].fingerprint = f /\ m.recent[i].status = "passed"})
               /\ f \in Flaky(m.learned) <=> m.learned[f].failed > 0 /\ m.learned[f].passed > 0
         /\ Trust(m.recent) = "high" =>
               3 * Cardinality({i \in DOMAIN m.recent : m.recent[i].status = "failed"}) <= Len(m.recent)
<1>1. m.recent \in Seq(Events)
  BY DEF Whole
<1>2. Trust(m.recent) = "high" =>
        3 * Cardinality({i \in DOMAIN m.recent : m.recent[i].status = "failed"}) <= Len(m.recent)
  BY <1>1, TrustHigh
<1>3. ASSUME NEW f \in Fingerprints
      PROVE  /\ m.learned[f].failed >= Times(m.recent, f, "failed") /\ m.learned[f].passed >= Times(m.recent, f, "passed")
             /\ f \in Flaky(m.learned) <=> m.learned[f].failed > 0 /\ m.learned[f].passed > 0
  <2>1. PICK g : g = m.learned[f]
    OBVIOUS
  <2>2. /\ g \in LearnedEntry /\ (g.turns > 0 => g.failed > 0 /\ g.passed > 0)
        /\ Times(m.recent, f, "failed") <= g.failed /\ Times(m.recent, f, "passed") <= g.passed
    BY <2>1 DEF Whole, ShownCounted, EntryFits
  <2>3. f \in Flaky(m.learned) <=> (g.failed > 0 /\ g.passed > 0) \/ g.turns > 0
    BY <2>1 DEF Flaky
  <2>4. g.failed >= Times(m.recent, f, "failed") /\ g.passed >= Times(m.recent, f, "passed")
    <3>1. PICK a, b, c, d : a = g.failed /\ b = g.passed /\ c = Times(m.recent, f, "failed") /\ d = Times(m.recent, f, "passed")
      OBVIOUS
    <3>2. a \in Nat /\ b \in Nat /\ c \in Nat /\ d \in Nat
      BY <1>1, <2>2, <3>1, TellsFinite DEF LearnedEntry
    <3> QED BY <2>2, <3>1, <3>2
  <2> QED BY <2>1, <2>2, <2>3, <2>4
<1> QED BY <1>2, <1>3 DEF Times, Tells

(* The invariant says what the property says.                              *)
LEMMA MemoryInvAddsUp == MemoryInv => MemoryAddsUp
<1> SUFFICES ASSUME MemoryInv PROVE MemoryAddsUp
  OBVIOUS
<1>1. apart /\ (\A w \in Recorders : place[w] \in {"idle", "changed"}) => stored # Unreadable /\ Recalls(stored)
  <2> SUFFICES ASSUME RecallsOf(stored, log) PROVE Recalls(stored)
    BY DEF MemoryInv, ApartFits
  <2>1. stored.recent = Ending(Noted(log), Window) /\ CountsOf(stored.learned, Noted(log)) /\ MarksOf(stored.markers, log)
    BY DEF RecallsOf, RecentOf
  <2>2. \A t \in OssTitles : [title |-> t] \in Range(log) => Blocked(t, stored)
    BY <2>1 DEF MarksOf, Blocked
  <2> QED BY <2>1, <2>2 DEF Recalls, Noted, Ending, CountsOf, Times, Tells
<1>2. stored # Unreadable => Whole(stored, Len(log)) /\ Len(log) \in Nat
  BY DEF MemoryInv, FilesFit, MemoryTyped
<1> QED BY <1>1, <1>2, WholeAddsUp DEF MemoryAddsUp

(* Recorders that kept apart lost nothing, and a file that can be read is a*)
(* whole memory, whoever wrote it last (operational_memory.py,             *)
(* failure_learning.py).                                                   *)
THEOREM MemoryAddsUpKept == MemorySpec => []MemoryAddsUp
  BY MemoryInvInit, MemoryInvNext, MemoryInvAddsUp, PTL DEF MemorySpec

(* File, copies and history are well typed: no count exceeds the number of *)
(* operations, those under way included.                                   *)
THEOREM MemoryTypeOKKept == MemorySpec => []MemoryTypeOK
<1>1. MemoryInv => MemoryTypeOK
  <2> SUFFICES ASSUME MemoryInv PROVE MemoryTypeOK
    OBVIOUS
  <2>1. MemoryTyped /\ FilesFit /\ Len(log) \in Nat
    BY DEF MemoryInv, MemoryTyped
  <2>2. PICK k \in Nat : k = Cardinality(Busy) /\ Len(log) + k <= MaxLog
    BY <2>1, BusyFinite DEF MemoryTyped
  <2>3. Len(log) \in 0..MaxLog
    BY <2>1, <2>2, MemoryAssumption
  <2>4. stored # Unreadable => IsMemory(stored)
    BY <2>1, <2>3, WholeIsMemory DEF FilesFit
  <2>5. ASSUME NEW w \in Recorders, copy[w] # NoCopy PROVE IsMemory(copy[w].memory) /\ copy[w].op \in Ops
    <3>1. w \in Busy /\ CopyFits(copy[w], Len(log) + 1)
      BY <2>1, <2>5 DEF FilesFit, Busy
    <3>2. k # 0
      BY <2>2, <3>1, BusyFinite, FS_EmptySet
    <3>3. Len(log) + 1 \in 0..MaxLog
      BY <2>1, <2>2, <3>2, MemoryAssumption
    <3> QED BY <3>1, <3>3, WholeIsMemory DEF CopyFits
  <2> QED BY <2>1, <2>3, <2>4, <2>5 DEF MemoryTyped, MemoryTypeOK
<1> QED BY <1>1, MemoryInvInit, MemoryInvNext, PTL DEF MemorySpec

------------------------------------------------------------------------------
(* What a run leaves, undone, for any deliveries and any number of walks.  *)
Pair == STRING \X STRING
Instruction == [kind : {"pr", "branch", "worktree"}, of : Delivered]

(* What a run leaves is of its kind and of its delivery.                   *)
LEMMA ThingsApart ==
  ASSUME NEW d \in Delivered, NEW e \in Delivered, NEW k, NEW h, Thing(k, d) = Thing(h, e)
  PROVE  k = h /\ d = e
<1>1. d \in Pair /\ e \in Pair
  BY RollbackAssumption DEF Delivered, Range, Pair
<1>2. k = h /\ d[1] = e[1] /\ d[2] = e[2]
  BY DEF Thing
<1> QED BY <1>1, <1>2 DEF Pair

(* The plan is a list of deliveries, and has them all.                     *)
LEMMA DeliveriesFit ==
  /\ Len(DeliveryPlan) \in Nat /\ DOMAIN DeliveryPlan = 1..Len(DeliveryPlan)
  /\ DeliveryPlan \in Seq(Delivered)
  /\ \A d \in Delivered : d[2] \in STRING /\ \E i \in DOMAIN DeliveryPlan : DeliveryPlan[i] = d
<1>1. /\ Len(DeliveryPlan) \in Nat /\ DOMAIN DeliveryPlan = 1..Len(DeliveryPlan)
      /\ DeliveryPlan \in [1..Len(DeliveryPlan) -> Pair]
  BY RollbackAssumption DEF Pair
<1>2. \A i \in DOMAIN DeliveryPlan : DeliveryPlan[i] \in Delivered
  BY DEF Delivered, Range
<1>3. DeliveryPlan \in Seq(Delivered)
  BY <1>1, <1>2
<1>4. \A d \in Delivered : d \in Pair /\ \E i \in DOMAIN DeliveryPlan : DeliveryPlan[i] = d
  BY <1>1 DEF Delivered, Range
<1> QED BY <1>1, <1>3, <1>4 DEF Pair

(* Of pairs with a name there is a first one.                              *)
LEMMA FirstIs ==
  ASSUME NEW ds \in Seq(Delivered), NEW n \in DOMAIN ds
  PROVE  \E i \in DOMAIN ds \cap FirstOfName(ds) : ds[i][2] = ds[n][2]
<1>1. Len(ds) \in Nat /\ DOMAIN ds = 1..Len(ds)
  OBVIOUS
<1> PICK T : T = {i \in DOMAIN ds : ds[i][2] = ds[n][2]}
  OBVIOUS
<1>2. T \in SUBSET Nat /\ n \in T
  BY <1>1
<1>3. PICK i \in T : \A m \in T : i <= m
  BY <1>2, LeastNat
<1>4. i \in DOMAIN ds /\ ds[i][2] = ds[n][2]
  OBVIOUS
<1>5. \A j \in 1..i - 1 : j \in DOMAIN ds /\ ~(i <= j)
  BY <1>1, <1>4
<1>6. i \in FirstOfName(ds)
  BY <1>3, <1>4, <1>5 DEF FirstOfName
<1> QED BY <1>4, <1>6

(* The parts of the plan.                                                  *)
PullRequests(opened) == [i \in DOMAIN opened |-> Action("pr", opened[i])]
Worktrees(opened) == [i \in DOMAIN DeliveryPlan |-> Unwound(opened, i)]

(* Each pull request of the report has its instruction.                    *)
LEMMA PullRequestsFit ==
  ASSUME NEW opened \in Seq(Delivered)
  PROVE  /\ PullRequests(opened) \in Seq(Instruction)
         /\ \A d \in Delivered : Carries(opened, d) => Carries(PullRequests(opened), Action("pr", d))
<1>1. Len(opened) \in Nat /\ DOMAIN opened = 1..Len(opened) /\ \A i \in DOMAIN opened : opened[i] \in Delivered
  OBVIOUS
<1> PICK q : q = PullRequests(opened)
  OBVIOUS
<1>2. DOMAIN q = 1..Len(opened) /\ \A i \in DOMAIN opened : q[i] = Action("pr", opened[i])
  BY <1>1 DEF PullRequests
<1>3. q = [i \in 1..Len(opened) |-> Action("pr", opened[i])]
  BY <1>1 DEF PullRequests
<1>4. \A i \in 1..Len(opened) : Action("pr", opened[i]) \in Instruction
  BY <1>1 DEF Instruction, Action
<1>5. q \in Seq(Instruction)
  BY <1>1, <1>3, <1>4
<1>6. \A d \in Delivered : Carries(opened, d) => Carries(q, Action("pr", d))
  BY <1>1, <1>2 DEF Carries
<1> QED BY <1>5, <1>6

(* So has its branch, when no other repository shares the name.            *)
LEMMA BranchesFit ==
  ASSUME NEW opened \in Seq(Delivered)
  PROVE  /\ BranchesOf(opened) \in Seq(Instruction)
         /\ \A d \in Delivered : Carries(opened, d) /\ ~Twin(d) => Carries(BranchesOf(opened), Action("branch", d))
<1> PICK first : first = Picked(opened, FirstOfName(opened))
  OBVIOUS
<1>1. /\ first \in Seq(Delivered)
      /\ \A n \in DOMAIN opened \cap FirstOfName(opened) : \E j \in DOMAIN first : first[j] = opened[n]
  BY PickedElements
<1>2. /\ Len(first) \in Nat /\ DOMAIN first = 1..Len(first) /\ \A i \in DOMAIN first : first[i] \in Delivered
      /\ \A i \in DOMAIN opened : opened[i] \in Delivered
  BY <1>1
<1> PICK q : q = BranchesOf(opened)
  OBVIOUS
<1>3. q = [i \in 1..Len(first) |-> Action("branch", first[i])]
  BY <1>2 DEF BranchesOf
<1>4. \A i \in 1..Len(first) : Action("branch", first[i]) \in Instruction
  BY <1>2 DEF Instruction, Action
<1>5. q \in Seq(Instruction)
  BY <1>2, <1>3, <1>4
<1>6. ASSUME NEW d \in Delivered, Carries(opened, d), ~Twin(d) PROVE Carries(q, Action("branch", d))
  <2>1. PICK n \in DOMAIN opened : opened[n] = d
    BY <1>6 DEF Carries
  <2>2. PICK i \in DOMAIN opened \cap FirstOfName(opened) : opened[i][2] = d[2]
    BY <2>1, FirstIs
  <2>3. opened[i] = d
    BY <1>2, <1>6, <2>2 DEF Twin
  <2>4. PICK j \in DOMAIN first : first[j] = d
    BY <1>1, <2>2, <2>3
  <2>5. j \in DOMAIN q /\ q[j] = Action("branch", d)
    BY <1>2, <1>3, <2>4
  <2> QED BY <2>5 DEF Carries
<1> QED BY <1>5, <1>6

(* A delivery without a pull request leaves a worktree and may leave a     *)
(* branch.                                                                 *)
LEMMA UnwoundFits ==
  ASSUME NEW opened \in Seq(Delivered), NEW i \in DOMAIN DeliveryPlan
  PROVE  /\ Unwound(opened, i) \in Seq(Instruction)
         /\ Carries(Unwound(opened, i), Action("worktree", DeliveryPlan[i]))
         /\ (i \in FirstOfName(DeliveryPlan) /\ \A p \in Range(opened) : p[2] # DeliveryPlan[i][2])
              => Carries(Unwound(opened, i), Action("branch", DeliveryPlan[i]))
<1> PICK d : d = DeliveryPlan[i]
  OBVIOUS
<1>1. d \in Delivered
  BY DEF Delivered, Range
<1>2. Action("worktree", d) \in Instruction /\ Action("branch", d) \in Instruction
  BY <1>1 DEF Instruction, Action
<1> PICK u : u = Unwound(opened, i)
  OBVIOUS
<1>3. CASE i \in FirstOfName(DeliveryPlan) /\ \A p \in Range(opened) : p[2] # d[2]
  <2>1. u = <<Action("branch", d)>> \o <<Action("worktree", d)>>
    BY <1>3 DEF Unwound
  <2> PICK b : b = <<Action("branch", d)>>
    OBVIOUS
  <2> PICK w : w = <<Action("worktree", d)>>
    OBVIOUS
  <2>2. b \in Seq(Instruction) /\ w \in Seq(Instruction)
    BY <1>2
  <2>3. Carries(b, Action("branch", d)) /\ Carries(w, Action("worktree", d))
    BY DEF Carries
  <2>4. CarriesBoth(Instruction, b, w, b \o w)
    BY <2>2, Joined2
  <2>5. u = b \o w
    BY <2>1
  <2> QED BY <2>3, <2>4, <2>5 DEF CarriesBoth
<1>4. CASE ~(i \in FirstOfName(DeliveryPlan) /\ \A p \in Range(opened) : p[2] # d[2])
  <2>1. u = <<>> \o <<Action("worktree", d)>>
    BY <1>4 DEF Unwound
  <2>2. u = <<Action("worktree", d)>>
    BY <2>1
  <2>3. u \in Seq(Instruction) /\ DOMAIN u = 1..1 /\ u[1] = Action("worktree", d)
    BY <1>2, <2>2
  <2>4. Carries(u, Action("worktree", d))
    BY <2>3 DEF Carries
  <2> QED BY <1>4, <2>3, <2>4
<1> QED BY <1>3, <1>4

(* Each delivery has its worktree removed.                                 *)
LEMMA WorktreesFit ==
  ASSUME NEW opened \in Seq(Delivered)
  PROVE  /\ FlattenSeq(Worktrees(opened)) \in Seq(Instruction)
         /\ \A d \in Delivered :
              /\ Carries(FlattenSeq(Worktrees(opened)), Action("worktree", d))
              /\ ~Carries(opened, d) /\ ~Twin(d) => Carries(FlattenSeq(Worktrees(opened)), Action("branch", d))
<1> PICK s : s = Worktrees(opened)
  OBVIOUS
<1>1. /\ DOMAIN s = DOMAIN DeliveryPlan /\ \A i \in DOMAIN DeliveryPlan : s[i] = Unwound(opened, i)
      /\ s = [i \in 1..Len(DeliveryPlan) |-> Unwound(opened, i)]
  BY DeliveriesFit DEF Worktrees
<1>2. \A i \in DOMAIN DeliveryPlan : Unwound(opened, i) \in Seq(Instruction)
  BY UnwoundFits
<1>3. s \in Seq(Seq(Instruction))
  BY <1>1, <1>2, DeliveriesFit
<1> PICK f : f = FlattenSeq(s)
  OBVIOUS
<1>4. f \in Seq(Instruction) /\ \A e : Carries(f, e) <=> \E k \in DOMAIN s : Carries(s[k], e)
  BY <1>3, FlattenedElements
<1>5. ASSUME NEW d \in Delivered PROVE Carries(f, Action("worktree", d))
  <2>1. PICK i \in DOMAIN DeliveryPlan : DeliveryPlan[i] = d
    BY DeliveriesFit
  <2>2. Carries(s[i], Action("worktree", d))
    BY <1>1, <2>1, UnwoundFits
  <2> QED BY <1>1, <1>4, <2>2
<1>6. ASSUME NEW d \in Delivered, ~Carries(opened, d), ~Twin(d) PROVE Carries(f, Action("branch", d))
  <2>1. PICK n \in DOMAIN DeliveryPlan : DeliveryPlan[n] = d
    BY DeliveriesFit
  <2>2. PICK i \in DOMAIN DeliveryPlan \cap FirstOfName(DeliveryPlan) : DeliveryPlan[i][2] = d[2]
    BY <2>1, FirstIs, DeliveriesFit
  <2>3. DeliveryPlan[i] = d
    BY <1>6, <2>2 DEF Twin, Delivered, Range
  <2>4. ASSUME NEW p \in Range(opened) PROVE p[2] # d[2]
    <3>1. PICK k \in DOMAIN opened : opened[k] = p
      BY DEF Range
    <3>2. p \in Delivered /\ p # d
      BY <1>6, <3>1 DEF Carries
    <3> QED BY <1>6, <3>2 DEF Twin
  <2>5. Carries(Unwound(opened, i), Action("branch", d))
    BY <2>2, <2>3, <2>4, UnwoundFits
  <2> QED BY <1>1, <1>4, <2>2, <2>5
<1> QED BY <1>4, <1>5, <1>6

(* A plan has an instruction for all that was made.                        *)
LEMMA PlanIs ==
  ASSUME NEW opened \in Seq(Delivered)
  PROVE  /\ PlanOf(opened) \in Seq(Instruction)
         /\ \A d \in Delivered :
              /\ Carries(opened, d) => Carries(PlanOf(opened), Action("pr", d))
              /\ Carries(PlanOf(opened), Action("worktree", d))
              /\ ~Twin(d) => Carries(PlanOf(opened), Action("branch", d))
<1> PICK a : a = PullRequests(opened)
  OBVIOUS
<1> PICK b : b = BranchesOf(opened)
  OBVIOUS
<1> PICK c : c = FlattenSeq(Worktrees(opened))
  OBVIOUS
<1> PICK ab : ab = a \o b
  OBVIOUS
<1>1. PlanOf(opened) = ab \o c
  BY DEF PlanOf, PullRequests, Worktrees
<1>2. a \in Seq(Instruction) /\ b \in Seq(Instruction) /\ c \in Seq(Instruction)
  BY PullRequestsFit, BranchesFit, WorktreesFit
<1>3. CarriesBoth(Instruction, a, b, ab)
  BY <1>2, Joined2
<1>4. ab \in Seq(Instruction) /\ \A e : Carries(ab, e) <=> Carries(a, e) \/ Carries(b, e)
  BY <1>3 DEF CarriesBoth
<1> PICK p : p = ab \o c
  OBVIOUS
<1>5. CarriesBoth(Instruction, ab, c, p)
  BY <1>2, <1>4, Joined2
<1>6. p \in Seq(Instruction) /\ \A e : Carries(p, e) <=> Carries(a, e) \/ Carries(b, e) \/ Carries(c, e)
  BY <1>4, <1>5 DEF CarriesBoth
<1>7. ASSUME NEW d \in Delivered
      PROVE  /\ Carries(opened, d) => Carries(p, Action("pr", d))
             /\ Carries(p, Action("worktree", d))
             /\ ~Twin(d) => Carries(p, Action("branch", d))
  BY <1>6, PullRequestsFit, BranchesFit, WorktreesFit
<1> QED BY <1>1, <1>6, <1>7

------------------------------------------------------------------------------
(* What was made: no remote branch without a local one, no pull request    *)
(* the report does not know.                                               *)
Things == {Thing(k, d) : k \in Kinds, d \in Delivered}

MadeFits ==
  /\ made \subseteq Things
  /\ prs \in Seq(Delivered)
  /\ \A d \in Delivered :
       /\ Thing("remote", d) \in made => Thing("local", d) \in made
       /\ Thing("pr", d) \in made => Carries(prs, d)

(* The plan, once there is one, has an instruction for each of them.       *)
PlanFits ==
  /\ plan \in Seq(Instruction) /\ walked \in 0..(Walks * Len(plan))
  /\ plan = <<>> => walked = 0
  /\ plan # <<>> => \A d \in Delivered :
       /\ Carries(prs, d) => Carries(plan, Action("pr", d))
       /\ Carries(plan, Action("worktree", d))
       /\ ~Twin(d) => Carries(plan, Action("branch", d))

(* What the instructions before this one have removed: the branches only   *)
(* in the second walk, when no worktree holds them any more.               *)
WalkFits ==
  \A i \in DOMAIN plan :
    /\ walked >= i /\ plan[i].kind = "pr" => Thing("pr", plan[i].of) \notin made
    /\ walked >= i /\ plan[i].kind = "worktree" => Thing("worktree", plan[i].of) \notin made
    /\ walked >= Len(plan) + i /\ plan[i].kind = "branch" => Thing("local", plan[i].of) \notin made

RollbackInv == MadeFits /\ PlanFits /\ WalkFits

(* Steps of the operator stay within its walks.                            *)
LEMMA WalksFit ==
  ASSUME NEW n \in Nat
  PROVE  Walks * n \in Nat /\ 0 \in 0..(Walks * n) /\ \A w \in 0..(Walks * n) : w < Walks * n => w + 1 \in 0..(Walks * n)
<1> PICK m : m = Walks * n
  OBVIOUS
<1>1. m \in Nat
  BY RollbackAssumption
<1>2. 0 \in 0..m /\ \A w \in 0..m : w < m => w + 1 \in 0..m
  BY <1>1
<1> QED BY <1>1, <1>2

(* Before the run nothing is made.                                         *)
LEMMA InitRollback == RollbackInit => RollbackInv
<1> SUFFICES ASSUME RollbackInit PROVE RollbackInv
  OBVIOUS
<1> USE DEF RollbackInit
<1>1. MadeFits
  BY DEF MadeFits
<1>2. PlanFits
  <2>1. plan \in Seq(Instruction) /\ Len(plan) = 0
    OBVIOUS
  <2>2. 0 \in 0..(Walks * Len(plan))
    BY <2>1, WalksFit
  <2> QED BY <2>1, <2>2 DEF PlanFits
<1>3. WalkFits
  BY DEF WalkFits
<1> QED BY <1>1, <1>2, <1>3 DEF RollbackInv

(* Deliveries are made a step at a time, and the report hears of each.     *)
LEMMA DeliverKept ==
  ASSUME RollbackInv, NEW d \in Delivered, Deliver(d)
  PROVE  RollbackInv'
<1>1. plan = <<>> /\ plan' = plan /\ walked' = walked
  BY DEF Deliver
<1>2. MadeFits
  BY DEF RollbackInv
<1>3. ASSUME NEW e \in Delivered
      PROVE  /\ \A k \in {"local", "worktree", "pr"} : Thing(k, d) # Thing("remote", e)
             /\ \A k \in {"local", "worktree", "remote"} : Thing(k, d) # Thing("pr", e)
             /\ d # e => Thing("remote", d) # Thing("remote", e) /\ Thing("pr", d) # Thing("pr", e)
  <2>1. \A k, h : Thing(k, d) = Thing(h, e) => k = h /\ d = e
    BY ThingsApart
  <2> QED BY <2>1
<1>4. \A k \in {"local", "worktree", "remote", "pr"} : Thing(k, d) \in Things
  BY DEF Things, Kinds
<1>5. /\ made \subseteq Things /\ prs \in Seq(Delivered)
      /\ \A e \in Delivered :
           /\ Thing("remote", e) \in made => Thing("local", e) \in made
           /\ Thing("pr", e) \in made => Carries(prs, e)
  BY <1>2 DEF MadeFits
<1>6. PlanFits'
  BY <1>1 DEF RollbackInv, PlanFits
<1>7. WalkFits'
  BY <1>1 DEF WalkFits
<1> SUFFICES MadeFits'
  BY <1>6, <1>7 DEF RollbackInv
<1>8. CASE /\ Thing("local", d) \notin made /\ made' = made \cup {Thing("local", d), Thing("worktree", d)}
           /\ UNCHANGED prs
  <2>1. made' \subseteq Things
    BY <1>4, <1>5, <1>8
  <2>2. ASSUME NEW e \in Delivered
        PROVE  /\ Thing("remote", e) \in made' => Thing("local", e) \in made'
               /\ Thing("pr", e) \in made' => Carries(prs, e)
    BY <1>3, <1>5, <1>8
  <2> QED BY <1>5, <1>8, <2>1, <2>2 DEF MadeFits
<1>9. CASE /\ Thing("local", d) \in made /\ Thing("remote", d) \notin made
           /\ made' = made \cup {Thing("remote", d)} /\ UNCHANGED prs
  <2>1. made' \subseteq Things
    BY <1>4, <1>5, <1>9
  <2>2. ASSUME NEW e \in Delivered
        PROVE  /\ Thing("remote", e) \in made' => Thing("local", e) \in made'
               /\ Thing("pr", e) \in made' => Carries(prs, e)
    BY <1>3, <1>5, <1>9
  <2> QED BY <1>5, <1>9, <2>1, <2>2 DEF MadeFits
<1>10. CASE /\ Thing("remote", d) \in made /\ Thing("pr", d) \notin made
           /\ made' = made \cup {Thing("pr", d)} /\ prs' = Append(prs, d)
  <2> PICK q : q = prs
    OBVIOUS
  <2> PICK r : r = prs'
    OBVIOUS
  <2>1. /\ r \in Seq(Delivered) /\ DOMAIN q = 1..Len(q) /\ Len(q) \in Nat /\ DOMAIN r = 1..(Len(q) + 1)
        /\ r[Len(q) + 1] = d /\ \A j \in 1..Len(q) : r[j] = q[j]
    <3>1. q \in Seq(Delivered) /\ r = Append(q, d)
      BY <1>5, <1>10
    <3> QED BY <3>1, Appended
  <2>2. \A e : Carries(q, e) => Carries(r, e)
    BY <2>1 DEF Carries
  <2>3. Carries(r, d)
    BY <2>1 DEF Carries
  <2>4. ASSUME NEW e \in Delivered
        PROVE  /\ Thing("remote", e) \in made' => Thing("local", e) \in made'
               /\ Thing("pr", e) \in made' => Carries(r, e)
    BY <1>3, <1>5, <1>10, <2>2, <2>3
  <2>5. made' \subseteq Things
    BY <1>4, <1>5, <1>10
  <2>6. prs' \in Seq(Delivered) /\ \A e \in Delivered : Thing("pr", e) \in made' => Carries(prs', e)
    BY <2>1, <2>4
  <2> QED BY <2>4, <2>5, <2>6 DEF MadeFits
<1> QED BY <1>8, <1>9, <1>10 DEF Deliver

(* Nothing is undone yet when the plan is built.                           *)
LEMMA BuildPlanKept ==
  ASSUME RollbackInv, BuildPlan
  PROVE  RollbackInv'
<1>1. plan = <<>> /\ plan' = PlanOf(prs) /\ made' = made /\ prs' = prs /\ walked' = walked /\ walked = 0
  BY DEF BuildPlan, RollbackInv, PlanFits
<1>2. MadeFits'
  BY <1>1 DEF RollbackInv, MadeFits
<1>3. prs \in Seq(Delivered)
  BY DEF RollbackInv, MadeFits
<1> PICK p : p = PlanOf(prs)
  OBVIOUS
<1>4. /\ p \in Seq(Instruction)
      /\ \A d \in Delivered :
           /\ Carries(prs, d) => Carries(p, Action("pr", d))
           /\ Carries(p, Action("worktree", d))
           /\ ~Twin(d) => Carries(p, Action("branch", d))
  BY <1>3, PlanIs
<1>5. PlanFits'
  <2>1. Len(p) \in Nat
    BY <1>4
  <2>2. 0 \in 0..(Walks * Len(p))
    BY <2>1, WalksFit
  <2> QED BY <1>1, <1>4, <2>2 DEF PlanFits
<1>6. \A i \in DOMAIN p : i \in Nat \ {0} /\ Len(p) + i \in Nat \ {0}
  BY <1>4
<1>7. WalkFits'
  BY <1>1, <1>6 DEF WalkFits
<1> QED BY <1>2, <1>5, <1>7 DEF RollbackInv

(* What an instruction leaves.                                             *)
LEMMA RemovesFits ==
  ASSUME MadeFits, NEW a \in Instruction, NEW gone \in Removes(a), made' = made \ gone, prs' = prs
  PROVE  /\ MadeFits'
         /\ a.kind \in {"pr", "worktree"} => Thing(a.kind, a.of) \notin made'
         /\ a.kind = "branch" /\ Thing("worktree", a.of) \notin made => Thing("local", a.of) \notin made'
<1> PICK d : d = a.of
  OBVIOUS
<1>1. d \in Delivered /\ a.kind \in {"pr", "branch", "worktree"}
  BY DEF Instruction
<1>2. \A e \in Delivered : \A k, h : Thing(k, d) = Thing(h, e) => k = h /\ d = e
  BY <1>1, ThingsApart
<1>3. CASE a.kind = "pr"
  <2>1. gone = {Thing("pr", d), Thing("remote", d)} \/ gone = {Thing("pr", d)}
    BY <1>3 DEF Removes
  <2> QED BY <1>2, <1>3, <2>1 DEF MadeFits
<1>4. CASE a.kind = "worktree"
  <2>1. gone = {Thing("worktree", d)}
    BY <1>4 DEF Removes
  <2> QED BY <1>2, <1>4, <2>1 DEF MadeFits
<1>5. CASE a.kind = "branch"
  <2>1. gone = IF Thing("worktree", d) \in made \/ Thing("local", d) \notin made THEN {}
               ELSE {Thing("local", d), Thing("remote", d)}
    BY <1>5 DEF Removes
  <2> QED BY <1>2, <1>5, <2>1 DEF MadeFits
<1> QED BY <1>1, <1>3, <1>4, <1>5

(* An instruction performed.                                               *)
LEMMA PerformKept ==
  ASSUME RollbackInv, Perform
  PROVE  RollbackInv'
<1>1. plan # <<>> /\ walked' = walked + 1 /\ prs' = prs /\ plan' = plan /\ walked \in Nat /\ plan \in Seq(Instruction)
  BY WalksFit DEF Perform, RollbackInv, PlanFits
<1> PICK p : p = plan
  OBVIOUS
<1> PICK n : n = Len(p)
  OBVIOUS
<1> PICK w : w = walked
  OBVIOUS
<1>2. n \in Nat \ {0} /\ DOMAIN p = 1..n /\ w \in Nat /\ \A i \in 1..n : p[i] \in Instruction
  BY <1>1
<1> PICK k : k = (w % n) + 1
  OBVIOUS
<1>3. k \in 1..n
  <2>1. w \in Int
    BY <1>2
  <2>2. PICK q \in Int, r \in 0..(n - 1) : r = w % n /\ w = n * q + r
    BY <1>2, <2>1, Division
  <2> QED BY <1>2, <2>2
<1>4. PICK gone : gone \in Removes(p[k]) /\ made' = made \ gone
  BY DEF Perform
<1>5. /\ MadeFits'
      /\ p[k].kind \in {"pr", "worktree"} => Thing(p[k].kind, p[k].of) \notin made'
      /\ p[k].kind = "branch" /\ Thing("worktree", p[k].of) \notin made => Thing("local", p[k].of) \notin made'
  <2>1. MadeFits /\ p[k] \in Instruction
    BY <1>2, <1>3 DEF RollbackInv
  <2> QED BY <1>1, <1>4, <2>1, RemovesFits
<1>6. PlanFits'
  <2>1. PlanFits /\ w \in 0..(Walks * n) /\ w < Walks * n
    BY DEF RollbackInv, PlanFits, Perform
  <2>2. w + 1 \in 0..(Walks * n)
    BY <1>2, <2>1, WalksFit
  <2>3. plan' \in Seq(Instruction) /\ walked' \in 0..(Walks * Len(plan'))
    BY <1>1, <2>2
  <2>4. plan' # <<>> /\ \A d \in Delivered :
          /\ Carries(prs', d) => Carries(plan', Action("pr", d))
          /\ Carries(plan', Action("worktree", d))
          /\ ~Twin(d) => Carries(plan', Action("branch", d))
    BY <1>1, <2>1 DEF PlanFits
  <2> QED BY <2>3, <2>4 DEF PlanFits
<1>7. WalkFits'
  <2> SUFFICES ASSUME NEW i \in 1..n
               PROVE  /\ w + 1 >= i /\ p[i].kind = "pr" => Thing("pr", p[i].of) \notin made'
                      /\ w + 1 >= i /\ p[i].kind = "worktree" => Thing("worktree", p[i].of) \notin made'
                      /\ w + 1 >= n + i /\ p[i].kind = "branch" => Thing("local", p[i].of) \notin made'
    BY <1>1, <1>2 DEF WalkFits
  <2>1. /\ w >= i /\ p[i].kind = "pr" => Thing("pr", p[i].of) \notin made
        /\ w >= i /\ p[i].kind = "worktree" => Thing("worktree", p[i].of) \notin made
        /\ w >= n + i /\ p[i].kind = "branch" => Thing("local", p[i].of) \notin made
    BY <1>2 DEF RollbackInv, WalkFits
  <2>2. made' \subseteq made
    BY <1>4
  <2>3. CASE w + 1 = i
    <3>1. w \in 0..(n - 1)
      BY <1>2, <2>3
    <3>2. w % n = w
      BY <1>2, <3>1, FirstWalk
    <3>3. k = i /\ ~(w + 1 >= n + i)
      BY <1>2, <2>3, <3>2
    <3> QED BY <1>5, <3>3
  <2>4. CASE w + 1 = n + i
    <3>1. w \in n..(2 * n - 1)
      BY <1>2, <2>4
    <3>2. w % n = w - n
      BY <1>2, <3>1, SecondWalk
    <3>3. k = i /\ w >= i /\ w >= n
      BY <1>2, <2>4, <3>2
    <3>4. ASSUME p[i].kind = "branch" PROVE Thing("local", p[i].of) \notin made'
      <4>1. p[i].of \in Delivered
        BY <1>2 DEF Instruction
      <4>2. Carries(p, Action("worktree", p[i].of))
        BY <1>1, <4>1 DEF RollbackInv, PlanFits
      <4>3. PICK j \in 1..n : p[j] = Action("worktree", p[i].of)
        BY <1>2, <4>2 DEF Carries
      <4>4. w >= j /\ p[j].kind = "worktree" /\ p[j].of = p[i].of
        BY <1>2, <3>3, <4>3 DEF Action
      <4>5. Thing("worktree", p[i].of) \notin made
        BY <1>2, <4>4 DEF RollbackInv, WalkFits
      <4> QED BY <1>5, <3>3, <3>4, <4>5
    <3> QED BY <2>1, <2>2, <3>3, <3>4
  <2>5. CASE w + 1 # i /\ w + 1 # n + i
    <3>1. (w + 1 >= i => w >= i) /\ (w + 1 >= n + i => w >= n + i)
      BY <1>2, <2>5
    <3> QED BY <2>1, <2>2, <3>1
  <2> QED BY <2>3, <2>4, <2>5
<1> QED BY <1>5, <1>6, <1>7 DEF RollbackInv

(* So these hold.                                                          *)
LEMMA RollbackInvHolds == RollbackSpec => []RollbackInv
<1>1. RollbackInv /\ [RollbackNext]_rollbackVars => RollbackInv'
  <2> SUFFICES ASSUME RollbackInv, [RollbackNext]_rollbackVars PROVE RollbackInv'
    OBVIOUS
  <2>1. CASE UNCHANGED rollbackVars
    <3>1. MadeFits'
      BY <2>1 DEF RollbackInv, MadeFits, rollbackVars
    <3>2. PlanFits'
      BY <2>1 DEF RollbackInv, PlanFits, rollbackVars
    <3>3. WalkFits'
      BY <2>1 DEF RollbackInv, WalkFits, rollbackVars
    <3> QED BY <3>1, <3>2, <3>3 DEF RollbackInv
  <2> QED BY <2>1, DeliverKept, BuildPlanKept, PerformKept DEF RollbackNext
<1> QED BY <1>1, InitRollback, PTL DEF RollbackSpec

(* Two walks undo whatever the run had done when it stopped, but for the   *)
(* branches that share their name with one of another repository.          *)
THEOREM TwoWalksUndoKept == RollbackSpec => []TwoWalksUndo
<1>1. RollbackInv => TwoWalksUndo
  <2> SUFFICES ASSUME RollbackInv, WalkedThrough(2), NEW d \in Delivered
               PROVE  /\ Thing("pr", d) \notin made /\ Thing("worktree", d) \notin made
                      /\ ~Twin(d) => Thing("local", d) \notin made /\ Thing("remote", d) \notin made
    BY DEF TwoWalksUndo
  <2> PICK p : p = plan
    OBVIOUS
  <2> PICK n : n = Len(p)
    OBVIOUS
  <2> PICK w : w = walked
    OBVIOUS
  <2>1. n \in Nat /\ DOMAIN p = 1..n /\ w \in Nat /\ plan # <<>> /\ w >= 2 * n
    BY DEF RollbackInv, PlanFits, WalkedThrough
  <2>2. \A i \in 1..n : w >= i /\ w >= n + i
    BY <2>1
  <2>3. ASSUME NEW k \in {"pr", "worktree"}, Carries(p, Action(k, d)) PROVE Thing(k, d) \notin made
    <3>1. PICK i \in 1..n : p[i] = Action(k, d)
      BY <2>1, <2>3 DEF Carries
    <3>2. p[i].kind = k /\ p[i].of = d
      BY <3>1 DEF Action
    <3> QED BY <2>1, <2>2, <3>2 DEF RollbackInv, WalkFits
  <2>4. ASSUME Carries(p, Action("branch", d)) PROVE Thing("local", d) \notin made
    <3>1. PICK i \in 1..n : p[i] = Action("branch", d)
      BY <2>1, <2>4 DEF Carries
    <3>2. p[i].kind = "branch" /\ p[i].of = d
      BY <3>1 DEF Action
    <3> QED BY <2>1, <2>2, <3>2 DEF RollbackInv, WalkFits
  <2>5. /\ Carries(prs, d) => Carries(p, Action("pr", d))
        /\ Carries(p, Action("worktree", d)) /\ (~Twin(d) => Carries(p, Action("branch", d)))
    BY <2>1 DEF RollbackInv, PlanFits
  <2>6. (Thing("pr", d) \in made => Carries(prs, d)) /\ (Thing("remote", d) \in made => Thing("local", d) \in made)
    BY DEF RollbackInv, MadeFits
  <2> QED BY <2>3, <2>4, <2>5, <2>6
<1> QED BY <1>1, RollbackInvHolds, PTL

(* What was made belongs to deliveries, and so do the instructions, whose  *)
(* number bounds the steps of the operator.                                *)
THEOREM RollbackTypeOKKept == RollbackSpec => []RollbackTypeOK
<1>1. RollbackInv => RollbackTypeOK
  BY DEF RollbackInv, MadeFits, PlanFits, RollbackTypeOK, Things, Instruction
<1> QED BY <1>1, RollbackInvHolds, PTL

------------------------------------------------------------------------------
(* The typing of each part, and of all of them together.  The tasks of a   *)
(* native worker stay within their bound.                                  *)
TasksFew == Len(tasks) \in Nat /\ Len(tasks) <= MaxTasks

(* Only a command makes a task.                                            *)
LEMMA TasksNext ==
  ASSUME WorkerInv, WorkerInv', TasksFew, [PythonWorkerNext]_workerVars
  PROVE  TasksFew'
<1>0. tasks \in Seq(Task) /\ tasks' \in Seq(Task) /\ MaxTasks \in Nat
  BY PythonWorkerAssumption DEF WorkerInv, TypedInv
<1>1. ASSUME DOMAIN tasks' = DOMAIN tasks PROVE TasksFew'
  BY <1>0, <1>1, SameLength DEF TasksFew
<1>2. ASSUME NEW r \in Runs, Queue(r) PROVE TasksFew'
  <2>1. PICK task : Len(tasks) < MaxTasks /\ tasks' = Append(tasks, task)
    BY <1>2 DEF Queue
  <2>2. Len(tasks') = Len(tasks) + 1
    BY <1>0, <2>1
  <2> QED BY <1>0, <2>1, <2>2 DEF TasksFew
<1>3. CASE StartWorker
  BY <1>1, <1>3 DEF StartWorker
<1>4. CASE StopWorker
  BY <1>1, <1>4 DEF StopWorker
<1>5. ASSUME NEW r \in Runs, CancelRun(r) PROVE TasksFew'
  BY <1>1, <1>5 DEF CancelRun
<1>6. ASSUME NEW t \in DOMAIN tasks, WorkerTaskNext(t) PROVE TasksFew'
  BY <1>1, <1>6 DEF WorkerTaskNext, Begin, Acquire, Expire, ExecutorReturns, ExecutorRaises, ExecutorStops, Enter, Settles
<1>7. CASE UNCHANGED workerVars
  BY <1>1, <1>7 DEF workerVars
<1> QED BY <1>2, <1>3, <1>4, <1>5, <1>6, <1>7 DEF PythonWorkerNext

(* The native worker is well typed, its tasks as many as its commands.     *)
LEMMA PythonWorkerTyped == PythonWorkerSpec => []PythonWorkerTypeOK
<1>1. PythonWorkerInit => TasksFew
  <2> SUFFICES ASSUME PythonWorkerInit PROVE TasksFew
    OBVIOUS
  <2>1. Len(tasks) = 0 /\ MaxTasks \in Nat
    BY PythonWorkerAssumption DEF PythonWorkerInit
  <2> QED BY <2>1 DEF TasksFew
<1>2. WorkerInv /\ TasksFew => PythonWorkerTypeOK
  BY DEF WorkerInv, TypedInv, TasksFew, PythonWorkerTypeOK
<1> QED BY <1>1, <1>2, TasksNext, WorkerInvInit, WorkerInvNext, PTL DEF PythonWorkerSpec

------------------------------------------------------------------------------
(* A call of a tool, its stages and the time.                              *)
Stages == {"attempt", "answered", "served", "refused", "over budget", "failed"}
CallTyped == now \in 0..MaxClock /\ call \in [of : Inputs, stage : Stages] \cup {Nothing}

(* The clock stops at its bound, and a call keeps to its stages.           *)
LEMMA CallNext ==
  ASSUME ContractsInv, CallTyped, [ToolContractsNext]_toolVars
  PROVE  CallTyped'
<1>0. now \in 0..MaxClock /\ MaxClock \in Nat /\ (call # Nothing => call.of \in Inputs /\ call \in [of : Inputs, stage : Stages])
  BY ToolContractsAssumption DEF CallTyped
<1>1. ASSUME NEW i \in Inputs, NEW s \in Stages, Stage(i, s), now' = now PROVE CallTyped'
  BY <1>0, <1>1 DEF Stage, CallTyped
<1>2. ASSUME call' = call, now' = now PROVE CallTyped'
  BY <1>2 DEF CallTyped
<1>3. ASSUME NEW i \in Inputs, CallBegins(i) PROVE CallTyped'
  <2>1. now' = now /\ \E s \in {"refused", "attempt", "served"} : Stage(i, s)
    BY <1>3 DEF CallBegins
  <2>2. PICK s \in {"refused", "attempt", "served"} : Stage(i, s)
    BY <2>1
  <2>3. s \in Stages
    BY DEF Stages
  <2> QED BY <1>1, <2>1, <2>2, <2>3
<1>4. ASSUME NEW i \in Inputs, Invalidate(i) PROVE CallTyped'
  BY <1>2, <1>4 DEF Invalidate
<1>5. CASE CheckRaises
  <2>1. call # Nothing /\ now' = now /\ Stage(call.of, "over budget") /\ "over budget" \in Stages
    BY <1>5 DEF CheckRaises, Stages
  <2> QED BY <1>0, <1>1, <2>1
<1>6. CASE AttemptFails
  <2>1. call # Nothing /\ now' = now /\ (call' = call \/ Stage(call.of, "failed")) /\ "failed" \in Stages
    BY <1>6 DEF AttemptFails, Stages
  <2> QED BY <1>0, <1>1, <1>2, <2>1
<1>7. CASE AttemptAnswers
  <2>1. call # Nothing /\ now' = now /\ Stage(call.of, "answered") /\ "answered" \in Stages
    BY <1>7 DEF AttemptAnswers, Stages
  <2> QED BY <1>0, <1>1, <2>1
<1>8. CASE Clear
  BY <1>2, <1>8 DEF Clear
<1>9. CASE Tick
  <2>1. now' = now + 1 /\ now < MaxClock /\ call' = call
    BY <1>9 DEF Tick
  <2>2. now' \in 0..MaxClock
    BY <1>0, <2>1
  <2> QED BY <2>1, <2>2 DEF CallTyped
<1>10. CASE UNCHANGED toolVars
  BY <1>2, <1>10 DEF toolVars
<1> QED BY <1>3, <1>4, <1>5, <1>6, <1>7, <1>8, <1>9, <1>10 DEF ToolContractsNext

(* The cache holds times that have passed.                                 *)
LEMMA ToolContractsTyped == ToolContractsSpec => []ToolContractsTypeOK
<1>1. ToolContractsInit => CallTyped
  <2> SUFFICES ASSUME ToolContractsInit PROVE CallTyped
    OBVIOUS
  <2>1. now = 0 /\ MaxClock \in Nat /\ call = Nothing
    BY ToolContractsAssumption DEF ToolContractsInit
  <2> QED BY <2>1 DEF CallTyped
<1>2. ContractsInv /\ CallTyped => ToolContractsTypeOK
  <2> SUFFICES ASSUME ContractsInv, CallTyped PROVE ToolContractsTypeOK
    OBVIOUS
  <2>1. /\ store \in [Inputs -> Nat \cup {Nothing}] /\ put \in [Inputs -> Nat \cup {Nothing}]
        /\ \A i \in Inputs : put[i] # Nothing => put[i] <= now
    BY DEF ContractsInv, CacheTyped
  <2>2. \A i \in Inputs : store[i] # Nothing => store[i] = put[i]
    BY DEF ContractsInv, CacheHolds, Entries
  <2>3. now \in 0..MaxClock /\ MaxClock \in Nat
    BY ToolContractsAssumption DEF CallTyped
  <2>4. \A i \in Inputs : put[i] \in 0..MaxClock \cup {Nothing} /\ store[i] \in 0..MaxClock \cup {Nothing}
    BY <2>1, <2>2, <2>3
  <2>5. put \in [Inputs -> 0..MaxClock \cup {Nothing}] /\ store \in [Inputs -> 0..MaxClock \cup {Nothing}]
    BY <2>1, <2>4
  <2>6. call \in [of : Inputs, stage : {"attempt", "answered", "served", "refused", "over budget", "failed"}] \cup {Nothing}
    BY DEF CallTyped, Stages
  <2>7. attempt \in Nat /\ used \in [Dimension -> Nat]
    BY DEF ContractsInv, BudgetHolds
  <2> QED BY <2>3, <2>5, <2>6, <2>7 DEF ToolContractsTypeOK
<1> QED BY <1>1, <1>2, CallNext, ContractsStart, ContractsNext, PTL DEF ToolContractsSpec

------------------------------------------------------------------------------
(* The run, its worker and the lengths of what the operator's requests     *)
(* leave.                                                                  *)
RunTyped ==
  /\ run \in [state : RunState, failed : BOOLEAN] /\ worker \in {"new", "working", "ended"}
  /\ steps \in Seq({"passed", "error", "blocking"}) /\ Len(steps) <= MaxSteps
ListsShort == Len(requests) <= MaxRequests /\ Len(pending) <= MaxPending /\ Len(audit) <= MaxAudit

(* A bounded list is no longer for what is added at its end.               *)
LEMMA LatterShort ==
  ASSUME NEW S, NEW s \in Seq(S), NEW e \in S, NEW size \in Nat \ {0}, Len(s) <= size
  PROVE  Len(Latter(Append(s, e), size)) <= size
<1>1. Append(s, e) \in Seq(S) /\ Len(Append(s, e)) = Len(s) + 1 /\ Len(s) \in Nat /\ Append(s, e) # <<>>
  OBVIOUS
<1>2. Len(Tail(Append(s, e))) = Len(s)
  BY <1>1
<1> QED BY <1>1, <1>2 DEF Latter

(* A run keeps to its states, whoever writes them.                         *)
LEMMA RunNext ==
  ASSUME RunTyped, [OperatorApiNext]_operatorVars
  PROVE  RunTyped'
<1>0. /\ run \in [state : RunState, failed : BOOLEAN] /\ worker \in {"new", "working", "ended"}
      /\ steps \in Seq({"passed", "error", "blocking"}) /\ Len(steps) <= MaxSteps /\ MaxSteps \in Nat
  BY OperatorApiAssumption DEF RunTyped
<1>1. ASSUME UNCHANGED <<run, worker, steps>> PROVE RunTyped'
  BY <1>1 DEF RunTyped
<1>2. ASSUME NEW action \in OperatorAction, Handle(action) PROVE RunTyped'
  BY <1>1, <1>2 DEF Handle
<1>3. ASSUME NEW r \in DOMAIN requests, Enqueue(r) PROVE RunTyped'
  <2>1. \A action \in {"cancel", "rerun"} : Writes[action] \in [state : RunState, failed : BOOLEAN]
    <3>1. Writes["cancel"] = [state |-> "failed", failed |-> TRUE]
      BY DEF Writes
    <3>2. Writes["rerun"] = [state |-> "running", failed |-> FALSE]
      BY DEF Writes
    <3>3. [state |-> "failed", failed |-> TRUE] \in [state : RunState, failed : BOOLEAN]
      BY DEF RunState
    <3>4. [state |-> "running", failed |-> FALSE] \in [state : RunState, failed : BOOLEAN]
      BY DEF RunState
    <3>5. Writes["cancel"] \in [state : RunState, failed : BOOLEAN]
      BY <3>1, <3>3
    <3>6. Writes["rerun"] \in [state : RunState, failed : BOOLEAN]
      BY <3>2, <3>4
    <3> QED BY <3>5, <3>6
  <2>2. DOMAIN Writes = {"cancel", "rerun"}
    BY DEF Writes
  <2>3. run' = IF requests[r].action \in DOMAIN Writes THEN Writes[requests[r].action] ELSE run
    BY <1>3 DEF Enqueue
  <2>4. run' \in [state : RunState, failed : BOOLEAN] /\ UNCHANGED <<worker, steps>>
    BY <1>0, <1>3, <2>1, <2>2, <2>3 DEF Enqueue
  <2> QED BY <1>0, <2>4 DEF RunTyped
<1>4. ASSUME NEW r \in DOMAIN requests, Recorded(r) PROVE RunTyped'
  BY <1>1, <1>4 DEF Recorded
<1>5. CASE TurnedAway \/ NotFound \/ DrainCommands
  BY <1>1, <1>5 DEF TurnedAway, NotFound, DrainCommands
<1>6. CASE WorkerStarts
  <2>1. run' \in [state : RunState, failed : BOOLEAN] /\ worker' = "working" /\ UNCHANGED steps
    BY <1>0, <1>6 DEF WorkerStarts, RunState
  <2> QED BY <1>0, <2>1 DEF RunTyped
<1>7. CASE StepEvent
  <2>1. PICK how \in {"passed", "error", "blocking"} : steps' = Append(steps, how)
    BY <1>7 DEF StepEvent
  <2>2. steps' \in Seq({"passed", "error", "blocking"}) /\ Len(steps') = Len(steps) + 1
    BY <1>0, <2>1
  <2>3. Len(steps) < MaxSteps /\ UNCHANGED <<run, worker>>
    BY <1>7 DEF StepEvent
  <2>4. Len(steps') <= MaxSteps
    BY <1>0, <2>2, <2>3
  <2> QED BY <1>0, <2>2, <2>3, <2>4 DEF RunTyped
<1>8. CASE WorkerEnds
  <2>1. run' \in [state : RunState, failed : BOOLEAN] /\ worker' = "ended" /\ UNCHANGED steps
    BY <1>8 DEF WorkerEnds, RunState
  <2> QED BY <1>0, <2>1 DEF RunTyped
<1>9. CASE UNCHANGED operatorVars
  BY <1>1, <1>9 DEF operatorVars
<1> QED BY <1>2, <1>3, <1>4, <1>5, <1>6, <1>7, <1>8, <1>9 DEF OperatorApiNext

(* No list grows past its bound.                                           *)
LEMMA ListsNext ==
  ASSUME RecordInv, RecordInv', ListsShort, [OperatorApiNext]_operatorVars
  PROVE  ListsShort'
<1>0. /\ requests \in Seq(Request) /\ audit \in Seq(AuditEntry) /\ pending \in Seq(Nat)
      /\ MaxRequests \in Nat /\ MaxPending \in Nat \ {0} /\ MaxAudit \in Nat \ {0}
      /\ requests' \in Seq(Request) /\ Len(requests) \in Nat
      /\ Len(requests) <= MaxRequests /\ Len(pending) <= MaxPending /\ Len(audit) <= MaxAudit
  BY OperatorApiAssumption DEF RecordInv, ApiTyped, ListsShort
<1>1. ASSUME UNCHANGED <<requests, pending, audit>> PROVE ListsShort'
  BY <1>1 DEF ListsShort
<1>2. ASSUME NEW action, NEW at, Arrives(action, at), Len(requests) < MaxRequests PROVE Len(requests') <= MaxRequests
  <2>1. PICK request : requests' = Append(requests, request)
    BY <1>2 DEF Arrives
  <2>2. Len(requests') = Len(requests) + 1
    BY <1>0, <2>1
  <2> QED BY <1>0, <1>2, <2>2
<1>3. ASSUME NEW action \in OperatorAction, Handle(action) PROVE ListsShort'
  <2>1. Len(requests') <= MaxRequests
    BY <1>2, <1>3 DEF Handle
  <2> QED BY <1>0, <1>3, <2>1 DEF Handle, ListsShort
<1>4. ASSUME NEW r \in DOMAIN requests, Enqueue(r) PROVE ListsShort'
  <2>1. Len(requests') = Len(requests)
    BY <1>0, <1>4, SameLength DEF Enqueue
  <2>2. Len(pending') <= MaxPending
    <3>1. r \in Nat /\ pending' = Latter(Append(pending, r), MaxPending)
      BY <1>0, <1>4 DEF Enqueue
    <3> QED BY <1>0, <3>1, LatterShort
  <2> QED BY <1>0, <1>4, <2>1, <2>2 DEF Enqueue, ListsShort
<1>5. ASSUME NEW r \in DOMAIN requests, Recorded(r) PROVE ListsShort'
  <2>1. Len(requests') = Len(requests)
    BY <1>0, <1>5, SameLength DEF Recorded
  <2>2. Len(audit') <= MaxAudit
    <3>1. Entry(r) \in AuditEntry /\ audit' = Latter(Append(audit, Entry(r)), MaxAudit)
      BY <1>0, <1>5 DEF Recorded, Entry, AuditEntry
    <3> QED BY <1>0, <3>1, LatterShort
  <2> QED BY <1>0, <1>5, <2>1, <2>2 DEF Recorded, ListsShort
<1>6. CASE TurnedAway
  <2>1. Len(requests') <= MaxRequests
    BY <1>2, <1>6 DEF TurnedAway
  <2>2. Len(audit') <= MaxAudit
    <3>1. PICK e : e = [of |-> Len(requests'), result |-> "rejected"]
      OBVIOUS
    <3>2. e \in AuditEntry /\ audit' = Latter(Append(audit, e), MaxAudit)
      BY <1>0, <1>6, <3>1 DEF TurnedAway, AuditEntry
    <3> QED BY <1>0, <3>2, LatterShort
  <2> QED BY <1>0, <1>6, <2>1, <2>2 DEF TurnedAway, ListsShort
<1>7. CASE NotFound
  <2>1. Len(requests') <= MaxRequests
    BY <1>2, <1>7 DEF NotFound
  <2> QED BY <1>0, <1>7, <2>1 DEF NotFound, ListsShort
<1>8. CASE DrainCommands
  <2>1. pending' = <<>> /\ UNCHANGED <<requests, audit>>
    BY <1>8 DEF DrainCommands
  <2>2. Len(pending') <= MaxPending
    BY <1>0, <2>1
  <2> QED BY <1>0, <2>1, <2>2 DEF ListsShort
<1>9. CASE WorkerStarts \/ StepEvent \/ WorkerEnds
  BY <1>1, <1>9 DEF WorkerStarts, StepEvent, WorkerEnds
<1>10. CASE UNCHANGED operatorVars
  BY <1>1, <1>10 DEF operatorVars
<1> QED BY <1>3, <1>4, <1>5, <1>6, <1>7, <1>8, <1>9, <1>10 DEF OperatorApiNext

(* What the lists hold are places of requests.                             *)
LEMMA OperatorApiTyped == OperatorApiSpec => []OperatorApiTypeOK
<1>1. OperatorApiInit => RunTyped /\ ListsShort
  <2> SUFFICES ASSUME OperatorApiInit PROVE RunTyped /\ ListsShort
    OBVIOUS
  <2>1. /\ run = [state |-> "queued", failed |-> FALSE] /\ worker = "new" /\ steps = <<>>
        /\ requests = <<>> /\ pending = <<>> /\ audit = <<>>
        /\ MaxRequests \in Nat /\ MaxPending \in Nat /\ MaxAudit \in Nat /\ MaxSteps \in Nat
    BY OperatorApiAssumption DEF OperatorApiInit
  <2> QED BY <2>1 DEF RunTyped, ListsShort, RunState
<1>2. RecordInv /\ RunTyped /\ ListsShort => OperatorApiTypeOK
  <2> SUFFICES ASSUME RecordInv, RunTyped, ListsShort PROVE OperatorApiTypeOK
    OBVIOUS
  <2>0. /\ requests \in Seq(Request) /\ audit \in Seq(AuditEntry) /\ pending \in Seq(Nat) /\ commands \in Seq(Nat)
        /\ \A k \in DOMAIN commands : commands[k] \in DOMAIN requests
        /\ \A i \in DOMAIN audit : audit[i].of \in DOMAIN requests
    BY DEF RecordInv, ApiTyped, CommandsFit, AuditFits
  <2>1. commands \in Seq(DOMAIN requests)
    BY <2>0, Narrower
  <2>2. \A i \in DOMAIN audit : audit[i] \in [of : DOMAIN requests, result : {"ok", "rejected"}]
    <3> SUFFICES ASSUME NEW i \in DOMAIN audit PROVE audit[i] \in [of : DOMAIN requests, result : {"ok", "rejected"}]
      OBVIOUS
    <3> PICK entry : entry = audit[i]
      OBVIOUS
    <3>1. entry \in AuditEntry
      BY <2>0
    <3> QED BY <2>0, <3>1 DEF AuditEntry
  <2>3. audit \in Seq([of : DOMAIN requests, result : {"ok", "rejected"}])
    BY <2>0, <2>2, Narrower
  <2>4. pending \in Seq(DOMAIN requests)
    <3>1. IsSuffix(pending, commands)
      BY <2>0, SuffixOf DEF RecordInv
    <3>2. EndsLike(pending, commands)
      BY DEF RecordInv
    <3> PICK m, n : m = Len(pending) /\ n = Len(commands)
      OBVIOUS
    <3>3. m \in Nat /\ n \in Nat /\ m <= n /\ \A i \in Nat : i < m => pending[m - i] = commands[n - i]
      BY <2>0, <3>2 DEF EndsLike
    <3>4. ASSUME NEW j \in 1..m PROVE pending[j] \in DOMAIN requests
      <4> PICK k : k = n - (m - j)
        OBVIOUS
      <4>1. m - j \in Nat /\ m - j < m /\ m - (m - j) = j /\ k \in 1..n
        BY <3>3
      <4>2. pending[j] = commands[k]
        BY <3>3, <4>1
      <4>3. k \in DOMAIN commands
        BY <2>0, <4>1
      <4>4. commands[k] \in DOMAIN requests
        BY <2>0, <4>3
      <4> QED BY <4>2, <4>4
    <3>5. DOMAIN pending = 1..m
      BY <2>0
    <3> QED BY <2>0, <3>4, <3>5, Narrower
  <2>5. requests \in Seq([action : OperatorAction \cup {"any"}, at : {"guarded", "queued"} \cup Answer])
    BY <2>0 DEF Request
  <2> QED BY <2>1, <2>3, <2>4, <2>5 DEF OperatorApiTypeOK, RunTyped, ListsShort
<1>3. RunTyped /\ [OperatorApiNext]_operatorVars => RunTyped'
  BY RunNext
<1>4. RecordInv /\ RecordInv' /\ ListsShort /\ [OperatorApiNext]_operatorVars => ListsShort'
  BY ListsNext
<1> QED BY <1>1, <1>2, <1>3, <1>4, RecordStart, RecordNext, PTL DEF OperatorApiSpec

------------------------------------------------------------------------------
(* Each part goes its way in the composition, while the others rest.       *)
LEMMA EachGoesItsWay ==
  Spec => /\ DispatchSpec /\ StoreSpec /\ PythonWorkerSpec /\ ToolContractsSpec /\ OperatorApiSpec
          /\ MemorySpec /\ RollbackSpec /\ RunViewsSpec /\ ToolServerSpec
<1>1. Init => /\ DispatchInit /\ StoreInit /\ PythonWorkerInit /\ ToolContractsInit /\ OperatorApiInit
              /\ MemoryInit /\ RollbackInit /\ RunViewsInit /\ ToolServerInit
  BY DEF Init
<1>2. ASSUME [Next]_runtime
      PROVE  /\ [DispatchNext]_dispatchVars /\ [StoreNext]_storeVars /\ [PythonWorkerNext]_workerVars
             /\ [ToolContractsNext]_toolVars /\ [OperatorApiNext]_operatorVars
             /\ [MemoryNext]_memoryVars /\ [RollbackNext]_rollbackVars
             /\ [RunViewsNext]_viewVars /\ [ToolServerNext]_toolServerVars
  BY <1>2 DEF Next, runtime
<1> QED BY <1>1, <1>2, PTL DEF Spec, DispatchSpec, StoreSpec, PythonWorkerSpec, ToolContractsSpec, OperatorApiSpec,
          MemorySpec, RollbackSpec, RunViewsSpec, ToolServerSpec

(* Whatever part of the runtime moves, its state is well typed: receipts,  *)
(* log, tasks, calls, requests, memory, plan, views and tuples             *)
(* (yool/receipts.py, yool/events.py, native/python_worker.py,             *)
(* yool/contracts.py, api/routes/operator.py, api/control_plane.py).       *)
THEOREM RuntimeTypeOKKept == Spec => []TypeOK
<1>1. StoreSpec => []StoreTypeOK
  <2>1. StoreInv => StoreTypeOK
    BY DEF StoreInv
  <2> QED BY <2>1, StoreStart, StoreStep, PTL DEF StoreSpec
<1>2. /\ DispatchTypeOK /\ StoreTypeOK /\ PythonWorkerTypeOK /\ ToolContractsTypeOK /\ OperatorApiTypeOK
      /\ MemoryTypeOK /\ RollbackTypeOK /\ RunViewsTypeOK /\ ToolServerTypeOK
      => TypeOK
  BY DEF TypeOK
<1> QED BY <1>1, <1>2, EachGoesItsWay, DispatchTypeOKKept, PythonWorkerTyped, ToolContractsTyped, OperatorApiTyped,
          MemoryTypeOKKept, RollbackTypeOKKept, RunViewsTypeOKKept, ToolServerTypeOKKept, PTL
================================================================================
