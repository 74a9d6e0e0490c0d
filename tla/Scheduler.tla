------------------------------- MODULE Scheduler -------------------------------
(***************************************************************************)
(* ParallelIssueScheduler of src/sendsprint/scheduler.py: a list of tasks, *)
(* a bound on those that run, taken from the resources of the host at each *)
(* call, and assign_next, which starts as many as fit.                     *)
(***************************************************************************)
EXTENDS Integers, Sequences, FiniteSets

CONSTANTS
  Tasks,      \* issue and repository of a task
  Supported,  \* tasks whose capability some provider has
  Hosts,      \* snapshots of the host
  Policy,     \* AgentFanoutPolicy
  Unknown,    \* no telemetry of the idle share of the CPU
  MaxTasks    \* bound on enqueued tasks

HostResourceSnapshot == [cpus : Nat \ {0}, memory : Nat, idle : 0..100 \cup {Unknown}]
AgentFanoutPolicy ==
  [requested : Nat \ {0}, agents : Nat \ {0}, reserveCpus : Nat, reserveMemory : Nat,
   perAgent : Nat \ {0}, minIdle : 0..100]

ASSUME SchedulerAssumption ==
  /\ Supported \subseteq Tasks
  /\ Hosts \subseteq HostResourceSnapshot
  /\ Policy \in AgentFanoutPolicy
  /\ Unknown \notin 0..100
  /\ MaxTasks \in Nat

VARIABLES
  tasks,  \* in the order of enqueue
  host    \* what HostResourceSnapshot.current finds

schedulerVars == <<tasks, host>>

SchedulerTypeOK ==
  /\ tasks \in Seq([key : Tasks, status : {"pending", "running", "blocked"}])
  /\ host \in Hosts

SchedulerInit == tasks = <<>> /\ host \in Hosts

------------------------------------------------------------------------------
Least(S) == CHOOSE x \in S : \A y \in S : x <= y
AtLeastOne(n) == IF n < 1 THEN 1 ELSE n

CpuSlots(h) ==
  LET free == AtLeastOne(h.cpus - Policy.reserveCpus)
  IN IF h.idle = Unknown THEN free ELSE Least({free, AtLeastOne((h.cpus * h.idle) \div 100)})

(* No memory means no telemetry.                                           *)
MemorySlots(h) ==
  IF h.memory = 0 THEN Policy.agents
  ELSE AtLeastOne((h.memory - Policy.reserveMemory) \div Policy.perAgent)

Busy(h) == h.idle # Unknown /\ h.idle < Policy.minIdle

(* decision_for(...).allowed_agents                                        *)
LimitFor(h) ==
  IF Busy(h) THEN 1
  ELSE AtLeastOne(Least({Policy.requested, Policy.agents, CpuSlots(h), MemorySlots(h)}))

------------------------------------------------------------------------------
With(status) == {n \in DOMAIN tasks : tasks[n].status = status}
Running == Cardinality(With("running"))

(* Mutant of Capacity: a negative slice starts all but the last tasks.     *)
CapacitySliced ==
  LET free == LimitFor(host) - Running
      ready == Cardinality(With("pending"))
  IN IF free >= 0 THEN free ELSE IF ready + free > 0 THEN ready + free ELSE 0

Capacity == LET free == LimitFor(host) - Running IN IF free > 0 THEN free ELSE 0

(* The first pending tasks, as many as fit.                                *)
Dispatchable ==
  {n \in With("pending") : Cardinality({m \in With("pending") : m <= n}) <= Capacity}

(* _replace puts the task in the place of all that have its key.           *)
Outcome(key) == IF key \in Supported THEN "running" ELSE "blocked"

Replaced == {n \in DOMAIN tasks : \E m \in Dispatchable : tasks[m].key = tasks[n].key}

AssignNext ==
  /\ Dispatchable # {}
  /\ tasks' = [n \in DOMAIN tasks |->
       IF n \in Replaced THEN [key |-> tasks[n].key, status |-> Outcome(tasks[n].key)] ELSE tasks[n]]
  /\ UNCHANGED host

Enqueue(key) ==
  /\ Len(tasks) < MaxTasks
  /\ tasks' = Append(tasks, [key |-> key, status |-> "pending"])
  /\ UNCHANGED host

(* The load of the host changes between two calls.                         *)
HostChanges ==
  /\ host' \in Hosts \ {host}
  /\ UNCHANGED tasks

SchedulerNext == AssignNext \/ HostChanges \/ \E key \in Tasks : Enqueue(key)

SchedulerSpec == SchedulerInit /\ [][SchedulerNext]_schedulerVars

------------------------------------------------------------------------------
Distinct == \A n, m \in DOMAIN tasks : tasks[n].key = tasks[m].key => n = m

(* Starting tasks never takes the number that run above what the host      *)
(* bears at that moment, also after the bound has fallen below what runs,  *)
(* as long as no task was enqueued twice.                                  *)
StartsWithinLimit ==
  [][Distinct /\ Running' > Running => Running' <= LimitFor(host)]_schedulerVars
===============================================================================
