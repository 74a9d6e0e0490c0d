-------------------------- MODULE Coordination_proofs --------------------------
(***************************************************************************)
(* What several actors share, for any number of them: who may claim what,  *)
(* which locks exclude each other, how often a command is carried out,     *)
(* what the status of a run says in the end, and how many tasks start.     *)
(***************************************************************************)
EXTENDS MCCoordination, Subsequences_proofs, FiniteSetTheorems

AssignmentsTyped == assignments \in Seq(Assignment)

(* The action of OnlyRevivalContests.                                      *)
NoNewContest ==
  \A n, m \in DOMAIN assignments' :
    Contested(n, m)' =>
      \/ n \in DOMAIN assignments /\ m \in DOMAIN assignments /\ Contested(n, m)
      \/ \E k \in {n, m} \cap DOMAIN assignments : ~Active(assignments[k])

(* A change of status changes nothing else (control_plane.py:70-85).       *)
LEMMA StatusOnly ==
  ASSUME NEW a \in Assignment, NEW next \in WorkerStatus
  PROVE  /\ WithStatus(a, next) \in Assignment
         /\ WithStatus(a, next).issue = a.issue
         /\ WithStatus(a, next).tree = a.tree
  BY DEF WithStatus, Assignment

(* The table starts empty (control_plane.py:41).                           *)
LEMMA TypedInit == OwnershipInit => AssignmentsTyped
  BY DEF OwnershipInit, AssignmentsTyped

(* Every call leaves a list of assignments.                                *)
LEMMA TypedNext == AssignmentsTyped /\ [OwnershipNext]_ownershipVars => AssignmentsTyped'
<1> SUFFICES ASSUME AssignmentsTyped, [OwnershipNext]_ownershipVars
             PROVE  AssignmentsTyped'
  OBVIOUS
<1>1. ASSUME NEW w \in Agents, NEW i \in Issues, NEW t \in Trees, Claim(w, i, t)
      PROVE  AssignmentsTyped'
  BY <1>1 DEF Claim, AssignmentsTyped, Assignment, WorkerStatus
<1>2. ASSUME NEW w \in Agents, NEW next \in WorkerStatus, Update(w, next)
      PROVE  AssignmentsTyped'
  <2>1. \A n \in DOMAIN assignments : assignments[n] \in Assignment
    BY DEF AssignmentsTyped
  <2>2. \A n \in DOMAIN assignments : assignments'[n] \in Assignment
    BY <1>2, <2>1, StatusOnly DEF Update
  <2>3. assignments' \in [1..Len(assignments) -> Assignment] /\ Len(assignments) \in Nat
    BY <1>2, <2>2 DEF Update, AssignmentsTyped
  <2> QED
    BY <2>3 DEF AssignmentsTyped
<1>3. CASE LocksNext
  BY <1>3 DEF LocksNext, Acquire, ReleaseOwner, AssignmentsTyped
<1>4. CASE UNCHANGED ownershipVars
  BY <1>4 DEF ownershipVars, AssignmentsTyped
<1> QED
  BY <1>1, <1>2, <1>3, <1>4 DEF OwnershipNext, ClaimsNext

(* A claim is refused where it would contest (control_plane.py:48-58).     *)
LEMMA ClaimContestsNothing ==
  ASSUME AssignmentsTyped, NEW w \in Agents, NEW i \in Issues, NEW t \in Trees, Claim(w, i, t)
  PROVE  NoNewContest
<1> DEFINE new == [worker |-> w, issue |-> i, tree |-> t, status |-> "queued"]
           last == Len(assignments) + 1
<1>1. /\ DOMAIN assignments' = 1..last
      /\ DOMAIN assignments = 1..Len(assignments)
      /\ Len(assignments) \in Nat
      /\ assignments'[last] = new
      /\ \A k \in DOMAIN assignments : assignments'[k] = assignments[k]
  BY DEF AssignmentsTyped, Claim
<1>2. ASSUME NEW k \in DOMAIN assignments, Active(assignments[k])
      PROVE  assignments[k].issue # i /\ assignments[k].tree # t
  BY <1>2 DEF Claim, Clash
<1> SUFFICES ASSUME NEW n \in DOMAIN assignments', NEW m \in DOMAIN assignments', Contested(n, m)'
             PROVE  \/ n \in DOMAIN assignments /\ m \in DOMAIN assignments /\ Contested(n, m)
                    \/ \E k \in {n, m} \cap DOMAIN assignments : ~Active(assignments[k])
  BY DEF NoNewContest
<1>3. CASE n \in DOMAIN assignments /\ m \in DOMAIN assignments
  BY <1>1, <1>3 DEF Contested, Active
<1>4. CASE n = last /\ m \in DOMAIN assignments
  <2>1. Active(assignments[m]) /\ (assignments[m].issue = i \/ assignments[m].tree = t)
    BY <1>1, <1>4 DEF Contested, Active
  <2> QED
    BY <1>2, <1>4, <2>1
<1>5. CASE m = last /\ n \in DOMAIN assignments
  <2>1. Active(assignments[n]) /\ (assignments[n].issue = i \/ assignments[n].tree = t)
    BY <1>1, <1>5 DEF Contested, Active
  <2> QED
    BY <1>2, <1>5, <2>1
<1>6. CASE n = last /\ m = last
  BY <1>6 DEF Contested
<1> QED
  BY <1>1, <1>3, <1>4, <1>5, <1>6

(* An update contests only by waking what had ended.                       *)
LEMMA UpdateContestsRevived ==
  ASSUME AssignmentsTyped, NEW w \in Agents, NEW next \in WorkerStatus, Update(w, next)
  PROVE  NoNewContest
<1>1. /\ DOMAIN assignments' = DOMAIN assignments
      /\ \A k \in DOMAIN assignments :
           /\ assignments'[k].issue = assignments[k].issue
           /\ assignments'[k].tree = assignments[k].tree
  <2>1. \A n \in DOMAIN assignments : assignments[n] \in Assignment
    BY DEF AssignmentsTyped
  <2> QED
    BY <2>1, StatusOnly DEF Update
<1> QED
  BY <1>1 DEF NoNewContest, Contested

(* No call makes two agents active on one issue or worktree, except an     *)
(* update that wakes an assignment that had ended (control_plane.py:48,    *)
(* 61): for any number of agents, issues, worktrees and assignments.       *)
THEOREM OwnershipKept == OwnershipSpec => OnlyRevivalContests
<1>1. AssignmentsTyped /\ [OwnershipNext]_ownershipVars => [NoNewContest]_ownershipVars
  <2> SUFFICES ASSUME AssignmentsTyped, OwnershipNext
               PROVE  NoNewContest \/ UNCHANGED ownershipVars
    OBVIOUS
  <2>1. CASE ClaimsNext
    BY <2>1, ClaimContestsNothing, UpdateContestsRevived DEF ClaimsNext
  <2>2. CASE LocksNext
    BY <2>2 DEF LocksNext, Acquire, ReleaseOwner, NoNewContest, Contested, Active
  <2> QED
    BY <2>1, <2>2 DEF OwnershipNext
<1> QED
  BY <1>1, TypedInit, TypedNext, PTL DEF OwnershipSpec, OnlyRevivalContests, NoNewContest

------------------------------------------------------------------------------
(* Locks of two owners do not conflict; the order they came in is no part  *)
(* of it, for the test of a conflict looks at both sides.                  *)
LocksInv ==
  /\ locks \in Seq(Lock)
  /\ \A n, m \in DOMAIN locks :
       locks[n].owner # locks[m].owner => ~ConflictsWith(locks[n].scope, locks[m].scope)

(* A conflict is one for both (locks.py:20-37).                            *)
LEMMA ConflictsSymmetric ==
  ASSUME NEW a, NEW b, ConflictsWith(a, b)
  PROVE  ConflictsWith(b, a)
  BY DEF ConflictsWith, PatternsOverlap

(* No lock, no conflict (locks.py:44-45).                                  *)
LEMMA LocksInit == OwnershipInit => LocksInv
  BY DEF OwnershipInit, LocksInv

(* A lock is refused where it would conflict (locks.py:47-53).             *)
LEMMA AcquireKeeps ==
  ASSUME LocksInv, NEW owner \in Agents, NEW scope \in Scopes, Acquire(owner, scope)
  PROVE  LocksInv'
<1> PICK new : new = [owner |-> owner, scope |-> scope]
  OBVIOUS
<1>1. locks \in Seq(Lock) /\ new \in Lock /\ locks' = Append(locks, new)
  BY DEF LocksInv, Lock, Acquire
<1>2. /\ locks' \in Seq(Lock) /\ Len(locks) \in Nat
      /\ DOMAIN locks = 1..Len(locks) /\ DOMAIN locks' = 1..(Len(locks) + 1)
      /\ locks'[Len(locks) + 1] = new
      /\ \A k \in DOMAIN locks : locks'[k] = locks[k]
  BY <1>1
<1>3. \A k \in DOMAIN locks : locks[k].owner # owner =>
        ~ConflictsWith(locks[k].scope, scope) /\ ~ConflictsWith(scope, locks[k].scope)
  BY ConflictsSymmetric DEF Acquire
<1>4. ASSUME NEW n \in DOMAIN locks', NEW m \in DOMAIN locks', locks'[n].owner # locks'[m].owner
      PROVE  ~ConflictsWith(locks'[n].scope, locks'[m].scope)
  <2>1. CASE n \in DOMAIN locks /\ m \in DOMAIN locks
    BY <1>2, <1>4, <2>1 DEF LocksInv
  <2>2. CASE n = Len(locks) + 1 /\ m \in DOMAIN locks
    BY <1>2, <1>3, <1>4, <2>2
  <2>3. CASE m = Len(locks) + 1 /\ n \in DOMAIN locks
    BY <1>2, <1>3, <1>4, <2>3
  <2> QED BY <1>2, <1>4, <2>1, <2>2, <2>3
<1> QED BY <1>2, <1>4 DEF LocksInv

(* What is left when an owner lets go was there before (locks.py:55-56).   *)
LEMMA ReleaseKeeps ==
  ASSUME LocksInv, NEW owner \in Agents, ReleaseOwner(owner)
  PROVE  LocksInv'
<1>1. PICK K : locks' = Picked(locks, K)
  BY DEF ReleaseOwner
<1>2. /\ locks' \in Seq(Lock)
      /\ \A j \in DOMAIN locks' : \E n \in DOMAIN locks : locks'[j] = locks[n]
  <2>1. locks \in Seq(Lock)
    BY DEF LocksInv
  <2> QED BY <1>1, <2>1, PickedElements
<1>3. ASSUME NEW n \in DOMAIN locks', NEW m \in DOMAIN locks', locks'[n].owner # locks'[m].owner
      PROVE  ~ConflictsWith(locks'[n].scope, locks'[m].scope)
  <2>1. PICK i \in DOMAIN locks : locks'[n] = locks[i]
    BY <1>2
  <2>2. PICK j \in DOMAIN locks : locks'[m] = locks[j]
    BY <1>2
  <2> QED BY <1>3, <2>1, <2>2 DEF LocksInv
<1> QED BY <1>2, <1>3 DEF LocksInv

(* No call of the registry makes a conflict.                               *)
LEMMA LocksNextKeeps == LocksInv /\ [OwnershipNext]_ownershipVars => LocksInv'
<1> SUFFICES ASSUME LocksInv, [OwnershipNext]_ownershipVars PROVE LocksInv'
  OBVIOUS
<1>1. CASE LocksNext
  BY <1>1, AcquireKeeps, ReleaseKeeps DEF LocksNext
<1>2. CASE UNCHANGED locks
  BY <1>2 DEF LocksInv
<1> QED BY <1>1, <1>2 DEF OwnershipNext, ClaimsNext, Claim, Update, ownershipVars

(* Locks that do not conflict cover nothing in common, as patterns nest.   *)
LEMMA NoConflictApart == LocksInv => LocksApart
<1> SUFFICES ASSUME LocksInv, Nested, NEW n \in DOMAIN locks, NEW m \in DOMAIN locks,
                    locks[n].owner # locks[m].owner, locks[n].scope.repo = locks[m].scope.repo,
                    locks[n].scope.kind = "files"
             PROVE  LET a == locks[n].scope
                        b == locks[m].scope
                    IN /\ b.kind = "files" => Covered(a.patterns) \cap Covered(b.patterns) = {}
                       /\ b.kind # "files" => \A p \in a.patterns : <<b.key, p>> \notin Matches
  BY DEF LocksApart
<1>0. locks[n] \in Lock /\ locks[m] \in Lock
  BY DEF LocksInv
<1> PICK a, b \in Scopes : a = locks[n].scope /\ b = locks[m].scope
  BY <1>0 DEF Lock
<1>1. ~ConflictsWith(a, b) /\ a.repo = b.repo /\ a.kind = "files"
  BY DEF LocksInv
<1>2. ASSUME b.kind = "files", NEW s \in Covered(a.patterns) \cap Covered(b.patterns)
      PROVE  FALSE
  <2>1. PICK p \in a.patterns, q \in b.patterns : s \in Covered({p}) \cap Covered({q})
    BY <1>2 DEF Covered
  <2>2. PatternsOverlap({p}, {q})
    BY <2>1 DEF Nested
  <2>3. PatternsOverlap(a.patterns, b.patterns)
    BY <2>1, <2>2 DEF PatternsOverlap
  <2> QED BY <1>1, <1>2, <2>3 DEF ConflictsWith
<1>3. b.kind # "files" => \A p \in a.patterns : <<b.key, p>> \notin Matches
  BY <1>1 DEF ConflictsWith
<1> QED BY <1>2, <1>3

(* For any owners, scopes and patterns that nest: file locks of two owners *)
(* never cover the same file, nor what the other has locked by its name,   *)
(* in whatever order they were taken and let go (locks.py:47-56).          *)
THEOREM LocksKept == OwnershipSpec => []LocksApart
  BY LocksInit, LocksNextKeeps, NoConflictApart, PTL DEF OwnershipSpec

------------------------------------------------------------------------------
(* A command that is not in the queue was never carried out, because its   *)
(* entry is never removed; without this a new entry might start at one.    *)
QueueInv ==
  /\ DOMAIN commands \subseteq Commands
  /\ effects \in [Commands -> Nat]
  /\ \A c \in Commands \ DOMAIN commands : effects[c] = 0
  /\ CarriedOutOnce

(* The queue starts empty (command_queue.py:93-97).                        *)
LEMMA QueueInvInit == QueueInit => QueueInv
  BY DEF QueueInit, QueueInv, CarriedOutOnce

(* A new status of one command leaves the others as they were.             *)
LEMMA PutOne ==
  ASSUME NEW c, NEW next, Put(c, next)
  PROVE  /\ DOMAIN commands' = DOMAIN commands \cup {c}
         /\ commands'[c] = next
         /\ \A x \in DOMAIN commands \ {c} : commands'[x] = commands[x]
  BY DEF Put

(* A step between statuses that say the same of the effect keeps it.       *)
LEMMA PutKeeps ==
  ASSUME QueueInv, NEW c \in DOMAIN commands, NEW next, Put(c, next), UNCHANGED effects,
         commands[c] \in {"accepted", "applied", "failed"} <=>
           next \in {"accepted", "applied", "failed"}
  PROVE  QueueInv'
<1>1. DOMAIN commands' = DOMAIN commands
  BY PutOne
<1>2. effects' \in [Commands -> Nat] /\ \A x \in Commands \ DOMAIN commands' : effects'[x] = 0
  BY <1>1 DEF QueueInv
<1>3. CarriedOutOnce'
  <2> SUFFICES ASSUME NEW x \in DOMAIN commands
               PROVE  effects[x] <= 1 /\ (effects[x] = 1 <=> commands'[x] \in {"accepted", "applied", "failed"})
    BY <1>1 DEF CarriedOutOnce
  <2>1. effects[x] <= 1 /\ (effects[x] = 1 <=> commands[x] \in {"accepted", "applied", "failed"})
    BY DEF QueueInv, CarriedOutOnce
  <2>2. commands'[x] = IF x = c THEN next ELSE commands[x]
    BY DEF Put
  <2> QED
    BY <2>1, <2>2
<1> QED
  BY <1>1, <1>2, <1>3 DEF QueueInv

(* Every call keeps the invariant, whatever a worker was given and however *)
(* late it decides.                                                        *)
LEMMA QueueInvNext == QueueInv /\ [QueueNext]_queueVars => QueueInv'
<1> SUFFICES ASSUME QueueInv, [QueueNext]_queueVars
             PROVE  QueueInv'
  OBVIOUS
<1>1. ASSUME NEW c \in Commands, EnqueueCommand(c)
      PROVE  QueueInv'
  <2>1. c \notin DOMAIN commands /\ Put(c, "queued") /\ UNCHANGED effects
    BY <1>1 DEF EnqueueCommand
  <2>2. /\ DOMAIN commands' = DOMAIN commands \cup {c}
        /\ commands'[c] = "queued"
        /\ \A x \in DOMAIN commands \ {c} : commands'[x] = commands[x]
    BY <2>1, PutOne
  <2>3. effects'[c] = 0
    BY <2>1 DEF QueueInv
  <2>4. CarriedOutOnce'
    <3> SUFFICES ASSUME NEW x \in DOMAIN commands'
                 PROVE  /\ effects'[x] <= 1
                        /\ effects'[x] = 1 <=> commands'[x] \in {"accepted", "applied", "failed"}
      BY DEF CarriedOutOnce
    <3>1. CASE x = c
      BY <2>2, <2>3, <3>1
    <3>2. CASE x # c
      BY <2>1, <2>2, <3>2 DEF QueueInv, CarriedOutOnce
    <3> QED
      BY <3>1, <3>2
  <2> QED
    BY <2>1, <2>2, <2>4 DEF QueueInv
<1>2. ASSUME NEW r \in Runners, PollCommands(r) \/ TooLate(r)
      PROVE  QueueInv'
  BY <1>2 DEF PollCommands, TooLate, QueueInv, CarriedOutOnce
<1>3. ASSUME NEW r \in Runners, Accept(r)
      PROVE  QueueInv'
  <2> DEFINE c == Head(batch[r])
  <2>1. /\ c \in DOMAIN commands /\ commands[c] = "queued"
        /\ Put(c, "accepted")
        /\ effects' = [effects EXCEPT ![c] = @ + 1]
    BY <1>3 DEF Accept, Has
  <2>2. c \in Commands /\ effects[c] = 0
    BY <2>1 DEF QueueInv, CarriedOutOnce
  <2> HIDE DEF c
  <2>3. effects' \in [Commands -> Nat] /\ effects'[c] = 1
        /\ \A x \in Commands \ {c} : effects'[x] = effects[x]
    BY <2>1, <2>2 DEF QueueInv
  <2>4. /\ DOMAIN commands' = DOMAIN commands
        /\ commands'[c] = "accepted"
        /\ \A x \in DOMAIN commands \ {c} : commands'[x] = commands[x]
    BY <2>1, PutOne
  <2>5. CarriedOutOnce'
    <3> SUFFICES ASSUME NEW x \in DOMAIN commands
                 PROVE  /\ effects'[x] <= 1
                        /\ effects'[x] = 1 <=> commands'[x] \in {"accepted", "applied", "failed"}
      BY <2>4 DEF CarriedOutOnce
    <3>1. CASE x = c
      BY <2>3, <2>4, <3>1
    <3>2. CASE x # c
      BY <2>3, <2>4, <3>2 DEF QueueInv, CarriedOutOnce
    <3> QED
      BY <3>1, <3>2
  <2>6. DOMAIN commands' \subseteq Commands /\ effects' \in [Commands -> Nat]
    BY <2>3, <2>4 DEF QueueInv
  <2>7. ASSUME NEW x \in Commands \ DOMAIN commands'
        PROVE  effects'[x] = 0
    BY <2>1, <2>3, <2>4 DEF QueueInv
  <2> QED
    BY <2>5, <2>6, <2>7 DEF QueueInv
<1>4. ASSUME NEW r \in Runners, RejectCommand(r)
      PROVE  QueueInv'
  <2> DEFINE c == Head(batch[r])
  <2>1. c \in DOMAIN commands /\ commands[c] = "queued" /\ Put(c, "rejected") /\ UNCHANGED effects
    BY <1>4 DEF RejectCommand, Has
  <2> QED
    BY <2>1, PutKeeps
<1>5. ASSUME NEW r \in Runners, Resolve(r)
      PROVE  QueueInv'
  <2>1. PICK c \in current[r], next \in {"applied", "failed"} :
          Has(c, "accepted") /\ Put(c, next) /\ UNCHANGED effects
    BY <1>5 DEF Resolve
  <2> QED
    BY <2>1, PutKeeps DEF Has
<1>6. CASE UNCHANGED queueVars
  BY <1>6 DEF queueVars, QueueInv, CarriedOutOnce
<1> QED
  BY <1>1, <1>2, <1>3, <1>4, <1>5, <1>6 DEF QueueNext, Decide

(* However often a command is sent, and whichever workers were given it,   *)
(* it is carried out once at most and never after it was rejected          *)
(* (command_queue.py:144, 165-192).                                        *)
THEOREM CarriedOutOnceKept == QueueSpec => []CarriedOutOnce
<1>1. QueueInv => CarriedOutOnce
  BY DEF QueueInv
<1> QED
  BY <1>1, QueueInvInit, QueueInvNext, PTL DEF QueueSpec

------------------------------------------------------------------------------
Status == [state : {"queued", "running"} \cup Final, failed : BOOLEAN]

(* How far a worker is, and what that says of its object and its report.   *)
WorkerFits(n) ==
  /\ n > Len(status) => pc[n] = "none"
  /\ bound[n] = 0 <=> pc[n] \in {"none", "queued"}
  /\ pc[n] \in {"none", "queued", "flow", "demo", "raised", "tellError"} => report[n] = "none"
  /\ pc[n] \in {"report", "flag", "tell"} => report[n] \in Final

(* What the object of a worker says, when no other worker writes to it.    *)
ObjectFinal(n) == Alone(n) /\ pc[n] \in {"flag", "tell", "tellError", "end"} => status[bound[n]].state \in Final

ObjectFits(n) ==
  Alone(n) /\ cancels = 0 =>
    /\ pc[n] \in {"flag", "tell"} => status[bound[n]].state = report[n]
    /\ pc[n] = "tell" => (status[bound[n]].failed <=> report[n] = "failed")
    /\ pc[n] = "tellError" => status[bound[n]] = [state |-> "failed", failed |-> TRUE]
    /\ pc[n] = "end" =>
         /\ report[n] # "none" => status[bound[n]].state = report[n]
         /\ status[bound[n]].failed <=> status[bound[n]].state = "failed"

(* The manager has told of a worker that ended, and of no other.           *)
Heard(at, event) == event.from = "manager" => at[event.run] = "end"

StreamsFit ==
  /\ \A k \in DOMAIN scheduled : Heard(pc, scheduled[k])
  /\ \A q \in DOMAIN queues : \A k \in DOMAIN queues[q] : Heard(pc, queues[q][k])
  /\ \A c \in Clients :
       /\ client[c].at = "waiting" => client[c].queue \in DOMAIN queues
       /\ client[c].at \in {"got", "closed"} => client[c].event \in Event /\ Heard(pc, client[c].event)

CancellerFits ==
  /\ canceller.at # "idle" => canceller.object \in Started
  /\ cancels = 0 => canceller.at = "idle"

(* The objects are only ever added to and written one at a time.           *)
Wrote(k, v) == status' = [status EXCEPT ![k] = v]

(* A write to an object leaves the registry and the others as they were.   *)
LEMMA Writing ==
  ASSUME ServerTypeOK, NEW k \in Started, NEW v \in Status, Wrote(k, v)
  PROVE  /\ status' \in Seq(Status) /\ Len(status') = Len(status) /\ Started' = Started
         /\ status'[k] = v
         /\ \A j \in Started \ {k} : status'[j] = status[j]
  <1>1. status \in Seq(Status) /\ Started = DOMAIN status
    BY DEF ServerTypeOK, Status, Started
  <1>2. status' = [status EXCEPT ![k] = v] /\ Started' = DOMAIN status'
    BY DEF Wrote, Started
  <1> QED BY <1>1, <1>2, Rewritten

(* The numbers of workers and objects.                                     *)
LEMMA Objects ==
  ASSUME ServerTypeOK
  PROVE  /\ Len(status) \in Nat /\ MaxStarts \in Nat /\ Len(status) <= MaxStarts
         /\ Started = 1..Len(status) /\ Started \subseteq Workers /\ Workers \subseteq Nat
         /\ \A n \in Workers : n <= Len(status) => n \in Started
         /\ \A n \in Started : status[n] \in Status
  <1>1. Len(status) \in Nat /\ DOMAIN status = 1..Len(status) /\ MaxStarts \in Nat /\ Len(status) <= MaxStarts
    BY ServerAssumption DEF ServerTypeOK
  <1>2. \A n \in DOMAIN status : status[n] \in Status
    <2>1. status \in Seq(Status)
      BY DEF ServerTypeOK, Status
    <2> QED BY <2>1
  <1> QED BY <1>1, <1>2 DEF Started, Workers

(* Types, action by action: a start (manager.py:40-56).                    *)
LEMMA StartTypes == ASSUME ServerTypeOK, StartRun PROVE ServerTypeOK'
  <1>1. status' \in Seq(Status) /\ Len(status') <= MaxStarts /\ Started \subseteq Started'
    <2>1. [state |-> "queued", failed |-> FALSE] \in Status
      BY DEF Status
    <2>2. status \in Seq(Status) /\ status' = Append(status, [state |-> "queued", failed |-> FALSE])
      BY DEF ServerTypeOK, Status, StartRun
    <2>3. Len(status') = Len(status) + 1 /\ status' \in Seq(Status) /\ DOMAIN status \subseteq DOMAIN status'
      BY <2>1, <2>2
    <2> QED BY <2>3, Objects DEF Started, StartRun
  <1>2. pc' \in [Workers -> {"none", "queued", "flow", "demo", "report", "flag", "tell",
                         "raised", "tellError", "end"}]
    BY DEF StartRun, Goto, ServerTypeOK
  <1> QED BY <1>1, <1>2 DEF StartRun, streams, ServerTypeOK, Status

(* The head of the worker (manager.py:58-66).                              *)
LEMMA BeginTypes == ASSUME ServerTypeOK, NEW n \in Workers, WorkerFits(n), Begin(n) PROVE ServerTypeOK'
  <1>1. Len(status) \in Started
    BY Objects DEF Begin, WorkerFits
  <1> PICK v : v = [status[Len(status)] EXCEPT !.state = "running"]
    OBVIOUS
  <1>2. v \in Status
    BY <1>1, Objects DEF Status
  <1>3. Wrote(Len(status), v)
    BY DEF Begin, Wrote
  <1>4. status' \in Seq(Status) /\ Len(status') = Len(status) /\ Started' = Started
    BY <1>1, <1>2, <1>3, Writing
  <1>5. bound' \in [Workers -> {0} \cup Started]
    BY <1>1 DEF Begin, ServerTypeOK
  <1>6. pc' \in [Workers -> {"none", "queued", "flow", "demo", "report", "flag", "tell",
                         "raised", "tellError", "end"}]
    BY DEF Begin, Goto, ServerTypeOK
  <1> QED BY <1>4, <1>5, <1>6 DEF Begin, streams, ServerTypeOK, Status

(* A step that writes no object, or the worker's own.                      *)
LEMMA MoveTypes ==
  ASSUME ServerTypeOK, NEW n \in Workers, status' \in Seq(Status), Len(status') = Len(status),
         Started' = Started, scheduled' \in Seq(Event), report' \in [Workers -> {"none", "done", "failed"}],
         NEW where \in {"flow", "demo", "report", "flag", "tell", "raised", "tellError", "end"},
         Goto(n, where), UNCHANGED <<bound, streams, canceller, cancels>>
  PROVE  ServerTypeOK'
  <1>1. pc' \in [Workers -> {"none", "queued", "flow", "demo", "report", "flag", "tell",
                         "raised", "tellError", "end"}]
    BY DEF Goto, ServerTypeOK
  <1> QED BY <1>1 DEF streams, ServerTypeOK, Status

(* Any step of a worker (manager.py:58-83, bridge.py).                     *)
LEMMA WorkTypes ==
  ASSUME ServerTypeOK, NEW n \in Workers, WorkerFits(n), Work(n)
  PROVE  ServerTypeOK'
  <1>0. status \in Seq(Status) /\ scheduled \in Seq(Event) /\ report \in [Workers -> {"none", "done", "failed"}]
    BY DEF ServerTypeOK, Status
  <1>e. \A from \in {"manager", "bridge"} : Append(scheduled, Ev(from, n)) \in Seq(Event)
    BY <1>0 DEF Ev, Event
  <1>b. pc[n] \notin {"none", "queued"} => bound[n] \in Started
    BY DEF WorkerFits, ServerTypeOK
  <1>1. CASE FlowReturns(n)
    <2>1. report' \in [Workers -> {"none", "done", "failed"}] /\ Goto(n, "report")
      BY <1>0, <1>1 DEF FlowReturns, Final
    <2> QED BY <1>0, <1>1, <2>1, MoveTypes DEF FlowReturns, Started
  <1>2. CASE FlowRaises(n)
    BY <1>0, <1>2, MoveTypes DEF FlowRaises, Started
  <1>3. CASE DemoReturns(n)
    <2>1. report' \in [Workers -> {"none", "done", "failed"}] /\ Goto(n, "report") /\ scheduled' \in Seq(Event)
      BY <1>0, <1>e, <1>3 DEF DemoReturns, PublishThreadsafe
    <2> QED BY <1>0, <1>3, <2>1, MoveTypes DEF DemoReturns, Started
  <1>4. CASE DemoRaises(n)
    BY <1>0, <1>4, MoveTypes DEF DemoRaises, Started
  <1>5. CASE WriteState(n)
    <2> PICK v : v = [status[bound[n]] EXCEPT !.state = report[n]]
      OBVIOUS
    <2>1. bound[n] \in Started /\ report[n] \in Final
      BY <1>b, <1>5 DEF WriteState, WorkerFits
    <2>2. v \in Status
      BY <2>1, Objects DEF Status
    <2>3. Wrote(bound[n], v)
      BY <1>5 DEF WriteState, Wrote
    <2>4. status' \in Seq(Status) /\ Len(status') = Len(status) /\ Started' = Started
      BY <2>1, <2>2, <2>3, Writing
    <2> QED BY <1>0, <1>5, <2>4, MoveTypes DEF WriteState
  <1>6. CASE WriteFailed(n)
    <2> PICK u \in BOOLEAN : u = (report[n] = "failed")
      OBVIOUS
    <2> PICK v : v = [status[bound[n]] EXCEPT !.failed = u]
      OBVIOUS
    <2>1. bound[n] \in Started
      BY <1>b, <1>6 DEF WriteFailed, WorkerFits
    <2>2. v \in Status
      BY <2>1, Objects DEF Status
    <2>3. Wrote(bound[n], v)
      BY <1>6 DEF WriteFailed, Wrote
    <2>4. status' \in Seq(Status) /\ Len(status') = Len(status) /\ Started' = Started
      BY <2>1, <2>2, <2>3, Writing
    <2> QED BY <1>0, <1>6, <2>4, MoveTypes DEF WriteFailed
  <1>7. CASE TellDone(n)
    BY <1>0, <1>e, <1>7, MoveTypes DEF TellDone, PublishThreadsafe, Started
  <1>8. CASE WriteRaised(n)
    <2> PICK v : v = [state |-> "failed", failed |-> TRUE]
      OBVIOUS
    <2>1. bound[n] \in Started /\ v \in Status /\ Wrote(bound[n], v)
      BY <1>b, <1>8 DEF WriteRaised, Wrote, Status, Final
    <2>2. status' \in Seq(Status) /\ Len(status') = Len(status) /\ Started' = Started
      BY <2>1, Writing
    <2> QED BY <1>0, <1>8, <2>2, MoveTypes DEF WriteRaised
  <1>9. CASE TellError(n)
    BY <1>0, <1>e, <1>9, MoveTypes DEF TellError, PublishThreadsafe, Started
  <1> QED BY <1>1, <1>2, <1>3, <1>4, <1>5, <1>6, <1>7, <1>8, <1>9, BeginTypes DEF Work

------------------------------------------------------------------------------
(* What is said of a worker that a step leaves alone, with its object.     *)
LEMMA Untouched ==
  ASSUME NEW m \in Workers, ObjectFinal(m), ObjectFits(m),
         pc'[m] = pc[m], bound'[m] = bound[m], report'[m] = report[m],
         cancels' = 0 => cancels = 0,
         Alone(m)' /\ pc[m] \in {"flag", "tell", "tellError", "end"} =>
           Alone(m) /\ status'[bound[m]] = status[bound[m]]
  PROVE  ObjectFinal(m)' /\ ObjectFits(m)'
  <1>1. ObjectFinal(m)'
    BY DEF ObjectFinal
  <1>2. ObjectFits(m)'
    BY DEF ObjectFits
  <1> QED BY <1>1, <1>2

(* A worker that a step leaves alone.                                      *)
LEMMA StillFits ==
  ASSUME NEW m \in Workers, WorkerFits(m), pc'[m] = pc[m], bound'[m] = bound[m], report'[m] = report[m],
         Len(status') = Len(status)
  PROVE  WorkerFits(m)'
  BY DEF WorkerFits

Quiet(n) == WorkerFits(n) /\ ObjectFinal(n) /\ ObjectFits(n)

(* A new object and a new worker.                                          *)
LEMMA StartFits ==
  ASSUME ServerTypeOK, StartRun, NEW m \in Workers, Quiet(m)
  PROVE  Quiet(m)'
  <1>1. /\ Len(status') = Len(status) + 1 /\ Len(status) \in Nat
        /\ \A j \in Started : status'[j] = status[j]
    <2>1. [state |-> "queued", failed |-> FALSE] \in Status
      BY DEF Status
    <2>2. status \in Seq(Status) /\ status' = Append(status, [state |-> "queued", failed |-> FALSE])
      BY DEF ServerTypeOK, Status, StartRun
    <2> QED BY <2>1, <2>2, Appended DEF Started
  <1>2. bound[m] \in {0} \cup Started /\ m \in Nat /\ Started = 1..Len(status)
    BY Objects DEF ServerTypeOK
  <1>3. /\ Len(status) + 1 \in Workers
        /\ pc' = [pc EXCEPT ![Len(status) + 1] = "queued"]
        /\ UNCHANGED <<bound, report, cancels>>
    BY Objects DEF StartRun, Goto, Workers
  <1>4. CASE m = Len(status) + 1
    <2>1. pc[m] = "none" /\ pc'[m] = "queued" /\ bound[m] = 0 /\ report[m] = "none"
      BY <1>1, <1>2, <1>3, <1>4 DEF Quiet, WorkerFits, ServerTypeOK
    <2> QED BY <1>1, <1>3, <1>4, <2>1 DEF Quiet, WorkerFits, ObjectFinal, ObjectFits
  <1>5. CASE m # Len(status) + 1
    <2>1. pc'[m] = pc[m]
      BY <1>3, <1>5 DEF ServerTypeOK
    <2>2. WorkerFits(m)'
      BY <1>1, <1>2, <1>3, <2>1 DEF Quiet, WorkerFits
    <2>3. Alone(m)' => Alone(m)
      BY <1>3 DEF Alone
    <2>4. pc[m] \in {"flag", "tell", "tellError", "end"} => status'[bound[m]] = status[bound[m]]
      BY <1>1, <1>2 DEF Quiet, WorkerFits
    <2>5. ObjectFinal(m)' /\ ObjectFits(m)'
      BY <1>3, <2>1, <2>3, <2>4, Untouched DEF Quiet
    <2> QED BY <2>2, <2>5 DEF Quiet
  <1> QED BY <1>4, <1>5

(* The worker that takes an object is not alone with it, nor is any other. *)
LEMMA BeginFits ==
  ASSUME ServerTypeOK, NEW n \in Workers, Begin(n), NEW m \in Workers, Quiet(n), Quiet(m)
  PROVE  Quiet(m)'
  <1>1. Len(status) \in Started /\ bound[n] = 0
    BY Objects DEF Begin, Quiet, WorkerFits
  <1> PICK v : v = [status[Len(status)] EXCEPT !.state = "running"]
    OBVIOUS
  <1>2. v \in Status
    BY <1>1, Objects DEF Status
  <1>3. Wrote(Len(status), v)
    BY DEF Begin, Wrote
  <1>4. Len(status') = Len(status) /\ \A j \in Started \ {Len(status)} : status'[j] = status[j]
    BY <1>1, <1>2, <1>3, Writing
  <1>5. bound' = [bound EXCEPT ![n] = Len(status)] /\ UNCHANGED <<report, cancels>>
    BY DEF Begin
  <1>6. bound'[n] = Len(status) /\ \A k \in Workers \ {n} : bound'[k] = bound[k]
    BY <1>5 DEF ServerTypeOK
  <1>7. pc[n] = "queued" /\ pc'[n] \in {"flow", "demo"} /\ \A k \in Workers \ {n} : pc'[k] = pc[k]
    BY DEF Begin, Goto, ServerTypeOK
  <1>8. CASE m = n
    <2>1. Len(status) # 0 /\ m <= Len(status)
      BY <1>1, <1>7, <1>8, Objects DEF Quiet, WorkerFits
    <2>2. WorkerFits(m)'
      BY <1>1, <1>4, <1>5, <1>6, <1>7, <1>8, <2>1, Objects DEF Quiet, WorkerFits
    <2> QED BY <1>7, <1>8, <2>2 DEF Quiet, ObjectFinal, ObjectFits
  <1>9. CASE m # n
    <2>1. pc'[m] = pc[m] /\ bound'[m] = bound[m] /\ report'[m] = report[m]
      BY <1>5, <1>6, <1>7, <1>9
    <2>2. WorkerFits(m)'
      BY <1>4, <2>1, StillFits DEF Quiet
    <2>3. ASSUME Alone(m)', pc[m] \in {"flag", "tell", "tellError", "end"}
          PROVE  Alone(m) /\ status'[bound[m]] = status[bound[m]]
      <3>1. bound[m] # 0 /\ bound[m] \in Started
        BY <2>3 DEF Quiet, WorkerFits, ServerTypeOK
      <3>2. bound[m] # Len(status)
        BY <1>6, <1>9, <2>1, <2>3 DEF Alone
      <3>3. \A k \in Workers \ {m} : bound[k] # bound[m]
        BY <1>1, <1>6, <2>1, <2>3, <3>1 DEF Alone
      <3> QED BY <1>4, <3>1, <3>2, <3>3 DEF Alone
    <2>4. ObjectFinal(m)' /\ ObjectFits(m)'
      BY <1>5, <2>1, <2>3, Untouched DEF Quiet
    <2> QED BY <2>2, <2>4 DEF Quiet
  <1> QED BY <1>8, <1>9

(* Another worker than the one that moves on, with its object.             *)
LEMMA OthersFit ==
  ASSUME ServerTypeOK, NEW n \in Workers, NEW m \in Workers \ {n}, Quiet(n), Quiet(m),
         NEW where, Goto(n, where), UNCHANGED <<bound, cancels>>,
         report'[m] = report[m], Len(status') = Len(status),
         \A j \in Started \ {bound[n]} : status'[j] = status[j]
  PROVE  Quiet(m)'
  <1>1. pc'[m] = pc[m] /\ bound'[m] = bound[m]
    BY DEF Goto, ServerTypeOK
  <1>2. WorkerFits(m)'
    BY <1>1, StillFits DEF Quiet
  <1>3. ASSUME Alone(m)', pc[m] \in {"flag", "tell", "tellError", "end"}
        PROVE  Alone(m) /\ status'[bound[m]] = status[bound[m]]
    <2>1. Alone(m)
      BY <1>3 DEF Alone
    <2>2. bound[m] # bound[n] /\ bound[m] \in Started
      BY <1>3, <2>1 DEF Alone, Quiet, WorkerFits, ServerTypeOK
    <2> QED BY <2>1, <2>2
  <1>4. ObjectFinal(m)' /\ ObjectFits(m)'
    BY <1>1, <1>3, Untouched DEF Quiet
  <1> QED BY <1>2, <1>4 DEF Quiet

(* The worker itself, action by action.                                    *)
LEMMA GoingOn ==
  ASSUME ServerTypeOK, NEW n \in Workers, NEW where, Goto(n, where), UNCHANGED bound
  PROVE  pc'[n] = where /\ bound'[n] = bound[n] /\ (Alone(n)' <=> Alone(n))
  BY DEF ServerTypeOK, Goto, Alone

(* The flow or the demo ends, or raises.                                   *)
LEMMA FlowFits ==
  ASSUME ServerTypeOK, NEW n \in Workers, Quiet(n), FlowReturns(n) \/ FlowRaises(n) \/ DemoReturns(n) \/ DemoRaises(n)
  PROVE  Quiet(n)'
  <1>1. /\ pc[n] \in {"flow", "demo"} /\ UNCHANGED <<status, bound, cancels>>
        /\ \/ pc'[n] = "report" /\ report'[n] \in Final
           \/ pc'[n] \in {"demo", "raised"} /\ report'[n] = report[n]
    <2>1. CASE FlowReturns(n)
      BY <2>1 DEF FlowReturns, Goto, ServerTypeOK
    <2>2. CASE FlowRaises(n)
      BY <2>2 DEF FlowRaises, Goto, ServerTypeOK
    <2>3. CASE DemoReturns(n)
      BY <2>3 DEF DemoReturns, Goto, ServerTypeOK, Final
    <2>4. CASE DemoRaises(n)
      BY <2>4 DEF DemoRaises, Goto, ServerTypeOK
    <2> QED BY <2>1, <2>2, <2>3, <2>4
  <1>2. WorkerFits(n)'
    BY <1>1 DEF Quiet, WorkerFits, Final
  <1> QED BY <1>1, <1>2 DEF Quiet, ObjectFinal, ObjectFits

(* The state is written; from here on it is final.                         *)
LEMMA WriteStateFits ==
  ASSUME ServerTypeOK, NEW n \in Workers, Quiet(n), WriteState(n)
  PROVE  /\ Quiet(n)' /\ Len(status') = Len(status)
         /\ \A j \in Started \ {bound[n]} : status'[j] = status[j]
  <1> PICK v : v = [status[bound[n]] EXCEPT !.state = report[n]]
    OBVIOUS
  <1>1. bound[n] \in Started /\ report[n] \in Final
    BY DEF WriteState, Quiet, WorkerFits, ServerTypeOK
  <1>2. v \in Status /\ v.state = report[n]
    BY <1>1, Objects DEF Status
  <1>3. Wrote(bound[n], v)
    BY DEF WriteState, Wrote
  <1>4. Len(status') = Len(status) /\ status'[bound[n]] = v /\ \A j \in Started \ {bound[n]} : status'[j] = status[j]
    BY <1>1, <1>2, <1>3, Writing
  <1>5. pc[n] = "report" /\ pc'[n] = "flag" /\ bound'[n] = bound[n] /\ report'[n] = report[n] /\ cancels' = cancels
    BY GoingOn DEF WriteState
  <1>6. WorkerFits(n)'
    BY <1>1, <1>4, <1>5 DEF Quiet, WorkerFits
  <1>7. ObjectFinal(n)' /\ ObjectFits(n)'
    BY <1>1, <1>2, <1>4, <1>5 DEF ObjectFinal, ObjectFits
  <1> QED BY <1>4, <1>6, <1>7 DEF Quiet

(* The flag is written after it.                                           *)
LEMMA WriteFailedFits ==
  ASSUME ServerTypeOK, NEW n \in Workers, Quiet(n), WriteFailed(n)
  PROVE  /\ Quiet(n)' /\ Len(status') = Len(status)
         /\ \A j \in Started \ {bound[n]} : status'[j] = status[j]
  <1> PICK u \in BOOLEAN : u = (report[n] = "failed")
    OBVIOUS
  <1> PICK v : v = [status[bound[n]] EXCEPT !.failed = u]
    OBVIOUS
  <1>1. bound[n] \in Started /\ report[n] \in Final
    BY DEF WriteFailed, Quiet, WorkerFits, ServerTypeOK
  <1>2. v \in Status /\ v.failed = u /\ v.state = status[bound[n]].state
    BY <1>1, Objects DEF Status
  <1>3. Wrote(bound[n], v)
    BY DEF WriteFailed, Wrote
  <1>4. Len(status') = Len(status) /\ status'[bound[n]] = v /\ \A j \in Started \ {bound[n]} : status'[j] = status[j]
    BY <1>1, <1>2, <1>3, Writing
  <1>5. /\ pc[n] = "flag" /\ pc'[n] = "tell" /\ bound'[n] = bound[n] /\ report'[n] = report[n] /\ cancels' = cancels
        /\ (Alone(n)' => Alone(n))
    BY GoingOn DEF WriteFailed
  <1>6. WorkerFits(n)'
    BY <1>1, <1>4, <1>5 DEF Quiet, WorkerFits
  <1>7. ObjectFinal(n)'
    BY <1>2, <1>4, <1>5 DEF Quiet, ObjectFinal
  <1>8. ObjectFits(n)'
    BY <1>2, <1>4, <1>5 DEF Quiet, ObjectFits
  <1> QED BY <1>4, <1>6, <1>7, <1>8 DEF Quiet

(* An exception is written as both.                                        *)
LEMMA WriteRaisedFits ==
  ASSUME ServerTypeOK, NEW n \in Workers, Quiet(n), WriteRaised(n)
  PROVE  /\ Quiet(n)' /\ Len(status') = Len(status)
         /\ \A j \in Started \ {bound[n]} : status'[j] = status[j]
  <1> PICK v : v = [state |-> "failed", failed |-> TRUE]
    OBVIOUS
  <1>1. bound[n] \in Started /\ report[n] = "none"
    BY DEF WriteRaised, Quiet, WorkerFits, ServerTypeOK
  <1>2. v \in Status /\ Wrote(bound[n], v)
    BY DEF WriteRaised, Wrote, Status, Final
  <1>4. Len(status') = Len(status) /\ status'[bound[n]] = v /\ \A j \in Started \ {bound[n]} : status'[j] = status[j]
    BY <1>1, <1>2, Writing
  <1>5. pc[n] = "raised" /\ pc'[n] = "tellError" /\ bound'[n] = bound[n] /\ report'[n] = report[n] /\ cancels' = cancels
    BY GoingOn DEF WriteRaised
  <1>6. WorkerFits(n)'
    BY <1>1, <1>4, <1>5 DEF Quiet, WorkerFits
  <1>7. ObjectFinal(n)' /\ ObjectFits(n)'
    BY <1>2, <1>4, <1>5 DEF ObjectFinal, ObjectFits, Final
  <1> QED BY <1>4, <1>6, <1>7 DEF Quiet

(* The end is told after both.                                             *)
LEMMA TellFits ==
  ASSUME ServerTypeOK, NEW n \in Workers, Quiet(n), TellDone(n) \/ TellError(n)
  PROVE  Quiet(n)'
  <1>1. /\ pc[n] \in {"tell", "tellError"} /\ pc'[n] = "end" /\ UNCHANGED <<status, bound, report, cancels>>
        /\ (Alone(n)' => Alone(n))
    BY GoingOn DEF TellDone, TellError
  <1>2. WorkerFits(n)' /\ ObjectFinal(n)'
    BY <1>1 DEF Quiet, WorkerFits, ObjectFinal
  <1>3. ASSUME Alone(n)', cancels' = 0, pc[n] = "tell"
        PROVE  /\ report[n] # "none" => status[bound[n]].state = report[n]
               /\ status[bound[n]].failed <=> status[bound[n]].state = "failed"
    <2>1. Alone(n) /\ cancels = 0
      BY <1>1, <1>3
    <2>2. status[bound[n]].state = report[n] /\ (status[bound[n]].failed <=> report[n] = "failed")
      BY <1>3, <2>1 DEF Quiet, ObjectFits
    <2> QED BY <2>2
  <1>4. ASSUME Alone(n)', cancels' = 0, pc[n] = "tellError"
        PROVE  /\ report[n] # "none" => status[bound[n]].state = report[n]
               /\ status[bound[n]].failed <=> status[bound[n]].state = "failed"
    <2>1. Alone(n) /\ cancels = 0 /\ report[n] = "none"
      BY <1>1, <1>4 DEF Quiet, WorkerFits
    <2>2. status[bound[n]] = [state |-> "failed", failed |-> TRUE]
      BY <1>4, <2>1 DEF Quiet, ObjectFits
    <2> QED BY <2>1, <2>2
  <1> QED BY <1>1, <1>2, <1>3, <1>4 DEF Quiet, ObjectFits

(* Whatever a worker does, what is said of every worker stays so.          *)
LEMMA WorkFits ==
  ASSUME ServerTypeOK, \A m \in Workers : Quiet(m), NEW n \in Workers, Work(n)
  PROVE  \A m \in Workers : Quiet(m)'
  <1> SUFFICES ASSUME NEW m \in Workers PROVE Quiet(m)'
    OBVIOUS
  <1>1. CASE Begin(n)
    BY <1>1, BeginFits
  <1>2. CASE ~Begin(n)
    <2>1. /\ UNCHANGED <<bound, cancels>> /\ \A k \in Workers \ {n} : report'[k] = report[k]
          /\ \E where : Goto(n, where)
      <3>1. CASE FlowReturns(n)
        BY <3>1 DEF FlowReturns, ServerTypeOK
      <3>2. CASE FlowRaises(n)
        BY <3>2 DEF FlowRaises
      <3>3. CASE DemoReturns(n)
        BY <3>3 DEF DemoReturns, ServerTypeOK
      <3>4. CASE DemoRaises(n)
        BY <3>4 DEF DemoRaises
      <3>5. CASE WriteState(n) \/ WriteFailed(n) \/ TellDone(n) \/ WriteRaised(n) \/ TellError(n)
        BY <3>5 DEF WriteState, WriteFailed, TellDone, WriteRaised, TellError
      <3> QED BY <1>2, <3>1, <3>2, <3>3, <3>4, <3>5 DEF Work
    <2>2. /\ Quiet(n)' /\ Len(status') = Len(status)
          /\ \A j \in Started \ {bound[n]} : status'[j] = status[j]
      <3>1. CASE FlowReturns(n) \/ FlowRaises(n) \/ DemoReturns(n) \/ DemoRaises(n)
        BY <3>1, FlowFits DEF FlowReturns, FlowRaises, DemoReturns, DemoRaises
      <3>2. CASE TellDone(n) \/ TellError(n)
        BY <3>2, TellFits DEF TellDone, TellError
      <3>3. CASE WriteState(n) \/ WriteFailed(n) \/ WriteRaised(n)
        BY <3>3, WriteStateFits, WriteFailedFits, WriteRaisedFits
      <3> QED BY <1>2, <3>1, <3>2, <3>3 DEF Work
    <2>3. CASE m = n
      BY <2>2, <2>3
    <2>4. CASE m # n
      BY <2>1, <2>2, <2>4, OthersFit
    <2> QED BY <2>3, <2>4
  <1> QED BY <1>1, <1>2

(* A cancel is in the way of the fields, not of the end.                   *)
LEMMA CancelFits ==
  ASSUME ServerTypeOK, CancellerFits, Cancel, NEW m \in Workers, Quiet(m)
  PROVE  Quiet(m)'
  <1>1. CASE CancelCheck
    BY <1>1 DEF CancelCheck, workers, Quiet, WorkerFits, ObjectFinal, ObjectFits, Alone, ServerTypeOK
  <1>2. CASE CancelState \/ CancelFlag
    <2>1. cancels # 0 /\ canceller.object \in Started /\ UNCHANGED <<pc, bound, report, cancels>>
      BY <1>2 DEF CancelState, CancelFlag, CancellerFits, workers
    <2>2. PICK v \in Status :
            /\ Wrote(canceller.object, v)
            /\ v.state = "failed" \/ v.state = status[canceller.object].state
      <3>1. CASE CancelState
        <4> PICK v : v = [status[canceller.object] EXCEPT !.state = "failed"]
          OBVIOUS
        <4>1. v \in Status /\ v.state = "failed"
          BY <2>1, Objects DEF Status, Final
        <4> QED BY <3>1, <4>1 DEF CancelState, Wrote
      <3>2. CASE CancelFlag
        <4> PICK v : v = [status[canceller.object] EXCEPT !.failed = TRUE]
          OBVIOUS
        <4>1. v \in Status /\ v.state = status[canceller.object].state
          BY <2>1, Objects DEF Status, Final
        <4> QED BY <3>2, <4>1 DEF CancelFlag, Wrote
      <3> QED BY <1>2, <3>1, <3>2
    <2>3. /\ Len(status') = Len(status) /\ status'[canceller.object] = v
          /\ \A j \in Started \ {canceller.object} : status'[j] = status[j]
      BY <2>1, <2>2, Writing
    <2>4. WorkerFits(m)'
      BY <2>1, <2>3, StillFits DEF Quiet
    <2>5. ObjectFinal(m)'
      <3> SUFFICES ASSUME Alone(m)', pc[m] \in {"flag", "tell", "tellError", "end"}
                   PROVE  status'[bound[m]].state \in Final
        BY <2>1 DEF ObjectFinal
      <3>1. Alone(m) /\ bound[m] \in Started
        BY <2>1 DEF Alone, Quiet, WorkerFits, ServerTypeOK
      <3>2. status[bound[m]].state \in Final
        BY <3>1 DEF Quiet, ObjectFinal
      <3> QED BY <2>2, <2>3, <3>1, <3>2 DEF Final
    <2>6. ObjectFits(m)'
      BY <2>1 DEF ObjectFits
    <2> QED BY <2>4, <2>5, <2>6 DEF Quiet
  <1> QED BY <1>1, <1>2 DEF Cancel

(* A cancel writes only to an object that there is.                        *)
LEMMA CancelTypes ==
  ASSUME ServerTypeOK, CancellerFits, Cancel
  PROVE  ServerTypeOK' /\ CancellerFits'
  <1>1. CASE CancelCheck
    BY <1>1, Objects, ServerAssumption DEF CancelCheck, workers, streams, ServerTypeOK, CancellerFits, Started
  <1>2. CASE CancelState
    <2>1. canceller.object \in Started /\ canceller \in [at : {"idle", "state", "flag"}, object : {0} \cup Started]
      BY <1>2 DEF CancelState, CancellerFits, ServerTypeOK
    <2> PICK v : v = [status[canceller.object] EXCEPT !.state = "failed"]
      OBVIOUS
    <2>2. v \in Status /\ Wrote(canceller.object, v)
      BY <1>2, <2>1, Objects DEF CancelState, Status, Final, Wrote
    <2>3. status' \in Seq(Status) /\ Len(status') = Len(status) /\ Started' = Started
      BY <2>1, <2>2, Writing
    <2>4. canceller' \in [at : {"idle", "state", "flag"}, object : {0} \cup Started] /\ canceller'.object = canceller.object
      BY <1>2, <2>1 DEF CancelState
    <2>5. ServerTypeOK'
      BY <1>2, <2>3, <2>4 DEF CancelState, workers, streams, ServerTypeOK, Status
    <2>6. CancellerFits'
      BY <1>2, <2>1, <2>3, <2>4 DEF CancelState, CancellerFits
    <2> QED BY <2>5, <2>6
  <1>3. CASE CancelFlag
    <2>1. canceller.object \in Started
      BY <1>3 DEF CancelFlag, CancellerFits
    <2> PICK v : v = [status[canceller.object] EXCEPT !.failed = TRUE]
      OBVIOUS
    <2>2. v \in Status /\ Wrote(canceller.object, v)
      BY <1>3, <2>1, Objects DEF CancelFlag, Status, Final, Wrote
    <2>3. status' \in Seq(Status) /\ Len(status') = Len(status) /\ Started' = Started
      BY <2>1, <2>2, Writing
    <2>4. ServerTypeOK'
      BY <1>3, <2>3 DEF CancelFlag, workers, streams, ServerTypeOK, Status
    <2>5. CancellerFits'
      BY <1>3 DEF CancelFlag, CancellerFits
    <2> QED BY <2>4, <2>5
  <1> QED BY <1>1, <1>2, <1>3 DEF Cancel

------------------------------------------------------------------------------
(* The queue the broker finds or makes has nothing new in it.              *)
LEMMA FoundQueue ==
  ASSUME ServerTypeOK, StreamsFit, NEW qs, NEW q, qs = QueueFor(queues, queue)[1], q = QueueFor(queues, queue)[2]
  PROVE  /\ qs \in Seq(Seq(Event)) /\ q \in DOMAIN qs /\ DOMAIN queues \subseteq DOMAIN qs
         /\ \A p \in DOMAIN qs : \A k \in DOMAIN qs[p] : Heard(pc, qs[p][k])
  <1>1. queues \in Seq(Seq(Event)) /\ queue \in {0} \cup DOMAIN queues
    BY DEF ServerTypeOK
  <1>2. \A p \in DOMAIN queues : \A k \in DOMAIN queues[p] : Heard(pc, queues[p][k])
    BY DEF StreamsFit
  <1>3. CASE queue # 0
    <2>1. qs = queues /\ q = queue
      BY <1>3 DEF QueueFor
    <2> QED BY <1>1, <1>2, <1>3, <2>1
  <1>4. CASE queue = 0
    <2>0. <<>> \in Seq(Event) /\ DOMAIN <<>> = {}
      OBVIOUS
    <2> PICK none : none = <<>>
      OBVIOUS
    <2>1. qs = Append(queues, none) /\ q = Len(queues) + 1 /\ DOMAIN none = {} /\ none \in Seq(Event)
      BY <1>4, <2>0 DEF QueueFor
    <2>2. /\ qs \in Seq(Seq(Event)) /\ Len(queues) \in Nat
          /\ DOMAIN queues = 1..Len(queues) /\ DOMAIN qs = 1..(Len(queues) + 1)
          /\ qs[Len(queues) + 1] = none
          /\ \A j \in DOMAIN queues : qs[j] = queues[j]
      BY <1>1, <2>1, Appended
    <2>3. ASSUME NEW p \in DOMAIN qs, NEW k \in DOMAIN qs[p]
          PROVE  Heard(pc, qs[p][k])
      <3>1. p # Len(queues) + 1
        BY <2>1, <2>2, <2>3
      <3>2. p \in DOMAIN queues /\ qs[p] = queues[p]
        BY <2>2, <3>1
      <3> QED BY <1>2, <2>3, <3>2
    <2> QED BY <2>1, <2>2, <2>3
  <1> QED BY <1>3, <1>4

(* Who has ended stays so.                                                 *)
LEMMA StillHeard ==
  ASSUME \A n \in Workers : pc[n] = "end" => pc'[n] = "end", NEW event \in Event, Heard(pc, event)
  PROVE  Heard(pc', event)
  BY DEF Heard, Event

(* Steps that leave the streams alone.                                     *)
LEMMA StreamsKept ==
  ASSUME ServerTypeOK, StreamsFit, \A n \in Workers : pc[n] = "end" => pc'[n] = "end", UNCHANGED streams,
         \A k \in DOMAIN scheduled' : scheduled'[k] \in Event /\ Heard(pc', scheduled'[k])
  PROVE  StreamsFit'
  <1>1. ASSUME NEW event \in Event, Heard(pc, event) PROVE Heard(pc', event)
    BY <1>1, StillHeard
  <1>2. queues' = queues /\ client' = client /\ queues \in Seq(Seq(Event))
    BY DEF streams, ServerTypeOK
  <1>3. ASSUME NEW q \in DOMAIN queues', NEW k \in DOMAIN queues'[q] PROVE Heard(pc', queues'[q][k])
    <2>1. queues[q][k] \in Event /\ Heard(pc, queues[q][k]) /\ queues'[q][k] = queues[q][k]
      <3>1. queues[q] \in Seq(Event) /\ k \in DOMAIN queues[q]
        BY <1>2, <1>3
      <3>2. queues[q][k] \in Event
        BY <3>1
      <3> QED BY <1>2, <1>3, <3>2 DEF StreamsFit
    <2> QED BY <1>1, <2>1
  <1>4. ASSUME NEW c \in Clients
        PROVE  /\ client'[c].at = "waiting" => client'[c].queue \in DOMAIN queues'
               /\ client'[c].at \in {"got", "closed"} => client'[c].event \in Event /\ Heard(pc', client'[c].event)
    BY <1>1, <1>2 DEF StreamsFit
  <1> QED BY <1>3, <1>4 DEF StreamsFit

(* Steps that schedule nothing.                                            *)
LEMMA ScheduledKept ==
  ASSUME ServerTypeOK, StreamsFit, \A n \in Workers : pc[n] = "end" => pc'[n] = "end", UNCHANGED scheduled
  PROVE  \A k \in DOMAIN scheduled' : scheduled'[k] \in Event /\ Heard(pc', scheduled'[k])
  <1> SUFFICES ASSUME NEW k \in DOMAIN scheduled
               PROVE  scheduled[k] \in Event /\ Heard(pc', scheduled[k])
    OBVIOUS
  <1>1. scheduled[k] \in Event /\ Heard(pc, scheduled[k])
    BY DEF ServerTypeOK, StreamsFit
  <1> QED BY <1>1, StillHeard

(* A worker tells when it has ended, the demo before.                      *)
LEMMA WorkStreams ==
  ASSUME ServerTypeOK, StreamsFit, NEW n \in Workers, Work(n)
  PROVE  StreamsFit'
  <1>1. UNCHANGED streams
    BY DEF Work, Begin, FlowReturns, FlowRaises, DemoReturns, DemoRaises, WriteState, WriteFailed,
           TellDone, WriteRaised, TellError
  <1>2. ASSUME NEW m \in Workers, pc[m] = "end" PROVE pc'[m] = "end"
    <2>1. pc[n] # "end" /\ \E where : Goto(n, where)
      BY DEF Work, Begin, FlowReturns, FlowRaises, DemoReturns, DemoRaises, WriteState, WriteFailed,
             TellDone, WriteRaised, TellError
    <2> QED BY <1>2, <2>1 DEF Goto, ServerTypeOK
  <1>3. CASE DemoReturns(n) \/ TellDone(n) \/ TellError(n)
    <2>1. PICK event \in Event : PublishThreadsafe(event) /\ Heard(pc', event)
      <3>1. CASE DemoReturns(n)
        BY <3>1 DEF DemoReturns, Ev, Event, Heard
      <3>2. CASE TellDone(n) \/ TellError(n)
        BY <3>2 DEF TellDone, TellError, Ev, Event, Goto, ServerTypeOK, Heard
      <3> QED BY <1>3, <3>1, <3>2
    <2>2. scheduled' = Append(scheduled, event) /\ scheduled \in Seq(Event)
      BY <2>1 DEF PublishThreadsafe, ServerTypeOK
    <2>3. ASSUME NEW k \in DOMAIN scheduled'
          PROVE  scheduled'[k] \in Event /\ Heard(pc', scheduled'[k])
      <3>1. k \in DOMAIN scheduled \/ scheduled'[k] = event
        BY <2>2, <2>3, Appended
      <3>2. CASE k \in DOMAIN scheduled
        <4>1. scheduled'[k] = scheduled[k] /\ scheduled[k] \in Event /\ Heard(pc, scheduled[k])
          BY <2>2, <3>2, Appended DEF StreamsFit
        <4> QED BY <1>2, <4>1, StillHeard
      <3> QED BY <2>1, <3>1, <3>2
    <2> QED BY <1>1, <1>2, <2>3, StreamsKept
  <1>4. CASE ~(DemoReturns(n) \/ TellDone(n) \/ TellError(n))
    <2>1. UNCHANGED scheduled
      BY <1>4 DEF Work, Begin, FlowReturns, FlowRaises, DemoRaises, WriteState, WriteFailed, WriteRaised
    <2>2. \A k \in DOMAIN scheduled' : scheduled'[k] \in Event /\ Heard(pc', scheduled'[k])
      BY <1>2, <2>1, ScheduledKept
    <2> QED BY <1>1, <1>2, <2>2, StreamsKept
  <1> QED BY <1>3, <1>4

(* Steps of the loop touch neither workers nor objects.                    *)
LEMMA PublishFits ==
  ASSUME ServerTypeOK, StreamsFit, Publish
  PROVE  ServerTypeOK' /\ StreamsFit'
  <1> PICK qs, q, event, rest : /\ qs = QueueFor(queues, queue)[1] /\ q = QueueFor(queues, queue)[2]
                          /\ event = Head(scheduled) /\ rest = Tail(scheduled)
    OBVIOUS
  <1>1. /\ qs \in Seq(Seq(Event)) /\ q \in DOMAIN qs /\ DOMAIN queues \subseteq DOMAIN qs
        /\ \A p \in DOMAIN qs : \A k \in DOMAIN qs[p] : Heard(pc, qs[p][k])
    BY FoundQueue
  <1>2. /\ scheduled # <<>> /\ queues' = [qs EXCEPT ![q] = Append(qs[q], event)] /\ queue' = q /\ scheduled' = rest
        /\ UNCHANGED <<status, workers, client, canceller, cancels>>
    BY DEF Publish
  <1>3. scheduled \in Seq(Event) /\ \A k \in DOMAIN scheduled : Heard(pc, scheduled[k])
    BY DEF ServerTypeOK, StreamsFit
  <1>4. /\ event \in Event /\ Heard(pc, event) /\ rest \in Seq(Event)
        /\ \A k \in DOMAIN rest : Heard(pc, rest[k])
    <2>1. /\ event \in Event /\ rest \in Seq(Event) /\ 1 \in DOMAIN scheduled /\ event = scheduled[1]
          /\ \A j \in DOMAIN rest : j + 1 \in DOMAIN scheduled /\ rest[j] = scheduled[j + 1]
      BY <1>2, <1>3, HeadAndTail
    <2> QED BY <1>3, <2>1
  <1> PICK old, r : old = qs[q] /\ r = Append(old, event)
    OBVIOUS
  <1>5. r \in Seq(Event) /\ \A k \in DOMAIN r : Heard(pc, r[k])
    <2>1. old \in Seq(Event) /\ \A k \in DOMAIN old : Heard(pc, old[k])
      BY <1>1
    <2>2. event \in Event /\ Heard(pc, event)
      BY <1>4
    <2>3. /\ r \in Seq(Event) /\ Len(old) \in Nat /\ DOMAIN old = 1..Len(old) /\ DOMAIN r = 1..(Len(old) + 1)
          /\ r[Len(old) + 1] = event
          /\ \A j \in DOMAIN old : r[j] = old[j]
      BY <2>1, <2>2, Appended
    <2>4. ASSUME NEW k \in DOMAIN r PROVE Heard(pc, r[k])
      <3>1. k \in DOMAIN old \/ k = Len(old) + 1
        BY <2>3
      <3> QED BY <2>1, <2>2, <2>3, <3>1
    <2> QED BY <2>3, <2>4
  <1>6. /\ queues' \in Seq(Seq(Event)) /\ DOMAIN queues' = DOMAIN qs
        /\ queues'[q] = r /\ \A p \in DOMAIN qs \ {q} : queues'[p] = qs[p]
    BY <1>1, <1>2, <1>5, Rewritten
  <1>7. ServerTypeOK'
    <2>1. client' \in [Clients -> [at : {"off", "waiting", "got", "closed"},
                             queue : {0} \cup DOMAIN queues', event : Event \cup {<<>>}]]
      BY <1>1, <1>2, <1>6 DEF ServerTypeOK
    <2> QED BY <1>1, <1>2, <1>4, <1>6, <2>1 DEF ServerTypeOK, workers, Started
  <1>8. \A p \in DOMAIN queues' : \A k \in DOMAIN queues'[p] : Heard(pc, queues'[p][k])
    BY <1>1, <1>5, <1>6
  <1>9. \A c \in Clients :
          /\ client'[c].at = "waiting" => client'[c].queue \in DOMAIN queues'
          /\ client'[c].at \in {"got", "closed"} => client'[c].event \in Event /\ Heard(pc', client'[c].event)
    BY <1>1, <1>2, <1>6 DEF StreamsFit, workers
  <1>10. pc' = pc /\ scheduled' = rest
    BY <1>2 DEF workers
  <1>11. StreamsFit'
    BY <1>4, <1>8, <1>9, <1>10 DEF StreamsFit
  <1> QED BY <1>7, <1>11

(* A connection waits at the queue the broker holds.                       *)
LEMMA DrainFits ==
  ASSUME ServerTypeOK, StreamsFit, NEW c \in Clients, Drain(c)
  PROVE  ServerTypeOK' /\ StreamsFit'
  <1> PICK qs, q : qs = QueueFor(queues, queue)[1] /\ q = QueueFor(queues, queue)[2]
    OBVIOUS
  <1>1. /\ qs \in Seq(Seq(Event)) /\ q \in DOMAIN qs /\ DOMAIN queues \subseteq DOMAIN qs
        /\ \A p \in DOMAIN qs : \A k \in DOMAIN qs[p] : Heard(pc, qs[p][k])
    BY FoundQueue
  <1>2. /\ queues' = qs /\ queue' = q
        /\ client' = [client EXCEPT ![c].at = "waiting", ![c].queue = q]
        /\ UNCHANGED <<status, workers, scheduled, canceller, cancels>>
    BY DEF Drain
  <1>3. client \in [Clients -> [at : {"off", "waiting", "got", "closed"},
                             queue : {0} \cup DOMAIN qs, event : Event \cup {<<>>}]]
    BY <1>1 DEF ServerTypeOK
  <1>4. /\ client' \in [Clients -> [at : {"off", "waiting", "got", "closed"},
                             queue : {0} \cup DOMAIN qs, event : Event \cup {<<>>}]]
        /\ client'[c].at = "waiting" /\ client'[c].queue = q
        /\ \A d \in Clients \ {c} : client'[d] = client[d]
    BY <1>1, <1>2, <1>3
  <1>5. ServerTypeOK'
    BY <1>1, <1>2, <1>4 DEF ServerTypeOK, workers, Started
  <1>6. StreamsFit'
    BY <1>1, <1>2, <1>4 DEF StreamsFit, Heard, workers
  <1> QED BY <1>5, <1>6

(* It takes an event from the queue it waits at.                           *)
LEMMA GetFits ==
  ASSUME ServerTypeOK, StreamsFit, NEW c \in Clients, Get(c)
  PROVE  ServerTypeOK' /\ StreamsFit'
  <1> PICK q, event, rest : q = client[c].queue /\ event = Head(queues[q]) /\ rest = Tail(queues[q])
    OBVIOUS
  <1>1. /\ q \in DOMAIN queues /\ queues[q] # <<>> /\ queues \in Seq(Seq(Event)) /\ queues[q] \in Seq(Event)
        /\ \A k \in DOMAIN queues[q] : Heard(pc, queues[q][k])
    BY DEF Get, StreamsFit, ServerTypeOK
  <1>2. /\ client' = [client EXCEPT ![c] = [at |-> "got", queue |-> q, event |-> event]]
        /\ queues' = [queues EXCEPT ![q] = rest]
        /\ UNCHANGED <<status, workers, scheduled, queue, canceller, cancels>>
    BY DEF Get
  <1>3. /\ event \in Event /\ Heard(pc, event) /\ rest \in Seq(Event)
        /\ \A k \in DOMAIN rest : Heard(pc, rest[k])
    <2>1. /\ event \in Event /\ rest \in Seq(Event) /\ 1 \in DOMAIN queues[q] /\ event = queues[q][1]
          /\ \A j \in DOMAIN rest : j + 1 \in DOMAIN queues[q] /\ rest[j] = queues[q][j + 1]
      BY <1>1, HeadAndTail
    <2> QED BY <1>1, <2>1
  <1>4. /\ queues' \in Seq(Seq(Event)) /\ DOMAIN queues' = DOMAIN queues
        /\ queues'[q] = rest /\ \A p \in DOMAIN queues \ {q} : queues'[p] = queues[p]
    BY <1>1, <1>2, <1>3, Rewritten
  <1>5. /\ client' \in [Clients -> [at : {"off", "waiting", "got", "closed"},
                             queue : {0} \cup DOMAIN queues, event : Event \cup {<<>>}]]
        /\ client'[c].at = "got" /\ client'[c].event = event
        /\ \A d \in Clients \ {c} : client'[d] = client[d]
    BY <1>1, <1>2, <1>3 DEF ServerTypeOK
  <1>6. ServerTypeOK'
    BY <1>2, <1>4, <1>5 DEF ServerTypeOK, workers, Started
  <1>7. \A p \in DOMAIN queues' : \A k \in DOMAIN queues'[p] : Heard(pc, queues'[p][k])
    BY <1>3, <1>4 DEF StreamsFit
  <1>8. StreamsFit'
    BY <1>2, <1>3, <1>4, <1>5, <1>7 DEF StreamsFit, Heard, workers
  <1> QED BY <1>6, <1>8

(* It sends the event and closes.                                          *)
LEMMA ForwardFits ==
  ASSUME ServerTypeOK, StreamsFit, NEW c \in Clients, Forward(c)
  PROVE  ServerTypeOK' /\ StreamsFit'
  <1>1. client' = [client EXCEPT ![c].at = "closed"] /\ client[c].at = "got"
    BY DEF Forward
  <1>2. /\ client' \in [Clients -> [at : {"off", "waiting", "got", "closed"},
                             queue : {0} \cup DOMAIN queues, event : Event \cup {<<>>}]]
        /\ client'[c].at = "closed" /\ client'[c].event = client[c].event
        /\ \A d \in Clients \ {c} : client'[d] = client[d]
    BY <1>1 DEF ServerTypeOK
  <1>3. ServerTypeOK'
    BY <1>2 DEF Forward, ServerTypeOK, workers, Started
  <1>4. StreamsFit'
    BY <1>1, <1>2 DEF Forward, StreamsFit, Heard, workers
  <1> QED BY <1>3, <1>4

------------------------------------------------------------------------------
Served == /\ ServerTypeOK /\ CancellerFits /\ StreamsFit
          /\ \A n \in Workers : Quiet(n)

(* No run yet.                                                             *)
LEMMA ServedInit == ServerInit => Served
  <1> SUFFICES ASSUME ServerInit PROVE Served
    OBVIOUS
  <1>1. ServerTypeOK
    BY ServerAssumption DEF ServerInit, ServerTypeOK, Started, At
  <1>2. CancellerFits /\ StreamsFit
    BY DEF ServerInit, CancellerFits, StreamsFit, At
  <1>3. \A n \in Workers : Quiet(n)
    BY DEF ServerInit, Quiet, WorkerFits, ObjectFinal, ObjectFits
  <1> QED BY <1>1, <1>2, <1>3 DEF Served

(* Every step of a worker, a cancel, the broker or a connection keeps it.  *)
LEMMA ServedNext == Served /\ [ServerNext]_serverVars => Served'
  <1> SUFFICES ASSUME Served, [ServerNext]_serverVars PROVE Served'
    OBVIOUS
  <1>0. ServerTypeOK /\ CancellerFits /\ StreamsFit /\ \A n \in Workers : Quiet(n)
    BY DEF Served
  <1>1. CASE StartRun
    <2>1. StreamsFit'
      <3>1. \A n \in Workers : pc[n] = "end" => pc'[n] = "end"
        <4>1. Len(status) + 1 \in Workers => pc[Len(status) + 1] = "none"
          BY <1>0, Objects DEF Quiet, WorkerFits
        <4> QED BY <1>0, <1>1, <4>1 DEF StartRun, Goto, ServerTypeOK
      <3>2. UNCHANGED <<streams, scheduled>>
        BY <1>1 DEF StartRun
      <3>3. \A k \in DOMAIN scheduled' : scheduled'[k] \in Event /\ Heard(pc', scheduled'[k])
        BY <1>0, <3>1, <3>2, ScheduledKept
      <3> QED BY <1>0, <3>1, <3>2, <3>3, StreamsKept
    <2>2. CancellerFits'
      <3>1. Len(status') = Len(status) + 1
        BY <1>0, <1>1 DEF StartRun, ServerTypeOK
      <3>2. Started \subseteq Started'
        BY <1>0, <1>1, <3>1 DEF StartRun, Started, ServerTypeOK
      <3> QED BY <1>0, <1>1, <3>2 DEF StartRun, CancellerFits
    <2> QED BY <1>0, <1>1, <2>1, <2>2, StartTypes, StartFits DEF Served
  <1>2. CASE Cancel
    <2>1. StreamsFit'
      BY <1>0, <1>2 DEF Cancel, CancelCheck, CancelState, CancelFlag, StreamsFit, Heard, streams, workers
    <2> QED BY <1>0, <1>2, <2>1, CancelTypes, CancelFits DEF Served
  <1>3. ASSUME NEW n \in Workers, Work(n) PROVE Served'
    <2>1. ServerTypeOK' /\ StreamsFit' /\ \A m \in Workers : Quiet(m)'
      BY <1>0, <1>3, WorkTypes, WorkStreams, WorkFits DEF Quiet
    <2>2. UNCHANGED <<canceller, cancels>>
      BY <1>3 DEF Work, Begin, FlowReturns, FlowRaises, DemoReturns, DemoRaises, WriteState, WriteFailed,
             TellDone, WriteRaised, TellError
    <2>3. canceller.at # "idle" => canceller.object \in Started'
      <3>1. Len(status) = Len(status')
        <4>1. CASE WriteState(n) \/ WriteFailed(n) \/ WriteRaised(n)
          BY <1>0, <4>1, WriteStateFits, WriteFailedFits, WriteRaisedFits
        <4>2. CASE Begin(n)
          BY <1>0, <4>2 DEF Begin, ServerTypeOK
        <4>3. CASE UNCHANGED status
          BY <4>3
        <4> QED BY <1>3, <4>1, <4>2, <4>3 DEF Work, FlowReturns, FlowRaises, DemoReturns, DemoRaises,
             TellDone, TellError
      <3> QED BY <1>0, <2>1, <3>1, Objects DEF CancellerFits, ServerTypeOK, Started
    <2> QED BY <1>0, <2>1, <2>2, <2>3 DEF Served, CancellerFits
  <1>4. ASSUME Publish \/ \E c \in Clients : Connect(c) \/ Serve(c)
        PROVE  Served'
    <2>1. ServerTypeOK' /\ StreamsFit'
      BY <1>0, <1>4, PublishFits, DrainFits, GetFits, ForwardFits DEF Connect, Serve, Keepalive
    <2>2. UNCHANGED <<status, pc, bound, report, canceller, cancels>>
      BY <1>4 DEF Publish, Connect, Serve, Get, Keepalive, Forward, Drain, workers
    <2>3. CancellerFits' /\ \A n \in Workers : Quiet(n)'
      BY <1>0, <2>2 DEF CancellerFits, Started, Quiet, WorkerFits, ObjectFinal, ObjectFits, Alone
    <2> QED BY <2>1, <2>3 DEF Served
  <1>5. CASE UNCHANGED serverVars
    BY <1>0, <1>5 DEF serverVars, workers, streams, Served, ServerTypeOK, Started, CancellerFits, StreamsFit,
                      Heard, Quiet, WorkerFits, ObjectFinal, ObjectFits, Alone
  <1> QED BY <1>1, <1>2, <1>3, <1>4, <1>5 DEF ServerNext

(* And it says what the status must say.                                   *)
LEMMA ServedHonest == Served => HonestStatus
  <1> SUFFICES ASSUME Served PROVE HonestStatus
    OBVIOUS
  <1>1. ClosedMeansFinal
    <2> SUFFICES ASSUME NEW c \in Clients, client[c].at = "closed", client[c].event.from = "manager",
                        Alone(client[c].event.run)
                 PROVE  status[bound[client[c].event.run]].state \in Final
      BY DEF ClosedMeansFinal
    <2>1. client[c].event \in Event /\ pc[client[c].event.run] = "end"
      BY DEF Served, StreamsFit, Heard
    <2> QED BY <2>1 DEF Served, Quiet, ObjectFinal, Event
  <1>2. StatusMatchesReport
    BY DEF Served, Quiet, ObjectFits, StatusMatchesReport
  <1> QED BY <1>1, <1>2 DEF HonestStatus

(* For any number of starts, cancels and connections: a stream that the    *)
(* manager closed leaves a final status, and without a cancel the status   *)
(* of a run that ended says in both fields what its report said            *)
(* (manager.py:58-83, routes/operator.py), unless two starts share it.     *)
THEOREM HonestStatusKept == ServerSpec => []HonestStatus
  BY ServedInit, ServedNext, ServedHonest, PTL DEF ServerSpec

------------------------------------------------------------------------------
(* How many tasks start.                                                   *)
(* Least picks a member of a set of two or four integers.                  *)
LEMMA LeastOfTwo == ASSUME NEW a \in Int, NEW b \in Int PROVE Least({a, b}) \in Int
<1>1. \E x \in {a, b} : \A y \in {a, b} : x <= y
  OBVIOUS
<1>2. Least({a, b}) \in {a, b}
  BY <1>1 DEF Least
<1> QED BY <1>2

(* Of four.                                                                *)
LEMMA LeastOfFour ==
  ASSUME NEW a \in Int, NEW b \in Int, NEW c \in Int, NEW d \in Int
  PROVE  Least({a, b, c, d}) \in Int
<1>1. \E x \in {a, b, c, d} : \A y \in {a, b, c, d} : x <= y
  OBVIOUS
<1>2. Least({a, b, c, d}) \in {a, b, c, d}
  BY <1>1 DEF Least
<1> QED BY <1>2

(* The bound is a number for every host and policy, one without telemetry  *)
(* included (scheduler.py:92-152).                                         *)
LEMMA LimitIsNumber ==
  ASSUME NEW h \in HostResourceSnapshot
  PROVE  LimitFor(h) \in Int
<1>1. /\ h.cpus \in Int /\ h.memory \in Int /\ h.idle \in 0..100 \cup {Unknown}
      /\ Policy.requested \in Int /\ Policy.agents \in Int /\ Policy.reserveCpus \in Int
      /\ Policy.reserveMemory \in Int /\ Policy.perAgent \in Nat \ {0}
  BY SchedulerAssumption DEF HostResourceSnapshot, AgentFanoutPolicy
<1>2. \A n \in Int : AtLeastOne(n) \in Int
  BY DEF AtLeastOne
<1>3. CpuSlots(h) \in Int
  <2>1. PICK free \in Int : free = AtLeastOne(h.cpus - Policy.reserveCpus)
    BY <1>1, <1>2
  <2>2. CASE h.idle = Unknown
    BY <2>1, <2>2 DEF CpuSlots
  <2>3. CASE h.idle # Unknown
    <3>1. h.idle \in Int
      BY <1>1, <2>3
    <3>2. h.cpus * h.idle \in Int
      BY <1>1, <3>1
    <3>3. PICK product \in Int : product = h.cpus * h.idle
      BY <3>2
    <3>4. product \div 100 \in Int
      OBVIOUS
    <3>5. PICK share \in Int : share = AtLeastOne(product \div 100)
      BY <3>4, <1>2
    <3>6. CpuSlots(h) = Least({free, share})
      BY <2>1, <2>3, <3>3, <3>5 DEF CpuSlots
    <3> QED BY <3>6, LeastOfTwo
  <2> QED BY <2>2, <2>3
<1>4. MemorySlots(h) \in Int
  <2>1. (h.memory - Policy.reserveMemory) \div Policy.perAgent \in Int
    BY <1>1
  <2> QED BY <1>1, <1>2, <2>1 DEF MemorySlots
<1>5. Least({Policy.requested, Policy.agents, CpuSlots(h), MemorySlots(h)}) \in Int
  BY <1>1, <1>3, <1>4, LeastOfFour
<1> QED BY <1>2, <1>5 DEF LimitFor

(* Of the tasks with a status there are finitely many.                     *)
LEMMA WithFinite ==
  ASSUME SchedulerTypeOK, NEW s
  PROVE  /\ With(s) \subseteq DOMAIN tasks /\ With(s) \subseteq Nat
         /\ IsFiniteSet(With(s)) /\ Cardinality(With(s)) \in Nat
         /\ \A n \in With(s) : n <= Len(tasks)
<1>1. With(s) \subseteq DOMAIN tasks
  BY DEF With
<1>2. Len(tasks) \in Nat /\ DOMAIN tasks = 1..Len(tasks)
  BY DEF SchedulerTypeOK
<1>3. With(s) \in SUBSET Nat /\ \A n \in With(s) : n <= Len(tasks)
  BY <1>1, <1>2
<1>4. IsFiniteSet(With(s))
  BY <1>2, <1>3, FS_BoundedSetOfNaturals
<1> QED BY <1>1, <1>3, <1>4, FS_CardinalityType

(* The last of finitely many numbers.                                      *)
LEMMA LastOf ==
  ASSUME NEW T \in SUBSET Nat, T # {}, NEW top \in Nat, \A n \in T : n <= top
  PROVE  \E n \in T : \A m \in T : m <= n
<1>1. PICK U : U = {u \in Nat : \A n \in T : n <= u}
  OBVIOUS
<1>2. U \in SUBSET Nat /\ top \in U
  BY <1>1
<1>3. PICK u \in U : \A v \in U : u <= v
  BY <1>2, LeastNat
<1>4. u \in Nat /\ \A n \in T : n <= u
  BY <1>1, <1>3
<1>5. CASE u \in T
  BY <1>4, <1>5
<1>6. CASE u \notin T
  <2>1. \A n \in T : n \in Nat /\ n <= u /\ n # u
    BY <1>4, <1>6
  <2>2. u # 0
    <3>1. PICK n \in T : TRUE
      OBVIOUS
    <3>2. n \in Nat /\ n <= u /\ n # u
      BY <2>1
    <3> QED BY <1>4, <3>2
  <2>3. u - 1 \in Nat /\ \A n \in T : n <= u - 1
    BY <1>4, <2>1, <2>2
  <2>4. u - 1 \in U
    BY <1>1, <2>3
  <2> QED BY <1>3, <1>4, <2>4
<1> QED BY <1>5, <1>6

(* What is dispatched fits into the capacity: its last task says so.       *)
LEMMA DispatchableFits ==
  ASSUME SchedulerTypeOK, Dispatchable # {}
  PROVE  /\ Dispatchable \subseteq With("pending") /\ IsFiniteSet(Dispatchable)
         /\ Cardinality(Dispatchable) \in Nat /\ Capacity > 0
         /\ Cardinality(Dispatchable) <= Capacity
<1>1. Dispatchable \subseteq With("pending")
  BY DEF Dispatchable
<1>2. /\ IsFiniteSet(With("pending")) /\ With("pending") \subseteq Nat
      /\ \A n \in With("pending") : n <= Len(tasks)
  BY WithFinite
<1>3. Len(tasks) \in Nat
  BY DEF SchedulerTypeOK
<1>4. PICK n \in Dispatchable : \A m \in Dispatchable : m <= n
  BY <1>1, <1>2, <1>3, LastOf
<1>5. PICK S : S = {m \in With("pending") : m <= n}
  OBVIOUS
<1>6. Dispatchable \in SUBSET S /\ S \in SUBSET With("pending") /\ S # {}
  BY <1>1, <1>4, <1>5
<1>7. IsFiniteSet(S)
  BY <1>2, <1>6, FS_Subset
<1>8. IsFiniteSet(Dispatchable) /\ Cardinality(Dispatchable) <= Cardinality(S)
  BY <1>6, <1>7, FS_Subset
<1>9. Cardinality(S) <= Capacity
  BY <1>4, <1>5 DEF Dispatchable
<1>10. Cardinality(S) \in Nat /\ Cardinality(S) # 0 /\ Cardinality(Dispatchable) \in Nat
  BY <1>6, <1>7, <1>8, FS_CardinalityType, FS_EmptySet
<1>11. host \in HostResourceSnapshot
  BY SchedulerAssumption DEF SchedulerTypeOK
<1>12. Capacity \in Int
  BY <1>11, LimitIsNumber, WithFinite DEF Capacity, Running
<1> QED BY <1>1, <1>8, <1>9, <1>10, <1>12

(* Where no task was enqueued twice, only what is dispatched changes.      *)
LEMMA OnlyDispatched ==
  ASSUME SchedulerTypeOK, Distinct, AssignNext
  PROVE  With("running")' \subseteq With("running") \cup Dispatchable
<1> SUFFICES ASSUME NEW n \in DOMAIN tasks', tasks'[n].status = "running", n \notin Dispatchable
             PROVE  n \in With("running")
  BY DEF With
<1>1. n \in DOMAIN tasks /\ tasks'[n] = IF n \in Replaced THEN [key |-> tasks[n].key, status |-> Outcome(tasks[n].key)] ELSE tasks[n]
  BY DEF AssignNext
<1>2. n \notin Replaced
  BY <1>1 DEF Replaced, Distinct, Dispatchable, With
<1> QED BY <1>1, <1>2 DEF With

(* The steps keep the types (scheduler.py:156-200).                        *)
LEMMA SchedulerTyped == SchedulerTypeOK /\ [SchedulerNext]_schedulerVars => SchedulerTypeOK'
<1> SUFFICES ASSUME SchedulerTypeOK, [SchedulerNext]_schedulerVars PROVE SchedulerTypeOK'
  OBVIOUS
<1> PICK Task : Task = [key : Tasks, status : {"pending", "running", "blocked"}]
  OBVIOUS
<1>0. tasks \in Seq(Task) /\ host \in Hosts
  BY DEF SchedulerTypeOK
<1>1. CASE AssignNext
  <2>1. \A n \in DOMAIN tasks : tasks[n] \in Task
    BY <1>0, Lists
  <2>2. \A n \in DOMAIN tasks : tasks'[n] \in Task
    BY <1>1, <2>1 DEF AssignNext, Outcome
  <2>3. DOMAIN tasks' = 1..Len(tasks) /\ Len(tasks) \in Nat
    BY <1>0, <1>1 DEF AssignNext
  <2>4. tasks' = [n \in 1..Len(tasks) |-> tasks'[n]]
    BY <2>3, <1>1 DEF AssignNext
  <2>5. tasks' \in Seq(Task)
    BY <1>0, <2>2, <2>3, <2>4
  <2> QED BY <1>0, <1>1, <2>5 DEF AssignNext, SchedulerTypeOK
<1>2. ASSUME NEW key \in Tasks, Enqueue(key) PROVE SchedulerTypeOK'
  <2>1. [key |-> key, status |-> "pending"] \in Task
    OBVIOUS
  <2>2. tasks' \in Seq(Task)
    BY <1>0, <1>2, <2>1 DEF Enqueue
  <2> QED BY <1>0, <1>2, <2>2 DEF Enqueue, SchedulerTypeOK
<1>3. CASE HostChanges
  BY <1>3 DEF HostChanges, SchedulerTypeOK
<1>4. CASE UNCHANGED schedulerVars
  BY <1>4 DEF schedulerVars, SchedulerTypeOK
<1> QED BY <1>1, <1>2, <1>3, <1>4 DEF SchedulerNext

(* Tasks that are dispatched run on top of those that did.                 *)
LEMMA StartsFit ==
  ASSUME SchedulerTypeOK, SchedulerTypeOK', [SchedulerNext]_schedulerVars, Distinct, Running' > Running
  PROVE  Running' <= LimitFor(host)
<1>1. Running \in Nat /\ IsFiniteSet(With("running"))
  BY WithFinite DEF Running
<1>2. host \in HostResourceSnapshot
  BY SchedulerAssumption DEF SchedulerTypeOK
<1>3. LimitFor(host) \in Int
  BY <1>2, LimitIsNumber
<1>4. ~(Running > Running)
  BY <1>1
<1>5. CASE AssignNext
  <2>1. /\ IsFiniteSet(Dispatchable) /\ Cardinality(Dispatchable) \in Nat
        /\ Capacity > 0 /\ Cardinality(Dispatchable) <= Capacity
    BY <1>5, DispatchableFits DEF AssignNext
  <2>2. PICK S : S = With("running") \cup Dispatchable
    OBVIOUS
  <2>3. PICK T : T = With("running")'
    OBVIOUS
  <2>4. T \in SUBSET S
    BY <1>5, <2>2, <2>3, OnlyDispatched
  <2>5. PICK common \in Nat : common = Cardinality(With("running") \cap Dispatchable)
    BY <1>1, FS_Intersection, FS_CardinalityType
  <2>6. IsFiniteSet(S) /\ Cardinality(S) = Running + Cardinality(Dispatchable) - common
    BY <1>1, <2>1, <2>2, <2>5, FS_Union DEF Running
  <2>7. Cardinality(T) <= Cardinality(S) /\ Cardinality(T) \in Nat
    BY <2>4, <2>6, FS_Subset, FS_CardinalityType
  <2>8. Running' = Cardinality(T)
    BY <2>3 DEF Running
  <2>9. Capacity = LimitFor(host) - Running
    <3>1. PICK free \in Int : free = LimitFor(host) - Running
      BY <1>1, <1>3
    <3> QED BY <2>1, <3>1 DEF Capacity
  <2> QED BY <1>1, <1>3, <2>1, <2>5, <2>6, <2>7, <2>8, <2>9
<1>6. ASSUME NEW key \in Tasks, Enqueue(key) PROVE Running' = Running
  <2>1. PICK new : new = [key |-> key, status |-> "pending"]
    OBVIOUS
  <2>2. new.status # "running"
    BY <2>1
  <2>3. tasks' = Append(tasks, new)
    BY <1>6, <2>1 DEF Enqueue
  <2>4. With("running")' = With("running")
    <3>1. Len(tasks) \in Nat /\ DOMAIN tasks' = DOMAIN tasks \cup {Len(tasks) + 1} /\ tasks'[Len(tasks) + 1] = new
          /\ \A n \in DOMAIN tasks : tasks'[n] = tasks[n]
      BY <2>3 DEF SchedulerTypeOK
    <3> QED BY <2>2, <3>1 DEF With
  <2> QED BY <2>4 DEF Running
<1>7. CASE UNCHANGED tasks
  <2>1. With("running")' = With("running")
    BY <1>7 DEF With
  <2> QED BY <1>4, <2>1 DEF Running
<1> QED BY <1>4, <1>5, <1>6, <1>7 DEF SchedulerNext, HostChanges, schedulerVars

(* For any tasks, hosts and policy: starting tasks never takes those that  *)
(* run above what the host bears at that moment, also when the bound fell  *)
(* below what runs, unless a task was enqueued twice                       *)
(* (scheduler.py:92-152, 190-215).                                         *)
THEOREM StartsWithinLimitKept == SchedulerSpec => StartsWithinLimit
<1>1. SchedulerInit => SchedulerTypeOK
  BY DEF SchedulerInit, SchedulerTypeOK
<1>2. SchedulerTypeOK /\ SchedulerTypeOK' /\ [SchedulerNext]_schedulerVars =>
        [Distinct /\ Running' > Running => Running' <= LimitFor(host)]_schedulerVars
  BY StartsFit
<1> QED BY <1>1, <1>2, SchedulerTyped, PTL DEF SchedulerSpec, StartsWithinLimit

------------------------------------------------------------------------------
(* A command under a new id joins the list.                                *)
LEMMA EnqueueTypes ==
  ASSUME QueueTypeOK, NEW c \in Commands, EnqueueCommand(c)
  PROVE  QueueTypeOK'
<1>1. /\ c \notin DOMAIN commands /\ Put(c, "queued") /\ order' = Append(order, c)
      /\ sends < MaxSends /\ sends' = sends + 1 /\ UNCHANGED <<batch, current, effects>>
  BY DEF EnqueueCommand
<1>2. /\ DOMAIN commands \subseteq Commands /\ commands \in [DOMAIN commands -> CommandStatus]
      /\ order \in Seq(Commands) /\ ToSet(order) = DOMAIN commands /\ sends \in 0..MaxSends
  BY DEF QueueTypeOK
<1>3. DOMAIN commands' = DOMAIN commands \cup {c} /\ commands' \in [DOMAIN commands' -> CommandStatus]
  BY <1>1, <1>2 DEF Put, CommandStatus
<1>4. order' \in Seq(Commands) /\ ToSet(order') = ToSet(order) \cup {c}
  <2>1. /\ order' \in Seq(Commands) /\ DOMAIN order' = DOMAIN order \cup {Len(order) + 1}
        /\ order'[Len(order) + 1] = c /\ \A n \in DOMAIN order : order'[n] = order[n]
    BY <1>1, <1>2
  <2> QED BY <2>1 DEF ToSet
<1>5. sends' \in 0..MaxSends
  BY <1>1, <1>2, QueueAssumption
<1> QED BY <1>1, <1>2, <1>3, <1>4, <1>5 DEF QueueTypeOK

(* A status changes; a worker's list gets shorter or is polled anew.       *)
LEMMA PutTypes ==
  ASSUME QueueTypeOK, NEW c \in DOMAIN commands, NEW next \in CommandStatus, Put(c, next)
  PROVE  DOMAIN commands' = DOMAIN commands /\ commands' \in [DOMAIN commands' -> CommandStatus]
  BY DEF Put, QueueTypeOK

(* A list gets shorter.                                                    *)
LEMMA NextInBatchTypes ==
  ASSUME QueueTypeOK, NEW r \in Runners, batch[r] # <<>>, NextInBatch(r)
  PROVE  batch' \in [Runners -> Seq(Commands)]
<1>1. batch[r] \in Seq(Commands)
  BY DEF QueueTypeOK
<1>2. Tail(batch[r]) \in Seq(Commands)
  BY <1>1
<1> QED BY <1>2 DEF NextInBatch, QueueTypeOK

(* What a worker decides keeps the types; nothing is carried out twice.    *)
LEMMA DecideTypes ==
  ASSUME QueueTypeOK, QueueInv, NEW r \in Runners, Decide(r)
  PROVE  QueueTypeOK'
<1>0. /\ DOMAIN commands \subseteq Commands /\ commands \in [DOMAIN commands -> CommandStatus]
      /\ order \in Seq(Commands) /\ ToSet(order) = DOMAIN commands
      /\ batch \in [Runners -> Seq(Commands)] /\ current \in [Runners -> SUBSET Commands]
      /\ effects \in [Commands -> 0..Cardinality(Runners)] /\ sends \in 0..MaxSends
  BY DEF QueueTypeOK
<1>1. CASE PollCommands(r)
  <2>1. PICK queued : /\ queued = Picked(order, {n \in DOMAIN order : commands[order[n]] = "queued"})
                      /\ batch' = [batch EXCEPT ![r] = queued]
    BY <1>1 DEF PollCommands
  <2>2. queued \in Seq(Commands)
    BY <1>0, <2>1, PickedElements
  <2>3. batch' \in [Runners -> Seq(Commands)]
    BY <1>0, <2>1, <2>2
  <2> QED BY <1>0, <1>1, <2>3 DEF PollCommands, QueueTypeOK
<1>2. ASSUME NEW c, c = Head(batch[r]), Has(c, "queued"), batch[r] # <<>>, NextInBatch(r),
             NEW next \in CommandStatus, Put(c, next)
      PROVE  /\ DOMAIN commands' = DOMAIN commands /\ commands' \in [DOMAIN commands' -> CommandStatus]
             /\ batch' \in [Runners -> Seq(Commands)] /\ c \in Commands
  BY <1>0, <1>2, PutTypes, NextInBatchTypes DEF Has
<1>3. CASE Accept(r)
  <2>1. PICK c : c = Head(batch[r])
    OBVIOUS
  <2>2. /\ Has(c, "queued") /\ batch[r] # <<>> /\ NextInBatch(r) /\ Put(c, "accepted") /\ "accepted" \in CommandStatus
        /\ current' = [current EXCEPT ![r] = {c}] /\ effects' = [effects EXCEPT ![c] = @ + 1]
        /\ UNCHANGED <<order, sends>>
    BY <1>3, <2>1 DEF Accept, CommandStatus
  <2>3. /\ DOMAIN commands' = DOMAIN commands /\ commands' \in [DOMAIN commands' -> CommandStatus]
        /\ batch' \in [Runners -> Seq(Commands)] /\ c \in Commands
    BY <1>2, <2>1, <2>2
  <2>4. effects[c] = 0
    BY <2>2 DEF QueueInv, CarriedOutOnce, Has
  <2>5. Cardinality(Runners) \in Nat /\ Cardinality(Runners) # 0
    BY QueueAssumption, FS_CardinalityType, FS_EmptySet
  <2>6. effects' \in [Commands -> 0..Cardinality(Runners)]
    <3>1. effects[c] + 1 \in 0..Cardinality(Runners)
      BY <2>4, <2>5
    <3> QED BY <1>0, <2>2, <3>1
  <2>7. current' \in [Runners -> SUBSET Commands]
    BY <1>0, <2>2, <2>3
  <2> QED BY <1>0, <2>2, <2>3, <2>6, <2>7 DEF QueueTypeOK
<1>4. CASE RejectCommand(r)
  <2>1. PICK c : c = Head(batch[r])
    OBVIOUS
  <2>2. /\ Has(c, "queued") /\ batch[r] # <<>> /\ NextInBatch(r) /\ Put(c, "rejected") /\ "rejected" \in CommandStatus
        /\ UNCHANGED <<order, current, effects, sends>>
    BY <1>4, <2>1 DEF RejectCommand, CommandStatus, Resolved
  <2>3. /\ DOMAIN commands' = DOMAIN commands /\ commands' \in [DOMAIN commands' -> CommandStatus]
        /\ batch' \in [Runners -> Seq(Commands)]
    BY <1>2, <2>1, <2>2
  <2> QED BY <1>0, <2>2, <2>3 DEF QueueTypeOK
<1>5. CASE TooLate(r)
  <2>1. batch' \in [Runners -> Seq(Commands)]
    BY <1>5, NextInBatchTypes DEF TooLate
  <2> QED BY <1>0, <1>5, <2>1 DEF TooLate, QueueTypeOK
<1>6. CASE Resolve(r)
  <2>1. PICK c \in current[r] : /\ Has(c, "accepted") /\ \E outcome \in {"applied", "failed"} : Put(c, outcome)
                                /\ current' = [current EXCEPT ![r] = {}]
                                /\ UNCHANGED <<order, batch, effects, sends>>
    BY <1>6 DEF Resolve
  <2>2. PICK next \in {"applied", "failed"} : Put(c, next)
    BY <2>1
  <2>3. DOMAIN commands' = DOMAIN commands /\ commands' \in [DOMAIN commands' -> CommandStatus]
    BY <2>1, <2>2, PutTypes DEF Has, CommandStatus, Resolved
  <2>4. current' \in [Runners -> SUBSET Commands]
    BY <1>0, <2>1
  <2> QED BY <1>0, <2>1, <2>3, <2>4 DEF QueueTypeOK
<1> QED BY <1>1, <1>3, <1>4, <1>5, <1>6 DEF Decide

(* So does every call.                                                     *)
LEMMA QueueTyped == QueueTypeOK /\ QueueInv /\ [QueueNext]_queueVars => QueueTypeOK'
<1>1. QueueTypeOK /\ UNCHANGED queueVars => QueueTypeOK'
  BY DEF queueVars, QueueTypeOK
<1> QED BY <1>1, EnqueueTypes, DecideTypes DEF QueueNext

(* The queue starts well typed.                                            *)
LEMMA QueueTypedInit == QueueInit => QueueTypeOK
<1> SUFFICES ASSUME QueueInit PROVE QueueTypeOK
  OBVIOUS
<1>1. Cardinality(Runners) \in Nat
  BY QueueAssumption, FS_CardinalityType
<1>2. commands = <<>> /\ order = <<>> /\ sends = 0 /\ 0 \in 0..MaxSends /\ 0 \in 0..Cardinality(Runners)
  BY <1>1, QueueAssumption DEF QueueInit
<1>3. DOMAIN commands = {} /\ order \in Seq(Commands) /\ ToSet(order) = {}
  BY <1>2 DEF ToSet
<1>4. commands \in [DOMAIN commands -> CommandStatus]
  BY <1>2, <1>3
<1> QED BY <1>2, <1>3, <1>4 DEF QueueInit, QueueTypeOK

(* What the parts keep, and the composition with them.                     *)
PartsInv == AssignmentsTyped /\ LocksInv /\ SchedulerTypeOK /\ QueueTypeOK /\ QueueInv /\ Served

(* The states of claims, locks, tasks, commands and of the run registry    *)
(* are well typed, in whichever part the calls are made                    *)
(* (control_plane.py, locks.py, scheduler.py, command_queue.py,            *)
(* api/routes/operator.py).                                                *)
THEOREM CoordinationTypeOKKept == Spec => []TypeOK
<1>1. Init => PartsInv
  <2>1. SchedulerInit => SchedulerTypeOK
    BY DEF SchedulerInit, SchedulerTypeOK
  <2> QED BY <2>1, TypedInit, LocksInit, QueueTypedInit, QueueInvInit, ServedInit DEF Init, PartsInv
<1>2. PartsInv /\ [Next]_parts => PartsInv'
  <2> SUFFICES ASSUME PartsInv, [Next]_parts PROVE PartsInv'
    OBVIOUS
  <2>1. /\ [OwnershipNext]_ownershipVars /\ [SchedulerNext]_schedulerVars
        /\ [QueueNext]_queueVars /\ [ServerNext]_serverVars
    BY DEF Next, parts, OwnershipNext
  <2> QED BY <2>1, TypedNext, LocksNextKeeps, SchedulerTyped, QueueTyped, QueueInvNext, ServedNext DEF PartsInv
<1>3. PartsInv => TypeOK
  BY DEF PartsInv, AssignmentsTyped, LocksInv, Served, TypeOK, OwnershipTypeOK
<1> QED BY <1>1, <1>2, <1>3, PTL DEF Spec
================================================================================
