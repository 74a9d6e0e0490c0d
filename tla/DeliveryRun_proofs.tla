--------------------------- MODULE DeliveryRun_proofs ---------------------------
(***************************************************************************)
(* For any sprint of distinct deliveries, any stages and verdicts, and any *)
(* number of runs, crashes and exceptions: what DeliveryRun promises.      *)
(***************************************************************************)
EXTENDS DeliveryRun, SequenceTheorems, TLAPS

(* The stages are numbered, and there is one before pr.                    *)
LEMMA StageNumbers ==
  Depth = 1..Last /\ Last \in Nat /\ Last > 1 /\ 1 \in Depth /\ Last \in Depth
<1>1. Stages \in Seq(STRING) /\ Len(Stages) > 1
  BY DeliveryAssumption
<1> QED
  BY <1>1 DEF Depth, Last

------------------------------------------------------------------------------
(* Sequences: a wider range, one more at the end, one less at the head.    *)
LEMMA Widened == ASSUME NEW S, NEW T, S \subseteq T, NEW q \in Seq(S) PROVE q \in Seq(T)
  OBVIOUS

(* A sequence grows at its end.                                            *)
LEMMA Lengthened ==
  ASSUME NEW S, NEW q \in Seq(S), NEW x \in S
  PROVE  /\ Append(q, x) \in Seq(S) /\ Len(Append(q, x)) = Len(q) + 1 /\ Len(q) \in Nat
         /\ DOMAIN q = 1..Len(q) /\ DOMAIN Append(q, x) = 1..Len(q) + 1
         /\ \A n \in DOMAIN q : Append(q, x)[n] = q[n]
         /\ Append(q, x)[Len(q) + 1] = x
  OBVIOUS

(* One element is another one now.                                         *)
LEMMA Exchanged ==
  ASSUME NEW S, NEW q \in Seq(S), NEW h \in DOMAIN q, NEW x \in S, NEW r, r = [q EXCEPT ![h] = x]
  PROVE  /\ r \in Seq(S) /\ Len(r) = Len(q) /\ DOMAIN r = DOMAIN q
         /\ r[h] = x /\ \A i \in DOMAIN q \ {h} : r[i] = q[i]
  OBVIOUS

(* A queue loses its head.                                                 *)
LEMMA Shortened ==
  ASSUME NEW S, NEW q \in Seq(S), q # <<>>
  PROVE  /\ Head(q) \in S /\ Head(q) = q[1] /\ 1 \in DOMAIN q
         /\ Tail(q) \in Seq(S)
         /\ \A n \in DOMAIN Tail(q) : n + 1 \in DOMAIN q /\ n \in Nat /\ Tail(q)[n] = q[n + 1]
  OBVIOUS

(* A sequence without places is empty.                                     *)
LEMMA NoPlaces == ASSUME NEW S, NEW q \in Seq(S), DOMAIN q = {} PROVE q = <<>>
<1>1. Len(q) \in Nat /\ DOMAIN q = 1..Len(q)
  OBVIOUS
<1>2. Len(q) = 0
  BY <1>1
<1> QED
  BY <1>2

------------------------------------------------------------------------------
(* What no step ever does to a tuple of the log.                           *)
SameNames ==
  /\ DOMAIN log \subseteq DOMAIN log'
  /\ \A i \in DOMAIN log :
       log'[i].key = log[i].key /\ log'[i].stage = log[i].stage /\ log'[i].noCache = log[i].noCache

(* One entry is written over.                                              *)
LEMMA LogChanged ==
  ASSUME log \in Seq(Entry), NEW h \in DOMAIN log, NEW x \in Entry, log' = [log EXCEPT ![h] = x]
  PROVE  /\ log' \in Seq(Entry) /\ Len(log') = Len(log) /\ DOMAIN log' = DOMAIN log
         /\ log'[h] = x /\ \A i \in DOMAIN log \ {h} : log'[i] = log[i]
  BY Exchanged

(* A marker changes a tuple's status, and its output.                      *)
LEMMA LogMarked ==
  ASSUME log \in Seq(Entry), NEW h \in DOMAIN log, NEW how \in {"emitted", "consumed", "completed", "err"},
         NEW out \in Outputs \cup {None},
         log' = [log EXCEPT ![h].status = how, ![h].out = out]
  PROVE  /\ log' \in Seq(Entry) /\ Len(log') = Len(log) /\ DOMAIN log' = DOMAIN log /\ SameNames
         /\ \A i \in DOMAIN log \ {h} : log'[i] = log[i]
         /\ log'[h].status = how /\ log'[h].out = out
<1> DEFINE new == [log[h] EXCEPT !.status = how, !.out = out]
<1>1. log[h] \in Entry
  OBVIOUS
<1>2. new \in Entry /\ new.status = how /\ new.out = out
      /\ new.key = log[h].key /\ new.stage = log[h].stage /\ new.noCache = log[h].noCache
  BY <1>1 DEF Entry
<1>3. log' = [log EXCEPT ![h] = new]
  BY <1>1 DEF Entry
<1> HIDE DEF new
<1>4. /\ log' \in Seq(Entry) /\ Len(log') = Len(log) /\ DOMAIN log' = DOMAIN log
      /\ log'[h] = new /\ \A i \in DOMAIN log \ {h} : log'[i] = log[i]
  BY <1>2, <1>3, LogChanged
<1> QED
  BY <1>2, <1>4 DEF SameNames

(* The consumed marker leaves the output alone.                            *)
LEMMA LogConsumed ==
  ASSUME log \in Seq(Entry), NEW h \in DOMAIN log, log' = [log EXCEPT ![h].status = "consumed"]
  PROVE  /\ log' \in Seq(Entry) /\ Len(log') = Len(log) /\ DOMAIN log' = DOMAIN log /\ SameNames
         /\ \A i \in DOMAIN log \ {h} : log'[i] = log[i]
         /\ log'[h].status = "consumed" /\ log'[h].out = log[h].out
<1>1. log[h] \in Entry
  OBVIOUS
<1>2. log[h].out \in Outputs \cup {None}
  BY <1>1 DEF Entry
<1>3. log' = [log EXCEPT ![h].status = "consumed", ![h].out = log[h].out]
  BY <1>1 DEF Entry
<1> QED
  BY <1>2, <1>3, LogMarked

(* A tuple is emitted at the end.                                          *)
LEMMA LogExtended ==
  ASSUME log \in Seq(Entry), NEW k \in Keys, NEW s \in Depth, NEW flag \in BOOLEAN,
         log' = Append(log, NewTuple(k, s, flag))
  PROVE  /\ log' \in Seq(Entry) /\ Len(log) \in Nat /\ Len(log') = Len(log) + 1 /\ SameNames
         /\ DOMAIN log = 1..Len(log) /\ DOMAIN log' = DOMAIN log \cup {Len(log) + 1}
         /\ \A i \in DOMAIN log : log'[i] = log[i]
         /\ log'[Len(log) + 1] = NewTuple(k, s, flag)
<1>1. NewTuple(k, s, flag) \in Entry
  BY DEF NewTuple, Entry
<1> HIDE DEF Entry
<1>2. /\ log' \in Seq(Entry) /\ Len(log) \in Nat /\ Len(log') = Len(log) + 1
      /\ DOMAIN log = 1..Len(log) /\ DOMAIN log' = 1..Len(log) + 1
      /\ \A i \in DOMAIN log : log'[i] = log[i]
      /\ log'[Len(log) + 1] = NewTuple(k, s, flag)
  BY <1>1, Lengthened
<1> QED
  BY <1>2 DEF SameNames
------------------------------------------------------------------------------
(* Typing.                                                                 *)

(* The positions of a longer log are positions of it.                      *)
LEMMA PlacesWiden ==
  ASSUME TypeOK, DOMAIN log \subseteq DOMAIN log'
  PROVE  /\ queue \in [Depth -> Seq(DOMAIN log')]
         /\ hand \in [Depth -> {0} \cup DOMAIN log']
<1>1. queue \in [Depth -> Seq(DOMAIN log)] /\ hand \in [Depth -> {0} \cup DOMAIN log]
  BY DEF TypeOK
<1>2. \A s \in Depth : queue[s] \in Seq(DOMAIN log')
  <2> SUFFICES ASSUME NEW s \in Depth PROVE queue[s] \in Seq(DOMAIN log')
    OBVIOUS
  <2>1. queue[s] \in Seq(DOMAIN log)
    BY <1>1
  <2> QED
    BY <2>1, Widened
<1> QED
  BY <1>1, <1>2

(* At first everything is empty.                                           *)
LEMMA TypeInit == Init => TypeOK
<1> SUFFICES ASSUME Init PROVE TypeOK
  OBVIOUS
<1>1. log = <<>> /\ log \in Seq(Entry) /\ Len(log) = 0
  BY DEF Init
<1>2. receipts \in [Depth \X Keys -> Outputs \cup {None}]
  BY DEF Init
<1>3. runState \in [planned : SUBSET Keys, completed : SUBSET Keys, failed : SUBSET Keys]
  BY DEF Init
<1>4. torn \in BOOLEAN /\ noCache \in BOOLEAN
  BY DEF Init
<1>5. dirty \in [Trees -> SUBSET Keys] /\ branch \in [Keys -> SUBSET Keys]
  BY DEF Init
<1>6. opened \in [Keys -> Nat] /\ lost \in [Keys -> Nat]
  BY DEF Init
<1>7. at \in 1..(Len(log) + Len(Sprint) + 1)
  BY <1>1, DeliveryAssumption DEF Init
<1>8. queue \in [Depth -> Seq(DOMAIN log)]
  BY DEF Init, Idle
<1>9. hand \in [Depth -> {0} \cup DOMAIN log] /\ result \in [Depth -> Outputs \cup {None}]
  BY DEF Init, Idle
<1>10. step \in [Depth -> {"idle", "consumed", "committed", "effected", "recorded", "marked"}]
  BY DEF Init, Idle
<1>11. runs = 0 /\ forced = 0 /\ faults = 0 /\ MaxRuns \in Nat /\ MaxFaults \in Nat
  BY DeliveryAssumption DEF Init
<1>12. phase \in {"off", "plan", "pool", "apply"}
  BY DEF Init
<1> QED
  BY <1>1, <1>2, <1>3, <1>4, <1>5, <1>6, <1>7, <1>8, <1>9, <1>10, <1>11, <1>12 DEF TypeOK

(* A run starts, plans, ends or dies.                                      *)
LEMMA TypeRun ==
  ASSUME TypeOK, Start \/ Plan \/ Planned \/ PoolIdle \/ ApplyOutput \/ Finish \/ Crash
  PROVE  TypeOK'
<1> USE DeliveryAssumption, StageNumbers
<1>1. CASE Start
  <2>1. noCache' \in BOOLEAN /\ runs' \in 0..MaxRuns /\ forced' \in 0..runs'
    BY <1>1 DEF Start, TypeOK
  <2> QED
    BY <1>1, <2>1 DEF Start, TypeOK, durable
<1>2. CASE Plan
  <2> DEFINE k == Sprint[at]
  <2>1. k \in Keys /\ at + 1 \in 1..(Len(log) + Len(Sprint) + 1) /\ at' = at + 1
    <3>1. at <= Len(Sprint) /\ at' = at + 1
      BY <1>2 DEF Plan
    <3>2. log \in Seq(Entry) /\ at \in 1..(Len(log) + Len(Sprint) + 1)
      BY DEF TypeOK
    <3>3. Sprint \in Seq(Keys) /\ Len(Sprint) \in Nat /\ Len(log) \in Nat
      BY <3>2
    <3>4. at \in 1..Len(Sprint)
      BY <3>1, <3>2, <3>3
    <3> QED
      BY <3>1, <3>2, <3>3, <3>4
  <2>2. runState' \in [planned : SUBSET Keys, completed : SUBSET Keys, failed : SUBSET Keys]
    BY <1>2, <2>1 DEF Plan, TypeOK
  <2>3. queue \in [Depth -> Seq(DOMAIN log)] /\ 1 \in Depth
    BY DEF TypeOK
  <2>4. CASE UNCHANGED <<log, queue>>
    BY <1>2, <2>1, <2>2, <2>4 DEF Plan, TypeOK
  <2>5. CASE log' = log /\ \E i \in PendingRoots(k) : queue' = [queue EXCEPT ![1] = Append(@, i)]
    <3>1. queue' \in [Depth -> Seq(DOMAIN log)]
      BY <2>3, <2>5, Lengthened DEF PendingRoots
    <3> QED
      BY <1>2, <2>1, <2>2, <2>5, <3>1 DEF Plan, TypeOK
  <2>6. CASE log' = Append(log, NewTuple(k, 1, noCache)) /\ queue' = [queue EXCEPT ![1] = Append(@, Len(log) + 1)]
    <3>1. /\ log' \in Seq(Entry) /\ Len(log') = Len(log) + 1 /\ Len(log) \in Nat
          /\ DOMAIN log \subseteq DOMAIN log' /\ Len(log) + 1 \in DOMAIN log'
      BY <2>1, <2>3, <2>6, LogExtended DEF TypeOK
    <3>2. queue \in [Depth -> Seq(DOMAIN log')] /\ hand \in [Depth -> {0} \cup DOMAIN log']
      BY <3>1, PlacesWiden
    <3>3. queue' \in [Depth -> Seq(DOMAIN log')]
      BY <2>3, <2>6, <3>1, <3>2, Lengthened
    <3>4. at' \in 1..(Len(log') + Len(Sprint) + 1)
      BY <2>1, <3>1
    <3> QED
      BY <1>2, <2>2, <3>1, <3>2, <3>3, <3>4 DEF Plan, TypeOK
  <2> QED
    BY <1>2, <2>4, <2>5, <2>6 DEF Plan, Seed
<1>3. CASE Planned
  BY <1>3 DEF Planned, TypeOK, durable
<1>4. CASE PoolIdle
  <2>1. log \in Seq(Entry) /\ UNCHANGED log
    BY <1>4 DEF PoolIdle, TypeOK, durable
  <2>2. Len(log) \in Nat /\ Len(Sprint) \in Nat
    BY <2>1
  <2>3. at' \in 1..(Len(log') + Len(Sprint) + 1)
    BY <1>4, <2>1, <2>2 DEF PoolIdle
  <2> QED
    BY <1>4, <2>3 DEF PoolIdle, TypeOK, durable
<1>5. CASE ApplyOutput
  <2> PICK i \in Remaining : runState' = Applied(runState, i) /\ at' = i + 1
    BY <1>5 DEF ApplyOutput
  <2>1. i \in 1..Len(log) /\ Len(log) \in Nat /\ i \in DOMAIN log
    BY DEF Remaining, TypeOK
  <2>2. log[i] \in Entry
    BY <2>1 DEF TypeOK
  <2>5. log[i].key \in Keys
    BY <2>2 DEF Entry
  <2>3. runState' \in [planned : SUBSET Keys, completed : SUBSET Keys, failed : SUBSET Keys]
    BY <2>5 DEF Applied, TypeOK
  <2>4. at' \in 1..(Len(log) + Len(Sprint) + 1)
    BY <2>1
  <2> QED
    BY <1>5, <2>3, <2>4 DEF ApplyOutput, TypeOK
<1>6. CASE Finish
  BY <1>6 DEF Finish, TypeOK, durable
<1>7. CASE Crash
  <2>1. lost' \in [Keys -> Nat]
    BY <1>7 DEF Crash, TypeOK, Unrecorded
  <2>2. /\ queue' = [s \in Depth |-> <<>>] /\ hand' = [s \in Depth |-> 0]
        /\ step' = [s \in Depth |-> "idle"] /\ result' = [s \in Depth |-> None]
    BY <1>7 DEF Crash, Idle
  <2>3. queue' \in [Depth -> Seq(DOMAIN log)]
    BY <2>2
  <2>4. hand' \in [Depth -> {0} \cup DOMAIN log] /\ result' \in [Depth -> Outputs \cup {None}]
    BY <2>2
  <2>5. step' \in [Depth -> {"idle", "consumed", "committed", "effected", "recorded", "marked"}]
    BY <2>2
  <2>6. torn' \in BOOLEAN /\ phase' = "off" /\ faults' \in 0..MaxFaults
    BY <1>7 DEF Crash, TypeOK
  <2>7. UNCHANGED <<log, receipts, runState, dirty, branch, opened, noCache, at, runs, forced>>
    BY <1>7 DEF Crash
  <2> QED
    BY <2>1, <2>3, <2>4, <2>5, <2>6, <2>7 DEF TypeOK
<1> QED
  BY <1>1, <1>2, <1>3, <1>4, <1>5, <1>6, <1>7

(* What waits or is handled at a stage belongs there; a worker that has    *)
(* come to its marker has set it.                                          *)
FlightInv ==
  \A s \in Depth :
    /\ \A n \in DOMAIN queue[s] : log[queue[s][n]].stage = s
    /\ hand[s] = 0 <=> step[s] = "idle"
    /\ hand[s] # 0 => log[hand[s]].stage = s
    /\ step[s] = "committed" => s = Last
    /\ step[s] = "marked" => log[hand[s]].status = "completed"

(* A worker that is under way has a tuple.                                 *)
LEMMA TupleInHand ==
  ASSUME TypeOK, FlightInv, NEW s \in Depth, step[s] # "idle"
  PROVE  /\ hand[s] \in DOMAIN log /\ hand[s] # 0 /\ Tuple(s) = log[hand[s]]
         /\ log[hand[s]] \in Entry /\ log[hand[s]].key \in Keys /\ log[hand[s]].stage = s
         /\ log[hand[s]].noCache \in BOOLEAN
<1>1. hand[s] \in {0} \cup DOMAIN log /\ hand[s] # 0 /\ log[hand[s]].stage = s
  BY DEF TypeOK, FlightInv
<1>2. hand[s] \in DOMAIN log /\ log[hand[s]] \in Entry
  BY <1>1 DEF TypeOK
<1> QED
  BY <1>1, <1>2 DEF Entry, Tuple

(* The steps of a worker.                                                  *)
LEMMA TypeWork ==
  ASSUME TypeOK, FlightInv, NEW s \in Depth, Work(s) \/ Raise(s)
  PROVE  TypeOK'
<1> USE StageNumbers
<1>1. CASE Take(s)
  <2>1. queue[s] \in Seq(DOMAIN log) /\ queue[s] # <<>>
    BY <1>1 DEF Take, TypeOK
  <2>2. Head(queue[s]) \in DOMAIN log /\ Tail(queue[s]) \in Seq(DOMAIN log)
    BY <2>1, Shortened
  <2>3. log' \in Seq(Entry) /\ Len(log') = Len(log) /\ DOMAIN log' = DOMAIN log
    BY <1>1, <2>2, LogConsumed DEF Take, TypeOK
  <2>4. queue' \in [Depth -> Seq(DOMAIN log)] /\ hand' \in [Depth -> {0} \cup DOMAIN log]
    BY <1>1, <2>2 DEF Take, TypeOK
  <2>5. step' \in [Depth -> {"idle", "consumed", "committed", "effected", "recorded", "marked"}]
    BY <1>1 DEF Take, TypeOK, Goto
  <2> QED
    BY <1>1, <2>3, <2>4, <2>5 DEF Take, TypeOK
<1>2. CASE CacheHit(s)
  <2>1. hand[s] \in DOMAIN log /\ log[hand[s]].key \in Keys /\ Tuple(s) = log[hand[s]]
    BY <1>2, TupleInHand DEF CacheHit
  <2>2. receipts[<<s, Tuple(s).key>>] \in Outputs \cup {None}
    BY <2>1 DEF TypeOK
  <2>3. result' \in [Depth -> Outputs \cup {None}]
    BY <1>2, <2>2 DEF CacheHit, TypeOK
  <2>4. step' \in [Depth -> {"idle", "consumed", "committed", "effected", "recorded", "marked"}]
    BY <1>2 DEF CacheHit, TypeOK, Goto
  <2> QED
    BY <1>2, <2>3, <2>4 DEF CacheHit, TypeOK, durable
<1>3. CASE Execute(s)
  <2>1. hand[s] \in DOMAIN log /\ log[hand[s]].key \in Keys /\ Tuple(s) = log[hand[s]]
    BY <1>3, TupleInHand DEF Execute
  <2>2. result' \in [Depth -> Outputs \cup {None}]
    BY <1>3 DEF Execute, TypeOK, Outputs
  <2>3. dirty' \in [Trees -> SUBSET Keys]
    BY <1>3, <2>1, DeliveryAssumption DEF Execute, TypeOK
  <2>4. step' \in [Depth -> {"idle", "consumed", "committed", "effected", "recorded", "marked"}]
    BY <1>3 DEF Execute, TypeOK, Goto
  <2> QED
    BY <1>3, <2>2, <2>3, <2>4 DEF Execute, TypeOK
<1>4. CASE Record(s)
  <2>1. hand[s] \in DOMAIN log /\ log[hand[s]].key \in Keys /\ Tuple(s) = log[hand[s]]
    BY <1>4, TupleInHand DEF Record
  <2>2. result[s] \in Outputs \cup {None}
    BY DEF TypeOK
  <2>3. receipts' \in [Depth \X Keys -> Outputs \cup {None}]
    BY <1>4, <2>1, <2>2 DEF Record, TypeOK
  <2>4. step' \in [Depth -> {"idle", "consumed", "committed", "effected", "recorded", "marked"}]
    BY <1>4 DEF Record, TypeOK, Goto
  <2> QED
    BY <1>4, <2>3, <2>4 DEF Record, TypeOK
<1>5. CASE Complete(s)
  <2>1. hand[s] \in DOMAIN log
    BY <1>5, TupleInHand DEF Complete
  <2>2. result[s] \in Outputs \cup {None}
    BY DEF TypeOK
  <2>3. log' \in Seq(Entry) /\ Len(log') = Len(log) /\ DOMAIN log' = DOMAIN log
    BY <1>5, <2>1, <2>2, LogMarked DEF Complete, Mark, TypeOK
  <2>4. step' \in [Depth -> {"idle", "consumed", "committed", "effected", "recorded", "marked"}]
    BY <1>5 DEF Complete, TypeOK, Goto
  <2> QED
    BY <1>5, <2>3, <2>4 DEF Complete, TypeOK
<1>6. CASE FollowUp(s)
  <2>1. hand[s] \in DOMAIN log /\ log[hand[s]].key \in Keys /\ Tuple(s) = log[hand[s]]
        /\ log[hand[s]].noCache \in BOOLEAN
    BY <1>6, TupleInHand DEF FollowUp
  <2>2. step' \in [Depth -> {"idle", "consumed", "committed", "effected", "recorded", "marked"}]
    BY <1>6 DEF FollowUp, TypeOK, Goto, Release
  <2>3. result' \in [Depth -> Outputs \cup {None}] /\ hand' = [hand EXCEPT ![s] = 0]
    BY <1>6 DEF FollowUp, TypeOK, Release
  <2>4. CASE UNCHANGED <<log, queue>>
    <3>1. hand' \in [Depth -> {0} \cup DOMAIN log]
      BY <2>3 DEF TypeOK
    <3> QED
      BY <1>6, <2>2, <2>3, <2>4, <3>1 DEF FollowUp, TypeOK
  <2>5. CASE /\ s # Last /\ log' = Append(log, NewTuple(Tuple(s).key, s + 1, Tuple(s).noCache))
             /\ queue' = [queue EXCEPT ![s + 1] = Append(@, Len(log) + 1)]
    <3>1. s + 1 \in Depth
      BY <2>5
    <3>2. /\ log' \in Seq(Entry) /\ Len(log') = Len(log) + 1 /\ Len(log) \in Nat
          /\ DOMAIN log \subseteq DOMAIN log' /\ Len(log) + 1 \in DOMAIN log'
      BY <2>1, <2>5, <3>1, LogExtended DEF TypeOK
    <3>3. queue \in [Depth -> Seq(DOMAIN log')] /\ hand \in [Depth -> {0} \cup DOMAIN log']
      BY <3>2, PlacesWiden
    <3>4. queue' \in [Depth -> Seq(DOMAIN log')]
      BY <2>5, <3>1, <3>2, <3>3, Lengthened
    <3>5. hand' \in [Depth -> {0} \cup DOMAIN log']
      BY <2>3, <3>3
    <3>6. at' \in 1..(Len(log') + Len(Sprint) + 1)
      BY <1>6, <3>2, DeliveryAssumption DEF FollowUp, TypeOK
    <3> QED
      BY <1>6, <2>2, <2>3, <3>2, <3>4, <3>5, <3>6 DEF FollowUp, TypeOK
  <2> QED
    BY <1>6, <2>4, <2>5 DEF FollowUp
<1>7. CASE Raise(s)
  <2>1. hand[s] \in DOMAIN log
    BY <1>7, TupleInHand DEF Raise
  <2>2. log' \in Seq(Entry) /\ Len(log') = Len(log) /\ DOMAIN log' = DOMAIN log
    BY <1>7, <2>1, LogMarked DEF Raise, Mark, TypeOK
  <2>3. /\ step' \in [Depth -> {"idle", "consumed", "committed", "effected", "recorded", "marked"}]
        /\ hand' \in [Depth -> {0} \cup DOMAIN log]
    BY <1>7 DEF Raise, Release, TypeOK, Goto
  <2>4. lost' \in [Keys -> Nat]
    BY <1>7 DEF Raise, TypeOK, Unrecorded
  <2>5. faults' \in 0..MaxFaults /\ result' \in [Depth -> Outputs \cup {None}]
    BY <1>7, DeliveryAssumption DEF Raise, Release, TypeOK
  <2> QED
    BY <1>7, <2>2, <2>3, <2>4, <2>5 DEF Raise, TypeOK
<1> QED
  BY <1>1, <1>2, <1>3, <1>4, <1>5, <1>6, <1>7 DEF Work

(* The pr stage: its commit, and its pull request.                         *)
LEMMA TypePr ==
  ASSUME TypeOK, FlightInv, Commit \/ OpenPr
  PROVE  TypeOK'
<1> USE StageNumbers
<1>1. hand[Last] \in DOMAIN log /\ log[hand[Last]].key \in Keys /\ Tuple(Last) = log[hand[Last]]
  BY TupleInHand DEF Commit, OpenPr
<1>2. step' \in [Depth -> {"idle", "consumed", "committed", "effected", "recorded", "marked"}]
  <2>1. step' = [step EXCEPT ![Last] = "committed"] \/ step' = [step EXCEPT ![Last] = "effected"]
    BY DEF Commit, OpenPr, Goto
  <2>2. step \in [Depth -> {"idle", "consumed", "committed", "effected", "recorded", "marked"}]
    BY DEF TypeOK
  <2> QED
    BY <2>1, <2>2
<1>3. CASE Commit
  <2>1. branch' \in [Keys -> SUBSET Keys] /\ dirty' \in [Trees -> SUBSET Keys]
    BY <1>1, <1>3, DeliveryAssumption DEF Commit, TypeOK
  <2> QED
    BY <1>2, <1>3, <2>1 DEF Commit, TypeOK
<1>4. CASE OpenPr
  <2> PICK created \in BOOLEAN :
             /\ opened' = IF created THEN [opened EXCEPT ![Tuple(Last).key] = @ + 1] ELSE opened
             /\ result' = [result EXCEPT ![Last] = StateUpdate(created)]
    BY <1>4 DEF OpenPr
  <2>1. opened' \in [Keys -> Nat]
    <3>1. opened' = opened \/ opened' = [opened EXCEPT ![Tuple(Last).key] = @ + 1]
      OBVIOUS
    <3>2. opened \in [Keys -> Nat] /\ Tuple(Last).key \in Keys
      BY <1>1 DEF TypeOK
    <3> QED
      BY <3>1, <3>2
  <2>2. result' \in [Depth -> Outputs \cup {None}]
    <3>1. StateUpdate(created) \in Outputs
      BY DEF StateUpdate, Outputs
    <3>2. result \in [Depth -> Outputs \cup {None}]
      BY DEF TypeOK
    <3> QED
      BY <3>1, <3>2
  <2> QED
    BY <1>2, <1>4, <2>1, <2>2 DEF OpenPr, TypeOK
<1> QED
  BY <1>3, <1>4
------------------------------------------------------------------------------
(* Where the tuples are: one place each, and one tuple of a delivery that  *)
(* can still move.                                                         *)

(* The sprint does not list a delivery twice.                              *)
EachOnce == \A i, j \in DOMAIN Sprint : Sprint[i] = Sprint[j] => i = j

PlaceInv ==
  \A s \in Depth :
    /\ \A n, m \in DOMAIN queue[s] : queue[s][n] = queue[s][m] => n = m
    /\ \A n \in DOMAIN queue[s] : queue[s][n] # hand[s]

(* Workers move while the pool runs; the seed is what was planned so far.  *)
PhaseInv ==
  /\ phase # "pool" => \A s \in Depth : step[s] = "idle"
  /\ phase \in {"off", "apply"} => \A s \in Depth : queue[s] = <<>>
  /\ phase = "plan" =>
       /\ at <= Len(Sprint) + 1
       /\ \A s \in Depth : \A n \in DOMAIN queue[s] :
            s = 1 /\ \E j \in 1..at - 1 : log[queue[s][n]].key = Sprint[j]

Flying(i) == \E s \in Depth : hand[s] = i \/ \E n \in DOMAIN queue[s] : queue[s][n] = i
Pending(i) == log[i].stage = 1 /\ log[i].status \in {"emitted", "consumed"}
Live(i) == Flying(i) \/ Pending(i)

OnceInv == \A i, j \in DOMAIN log : Live(i) /\ Live(j) /\ log[i].key = log[j].key => i = j

(* A tuple whose pull request has been asked for, or was served.           *)
Spent(i) == hand[Last] = i /\ step[Last] \in {"effected", "recorded", "marked"}

(* A tuple comes of one that could still move.                             *)
Heir(i) ==
  \E j \in DOMAIN log :
    Live(j) /\ ~Spent(j) /\ log[j].key = log'[i].key /\ log[j].noCache = log'[i].noCache

PlacesInv == FlightInv /\ PlaceInv /\ PhaseInv /\ OnceInv

(* No tuple comes to life.                                                 *)
LEMMA OnceKeeps ==
  ASSUME OnceInv, SameNames, \A i \in DOMAIN log' : Live(i)' => i \in DOMAIN log /\ Live(i)
  PROVE  OnceInv'
  BY DEF OnceInv, SameNames

(* One tuple comes to life, where no other one of its delivery is.         *)
LEMMA OnceMoves ==
  ASSUME OnceInv, SameNames, NEW new,
         \A i \in DOMAIN log' :
           Live(i)' => i = new \/ (i \in DOMAIN log /\ Live(i) /\ log[i].key # log'[new].key)
  PROVE  OnceInv'
  BY DEF OnceInv, SameNames

(* At first there is no tuple.                                             *)
LEMMA PlacesInit == Init => PlacesInv
<1> SUFFICES ASSUME Init PROVE PlacesInv
  OBVIOUS
<1>1. \A s \in Depth : queue[s] = <<>> /\ hand[s] = 0 /\ step[s] = "idle"
  BY DEF Init, Idle
<1>2. DOMAIN log = {} /\ phase = "off"
  BY DEF Init
<1> QED
  BY <1>1, <1>2 DEF PlacesInv, FlightInv, PlaceInv, PhaseInv, OnceInv

(* Steps that move no tuple: the phases of a run.                          *)
LEMMA PlacesPhase ==
  ASSUME TypeOK, PlacesInv, Start \/ Planned \/ PoolIdle \/ ApplyOutput \/ Finish
  PROVE  PlacesInv' /\ SameNames /\ \A i \in DOMAIN log' : Live(i)' /\ ~Spent(i)' => Heir(i)
<1> USE DEF PlacesInv
<1>1. UNCHANGED <<log, queue, hand, step>>
  BY DEF Start, Planned, PoolIdle, ApplyOutput, Finish, durable
<1>2. SameNames /\ \A i \in DOMAIN log : (Live(i)' <=> Live(i)) /\ (Spent(i)' <=> Spent(i))
  BY <1>1 DEF SameNames, Live, Flying, Pending, Spent
<1>3. FlightInv' /\ PlaceInv' /\ OnceInv'
  BY <1>1, <1>2 DEF FlightInv, PlaceInv, OnceInv
<1>4. \A i \in DOMAIN log' : Live(i)' /\ ~Spent(i)' => Heir(i)
  BY <1>1, <1>2 DEF Heir
<1>5. PhaseInv'
  <2>1. CASE Start
    <3>1. phase = "off" /\ phase' = "plan" /\ at' = 1 /\ Len(Sprint) \in Nat
      BY <2>1, DeliveryAssumption DEF Start
    <3> QED
      BY <1>1, <3>1 DEF PhaseInv
  <2>2. CASE Planned
    <3>1. phase = "plan" /\ (phase' = "pool" \/ (phase' = "off" /\ queue[1] = <<>>))
      BY <2>2 DEF Planned
    <3>2. \A s \in Depth \ {1} : queue[s] = <<>>
      <4> SUFFICES ASSUME NEW s \in Depth \ {1} PROVE queue[s] = <<>>
        OBVIOUS
      <4>1. queue[s] \in Seq(DOMAIN log) /\ DOMAIN queue[s] = {}
        BY <3>1 DEF PhaseInv, TypeOK
      <4> QED
        BY <4>1, NoPlaces
    <3> QED
      BY <1>1, <3>1, <3>2 DEF PhaseInv
  <2>3. CASE PoolIdle
    BY <1>1, <2>3 DEF PoolIdle, PhaseInv, FlightInv
  <2>4. CASE ApplyOutput \/ Finish
    BY <1>1, <2>4 DEF ApplyOutput, Finish, PhaseInv
  <2> QED
    BY <2>1, <2>2, <2>3, <2>4
<1> QED
  BY <1>2, <1>3, <1>4, <1>5

(* Steps that move a worker on with the tuple it has.                      *)
LEMMA PlacesOn ==
  ASSUME TypeOK, PlacesInv, NEW s \in Depth, NEW next \in {"committed", "effected", "recorded"},
         UNCHANGED <<log, queue, hand, phase, noCache, at>>, step' = [step EXCEPT ![s] = next],
         step[s] \in {"consumed", "committed", "effected"}, next = "committed" => s = Last /\ step[s] = "consumed"
  PROVE  PlacesInv' /\ SameNames /\ \A i \in DOMAIN log' : Live(i)' /\ ~Spent(i)' => Heir(i)
<1> USE DEF PlacesInv
<1>1. step'[s] = next /\ \A u \in Depth \ {s} : step'[u] = step[u]
  BY DEF TypeOK
<1>2. SameNames /\ \A i \in DOMAIN log : Live(i)' <=> Live(i)
  BY DEF SameNames, Live, Flying, Pending
<1>3. \A i \in DOMAIN log : Spent(i) => Spent(i)'
  BY <1>1, StageNumbers DEF Spent
<1>4. FlightInv' /\ PlaceInv' /\ OnceInv' /\ PhaseInv'
  <2>1. FlightInv'
    BY <1>1 DEF FlightInv
  <2>2. PlaceInv' /\ OnceInv'
    BY <1>2 DEF PlaceInv, OnceInv
  <2>3. PhaseInv'
    BY <1>1 DEF PhaseInv
  <2> QED
    BY <2>1, <2>2, <2>3
<1>5. \A i \in DOMAIN log' : Live(i)' /\ ~Spent(i)' => Heir(i)
  BY <1>2, <1>3 DEF Heir
<1> QED
  BY <1>2, <1>4, <1>5

(* A worker takes the head of its queue.                                   *)
LEMMA PlacesTake ==
  ASSUME TypeOK, PlacesInv, NEW s \in Depth, Take(s)
  PROVE  PlacesInv' /\ SameNames /\ \A i \in DOMAIN log' : Live(i)' /\ ~Spent(i)' => Heir(i)
<1> USE DEF PlacesInv
<1> DEFINE h == Head(queue[s])
<1>1. queue[s] \in Seq(DOMAIN log) /\ queue[s] # <<>> /\ step[s] = "idle" /\ phase = "pool"
  BY DEF Take, TypeOK
<1>2. /\ h \in DOMAIN log /\ h = queue[s][1] /\ 1 \in DOMAIN queue[s]
      /\ \A n \in DOMAIN Tail(queue[s]) :
           n + 1 \in DOMAIN queue[s] /\ n \in Nat /\ Tail(queue[s])[n] = queue[s][n + 1]
  BY <1>1, Shortened
<1>3. hand[s] = 0 /\ 0 \notin DOMAIN log
  BY <1>1 DEF FlightInv, TypeOK
<1>4. /\ DOMAIN log' = DOMAIN log /\ SameNames /\ log'[h].status = "consumed"
      /\ \A i \in DOMAIN log \ {h} : log'[i] = log[i]
  BY <1>2, LogConsumed DEF Take, TypeOK
<1> HIDE DEF h
<1>5. /\ hand'[s] = h /\ \A u \in Depth \ {s} : hand'[u] = hand[u]
      /\ queue'[s] = Tail(queue[s]) /\ \A u \in Depth \ {s} : queue'[u] = queue[u]
      /\ step'[s] = "consumed" /\ \A u \in Depth \ {s} : step'[u] = step[u]
      /\ UNCHANGED <<phase, noCache, at>>
  BY DEF Take, TypeOK, Goto, h
<1>6. \A u \in Depth : \A n \in DOMAIN queue'[u] : \E m \in DOMAIN queue[u] : queue'[u][n] = queue[u][m]
  <2> SUFFICES ASSUME NEW u \in Depth, NEW n \in DOMAIN queue'[u]
               PROVE  \E m \in DOMAIN queue[u] : queue'[u][n] = queue[u][m]
    OBVIOUS
  <2>1. CASE u = s
    BY <1>2, <1>5, <2>1
  <2>2. CASE u # s
    BY <1>5, <2>2
  <2> QED
    BY <2>1, <2>2
<1>7. \A i \in DOMAIN log : (Live(i)' => Live(i)) /\ (Spent(i) => Spent(i)')
  <2> SUFFICES ASSUME NEW i \in DOMAIN log PROVE (Live(i)' => Live(i)) /\ (Spent(i) => Spent(i)')
    OBVIOUS
  <2>1. Flying(i)' => Flying(i)
    BY <1>2, <1>5, <1>6 DEF Flying
  <2>2. Pending(i)' => Pending(i) \/ i = h
    BY <1>4 DEF Pending, SameNames
  <2>3. i = h => Flying(i)
    BY <1>2 DEF Flying
  <2>4. Spent(i) => Spent(i)'
    BY <1>1, <1>5, StageNumbers DEF Spent
  <2> QED
    BY <2>1, <2>2, <2>3, <2>4 DEF Live
<1>8. FlightInv'
  <2> SUFFICES ASSUME NEW u \in Depth
               PROVE  /\ \A n \in DOMAIN queue'[u] : log'[queue'[u][n]].stage = u
                      /\ hand'[u] = 0 <=> step'[u] = "idle"
                      /\ hand'[u] # 0 => log'[hand'[u]].stage = u
                      /\ step'[u] = "committed" => u = Last
                      /\ step'[u] = "marked" => log'[hand'[u]].status = "completed"
    BY DEF FlightInv
  <2>1. \A n \in DOMAIN queue'[u] : log'[queue'[u][n]].stage = u
    <3> SUFFICES ASSUME NEW n \in DOMAIN queue'[u] PROVE log'[queue'[u][n]].stage = u
      OBVIOUS
    <3>1. PICK m \in DOMAIN queue[u] : queue'[u][n] = queue[u][m]
      BY <1>6
    <3>2. queue[u][m] \in DOMAIN log /\ log[queue[u][m]].stage = u
      BY DEF TypeOK, FlightInv
    <3> QED
      BY <1>4, <3>1, <3>2 DEF SameNames
  <2>2. CASE u = s
    BY <1>2, <1>3, <1>4, <1>5, <2>1, <2>2 DEF FlightInv, SameNames
  <2>3. CASE u # s
    <3>1. hand'[u] = hand[u] /\ step'[u] = step[u]
      BY <1>5, <2>3
    <3>2. hand[u] # 0 => hand[u] \in DOMAIN log /\ log[hand[u]].stage = u
      BY DEF TypeOK, FlightInv
    <3>3. log[h].stage = s
      BY <1>2 DEF FlightInv
    <3>4. step[u] = "marked" => hand[u] # 0 /\ hand[u] # h
      BY <2>3, <3>2, <3>3 DEF FlightInv
    <3> QED
      BY <1>4, <2>1, <3>1, <3>2, <3>4 DEF FlightInv, SameNames
  <2> QED
    BY <2>2, <2>3
<1>9. PlaceInv'
  <2>1. ASSUME NEW u \in Depth \ {s}
        PROVE  /\ \A n, m \in DOMAIN queue'[u] : queue'[u][n] = queue'[u][m] => n = m
               /\ \A n \in DOMAIN queue'[u] : queue'[u][n] # hand'[u]
    BY <1>5 DEF PlaceInv
  <2>2. \A n, m \in DOMAIN queue'[s] : queue'[s][n] = queue'[s][m] => n = m
    <3> SUFFICES ASSUME NEW n \in DOMAIN queue'[s], NEW m \in DOMAIN queue'[s], queue'[s][n] = queue'[s][m]
                 PROVE  n = m
      OBVIOUS
    <3>1. n + 1 \in DOMAIN queue[s] /\ m + 1 \in DOMAIN queue[s] /\ n \in Nat /\ m \in Nat
          /\ queue[s][n + 1] = queue[s][m + 1]
      BY <1>2, <1>5
    <3>2. n + 1 = m + 1
      BY <3>1 DEF PlaceInv
    <3> QED
      BY <3>1, <3>2
  <2>3. \A n \in DOMAIN queue'[s] : queue'[s][n] # hand'[s]
    <3> SUFFICES ASSUME NEW n \in DOMAIN queue'[s] PROVE queue'[s][n] # h
      BY <1>5
    <3>1. n + 1 \in DOMAIN queue[s] /\ n \in Nat /\ queue'[s][n] = queue[s][n + 1] /\ n + 1 # 1
      BY <1>2, <1>5, StageNumbers
    <3> QED
      BY <1>2, <3>1 DEF PlaceInv
  <2> QED
    BY <2>1, <2>2, <2>3 DEF PlaceInv
<1>10. PhaseInv' /\ OnceInv'
  BY <1>1, <1>4, <1>5, <1>7, OnceKeeps DEF PhaseInv
<1>11. \A i \in DOMAIN log' : Live(i)' /\ ~Spent(i)' => Heir(i)
  BY <1>4, <1>7 DEF Heir, SameNames
<1> QED
  BY <1>4, <1>8, <1>9, <1>10, <1>11

(* The completed marker.                                                   *)
LEMMA PlacesComplete ==
  ASSUME TypeOK, PlacesInv, NEW s \in Depth, Complete(s)
  PROVE  PlacesInv' /\ SameNames /\ \A i \in DOMAIN log' : Live(i)' /\ ~Spent(i)' => Heir(i)
<1> USE DEF PlacesInv
<1> DEFINE h == hand[s]
<1>1. h \in DOMAIN log /\ h # 0 /\ step[s] = "recorded" /\ log[h].stage = s
  BY TupleInHand DEF Complete
<1>2. result[s] \in Outputs \cup {None}
  BY DEF TypeOK
<1>3. /\ DOMAIN log' = DOMAIN log /\ SameNames /\ log'[h].status = "completed"
      /\ \A i \in DOMAIN log \ {h} : log'[i] = log[i]
  BY <1>1, <1>2, LogMarked DEF Complete, Mark, TypeOK
<1>4. /\ step'[s] = "marked" /\ \A u \in Depth \ {s} : step'[u] = step[u]
      /\ UNCHANGED <<phase, noCache, at, queue, hand>>
  BY DEF Complete, TypeOK, Goto
<1>5. \A i \in DOMAIN log : (Live(i)' => Live(i)) /\ (Spent(i) => Spent(i)')
  <2> SUFFICES ASSUME NEW i \in DOMAIN log PROVE (Live(i)' => Live(i)) /\ (Spent(i) => Spent(i)')
    OBVIOUS
  <2>1. Flying(i)' => Flying(i)
    BY <1>4 DEF Flying
  <2>2. Pending(i)' => Pending(i)
    BY <1>3 DEF Pending
  <2>3. Spent(i) => Spent(i)'
    BY <1>4, StageNumbers DEF Spent
  <2> QED
    BY <2>1, <2>2, <2>3 DEF Live
<1>6. FlightInv'
  <2> SUFFICES ASSUME NEW u \in Depth
               PROVE  /\ \A n \in DOMAIN queue'[u] : log'[queue'[u][n]].stage = u
                      /\ hand'[u] = 0 <=> step'[u] = "idle"
                      /\ hand'[u] # 0 => log'[hand'[u]].stage = u
                      /\ step'[u] = "committed" => u = Last
                      /\ step'[u] = "marked" => log'[hand'[u]].status = "completed"
    BY DEF FlightInv
  <2>1. \A n \in DOMAIN queue[u] : queue[u][n] \in DOMAIN log /\ log[queue[u][n]].stage = u
    BY DEF TypeOK, FlightInv
  <2>2. hand[u] # 0 => hand[u] \in DOMAIN log /\ log[hand[u]].stage = u
    BY DEF TypeOK, FlightInv
  <2>3. CASE u = s
    BY <1>1, <1>3, <1>4, <2>1, <2>3 DEF SameNames
  <2>4. CASE u # s
    <3>1. step'[u] = step[u] /\ step[u] = "marked" => hand[u] # 0 /\ hand[u] # h
      BY <1>1, <1>4, <2>2, <2>4 DEF FlightInv
    <3> QED
      BY <1>3, <1>4, <2>1, <2>2, <2>4, <3>1 DEF SameNames, FlightInv
  <2> QED
    BY <2>3, <2>4
<1>7. PlaceInv' /\ PhaseInv' /\ OnceInv'
  <2>1. PlaceInv'
    BY <1>4 DEF PlaceInv
  <2>2. phase = "pool" /\ PhaseInv'
    BY <1>1, <1>4 DEF PhaseInv
  <2> QED
    BY <1>3, <1>5, <2>1, <2>2, OnceKeeps
<1>8. \A i \in DOMAIN log' : Live(i)' /\ ~Spent(i)' => Heir(i)
  BY <1>3, <1>5 DEF Heir, SameNames
<1> QED
  BY <1>3, <1>6, <1>7, <1>8

(* What a worker has in hand is nowhere else.                              *)
LEMMA OnlyInHand ==
  ASSUME TypeOK, PlacesInv, NEW s \in Depth, NEW h, h = hand[s], h # 0
  PROVE  /\ h \in DOMAIN log /\ log[h].stage = s
         /\ \A u \in Depth \ {s} : hand[u] # h
         /\ \A u \in Depth : \A n \in DOMAIN queue[u] : queue[u][n] # h
<1> USE DEF PlacesInv
<1>1. h \in DOMAIN log /\ log[h].stage = s
  BY DEF TypeOK, FlightInv
<1>2. \A u \in Depth \ {s} : hand[u] # h
  BY <1>1 DEF TypeOK, FlightInv
<1>3. \A u \in Depth : \A n \in DOMAIN queue[u] : queue[u][n] # h
  <2> SUFFICES ASSUME NEW u \in Depth, NEW n \in DOMAIN queue[u], queue[u][n] = h PROVE FALSE
    OBVIOUS
  <2>1. u = s
    BY <1>1 DEF FlightInv
  <2> QED
    BY <2>1 DEF PlaceInv
<1> QED
  BY <1>1, <1>2, <1>3

(* A worker lets go of its tuple, and nothing follows.                     *)
LEMMA PlacesRelease ==
  ASSUME TypeOK, PlacesInv, NEW s \in Depth, NEW h, h = hand[s], step[s] # "idle", Release(s),
         UNCHANGED <<phase, noCache, at, queue>>, DOMAIN log' = DOMAIN log, SameNames,
         \A i \in DOMAIN log \ {h} : log'[i] = log[i], ~Pending(h)'
  PROVE  PlacesInv' /\ \A i \in DOMAIN log' : Live(i)' /\ ~Spent(i)' => Heir(i)
<1> USE DEF PlacesInv
<1>1. h \in DOMAIN log /\ h # 0 /\ log[h].stage = s
  BY TupleInHand
<1>2. /\ hand'[s] = 0 /\ \A u \in Depth \ {s} : hand'[u] = hand[u]
      /\ step'[s] = "idle" /\ \A u \in Depth \ {s} : step'[u] = step[u]
      /\ hand' = [hand EXCEPT ![s] = 0]
  BY DEF Release, TypeOK, Goto
<1>3. ~Live(h)'
  BY <1>1, <1>2, OnlyInHand DEF Live, Flying
<1>4. \A i \in DOMAIN log : (Live(i)' => Live(i)) /\ (Live(i)' /\ ~Spent(i)' => ~Spent(i))
  <2> SUFFICES ASSUME NEW i \in DOMAIN log
               PROVE  (Live(i)' => Live(i)) /\ (Live(i)' /\ ~Spent(i)' => ~Spent(i))
    OBVIOUS
  <2>1. CASE i = h
    BY <1>3, <2>1
  <2>2. CASE i # h
    <3>0. hand'[s] # i
      <4>1. 0 \notin DOMAIN log
        BY DEF TypeOK
      <4> QED
        BY <1>2, <4>1
    <3>1. Flying(i)' => Flying(i)
      BY <1>2, <3>0 DEF Flying
    <3>2. Pending(i)' => Pending(i)
      BY <2>2 DEF Pending
    <3>3. Spent(i) => Spent(i)'
      BY <1>2, <2>2, StageNumbers DEF Spent
    <3> QED
      BY <3>1, <3>2, <3>3 DEF Live
  <2> QED
    BY <2>1, <2>2
<1>5. FlightInv'
  <2> SUFFICES ASSUME NEW u \in Depth
               PROVE  /\ \A n \in DOMAIN queue'[u] : log'[queue'[u][n]].stage = u
                      /\ hand'[u] = 0 <=> step'[u] = "idle"
                      /\ hand'[u] # 0 => log'[hand'[u]].stage = u
                      /\ step'[u] = "committed" => u = Last
                      /\ step'[u] = "marked" => log'[hand'[u]].status = "completed"
    BY DEF FlightInv
  <2>1. \A n \in DOMAIN queue[u] : queue[u][n] \in DOMAIN log /\ log[queue[u][n]].stage = u
    BY DEF TypeOK, FlightInv
  <2>2. hand[u] # 0 => hand[u] \in DOMAIN log /\ log[hand[u]].stage = u
    BY DEF TypeOK, FlightInv
  <2>3. CASE u = s
    BY <1>2, <2>1, <2>3 DEF SameNames
  <2>4. CASE u # s
    <3>1. step'[u] = step[u] /\ hand'[u] = hand[u] /\ step[u] = "marked" => hand[u] # 0 /\ hand[u] # h
      BY <1>1, <1>2, <2>2, <2>4 DEF FlightInv
    <3> QED
      BY <1>2, <2>1, <2>2, <2>4, <3>1 DEF SameNames, FlightInv
  <2> QED
    BY <2>3, <2>4
<1>6. PlaceInv' /\ PhaseInv' /\ OnceInv'
  <2>1. PlaceInv'
    <3> SUFFICES ASSUME NEW u \in Depth
                 PROVE  /\ \A n, m \in DOMAIN queue'[u] : queue'[u][n] = queue'[u][m] => n = m
                        /\ \A n \in DOMAIN queue'[u] : queue'[u][n] # hand'[u]
      BY DEF PlaceInv
    <3>1. \A n \in DOMAIN queue[u] : queue[u][n] # 0 /\ queue[u][n] # hand[u]
      BY DEF TypeOK, PlaceInv
    <3> QED
      BY <1>2, <3>1 DEF PlaceInv
  <2>2. phase = "pool" /\ PhaseInv'
    BY <1>2 DEF PhaseInv
  <2> QED
    BY <1>4, <2>1, <2>2, OnceKeeps
<1>7. \A i \in DOMAIN log' : Live(i)' /\ ~Spent(i)' => Heir(i)
  BY <1>4 DEF Heir, SameNames
<1> QED
  BY <1>5, <1>6, <1>7

(* A follow-up joins the next queue, and takes over from its parent.       *)
LEMMA PlacesFollowUp ==
  ASSUME TypeOK, PlacesInv, NEW s \in Depth, FollowUp(s)
  PROVE  PlacesInv' /\ SameNames /\ \A i \in DOMAIN log' : Live(i)' /\ ~Spent(i)' => Heir(i)
<1> USE DEF PlacesInv
<1>0. PICK h \in DOMAIN log :
        /\ h = hand[s] /\ h # 0 /\ step[s] = "marked" /\ Tuple(s) = log[h]
        /\ log[h].key \in Keys /\ log[h].stage = s /\ log[h].noCache \in BOOLEAN
        /\ log[h].status = "completed"
  BY TupleInHand DEF FollowUp, FlightInv
<1>1. Release(s) /\ UNCHANGED <<phase, noCache, at>>
  BY DEF FollowUp
<1>2. CASE UNCHANGED <<log, queue>>
  <2>1. DOMAIN log' = DOMAIN log /\ SameNames /\ ~Pending(h)' /\ \A i \in DOMAIN log : log'[i] = log[i]
    BY <1>0, <1>2 DEF SameNames, Pending
  <2> QED
    BY <1>0, <1>1, <1>2, <2>1, PlacesRelease
<1>3. CASE /\ s # Last /\ log' = Append(log, NewTuple(log[h].key, s + 1, log[h].noCache))
           /\ queue' = [queue EXCEPT ![s + 1] = Append(@, Len(log) + 1)]
  <2> DEFINE t == s + 1
  <2> PICK new : new = Len(log) + 1
    OBVIOUS
  <2>1. t \in Depth /\ t # s
    BY <1>3, StageNumbers
  <2>2. /\ DOMAIN log' = DOMAIN log \cup {new} /\ SameNames /\ new \notin DOMAIN log
        /\ \A i \in DOMAIN log : log'[i] = log[i]
        /\ log'[new] = NewTuple(log[h].key, t, log[h].noCache)
    <3>1. log \in Seq(Entry) /\ t \in Depth /\ log[h].key \in Keys /\ log[h].noCache \in BOOLEAN
      BY <1>0, <2>1 DEF TypeOK, Entry
    <3>2. log' = Append(log, NewTuple(log[h].key, t, log[h].noCache))
      BY <1>3
    <3>3. /\ DOMAIN log = 1..Len(log) /\ Len(log) \in Nat /\ SameNames
          /\ DOMAIN log' = DOMAIN log \cup {Len(log) + 1}
          /\ \A i \in DOMAIN log : log'[i] = log[i]
          /\ log'[Len(log) + 1] = NewTuple(log[h].key, t, log[h].noCache)
      <4> HIDE DEF t
      <4> QED
        BY <3>1, <3>2, LogExtended
    <3> QED
      BY <3>3
  <2>3. log'[new].key = log[h].key /\ log'[new].stage = t /\ log'[new].noCache = log[h].noCache
    BY <2>2 DEF NewTuple
  <2>4. 0 \notin DOMAIN log /\ new # 0
    BY <2>2 DEF TypeOK
  <2>5. /\ queue[t] \in Seq(DOMAIN log \cup {new}) /\ Len(queue[t]) \in Nat
        /\ DOMAIN queue[t] = 1..Len(queue[t])
    <3>1. queue[t] \in Seq(DOMAIN log)
      BY <2>1 DEF TypeOK
    <3> QED
      BY <3>1, Widened
  <2>6. /\ DOMAIN queue'[t] = 1..Len(queue[t]) + 1
        /\ \A n \in DOMAIN queue[t] : queue'[t][n] = queue[t][n]
        /\ queue'[t][Len(queue[t]) + 1] = new
        /\ \A u \in Depth \ {t} : queue'[u] = queue[u]
    <3>1. queue'[t] = Append(queue[t], new) /\ \A u \in Depth \ {t} : queue'[u] = queue[u]
      BY <1>3, <2>1 DEF TypeOK
    <3> QED
      BY <2>5, <3>1, Lengthened
  <2>7. /\ hand'[s] = 0 /\ \A u \in Depth \ {s} : hand'[u] = hand[u]
        /\ step'[s] = "idle" /\ \A u \in Depth \ {s} : step'[u] = step[u]
        /\ hand' = [hand EXCEPT ![s] = 0]
    BY <1>1 DEF Release, TypeOK, Goto
  <2>8. \A u \in Depth : \A n \in DOMAIN queue'[u] :
          (u = t /\ n = Len(queue[t]) + 1 /\ queue'[u][n] = new)
          \/ (n \in DOMAIN queue[u] /\ queue'[u][n] = queue[u][n])
    <3> SUFFICES ASSUME NEW u \in Depth, NEW n \in DOMAIN queue'[u]
                 PROVE  (u = t /\ n = Len(queue[t]) + 1 /\ queue'[u][n] = new)
                        \/ (n \in DOMAIN queue[u] /\ queue'[u][n] = queue[u][n])
      OBVIOUS
    <3>1. CASE u = t
      <4>1. n \in 1..Len(queue[t]) + 1
        BY <2>6, <3>1
      <4>2. CASE n = Len(queue[t]) + 1
        BY <2>6, <3>1, <4>2
      <4>3. CASE n # Len(queue[t]) + 1
        <5>1. n \in DOMAIN queue[t]
          BY <2>5, <4>1, <4>3
        <5> QED
          BY <2>6, <3>1, <5>1
      <4> QED
        BY <4>2, <4>3
    <3>2. CASE u # t
      BY <2>6, <3>2
    <3> QED
      BY <3>1, <3>2
  <2>9. ~Live(h)'
    <3>1. ~Pending(h)'
      BY <1>0, <2>2 DEF Pending
    <3>2. /\ \A u \in Depth \ {s} : hand[u] # h
          /\ \A u \in Depth : \A n \in DOMAIN queue[u] : queue[u][n] # h
      BY <1>0, OnlyInHand
    <3>3. \A u \in Depth : hand'[u] # h
      BY <1>0, <2>7, <3>2
    <3>4. \A u \in Depth : \A n \in DOMAIN queue'[u] : queue'[u][n] # h
      BY <1>0, <2>2, <2>8, <3>2
    <3> QED
      BY <3>1, <3>3, <3>4 DEF Live, Flying
  <2>10. Live(h) /\ ~Spent(h)
    BY <1>0, <1>3, StageNumbers DEF Live, Flying, Spent, FlightInv
  <2>11. \A i \in DOMAIN log : Live(i)' => Live(i) /\ i # h
    <3> SUFFICES ASSUME NEW i \in DOMAIN log, Live(i)' PROVE Live(i)
      BY <2>9
    <3>1. Flying(i)' => Flying(i)
      BY <2>2, <2>4, <2>7, <2>8 DEF Flying
    <3>2. Pending(i)' => Pending(i)
      BY <2>2 DEF Pending
    <3> QED
      BY <3>1, <3>2 DEF Live
  <2>12. \A i \in DOMAIN log : Spent(i) => Spent(i)'
    BY <1>3, <2>7, StageNumbers DEF Spent
  <2>13. \A i \in DOMAIN log' : Live(i)' /\ ~Spent(i)' => Heir(i)
    <3> SUFFICES ASSUME NEW i \in DOMAIN log', Live(i)', ~Spent(i)' PROVE Heir(i)
      OBVIOUS
    <3>1. CASE i = new
      BY <2>3, <2>10, <3>1 DEF Heir
    <3>2. CASE i \in DOMAIN log
      BY <2>2, <2>11, <2>12, <3>2 DEF Heir
    <3> QED
      BY <2>2, <3>1, <3>2
  <2>14. OnceInv'
    <3>1. \A i \in DOMAIN log' : Live(i)' => i = new \/ (i \in DOMAIN log /\ Live(i) /\ log[i].key # log'[new].key)
      BY <2>2, <2>3, <2>10, <2>11 DEF OnceInv
    <3> QED
      BY <2>2, <3>1, OnceMoves
  <2>15. PhaseInv'
    <3>1. phase = "pool"
      BY <1>0 DEF PhaseInv
    <3> QED
      BY <1>1, <3>1 DEF PhaseInv
  <2>16. PlaceInv'
    <3> SUFFICES ASSUME NEW u \in Depth
                 PROVE  /\ \A n, m \in DOMAIN queue'[u] : queue'[u][n] = queue'[u][m] => n = m
                        /\ \A n \in DOMAIN queue'[u] : queue'[u][n] # hand'[u]
      BY DEF PlaceInv
    <3>1. \A n \in DOMAIN queue[u] : queue[u][n] \in DOMAIN log /\ queue[u][n] # hand[u]
      BY DEF TypeOK, PlaceInv
    <3>2. hand'[u] \in {0, hand[u]} /\ hand[u] \in DOMAIN log \cup {0}
      BY <2>7 DEF TypeOK
    <3>3. \A n, m \in DOMAIN queue'[u] : queue'[u][n] = queue'[u][m] => n = m
      <4> SUFFICES ASSUME NEW n \in DOMAIN queue'[u], NEW m \in DOMAIN queue'[u], queue'[u][n] = queue'[u][m]
                   PROVE  n = m
        OBVIOUS
      <4>1. /\ (u = t /\ n = Len(queue[t]) + 1 /\ queue'[u][n] = new)
               \/ (n \in DOMAIN queue[u] /\ queue'[u][n] = queue[u][n])
            /\ (u = t /\ m = Len(queue[t]) + 1 /\ queue'[u][m] = new)
               \/ (m \in DOMAIN queue[u] /\ queue'[u][m] = queue[u][m])
        BY <2>8
      <4> QED
        BY <2>2, <3>1, <4>1 DEF PlaceInv
    <3>4. \A n \in DOMAIN queue'[u] : queue'[u][n] # hand'[u]
      <4> SUFFICES ASSUME NEW n \in DOMAIN queue'[u] PROVE queue'[u][n] # hand'[u]
        OBVIOUS
      <4>1. queue'[u][n] = new \/ (n \in DOMAIN queue[u] /\ queue'[u][n] = queue[u][n])
        BY <2>8
      <4> QED
        BY <2>2, <2>4, <3>1, <3>2, <4>1
    <3> QED
      BY <3>3, <3>4
  <2>17. FlightInv'
    <3> SUFFICES ASSUME NEW u \in Depth
                 PROVE  /\ \A n \in DOMAIN queue'[u] : log'[queue'[u][n]].stage = u
                        /\ hand'[u] = 0 <=> step'[u] = "idle"
                        /\ hand'[u] # 0 => log'[hand'[u]].stage = u
                        /\ step'[u] = "committed" => u = Last
                        /\ step'[u] = "marked" => log'[hand'[u]].status = "completed"
      BY DEF FlightInv
    <3>1. \A n \in DOMAIN queue[u] : queue[u][n] \in DOMAIN log /\ log[queue[u][n]].stage = u
      BY DEF TypeOK, FlightInv
    <3>2. hand[u] # 0 => hand[u] \in DOMAIN log /\ log[hand[u]].stage = u
      BY DEF TypeOK, FlightInv
    <3>3. \A n \in DOMAIN queue'[u] : log'[queue'[u][n]].stage = u
      <4> SUFFICES ASSUME NEW n \in DOMAIN queue'[u] PROVE log'[queue'[u][n]].stage = u
        OBVIOUS
      <4>1. (u = t /\ queue'[u][n] = new) \/ (n \in DOMAIN queue[u] /\ queue'[u][n] = queue[u][n])
        BY <2>8
      <4> QED
        BY <2>2, <2>3, <3>1, <4>1
    <3>4. CASE u = s
      BY <2>7, <3>3, <3>4
    <3>5. CASE u # s
      <4>1. step'[u] = step[u] /\ hand'[u] = hand[u]
        BY <2>7, <3>5
      <4>2. step[u] = "marked" => hand[u] # 0 /\ log[hand[u]].status = "completed"
        BY DEF FlightInv
      <4> QED
        BY <2>2, <3>2, <3>3, <4>1, <4>2 DEF FlightInv
    <3> QED
      BY <3>4, <3>5
  <2> QED
    BY <2>2, <2>13, <2>14, <2>15, <2>16, <2>17
<1> QED
  BY <1>0, <1>2, <1>3 DEF FollowUp

(* An exception ends what its tuple was.                                   *)
LEMMA PlacesRaise ==
  ASSUME TypeOK, PlacesInv, NEW s \in Depth, Raise(s)
  PROVE  PlacesInv' /\ SameNames /\ \A i \in DOMAIN log' : Live(i)' /\ ~Spent(i)' => Heir(i)
<1>1. PICK h \in DOMAIN log : h = hand[s] /\ h # 0 /\ step[s] # "idle"
  BY TupleInHand DEF Raise, PlacesInv
<1>2. /\ DOMAIN log' = DOMAIN log /\ SameNames /\ log'[h].status = "err"
      /\ \A i \in DOMAIN log \ {h} : log'[i] = log[i]
  BY <1>1, LogMarked DEF Raise, Mark, TypeOK
<1>3. ~Pending(h)'
  BY <1>2 DEF Pending
<1>4. Release(s) /\ UNCHANGED <<phase, noCache, at, queue>>
  BY DEF Raise
<1> QED
  BY <1>1, <1>2, <1>3, <1>4, PlacesRelease

(* The process dies: what is pending stays in the log.                     *)
LEMMA PlacesCrash ==
  ASSUME TypeOK, PlacesInv, Crash
  PROVE  PlacesInv' /\ SameNames /\ \A i \in DOMAIN log' : Live(i)' /\ ~Spent(i)' => Heir(i)
<1> USE DEF PlacesInv
<1>1. /\ \A s \in Depth : queue'[s] = <<>> /\ hand'[s] = 0 /\ step'[s] = "idle"
      /\ phase' = "off" /\ log' = log /\ noCache' = noCache
  BY DEF Crash, Idle
<1>2. SameNames /\ 0 \notin DOMAIN log
  BY <1>1 DEF SameNames, TypeOK
<1>3. \A i \in DOMAIN log : Live(i)' => Pending(i)
  BY <1>1, <1>2 DEF Live, Flying, Pending
<1>4. \A i \in DOMAIN log : Spent(i) => ~Pending(i)
  <2> SUFFICES ASSUME NEW i \in DOMAIN log, Spent(i), Pending(i) PROVE FALSE
    OBVIOUS
  <2>1. log[i].stage = Last
    BY <1>2, StageNumbers DEF Spent, FlightInv
  <2> QED
    BY <2>1, StageNumbers DEF Pending
<1>5. \A i \in DOMAIN log' : Live(i)' /\ ~Spent(i)' => Heir(i)
  BY <1>1, <1>3, <1>4 DEF Heir, Live
<1>6. OnceInv'
  BY <1>1, <1>2, <1>3, OnceKeeps DEF Live
<1>7. FlightInv' /\ PlaceInv' /\ PhaseInv'
  BY <1>1 DEF FlightInv, PlaceInv, PhaseInv
<1> QED
  BY <1>2, <1>5, <1>6, <1>7

(* A delivery of the sprint gets its root tuple: the one that is pending,  *)
(* or a new one when there is none.                                        *)
LEMMA PlacesPlan ==
  ASSUME EachOnce, TypeOK, PlacesInv, Plan
  PROVE  /\ PlacesInv' /\ SameNames
         /\ \A i \in DOMAIN log' : Live(i)' /\ ~Spent(i)' =>
              Heir(i) \/ (log'[i].key = Sprint[at] /\ log'[i].noCache = noCache)
<1> USE DEF PlacesInv
<1>0. PICK k \in Keys : k = Sprint[at]
  <2>1. log \in Seq(Entry) /\ at \in 1..(Len(log) + Len(Sprint) + 1) /\ at <= Len(Sprint)
    BY DEF Plan, TypeOK
  <2>2. Sprint \in Seq(Keys)
    BY DeliveryAssumption
  <2>3. at \in 1..Len(Sprint)
    BY <2>1, <2>2
  <2> QED
    BY <2>2, <2>3
<1>1. /\ at \in Nat /\ at >= 1 /\ Len(Sprint) \in Nat /\ DOMAIN Sprint = 1..Len(Sprint) /\ at <= Len(Sprint)
      /\ at' = at + 1 /\ at \in 1..at' - 1 /\ 1..at - 1 \subseteq 1..at' - 1 /\ at \notin 1..at - 1
      /\ 1..at - 1 \subseteq DOMAIN Sprint
  <2>1. at \in 1..(Len(log) + Len(Sprint) + 1) /\ Len(log) \in Nat /\ at <= Len(Sprint) /\ at' = at + 1
    BY DEF Plan, TypeOK
  <2>2. Len(Sprint) \in Nat /\ DOMAIN Sprint = 1..Len(Sprint)
    BY DeliveryAssumption
  <2> QED
    BY <2>1, <2>2
<1>2. phase = "plan" /\ UNCHANGED <<phase, noCache, hand, step>>
  BY DEF Plan
<1>3. \A s \in Depth : step[s] = "idle" /\ hand[s] = 0
  BY <1>2 DEF PhaseInv, FlightInv
<1>4. \A s \in Depth : \A n \in DOMAIN queue[s] :
        /\ queue[s][n] \in DOMAIN log /\ s = 1 /\ log[queue[s][n]].key # k
        /\ \E j \in 1..at' - 1 : log[queue[s][n]].key = Sprint[j]
  <2> SUFFICES ASSUME NEW s \in Depth, NEW n \in DOMAIN queue[s]
               PROVE  /\ queue[s][n] \in DOMAIN log /\ s = 1 /\ log[queue[s][n]].key # k
                      /\ \E j \in 1..at' - 1 : log[queue[s][n]].key = Sprint[j]
    OBVIOUS
  <2>1. PICK j \in 1..at - 1 : s = 1 /\ log[queue[s][n]].key = Sprint[j]
    BY <1>2 DEF PhaseInv
  <2>2. j \in DOMAIN Sprint /\ at \in DOMAIN Sprint /\ j # at /\ j \in 1..at' - 1
    BY <1>1
  <2>3. Sprint[j] # k
    BY <1>0, <2>2 DEF EachOnce
  <2>4. queue[s][n] \in DOMAIN log
    BY DEF TypeOK
  <2> QED
    BY <2>1, <2>2, <2>3, <2>4
<1>5. /\ queue[1] \in Seq(DOMAIN log) /\ Len(queue[1]) \in Nat /\ DOMAIN queue[1] = 1..Len(queue[1])
      /\ 1 \in Depth /\ 0 \notin DOMAIN log
  BY StageNumbers DEF TypeOK
<1>6. CASE UNCHANGED <<log, queue>>
  <2>1. SameNames /\ \A i \in DOMAIN log : (Live(i)' <=> Live(i)) /\ (Spent(i)' <=> Spent(i))
    BY <1>2, <1>6 DEF SameNames, Live, Flying, Pending, Spent
  <2>2. FlightInv' /\ PlaceInv' /\ OnceInv'
    BY <1>2, <1>6, <2>1 DEF FlightInv, PlaceInv, OnceInv
  <2>3. PhaseInv'
    BY <1>1, <1>2, <1>3, <1>4, <1>6 DEF PhaseInv
  <2>4. \A i \in DOMAIN log' : Live(i)' /\ ~Spent(i)' => Heir(i)
    BY <1>2, <1>6, <2>1 DEF Heir
  <2> QED
    BY <2>1, <2>2, <2>3, <2>4
<1>7. ASSUME NEW new, queue' = [queue EXCEPT ![1] = Append(@, new)], DOMAIN log' = DOMAIN log \cup {new},
             SameNames, \A i \in DOMAIN log \ {new} : log'[i] = log[i], new # 0,
             log'[new].key = k /\ log'[new].stage = 1,
             \/ new \in DOMAIN log /\ Pending(new)
             \/ new \notin DOMAIN log /\ log'[new].noCache = noCache /\ PendingRoots(k) = {}
      PROVE  /\ PlacesInv'
             /\ \A i \in DOMAIN log' : Live(i)' /\ ~Spent(i)' =>
                  Heir(i) \/ (log'[i].key = k /\ log'[i].noCache = noCache)
  <2> DEFINE q == queue[1]
             len == Len(queue[1])
  <2>1. /\ DOMAIN queue'[1] = 1..len + 1 /\ queue'[1][len + 1] = new
        /\ \A n \in DOMAIN q : queue'[1][n] = q[n]
        /\ \A u \in Depth \ {1} : queue'[u] = queue[u]
    <3>1. queue'[1] = Append(q, new) /\ \A u \in Depth \ {1} : queue'[u] = queue[u]
      BY <1>5, <1>7 DEF TypeOK
    <3>2. q \in Seq(DOMAIN log \cup {new})
      BY <1>5, Widened
    <3> QED
      BY <1>5, <3>1, <3>2, Lengthened
  <2>2. \A u \in Depth : \A n \in DOMAIN queue'[u] :
          (u = 1 /\ n = len + 1 /\ queue'[u][n] = new)
          \/ (u = 1 /\ n \in DOMAIN queue[u] /\ queue'[u][n] = queue[u][n])
    <3> SUFFICES ASSUME NEW u \in Depth, NEW n \in DOMAIN queue'[u]
                 PROVE  (u = 1 /\ n = len + 1 /\ queue'[u][n] = new)
                        \/ (u = 1 /\ n \in DOMAIN queue[u] /\ queue'[u][n] = queue[u][n])
      OBVIOUS
    <3>1. CASE u = 1
      BY <1>5, <2>1, <3>1
    <3>2. CASE u # 1
      BY <1>4, <2>1, <3>2
    <3> QED
      BY <3>1, <3>2
  <2>3. \A n \in DOMAIN q : q[n] # new /\ q[n] \in DOMAIN log
    <3> SUFFICES ASSUME NEW n \in DOMAIN q PROVE q[n] # new /\ q[n] \in DOMAIN log
      OBVIOUS
    <3>1. q[n] \in DOMAIN log /\ log[q[n]].key # k
      BY <1>4, <1>5
    <3> QED
      BY <1>7, <3>1 DEF SameNames
  <2>4. \A i \in DOMAIN log \ {new} : Live(i)' => Live(i)
    <3> SUFFICES ASSUME NEW i \in DOMAIN log \ {new}, Live(i)' PROVE Live(i)
      OBVIOUS
    <3>1. Flying(i)' => Flying(i)
      BY <1>2, <2>2 DEF Flying
    <3>2. Pending(i)' => Pending(i)
      BY <1>7 DEF Pending
    <3> QED
      BY <3>1, <3>2 DEF Live
  <2>5. \A i \in DOMAIN log : ~Spent(i) /\ ~Spent(i)'
    BY <1>2, <1>3, <1>5, StageNumbers DEF Spent
  <2>6. PlaceInv'
    <3> SUFFICES ASSUME NEW u \in Depth
                 PROVE  /\ \A n, m \in DOMAIN queue'[u] : queue'[u][n] = queue'[u][m] => n = m
                        /\ \A n \in DOMAIN queue'[u] : queue'[u][n] # hand'[u]
      BY DEF PlaceInv
    <3>1. \A n, m \in DOMAIN queue'[u] : queue'[u][n] = queue'[u][m] => n = m
      <4> SUFFICES ASSUME NEW n \in DOMAIN queue'[u], NEW m \in DOMAIN queue'[u], queue'[u][n] = queue'[u][m]
                   PROVE  n = m
        OBVIOUS
      <4>1. /\ (u = 1 /\ n = len + 1 /\ queue'[u][n] = new)
               \/ (u = 1 /\ n \in DOMAIN queue[u] /\ queue'[u][n] = queue[u][n])
            /\ (u = 1 /\ m = len + 1 /\ queue'[u][m] = new)
               \/ (u = 1 /\ m \in DOMAIN queue[u] /\ queue'[u][m] = queue[u][m])
        BY <2>2
      <4> QED
        BY <2>3, <4>1 DEF PlaceInv
    <3>2. \A n \in DOMAIN queue'[u] : queue'[u][n] # hand'[u]
      <4> SUFFICES ASSUME NEW n \in DOMAIN queue'[u] PROVE queue'[u][n] # 0
        BY <1>2, <1>3
      <4>1. \/ queue'[u][n] = new
            \/ (u = 1 /\ n \in DOMAIN queue[u] /\ queue'[u][n] = queue[u][n])
        BY <2>2
      <4> QED
        BY <1>5, <1>7, <2>3, <4>1
    <3> QED
      BY <3>1, <3>2
  <2>7. FlightInv'
    <3>1. \A u \in Depth : \A n \in DOMAIN queue'[u] : log'[queue'[u][n]].stage = u
      <4> SUFFICES ASSUME NEW u \in Depth, NEW n \in DOMAIN queue'[u] PROVE log'[queue'[u][n]].stage = u
        OBVIOUS
      <4>1. \/ (u = 1 /\ queue'[u][n] = new)
            \/ (u = 1 /\ n \in DOMAIN queue[u] /\ queue'[u][n] = queue[u][n])
        BY <2>2
      <4> QED
        BY <1>7, <2>3, <4>1 DEF FlightInv, SameNames
    <3>2. \A u \in Depth : hand'[u] = 0 /\ step'[u] = "idle"
      BY <1>2, <1>3
    <3> QED
      BY <3>1, <3>2 DEF FlightInv
  <2>8. PhaseInv'
    <3>1. \A u \in Depth : \A n \in DOMAIN queue'[u] :
            u = 1 /\ \E j \in 1..at' - 1 : log'[queue'[u][n]].key = Sprint[j]
      <4> SUFFICES ASSUME NEW u \in Depth, NEW n \in DOMAIN queue'[u]
                   PROVE  u = 1 /\ \E j \in 1..at' - 1 : log'[queue'[u][n]].key = Sprint[j]
        OBVIOUS
      <4>1. CASE u = 1 /\ queue'[u][n] = new
        BY <1>0, <1>1, <1>7, <4>1
      <4>2. CASE u = 1 /\ n \in DOMAIN queue[u] /\ queue'[u][n] = queue[u][n]
        <5>1. queue[u][n] \in DOMAIN log /\ \E j \in 1..at' - 1 : log[queue[u][n]].key = Sprint[j]
          BY <1>4, <4>2
        <5> QED
          BY <1>7, <4>2, <5>1 DEF SameNames
      <4> QED
        BY <2>2, <4>1, <4>2
    <3>2. \A u \in Depth : step'[u] = "idle"
      BY <1>2, <1>3
    <3> QED
      BY <1>1, <1>2, <3>1, <3>2 DEF PhaseInv
  <2> HIDE DEF q, len
  <2>9. CASE new \in DOMAIN log /\ Pending(new)
    <3>1. \A i \in DOMAIN log' : Live(i)' => i \in DOMAIN log /\ Live(i)
      BY <1>7, <2>4, <2>9 DEF Live
    <3>2. OnceInv'
      BY <1>7, <3>1, OnceKeeps
    <3>3. \A i \in DOMAIN log' : Live(i)' => Heir(i)
      BY <1>7, <2>5, <3>1 DEF Heir, SameNames
    <3> QED
      BY <2>6, <2>7, <2>8, <3>2, <3>3
  <2>10. CASE new \notin DOMAIN log /\ log'[new].noCache = noCache /\ PendingRoots(k) = {}
    <3>1. \A i \in DOMAIN log : Live(i) => log[i].key # k
      <4> SUFFICES ASSUME NEW i \in DOMAIN log, Live(i), log[i].key = k PROVE FALSE
        OBVIOUS
      <4>1. CASE Pending(i)
        BY <2>10, <4>1 DEF Pending, PendingRoots
      <4>2. CASE Flying(i)
        <5>1. PICK u \in Depth : \E n \in DOMAIN queue[u] : queue[u][n] = i
          BY <1>3, <1>5, <4>2 DEF Flying
        <5> QED
          BY <1>4, <5>1
      <4> QED
        BY <4>1, <4>2 DEF Live
    <3>2. \A i \in DOMAIN log : Live(i)' => Live(i) /\ log[i].key # k
      BY <2>4, <2>10, <3>1
    <3>3. OnceInv'
      <4>1. \A i \in DOMAIN log' : Live(i)' => i = new \/ (i \in DOMAIN log /\ Live(i) /\ log[i].key # log'[new].key)
        BY <1>7, <3>2
      <4> QED
        BY <1>7, <4>1, OnceMoves
    <3>4. \A i \in DOMAIN log : Live(i)' => Heir(i)
      BY <1>7, <2>5, <3>2 DEF Heir, SameNames
    <3> QED
      BY <1>7, <2>6, <2>7, <2>8, <2>10, <3>3, <3>4
  <2> QED
    BY <1>7, <2>9, <2>10
<1>8. CASE \E i \in PendingRoots(k) : log' = log /\ queue' = [queue EXCEPT ![1] = Append(@, i)]
  <2> PICK i \in PendingRoots(k) : log' = log /\ queue' = [queue EXCEPT ![1] = Append(@, i)]
    BY <1>8
  <2>1. i \in DOMAIN log /\ log[i].key = k /\ log[i].stage = 1 /\ Pending(i) /\ i # 0
    BY <1>5 DEF PendingRoots, Pending
  <2>2. SameNames /\ DOMAIN log' = DOMAIN log \cup {i}
    BY <2>1 DEF SameNames
  <2>3. PlacesInv' /\ \A x \in DOMAIN log' : Live(x)' /\ ~Spent(x)' =>
                        Heir(x) \/ (log'[x].key = k /\ log'[x].noCache = noCache)
    BY <1>7, <2>1, <2>2
  <2> QED
    BY <1>0, <2>2, <2>3
<1>9. CASE /\ PendingRoots(k) = {} /\ log' = Append(log, NewTuple(k, 1, noCache))
           /\ queue' = [queue EXCEPT ![1] = Append(@, Len(log) + 1)]
  <2> PICK i : i = Len(log) + 1
    OBVIOUS
  <2>1. /\ DOMAIN log' = DOMAIN log \cup {i} /\ SameNames /\ i \notin DOMAIN log /\ i # 0
        /\ \A x \in DOMAIN log : log'[x] = log[x]
        /\ log'[i] = NewTuple(k, 1, noCache)
    BY <1>5, <1>9, LogExtended DEF TypeOK
  <2>2. log'[i].key = k /\ log'[i].stage = 1 /\ log'[i].noCache = noCache
    BY <2>1 DEF NewTuple
  <2>3. PlacesInv' /\ \A x \in DOMAIN log' : Live(x)' /\ ~Spent(x)' =>
                        Heir(x) \/ (log'[x].key = k /\ log'[x].noCache = noCache)
    BY <1>7, <1>9, <2>1, <2>2
  <2> QED
    BY <1>0, <2>1, <2>3
<1> QED
  <2>1. \/ UNCHANGED <<log, queue>>
        \/ \E i \in PendingRoots(k) : log' = log /\ queue' = [queue EXCEPT ![1] = Append(@, i)]
        \/ /\ PendingRoots(k) = {} /\ log' = Append(log, NewTuple(k, 1, noCache))
           /\ queue' = [queue EXCEPT ![1] = Append(@, Len(log) + 1)]
    BY <1>0 DEF Plan, Seed
  <2> QED
    BY <1>6, <1>8, <1>9, <2>1

(* A tuple that can still open a pull request comes of one that could, or  *)
(* of the sprint.                                                          *)
Comes ==
  \A i \in DOMAIN log' : Live(i)' /\ ~Spent(i)' =>
    \/ Heir(i)
    \/ phase = "plan" /\ at <= Len(Sprint) /\ log'[i].key = Sprint[at] /\ log'[i].noCache = noCache

(* The pr stage commits, asks for the pull request.                        *)
LEMMA PlacesPr ==
  ASSUME TypeOK, PlacesInv, Commit \/ OpenPr
  PROVE  PlacesInv' /\ SameNames /\ \A i \in DOMAIN log' : Live(i)' /\ ~Spent(i)' => Heir(i)
<1> USE StageNumbers
<1>1. CASE Commit
  BY <1>1, PlacesOn DEF Commit, Goto
<1>2. CASE OpenPr
  BY <1>2, PlacesOn DEF OpenPr, Goto
<1> QED
  BY <1>1, <1>2

(* The steps of a worker.                                                  *)
LEMMA PlacesWork ==
  ASSUME TypeOK, PlacesInv, NEW s \in Depth, Work(s)
  PROVE  PlacesInv' /\ SameNames /\ \A i \in DOMAIN log' : Live(i)' /\ ~Spent(i)' => Heir(i)
<1>1. CASE CacheHit(s)
  BY <1>1, PlacesOn DEF CacheHit, Goto, durable
<1>2. CASE Execute(s)
  BY <1>2, PlacesOn DEF Execute, Goto
<1>3. CASE Record(s)
  BY <1>3, PlacesOn DEF Record, Goto
<1> QED
  BY <1>1, <1>2, <1>3, PlacesTake, PlacesComplete, PlacesFollowUp DEF Work

(* Every step.                                                             *)
LEMMA PlacesNext ==
  ASSUME EachOnce, TypeOK, PlacesInv, Next
  PROVE  PlacesInv' /\ SameNames /\ Comes
<1>1. CASE Plan
  <2>1. phase = "plan" /\ at <= Len(Sprint)
    BY <1>1 DEF Plan
  <2> QED
    BY <1>1, <2>1, PlacesPlan DEF Comes
<1>2. CASE Start \/ Planned \/ PoolIdle \/ ApplyOutput \/ Finish
  BY <1>2, PlacesPhase DEF Comes
<1>3. CASE Commit \/ OpenPr
  BY <1>3, PlacesPr DEF Comes
<1>4. CASE \E s \in Depth : Work(s)
  BY <1>4, PlacesWork DEF Comes
<1>5. CASE \E s \in Depth : Raise(s)
  BY <1>5, PlacesRaise DEF Comes
<1>6. CASE Crash
  BY <1>6, PlacesCrash DEF Comes
<1> QED
  BY <1>1, <1>2, <1>3, <1>4, <1>5, <1>6 DEF Next, Flow

(* Typing goes with the places.                                            *)
LEMMA TypeNext == ASSUME TypeOK, PlacesInv, Next PROVE TypeOK'
<1> USE DEF PlacesInv
<1>1. CASE Start \/ Plan \/ Planned \/ PoolIdle \/ ApplyOutput \/ Finish \/ Crash
  BY <1>1, TypeRun
<1>2. CASE \E s \in Depth : Work(s) \/ Raise(s)
  BY <1>2, TypeWork
<1>3. CASE Commit \/ OpenPr
  BY <1>3, TypePr
<1> QED
  BY <1>1, <1>2, <1>3 DEF Next, Flow

(* Nothing moves.                                                          *)
LEMMA StutterPlaces ==
  ASSUME TypeOK, PlacesInv, UNCHANGED vars
  PROVE  TypeOK' /\ PlacesInv'
<1> USE DEF vars, durable, volatile
<1>1. TypeOK'
  BY DEF TypeOK
<1>2. FlightInv' /\ PlaceInv' /\ PhaseInv'
  BY DEF PlacesInv, FlightInv, PlaceInv, PhaseInv
<1>3. OnceInv'
  BY DEF PlacesInv, OnceInv, Live, Flying, Pending
<1> QED
  BY <1>1, <1>2, <1>3 DEF PlacesInv

(* The variables keep their types, and every tuple its place, whatever the *)
(* stages, verdicts and bounds are.                                        *)
THEOREM TypeOKKept == EachOnce /\ Spec => []TypeOK
<1> SUFFICES ASSUME EachOnce PROVE Spec => []TypeOK
  OBVIOUS
<1>1. Init => TypeOK /\ PlacesInv
  BY TypeInit, PlacesInit
<1>2. TypeOK /\ PlacesInv /\ [Next]_vars => TypeOK' /\ PlacesInv'
  BY PlacesNext, TypeNext, StutterPlaces
<1> QED
  BY <1>1, <1>2, PTL DEF Spec

------------------------------------------------------------------------------
(* Pull requests are accounted for.                                        *)

(* A run without cache may still open one for the delivery.                *)
MayOpen(k) ==
  \/ \E i \in DOMAIN log : Live(i) /\ ~Spent(i) /\ log[i].key = k /\ log[i].noCache
  \/ phase = "plan" /\ noCache /\ \E j \in at..Len(Sprint) : Sprint[j] = k

(* The one that a receipt stands for, or will.                             *)
Used(k) ==
  \/ receipts[<<Last, k>>] = "completed"
  \/ /\ step[Last] = "effected" /\ result[Last] = "completed"
     /\ Tuple(Last).key = k /\ ~Tuple(Last).noCache

Balance(k) ==
  /\ opened[k] <= 1 + lost[k] + forced
  /\ MayOpen(k) => opened[k] <= lost[k] + forced
  /\ ~Used(k) => opened[k] <= lost[k] + forced
  /\ MayOpen(k) /\ ~Used(k) => opened[k] + 1 <= lost[k] + forced

BalanceInv == \A k \in Keys : Balance(k)

(* A tuple that goes by receipts had none when it began.                   *)
ReceiptInv ==
  step[Last] \in {"committed", "effected"} /\ ~Tuple(Last).noCache =>
    receipts[<<Last, Tuple(Last).key>>] = None

(* Only the start of a run without cache adds to what may be opened.       *)
LEMMA MayOpenNext ==
  ASSUME EachOnce, TypeOK, PlacesInv, Next, NEW k \in Keys, MayOpen(k)'
  PROVE  MayOpen(k) \/ (forced' = forced + 1 /\ Start)
<1>1. SameNames /\ Comes
  BY PlacesNext
<1>2. CASE \E i \in DOMAIN log' : Live(i)' /\ ~Spent(i)' /\ log'[i].key = k /\ log'[i].noCache
  <2> PICK i \in DOMAIN log' : Live(i)' /\ ~Spent(i)' /\ log'[i].key = k /\ log'[i].noCache
    BY <1>2
  <2>1. CASE Heir(i)
    BY <2>1 DEF Heir, MayOpen
  <2>2. CASE phase = "plan" /\ at <= Len(Sprint) /\ log'[i].key = Sprint[at] /\ log'[i].noCache = noCache
    <3>1. at \in at..Len(Sprint)
      <4>1. at \in Int /\ Len(Sprint) \in Int
        BY DeliveryAssumption DEF TypeOK
      <4> QED
        BY <2>2, <4>1
    <3> QED
      BY <2>2, <3>1 DEF MayOpen
  <2> QED
    BY <1>1, <2>1, <2>2 DEF Comes
<1>3. CASE phase' = "plan" /\ noCache' /\ \E j \in at'..Len(Sprint) : Sprint[j] = k
  <2>1. CASE Start
    BY <1>3, <2>1 DEF Start
  <2>2. CASE ~Start
    <3>1. phase = "plan" /\ noCache' = noCache /\ (at' = at \/ at' = at + 1)
      BY <1>3, <2>2 DEF Next, Flow, Work, Plan, Planned, PoolIdle, ApplyOutput, Finish, Commit, OpenPr,
                        Take, CacheHit, Execute, Record, Complete, FollowUp, Crash, Raise, vars, volatile
    <3>2. at'..Len(Sprint) \subseteq at..Len(Sprint)
      <4>1. at \in Int /\ Len(Sprint) \in Int
        BY DeliveryAssumption DEF TypeOK
      <4> QED
        BY <3>1, <4>1
    <3> QED
      BY <1>3, <3>1, <3>2 DEF MayOpen
  <2> QED
    BY <2>1, <2>2
<1> QED
  BY <1>2, <1>3 DEF MayOpen

(* No pull request is opened; what was used stays used or counts as lost.  *)
LEMMA BalanceKeeps ==
  ASSUME TypeOK, TypeOK', NEW k \in Keys, Balance(k), opened'[k] = opened[k],
         lost'[k] >= lost[k], forced' >= forced,
         MayOpen(k)' => MayOpen(k) \/ forced' = forced + 1,
         Used(k) => Used(k)' \/ lost'[k] = lost[k] + 1
  PROVE  Balance(k)'
<1>1. /\ opened[k] \in Nat /\ lost[k] \in Nat /\ lost'[k] \in Nat /\ forced \in Nat /\ forced' \in Nat
      /\ opened'[k] \in Nat
  BY DEF TypeOK
<1>2. opened'[k] <= 1 + lost'[k] + forced'
  BY <1>1 DEF Balance
<1>3. MayOpen(k)' => opened'[k] <= lost'[k] + forced'
  BY <1>1 DEF Balance
<1>4. ~Used(k)' => opened'[k] <= lost'[k] + forced'
  BY <1>1 DEF Balance
<1>5. MayOpen(k)' /\ ~Used(k)' => opened'[k] + 1 <= lost'[k] + forced'
  BY <1>1 DEF Balance
<1> QED
  BY <1>2, <1>3, <1>4, <1>5 DEF Balance

(* A status completed has a pull request, wherever it is written.          *)
EvidenceInv ==
  /\ \A k \in Keys : receipts[<<Last, k>>] = "completed" => opened[k] > 0
  /\ step[Last] \in {"effected", "recorded"} /\ result[Last] = "completed" => opened[Tuple(Last).key] > 0
  /\ \A i \in DOMAIN log : log[i].stage = Last /\ log[i].out = "completed" => opened[log[i].key] > 0
  /\ \A k \in runState.completed : opened[k] > 0

Elsewhere ==
  \/ Start \/ Plan \/ Planned \/ PoolIdle \/ ApplyOutput \/ Finish
  \/ \E s \in Depth \ {Last} : Work(s) \/ Raise(s)

(* The steps that leave the pr stage alone.                                *)
LEMMA PrAside ==
  ASSUME TypeOK, PlacesInv, SameNames, Elsewhere
  PROVE  /\ step'[Last] = step[Last] /\ hand'[Last] = hand[Last] /\ result'[Last] = result[Last]
         /\ \A k \in Keys : receipts'[<<Last, k>>] = receipts[<<Last, k>>]
         /\ opened' = opened /\ lost' = lost
         /\ \A i \in DOMAIN log' : log'[i].stage = Last /\ log'[i].out # None =>
              i \in DOMAIN log /\ log'[i].out = log[i].out
<1> USE StageNumbers
<1>1. CASE Start \/ Planned \/ PoolIdle \/ ApplyOutput \/ Finish
  BY <1>1 DEF Start, Planned, PoolIdle, ApplyOutput, Finish, durable
<1>2. CASE Plan
  <2>1. UNCHANGED <<step, hand, result, receipts, opened, lost>>
    BY <1>2 DEF Plan
  <2>2. CASE log' = log
    BY <2>1, <2>2
  <2>3. CASE \E k \in Keys : log' = Append(log, NewTuple(k, 1, noCache))
    <3>1. \A i \in DOMAIN log' : (i \in DOMAIN log /\ log'[i] = log[i]) \/ log'[i].out = None
      <4> PICK k \in Keys : log' = Append(log, NewTuple(k, 1, noCache))
        BY <2>3
      <4>1. /\ DOMAIN log' = DOMAIN log \cup {Len(log) + 1} /\ \A i \in DOMAIN log : log'[i] = log[i]
            /\ log'[Len(log) + 1] = NewTuple(k, 1, noCache)
        BY LogExtended DEF TypeOK
      <4>2. NewTuple(k, 1, noCache).out = None
        BY DEF NewTuple
      <4> QED
        BY <4>1, <4>2
    <3> QED
      BY <2>1, <3>1
  <2>4. Sprint[at] \in Keys
    BY <1>2, DeliveryAssumption DEF Plan, TypeOK
  <2> QED
    BY <1>2, <2>2, <2>3, <2>4 DEF Plan, Seed
<1>3. CASE \E s \in Depth \ {Last} : Work(s) \/ Raise(s)
  <2> PICK s \in Depth \ {Last} : Work(s) \/ Raise(s)
    BY <1>3
  <2>1. step'[Last] = step[Last] /\ hand'[Last] = hand[Last] /\ result'[Last] = result[Last]
    BY DEF Work, Take, CacheHit, Execute, Record, Complete, FollowUp, Raise, Release, Goto, TypeOK
  <2>2. opened' = opened /\ lost' = lost
    BY DEF Work, Take, CacheHit, Execute, Record, Complete, FollowUp, Raise, durable
  <2>3. \A k \in Keys : receipts'[<<Last, k>>] = receipts[<<Last, k>>]
    BY DEF Work, Take, CacheHit, Execute, Record, Complete, FollowUp, Raise, durable, TypeOK
  <2>4. \A i \in DOMAIN log' : log'[i].stage = Last /\ log'[i].out # None =>
          i \in DOMAIN log /\ log'[i].out = log[i].out
    <3>1. CASE log' = log
      BY <3>1
    <3>2. CASE Take(s)
      <4>1. queue[s] \in Seq(DOMAIN log) /\ queue[s] # <<>>
        BY <3>2 DEF Take, TypeOK
      <4>2. Head(queue[s]) \in DOMAIN log
        BY <4>1, Shortened
      <4>3. /\ DOMAIN log' = DOMAIN log /\ log'[Head(queue[s])].out = log[Head(queue[s])].out
            /\ \A i \in DOMAIN log \ {Head(queue[s])} : log'[i] = log[i]
        BY <3>2, <4>2, LogConsumed DEF Take, TypeOK
      <4> QED
        BY <4>3
    <3>3. CASE step[s] # "idle" /\ \E how \in {"completed", "err"}, out \in Outputs \cup {None} : Mark(s, how, out)
      <4>1. hand[s] \in DOMAIN log /\ log[hand[s]].stage = s
        BY <3>3, TupleInHand DEF PlacesInv
      <4>2. DOMAIN log' = DOMAIN log /\ \A i \in DOMAIN log \ {hand[s]} : log'[i] = log[i]
        BY <3>3, <4>1, LogMarked DEF Mark, TypeOK
      <4> QED
        BY <4>1, <4>2 DEF SameNames
    <3>4. CASE step[s] # "idle" /\ log' = Append(log, NewTuple(Tuple(s).key, s + 1, Tuple(s).noCache))
      <4>1. Tuple(s).key \in Keys /\ Tuple(s).noCache \in BOOLEAN /\ s + 1 \in Depth
        BY <3>4, TupleInHand DEF PlacesInv
      <4>2. /\ DOMAIN log' = DOMAIN log \cup {Len(log) + 1} /\ \A i \in DOMAIN log : log'[i] = log[i]
            /\ log'[Len(log) + 1] = NewTuple(Tuple(s).key, s + 1, Tuple(s).noCache)
        BY <3>4, <4>1, LogExtended DEF TypeOK
      <4>3. log'[Len(log) + 1].out = None
        BY <4>2 DEF NewTuple
      <4> QED
        BY <4>2, <4>3
    <3>5. result[s] \in Outputs \cup {None}
      BY DEF TypeOK
    <3> QED
      BY <3>1, <3>2, <3>3, <3>4, <3>5 DEF Work, CacheHit, Execute, Record, Complete, FollowUp, Raise, durable
  <2> QED
    BY <2>1, <2>2, <2>3, <2>4
<1> QED
  BY <1>1, <1>2, <1>3 DEF Elsewhere

(* The run state takes its completed deliveries from the pr stage.         *)
LEMMA CompletedComes ==
  ASSUME TypeOK, Next, NEW k \in runState'.completed
  PROVE  k \in runState.completed
         \/ \E i \in DOMAIN log : log[i].stage = Last /\ log[i].out = "completed" /\ log[i].key = k
<1>1. CASE ApplyOutput
  <2> PICK i \in Remaining : runState' = Applied(runState, i)
    BY <1>1 DEF ApplyOutput
  <2>1. i \in DOMAIN log /\ log[i].stage = Last
    BY DEF Remaining, Applies, TypeOK
  <2>2. CASE log[i].out = "completed"
    BY <2>1, <2>2 DEF Applied, TypeOK
  <2>3. CASE log[i].out # "completed"
    BY <2>1, <2>3 DEF Applied, TypeOK
  <2> QED
    BY <2>2, <2>3
<1>2. CASE Plan
  BY <1>2 DEF Plan, TypeOK
<1>3. CASE ~ApplyOutput /\ ~Plan
  <2>1. runState' = runState
    BY <1>3 DEF Next, Flow, Work, Start, Planned, PoolIdle, Finish, Commit, OpenPr, Take, CacheHit, Execute,
                Record, Complete, FollowUp, Crash, Raise, durable
  <2> QED
    BY <2>1
<1> QED
  BY <1>1, <1>2, <1>3

(* A step elsewhere leaves what the pr stage relies on.                    *)
LEMMA EvidenceAside ==
  ASSUME TypeOK, TypeOK', PlacesInv, SameNames, Elsewhere, ReceiptInv, EvidenceInv
  PROVE  ReceiptInv' /\ EvidenceInv' /\ \A k \in Keys : Used(k)' <=> Used(k)
<1> USE StageNumbers
<1>1. /\ step'[Last] = step[Last] /\ hand'[Last] = hand[Last] /\ result'[Last] = result[Last]
      /\ \A k \in Keys : receipts'[<<Last, k>>] = receipts[<<Last, k>>]
      /\ opened' = opened /\ lost' = lost
      /\ \A i \in DOMAIN log' : log'[i].stage = Last /\ log'[i].out # None =>
           i \in DOMAIN log /\ log'[i].out = log[i].out
  BY PrAside
<1>2. step[Last] # "idle" =>
        /\ Tuple(Last).key \in Keys
        /\ Tuple(Last)'.key = Tuple(Last).key /\ Tuple(Last)'.noCache = Tuple(Last).noCache
  <2> SUFFICES ASSUME step[Last] # "idle"
               PROVE  /\ Tuple(Last).key \in Keys
                      /\ Tuple(Last)'.key = Tuple(Last).key /\ Tuple(Last)'.noCache = Tuple(Last).noCache
    OBVIOUS
  <2>1. hand[Last] \in DOMAIN log /\ Tuple(Last) = log[hand[Last]] /\ log[hand[Last]].key \in Keys
    BY TupleInHand DEF PlacesInv
  <2>2. Tuple(Last)' = log'[hand[Last]]
    BY <1>1 DEF Tuple
  <2> QED
    BY <2>1, <2>2 DEF SameNames
<1>3. ReceiptInv'
  BY <1>1, <1>2 DEF ReceiptInv
<1>4. \A k \in Keys : Used(k)' <=> Used(k)
  BY <1>1, <1>2 DEF Used
<1>5. EvidenceInv'
  <2>1. \A k \in Keys : receipts'[<<Last, k>>] = "completed" => opened'[k] > 0
    BY <1>1 DEF EvidenceInv
  <2>2. step'[Last] \in {"effected", "recorded"} /\ result'[Last] = "completed" => opened'[Tuple(Last)'.key] > 0
    BY <1>1, <1>2 DEF EvidenceInv
  <2>3. \A i \in DOMAIN log' : log'[i].stage = Last /\ log'[i].out = "completed" => opened'[log'[i].key] > 0
    <3> SUFFICES ASSUME NEW i \in DOMAIN log', log'[i].stage = Last, log'[i].out = "completed"
                 PROVE  opened'[log'[i].key] > 0
      OBVIOUS
    <3>1. i \in DOMAIN log /\ log[i].out = "completed"
      BY <1>1, DeliveryAssumption
    <3> QED
      BY <1>1, <3>1 DEF EvidenceInv, SameNames
  <2>4. \A k \in runState'.completed : opened'[k] > 0
    <3>1. Next
      BY DEF Elsewhere, Next, Flow
    <3> QED
      BY <1>1, <3>1, CompletedComes DEF EvidenceInv
  <2> QED
    BY <2>1, <2>2, <2>3, <2>4 DEF EvidenceInv
<1> QED
  BY <1>3, <1>4, <1>5

(* The steps of the pr stage itself, but for the pull request.             *)
PrStep ==
  \/ Take(Last) \/ CacheHit(Last) \/ Commit \/ Record(Last) \/ Complete(Last) \/ FollowUp(Last)
  \/ Raise(Last) \/ Crash

(* Until the receipt is there a used pull request is in hand, or lost.     *)
LEMMA UsedNext ==
  ASSUME TypeOK, PlacesInv, SameNames, ReceiptInv, PrStep, NEW k \in Keys, Used(k)
  PROVE  Used(k)' \/ lost'[k] = lost[k] + 1
<1> USE StageNumbers
<1>0. step[Last] # "idle" =>
        /\ hand[Last] \in DOMAIN log /\ Tuple(Last) = log[hand[Last]] /\ Tuple(Last).key \in Keys
  BY TupleInHand DEF PlacesInv
<1>1. CASE Take(Last) \/ CacheHit(Last) \/ Commit \/ Complete(Last) \/ FollowUp(Last)
  <2>1. UNCHANGED receipts /\ step[Last] # "effected"
    BY <1>1 DEF Take, CacheHit, Commit, Complete, FollowUp, durable
  <2> QED
    BY <2>1 DEF Used
<1>2. CASE Record(Last)
  <2>1. CASE Tuple(Last).noCache
    <3>1. receipts' = receipts
      BY <1>2, <2>1 DEF Record
    <3> QED
      BY <2>1, <3>1 DEF Used
  <2>2. CASE ~Tuple(Last).noCache
    <3>1. receipts' = [receipts EXCEPT ![<<Last, Tuple(Last).key>>] = result[Last]] /\ step[Last] = "effected"
      BY <1>2, <2>2 DEF Record
    <3>2. receipts[<<Last, Tuple(Last).key>>] = None
      BY <2>2, <3>1 DEF ReceiptInv
    <3>3. CASE k = Tuple(Last).key
      <4>1. result[Last] = "completed" /\ <<Last, k>> \in DOMAIN receipts
        BY <3>2, <3>3, DeliveryAssumption DEF Used, TypeOK
      <4> QED
        BY <3>1, <3>3, <4>1 DEF Used
    <3>4. CASE k # Tuple(Last).key
      BY <3>1, <3>4 DEF Used
    <3> QED
      BY <3>3, <3>4
  <2> QED
    BY <2>1, <2>2
<1>3. CASE Raise(Last) \/ Crash
  <2>1. lost' = [x \in Keys |-> lost[x] + Unrecorded(x)] /\ receipts' = receipts
    BY <1>3 DEF Raise, Crash
  <2>2. CASE receipts[<<Last, k>>] = "completed"
    BY <2>1, <2>2 DEF Used
  <2>3. CASE step[Last] = "effected" /\ result[Last] = "completed" /\ Tuple(Last).key = k
    <3>1. Unrecorded(k) = 1
      BY <2>3 DEF Unrecorded
    <3> QED
      BY <2>1, <3>1
  <2> QED
    BY <2>2, <2>3 DEF Used
<1> QED
  BY <1>1, <1>2, <1>3 DEF PrStep

(* The pr stage writes completed only where a pull request is.             *)
LEMMA EvidencePr ==
  ASSUME TypeOK, PlacesInv, SameNames, ReceiptInv, EvidenceInv, PrStep
  PROVE  ReceiptInv' /\ EvidenceInv'
<1> USE StageNumbers
<1>0. step[Last] # "idle" =>
        /\ hand[Last] \in DOMAIN log /\ Tuple(Last) = log[hand[Last]] /\ Tuple(Last).key \in Keys
        /\ log[hand[Last]].stage = Last /\ Tuple(Last).noCache \in BOOLEAN
  BY TupleInHand DEF PlacesInv
<1>1. None # "completed" /\ result[Last] \in Outputs \cup {None}
  BY DeliveryAssumption DEF TypeOK
<1>2. opened' = opened /\ runState' = runState
  BY DEF PrStep, Take, CacheHit, Commit, Record, Complete, FollowUp, Raise, Crash, durable
<1>3. \A k \in runState'.completed : opened'[k] > 0
  BY <1>2 DEF EvidenceInv
<1>4. SUFFICES /\ ReceiptInv'
               /\ \A k \in Keys : receipts'[<<Last, k>>] = "completed" => opened[k] > 0
               /\ step'[Last] \in {"effected", "recorded"} /\ result'[Last] = "completed" => opened[Tuple(Last)'.key] > 0
               /\ \A i \in DOMAIN log' : log'[i].stage = Last /\ log'[i].out = "completed" => opened[log'[i].key] > 0
  BY <1>2, <1>3 DEF EvidenceInv
<1>5. CASE Take(Last)
  <2>1. queue[Last] \in Seq(DOMAIN log) /\ queue[Last] # <<>>
    BY <1>5 DEF Take, TypeOK
  <2>2. Head(queue[Last]) \in DOMAIN log
    BY <2>1, Shortened
  <2>3. /\ DOMAIN log' = DOMAIN log /\ log'[Head(queue[Last])].out = log[Head(queue[Last])].out
        /\ \A i \in DOMAIN log \ {Head(queue[Last])} : log'[i] = log[i]
    BY <1>5, <2>2, LogConsumed DEF Take, TypeOK
  <2>4. step'[Last] = "consumed" /\ receipts' = receipts
    BY <1>5 DEF Take, Goto, TypeOK
  <2>5. \A i \in DOMAIN log' : log'[i].stage = Last /\ log'[i].out = "completed" => opened[log'[i].key] > 0
    BY <2>3 DEF EvidenceInv, SameNames
  <2> QED
    BY <2>4, <2>5 DEF ReceiptInv, EvidenceInv
<1>6. CASE CacheHit(Last) \/ Commit \/ Record(Last)
  <2>1. step[Last] # "idle" /\ log' = log /\ hand' = hand /\ Tuple(Last)' = Tuple(Last)
    BY <1>6 DEF CacheHit, Commit, Record, Tuple, durable
  <2>2. CASE CacheHit(Last)
    <3>1. /\ receipts' = receipts /\ result'[Last] = receipts[<<Last, Tuple(Last).key>>]
          /\ step'[Last] = "recorded"
      BY <2>2 DEF CacheHit, durable, Goto, TypeOK
    <3> QED
      BY <1>0, <2>1, <3>1 DEF ReceiptInv, EvidenceInv
  <2>3. CASE Commit
    <3>1. receipts' = receipts /\ step'[Last] = "committed" /\ ~Cached(Last)
      BY <2>3 DEF Commit, Goto, TypeOK
    <3> QED
      BY <2>1, <3>1 DEF ReceiptInv, EvidenceInv, Cached
  <2>4. CASE Record(Last)
    <3>1. step[Last] = "effected" /\ step'[Last] = "recorded" /\ result' = result
      BY <2>4 DEF Record, Goto, TypeOK
    <3>2. \A k \in Keys : receipts'[<<Last, k>>] = "completed" => opened[k] > 0
      <4>1. CASE receipts' = receipts
        BY <4>1 DEF EvidenceInv
      <4>2. CASE receipts' = [receipts EXCEPT ![<<Last, Tuple(Last).key>>] = result[Last]]
        <5> SUFFICES ASSUME NEW k \in Keys, receipts'[<<Last, k>>] = "completed" PROVE opened[k] > 0
          OBVIOUS
        <5>1. CASE k = Tuple(Last).key
          <6>1. result[Last] = "completed"
            BY <4>2, <5>1 DEF TypeOK
          <6> QED
            BY <3>1, <5>1, <6>1 DEF EvidenceInv
        <5>2. CASE k # Tuple(Last).key
          BY <4>2, <5>2 DEF EvidenceInv
        <5> QED
          BY <5>1, <5>2
      <4> QED
        BY <2>4, <4>1, <4>2 DEF Record
    <3> QED
      BY <2>1, <3>1, <3>2 DEF ReceiptInv, EvidenceInv
  <2> QED
    BY <1>6, <2>2, <2>3, <2>4
<1>7. CASE Complete(Last)
  <2>1. step[Last] = "recorded" /\ step'[Last] = "marked" /\ receipts' = receipts
    BY <1>7 DEF Complete, Goto, TypeOK
  <2>2. /\ DOMAIN log' = DOMAIN log /\ \A i \in DOMAIN log \ {hand[Last]} : log'[i] = log[i]
        /\ log'[hand[Last]].out = result[Last]
    BY <1>0, <1>1, <1>7, <2>1, LogMarked DEF Complete, Mark, TypeOK
  <2>3. \A i \in DOMAIN log' : log'[i].stage = Last /\ log'[i].out = "completed" => opened[log'[i].key] > 0
    <3> SUFFICES ASSUME NEW i \in DOMAIN log', log'[i].stage = Last, log'[i].out = "completed"
                 PROVE  opened[log'[i].key] > 0
      OBVIOUS
    <3>1. CASE i = hand[Last]
      <4>1. opened[Tuple(Last).key] > 0
        BY <2>1, <2>2, <3>1 DEF EvidenceInv
      <4>2. log'[i].key = Tuple(Last).key
        BY <1>0, <2>1, <3>1 DEF SameNames
      <4> QED
        BY <4>1, <4>2
    <3>2. CASE i # hand[Last]
      BY <2>2, <3>2 DEF EvidenceInv
    <3> QED
      BY <3>1, <3>2
  <2> QED
    BY <2>1, <2>3 DEF ReceiptInv, EvidenceInv
<1>8. CASE FollowUp(Last)
  <2>1. log' = log /\ receipts' = receipts /\ step'[Last] = "idle"
    BY <1>8 DEF FollowUp, Release, Goto, TypeOK
  <2> QED
    BY <2>1 DEF ReceiptInv, EvidenceInv
<1>9. CASE Raise(Last)
  <2>1. receipts' = receipts /\ step'[Last] = "idle" /\ step[Last] # "idle"
    BY <1>9 DEF Raise, Release, Goto, TypeOK
  <2>2. /\ DOMAIN log' = DOMAIN log /\ \A i \in DOMAIN log \ {hand[Last]} : log'[i] = log[i]
        /\ log'[hand[Last]].out = None
    BY <1>0, <1>9, <2>1, LogMarked DEF Raise, Mark, TypeOK
  <2>3. \A i \in DOMAIN log' : log'[i].stage = Last /\ log'[i].out = "completed" => opened[log'[i].key] > 0
    BY <1>1, <2>2 DEF EvidenceInv
  <2> QED
    BY <2>1, <2>3 DEF ReceiptInv, EvidenceInv
<1>10. CASE Crash
  <2>1. receipts' = receipts /\ log' = log /\ step'[Last] = "idle"
    BY <1>10 DEF Crash, Idle
  <2> QED
    BY <2>1 DEF ReceiptInv, EvidenceInv
<1> QED
  BY <1>5, <1>6, <1>7, <1>8, <1>9, <1>10 DEF PrStep

(* The pull request itself: asked for once, unless receipts do not count.  *)
LEMMA BalanceOpens ==
  ASSUME EachOnce, TypeOK, TypeOK', PlacesInv, OpenPr, BalanceInv, ReceiptInv, EvidenceInv
  PROVE  BalanceInv' /\ ReceiptInv' /\ EvidenceInv'
<1> USE StageNumbers
<1>1. step[Last] = "committed"
  BY DEF OpenPr
<1>2. PICK h \in DOMAIN log :
        /\ h = hand[Last] /\ h # 0 /\ Tuple(Last) = log[h] /\ log[h].key \in Keys
        /\ log[h].stage = Last /\ log[h].noCache \in BOOLEAN
  BY <1>1, TupleInHand DEF PlacesInv
<1>3. PICK key \in Keys, created \in BOOLEAN :
        /\ key = log[h].key
        /\ opened' = IF created THEN [opened EXCEPT ![key] = @ + 1] ELSE opened
        /\ result' = [result EXCEPT ![Last] = StateUpdate(created)]
  BY <1>2 DEF OpenPr
<1>4. /\ step'[Last] = "effected" /\ log' = log /\ hand' = hand /\ Tuple(Last)' = log[h]
      /\ UNCHANGED <<receipts, runState, lost, phase, noCache, at, queue, runs, forced>>
      /\ result'[Last] = "completed" <=> created
  BY <1>2, <1>3 DEF OpenPr, Goto, TypeOK, Tuple, StateUpdate
<1>5. \A k \in Keys : opened[k] \in Nat /\ lost[k] \in Nat /\ forced \in Nat /\ opened'[k] \in Nat
  BY DEF TypeOK
<1>6. \A k \in Keys : k # key => opened'[k] = opened[k]
  BY <1>3 DEF TypeOK
<1>7. ReceiptInv'
  BY <1>1, <1>2, <1>4 DEF ReceiptInv
<1>8. EvidenceInv'
  <2>0. (created => opened'[key] = opened[key] + 1) /\ (~created => opened'[key] = opened[key])
    BY <1>3 DEF TypeOK
  <2>1. \A k \in Keys : opened'[k] >= opened[k]
    <3> SUFFICES ASSUME NEW k \in Keys PROVE opened'[k] >= opened[k]
      OBVIOUS
    <3>1. CASE k = key
      BY <1>5, <2>0, <3>1
    <3>2. CASE k # key
      BY <1>5, <1>6, <3>2
    <3> QED
      BY <3>1, <3>2
  <2>2. created => opened'[key] > 0
    BY <1>5, <2>0
  <2>3. \A k \in Keys : receipts'[<<Last, k>>] = "completed" => opened'[k] > 0
    BY <1>4, <1>5, <2>1 DEF EvidenceInv
  <2>4. step'[Last] \in {"effected", "recorded"} /\ result'[Last] = "completed" => opened'[Tuple(Last)'.key] > 0
    BY <1>3, <1>4, <2>2
  <2>5. \A i \in DOMAIN log' : log'[i].stage = Last /\ log'[i].out = "completed" => opened'[log'[i].key] > 0
    <3> SUFFICES ASSUME NEW i \in DOMAIN log, log[i].stage = Last, log[i].out = "completed"
                 PROVE  opened'[log[i].key] > 0
      BY <1>4
    <3>1. log[i] \in Entry
      <4>1. log \in Seq(Entry)
        BY DEF TypeOK
      <4> QED
        BY <4>1
    <3>2. log[i].key \in Keys
      BY <3>1 DEF Entry
    <3> QED
      BY <1>5, <2>1, <3>2 DEF EvidenceInv
  <2>6. \A k \in runState'.completed : k \in Keys /\ opened'[k] > 0
    <3>1. runState.completed \subseteq Keys
      BY DEF TypeOK
    <3> QED
      BY <1>4, <1>5, <2>1, <3>1 DEF EvidenceInv
  <2> QED
    BY <2>3, <2>4, <2>5, <2>6 DEF EvidenceInv
<1>9. \A k \in Keys : MayOpen(k)' => MayOpen(k) /\ k # key
  <2> SUFFICES ASSUME NEW k \in Keys, MayOpen(k)' PROVE MayOpen(k) /\ k # key
    OBVIOUS
  <2>1. phase = "pool"
    BY <1>1 DEF PlacesInv, PhaseInv
  <2>2. PICK i \in DOMAIN log : Live(i)' /\ ~Spent(i)' /\ log[i].key = k /\ log[i].noCache
    BY <1>4, <2>1 DEF MayOpen
  <2>3. Live(i)
    BY <1>4, <2>2 DEF Live, Flying, Pending
  <2>4. i # h /\ Live(h)
    BY <1>2, <1>4, <2>2 DEF Spent, Live, Flying
  <2>5. k # key
    BY <1>3, <2>2, <2>3, <2>4 DEF PlacesInv, OnceInv
  <2>6. ~Spent(i)
    BY <1>1 DEF Spent
  <2> QED
    BY <2>2, <2>3, <2>5, <2>6 DEF MayOpen
<1>10. BalanceInv'
  <2> SUFFICES ASSUME NEW k \in Keys PROVE Balance(k)'
    BY DEF BalanceInv
  <2>1. Balance(k)
    BY DEF BalanceInv
  <2>2. Used(k) => Used(k)'
    BY <1>1, <1>4 DEF Used
  <2>3. CASE k # key \/ ~created
    BY <1>3, <1>4, <1>5, <1>6, <1>9, <2>1, <2>2, <2>3, BalanceKeeps
  <2>4. CASE k = key /\ created
    <3>1. opened'[k] = opened[k] + 1 /\ ~MayOpen(k)' /\ lost' = lost /\ forced' = forced
      BY <1>3, <1>4, <1>9, <2>4 DEF TypeOK
    <3>2. CASE log[h].noCache
      <4>1. MayOpen(k)
        <5>1. Live(h) /\ ~Spent(h)
          BY <1>1, <1>2 DEF Live, Flying, Spent
        <5> QED
          BY <1>3, <2>4, <3>2, <5>1 DEF MayOpen
      <4>2. opened[k] <= lost[k] + forced /\ (~Used(k) => opened[k] + 1 <= lost[k] + forced)
        BY <2>1, <4>1 DEF Balance
      <4> QED
        BY <1>5, <2>2, <3>1, <4>2 DEF Balance
    <3>3. CASE ~log[h].noCache
      <4>1. ~Used(k)
        <5>1. receipts[<<Last, k>>] = None /\ None # "completed"
          BY <1>1, <1>2, <1>3, <2>4, <3>3, DeliveryAssumption DEF ReceiptInv
        <5> QED
          BY <1>1, <5>1 DEF Used
      <4>2. Used(k)'
        BY <1>3, <1>4, <2>4, <3>3 DEF Used
      <4>3. opened[k] <= lost[k] + forced
        BY <2>1, <4>1 DEF Balance
      <4> QED
        BY <1>5, <3>1, <4>2, <4>3 DEF Balance
    <3> QED
      BY <1>2, <3>2, <3>3
  <2> QED
    BY <2>3, <2>4
<1> QED
  BY <1>7, <1>8, <1>10

PrInv == BalanceInv /\ ReceiptInv /\ EvidenceInv

(* Every step keeps the account.                                           *)
LEMMA PrNext ==
  ASSUME EachOnce, TypeOK, TypeOK', PlacesInv, PrInv, Next
  PROVE  PrInv'
<1> USE StageNumbers DEF PrInv
<1>1. SameNames
  BY PlacesNext
<1>2. CASE OpenPr
  BY <1>2, BalanceOpens
<1>3. CASE Elsewhere \/ PrStep
  <2>1. ReceiptInv' /\ EvidenceInv'
    BY <1>1, <1>3, EvidenceAside, EvidencePr
  <2>2. \A k \in Keys : Used(k) => Used(k)' \/ lost'[k] = lost[k] + 1
    BY <1>1, <1>3, EvidenceAside, UsedNext
  <2>3. opened' = opened
    BY <1>1, <1>3, PrAside DEF PrStep, Take, CacheHit, Commit, Record, Complete, FollowUp, Raise, Crash, durable
  <2>4. \A k \in Keys : lost'[k] >= lost[k]
    <3> SUFFICES ASSUME NEW k \in Keys PROVE lost'[k] >= lost[k]
      OBVIOUS
    <3>1. lost[k] \in Nat /\ Unrecorded(k) \in Nat
      BY DEF TypeOK, Unrecorded
    <3>2. lost' = lost \/ lost'[k] = lost[k] + Unrecorded(k)
      BY <1>1, <1>3, PrAside DEF PrStep, Take, CacheHit, Commit, Record, Complete, FollowUp, Raise, Crash, durable
    <3> QED
      BY <3>1, <3>2
  <2>5. forced \in Nat /\ (forced' = forced \/ forced' = forced + 1)
    <3>1. CASE Start
      BY <3>1 DEF Start, TypeOK
    <3>2. CASE ~Start
      <4>1. forced' = forced
        BY <1>3, <3>2 DEF Elsewhere, PrStep, Plan, Planned, PoolIdle, ApplyOutput, Finish, Work, Take, CacheHit,
                          Execute, Commit, Record, Complete, FollowUp, Raise, Crash
      <4> QED
        BY <4>1 DEF TypeOK
    <3> QED
      BY <3>1, <3>2
  <2>6. BalanceInv'
    <3> SUFFICES ASSUME NEW k \in Keys PROVE Balance(k)'
      BY DEF BalanceInv
    <3>1. Balance(k)
      BY DEF BalanceInv
    <3>2. MayOpen(k)' => MayOpen(k) \/ forced' = forced + 1
      BY MayOpenNext
    <3> QED
      BY <2>2, <2>3, <2>4, <2>5, <3>1, <3>2, BalanceKeeps
  <2> QED
    BY <2>1, <2>6
<1> QED
  <2>1. OpenPr \/ Elsewhere \/ PrStep
    BY DEF Next, Flow, Elsewhere, PrStep, Work, Execute
  <2> QED
    BY <1>2, <1>3, <2>1

(* Nothing is open at first.                                               *)
LEMMA PrInit == Init => PrInv
<1> SUFFICES ASSUME Init PROVE PrInv
  OBVIOUS
<1> USE StageNumbers
<1>1. /\ DOMAIN log = {} /\ phase = "off" /\ runState.completed = {}
      /\ \A k \in Keys : opened[k] = 0 /\ lost[k] = 0 /\ receipts[<<Last, k>>] = None
      /\ forced = 0 /\ step[Last] = "idle" /\ None # "completed"
  BY DeliveryAssumption DEF Init, Idle
<1>2. \A k \in Keys : ~MayOpen(k) /\ ~Used(k)
  BY <1>1 DEF MayOpen, Used
<1>3. BalanceInv
  <2> SUFFICES ASSUME NEW k \in Keys PROVE Balance(k)
    BY DEF BalanceInv
  <2>1. opened[k] = 0 /\ lost[k] = 0 /\ forced = 0 /\ ~MayOpen(k)
    BY <1>1, <1>2
  <2> QED
    BY <2>1 DEF Balance
<1> QED
  BY <1>1, <1>3 DEF PrInv, ReceiptInv, EvidenceInv

(* Nothing moves.                                                          *)
LEMMA PrStutter == ASSUME PrInv, UNCHANGED vars PROVE PrInv'
<1> USE DEF vars, durable, volatile
<1>1. BalanceInv'
  BY DEF PrInv, BalanceInv, Balance, MayOpen, Used, Live, Flying, Pending, Spent, Tuple
<1>2. ReceiptInv' /\ EvidenceInv'
  BY DEF PrInv, ReceiptInv, EvidenceInv, Tuple
<1> QED
  BY <1>1, <1>2 DEF PrInv

(* However often a sprint of distinct deliveries is run, interrupted and   *)
(* resumed: a delivery that counts as completed has its pull request, and  *)
(* there is one of each, but for those whose receipt was lost and for the  *)
(* runs that were told to ignore receipts.                                 *)
THEOREM OnePrEachKept == EachOnce /\ Spec => []OnePrEach
<1> SUFFICES ASSUME EachOnce PROVE Spec => []OnePrEach
  OBVIOUS
<1>1. Init => TypeOK /\ PlacesInv /\ PrInv
  BY TypeInit, PlacesInit, PrInit
<1>2. TypeOK /\ PlacesInv /\ PrInv /\ [Next]_vars => TypeOK' /\ PlacesInv' /\ PrInv'
  BY PlacesNext, TypeNext, PrNext, StutterPlaces, PrStutter
<1>3. PrInv => OnePrEach
  BY DEF PrInv, BalanceInv, Balance, EvidenceInv, OnePrEach, CompletedHasPr, NoDuplicateDelivery
<1> QED
  BY <1>1, <1>2, <1>3, PTL DEF Spec

------------------------------------------------------------------------------
(* What a run leaves behind.                                               *)

Settled(i) ==
  /\ log[i].out = "completed" => log[i].key \in runState.completed
  /\ log[i].out # "completed" => log[i].key \in runState.failed \cup runState.completed

(* What the loop over the log has passed is in the run state.              *)
SettledInv == phase = "apply" => \A i \in DOMAIN log : i < at /\ Applies(i) => Settled(i)

(* The loop takes the tuples in order, and a later one unsettles none.     *)
LEMMA SettledNext ==
  ASSUME TypeOK, PlacesInv, SettledInv, Next
  PROVE  SettledInv'
<1>1. CASE ApplyOutput
  <2> PICK i \in Remaining :
        /\ \A j \in Remaining : i <= j
        /\ runState' = Applied(runState, i) /\ at' = i + 1
    BY <1>1 DEF ApplyOutput
  <2>1. /\ phase = "apply" /\ log' = log /\ Len(log) \in Nat /\ at \in Nat /\ at >= 1
        /\ DOMAIN log = 1..Len(log)
    <3>1. log' = log /\ phase = "apply" /\ log \in Seq(Entry)
      BY <1>1 DEF ApplyOutput, TypeOK
    <3>2. Len(log) \in Nat /\ DOMAIN log = 1..Len(log) /\ Len(Sprint) \in Nat
      BY <3>1, DeliveryAssumption
    <3> QED
      BY <3>1, <3>2 DEF TypeOK
  <2>2. i \in DOMAIN log /\ i >= at /\ i \in Nat
    BY <2>1 DEF Remaining
  <2>3. /\ runState.completed \subseteq runState'.completed
        /\ runState.failed \cup runState.completed \subseteq runState'.failed \cup runState'.completed
        /\ log[i].out = "completed" => log[i].key \in runState'.completed
        /\ log[i].out # "completed" => log[i].key \in runState'.failed
    BY DEF Applied, TypeOK
  <2>4. ASSUME NEW j \in DOMAIN log, j < at', Applies(j)
        PROVE  Settled(j)'
    <3>1. CASE j < at
      <4>1. Settled(j)
        BY <2>1, <2>4, <3>1 DEF SettledInv
      <4> QED
        BY <2>1, <2>3, <4>1 DEF Settled
    <3>2. CASE j >= at
      <4>1. j \in Remaining
        BY <2>1, <2>4, <3>2 DEF Remaining
      <4>2. j = i
        BY <2>1, <2>2, <2>4, <4>1
      <4> QED
        BY <2>1, <2>3, <4>2 DEF Settled
    <3> QED
      BY <2>1, <3>1, <3>2
  <2> QED
    BY <2>1, <2>4 DEF SettledInv, Applies
<1>2. CASE PoolIdle
  <2>1. at' = 1 /\ log' = log /\ DOMAIN log = 1..Len(log) /\ Len(log) \in Nat
    BY <1>2 DEF PoolIdle, TypeOK, durable
  <2> QED
    BY <2>1 DEF SettledInv
<1>3. CASE ~ApplyOutput /\ ~PoolIdle
  <2>1. phase' # "apply"
    <3> SUFFICES ASSUME phase' = "apply" PROVE FALSE
      OBVIOUS
    <3>1. CASE Commit \/ OpenPr
      BY <3>1, StageNumbers DEF Commit, OpenPr, PlacesInv, PhaseInv
    <3>2. CASE \E s \in Depth : Work(s) \/ Raise(s)
      <4> PICK s \in Depth : Work(s) \/ Raise(s)
        BY <3>2
      <4>1. phase' = phase /\ (phase = "pool" \/ step[s] # "idle")
        BY DEF Work, Take, CacheHit, Execute, Record, Complete, FollowUp, Raise
      <4> QED
        BY <4>1 DEF PlacesInv, PhaseInv
    <3> QED
      BY <1>3, <3>1, <3>2 DEF Next, Flow, Start, Plan, Planned, Finish, Crash
  <2> QED
    BY <2>1 DEF SettledInv
<1> QED
  BY <1>1, <1>2, <1>3

(* When a run of a sprint of distinct deliveries ends without a crash, the *)
(* run state says of each delivery what its pr tuples said.                *)
THEOREM SettledAtEndKept == EachOnce /\ Spec => []SettledAtEnd
<1> SUFFICES ASSUME EachOnce PROVE Spec => []SettledAtEnd
  OBVIOUS
<1>1. Init => TypeOK /\ PlacesInv /\ SettledInv
  BY TypeInit, PlacesInit DEF Init, SettledInv
<1>2. TypeOK /\ PlacesInv /\ SettledInv /\ [Next]_vars => TypeOK' /\ PlacesInv' /\ SettledInv'
  <2> SUFFICES ASSUME TypeOK, PlacesInv, SettledInv, [Next]_vars PROVE TypeOK' /\ PlacesInv' /\ SettledInv'
    OBVIOUS
  <2>1. CASE Next
    BY <2>1, PlacesNext, TypeNext, SettledNext
  <2>2. CASE UNCHANGED vars
    BY <2>2, StutterPlaces DEF SettledInv, Settled, Applies, vars, durable, volatile
  <2> QED
    BY <2>1, <2>2
<1>3. TypeOK /\ SettledInv => SettledAtEnd
  <2> SUFFICES ASSUME TypeOK, SettledInv, phase = "apply", Remaining = {}, NEW i \in DOMAIN log, Applies(i)
               PROVE  IF log[i].out = "completed" THEN log[i].key \in runState.completed
                      ELSE log[i].key \in runState.failed \cup runState.completed
    BY DEF SettledAtEnd
  <2>1. Len(log) \in Nat /\ DOMAIN log = 1..Len(log) /\ at \in Int
    BY DeliveryAssumption DEF TypeOK
  <2>2. i < at
    BY <2>1 DEF Remaining
  <2> QED
    BY <2>2 DEF SettledInv, Settled
<1> QED
  BY <1>1, <1>2, <1>3, PTL DEF Spec

------------------------------------------------------------------------------
(* Whose changes a pull request holds.                                     *)

(* Every delivery has a working tree of its own.                           *)
OwnTrees == \A k, l \in Keys : TreeOf[k] = TreeOf[l] => k = l

(* The changes of a delivery are in its tree, or committed.                *)
Worked(k) == k \in dirty[TreeOf[k]] \cup branch[k]

TreesInv == \A k \in Keys : dirty[TreeOf[k]] \subseteq {k} /\ branch[k] \subseteq {k}

(* Past the dev stage, or once its receipt is there, a delivery is worked. *)
DevInv ==
  /\ \A i \in DOMAIN log : log[i].stage > 1 => Worked(log[i].key)
  /\ \A k \in Keys : receipts[<<1, k>>] # None => Worked(k)
  /\ step[1] \in {"effected", "recorded", "marked"} => Worked(Tuple(1).key)

(* Before a pull request comes the commit.                                 *)
CommitInv ==
  /\ step[Last] = "committed" => branch[Tuple(Last).key] = {Tuple(Last).key}
  /\ \A k \in Keys : opened[k] > 0 => branch[k] = {k}

WorkInv == TreesInv /\ DevInv /\ CommitInv

(* Changes stay with their delivery.                                       *)
LEMMA TreesNext ==
  ASSUME OwnTrees, TypeOK, PlacesInv, TreesInv, Next
  PROVE  TreesInv' /\ \A k \in Keys : (Worked(k) => Worked(k)') /\ branch[k] \subseteq branch'[k]
<1> USE StageNumbers
<1>0. \A k \in Keys : TreeOf[k] \in Trees
  BY DeliveryAssumption
<1>1. CASE \E s \in Depth : Execute(s)
  <2> PICK s \in Depth : Execute(s)
    BY <1>1
  <2>1. PICK key \in Keys : key = Tuple(s).key
    BY TupleInHand DEF Execute, PlacesInv
  <2>2. branch' = branch /\ (dirty' = dirty \/ dirty' = [dirty EXCEPT ![TreeOf[key]] = @ \cup {key}])
    BY <2>1 DEF Execute
  <2>3. \A k \in Keys \ {key} : dirty'[TreeOf[k]] = dirty[TreeOf[k]]
    BY <1>0, <2>2 DEF OwnTrees, TypeOK
  <2>4. dirty'[TreeOf[key]] \in {dirty[TreeOf[key]], dirty[TreeOf[key]] \cup {key}}
    BY <1>0, <2>2 DEF TypeOK
  <2> QED
    BY <2>2, <2>3, <2>4 DEF TreesInv, Worked
<1>2. CASE Commit
  <2>1. PICK key \in Keys : key = Tuple(Last).key
    BY <1>2, TupleInHand DEF Commit, PlacesInv
  <2>2. /\ branch' = [branch EXCEPT ![key] = @ \cup dirty[TreeOf[key]]]
        /\ dirty' = [dirty EXCEPT ![TreeOf[key]] = {}]
    BY <1>2, <2>1 DEF Commit
  <2>3. \A k \in Keys \ {key} : dirty'[TreeOf[k]] = dirty[TreeOf[k]] /\ branch'[k] = branch[k]
    BY <1>0, <2>2 DEF OwnTrees, TypeOK
  <2>4. dirty'[TreeOf[key]] = {} /\ branch'[key] = branch[key] \cup dirty[TreeOf[key]]
    BY <1>0, <2>2 DEF TypeOK
  <2>5. TreesInv'
    BY <2>3, <2>4 DEF TreesInv
  <2>6. \A k \in Keys : (Worked(k) => Worked(k)') /\ branch[k] \subseteq branch'[k]
    BY <2>3, <2>4 DEF Worked
  <2> QED
    BY <2>5, <2>6
<1>3. CASE ~Commit /\ ~\E s \in Depth : Execute(s)
  <2>1. UNCHANGED <<dirty, branch>>
    BY <1>3 DEF Next, Flow, Work, Start, Plan, Planned, PoolIdle, ApplyOutput, Finish, OpenPr, Take, CacheHit,
                Record, Complete, FollowUp, Crash, Raise, durable
  <2> QED
    BY <2>1 DEF TreesInv, Worked
<1> QED
  BY <1>1, <1>2, <1>3

(* A new tuple is a root, or follows one that is marked.                   *)
LEMMA NewTuples ==
  ASSUME TypeOK, PlacesInv, Next, NEW i \in DOMAIN log', i \notin DOMAIN log
  PROVE  log'[i].stage = 1
         \/ \E s \in Depth : step[s] = "marked" /\ log'[i].key = Tuple(s).key
<1> USE StageNumbers
<1>1. CASE Plan
  <2>1. Sprint[at] \in Keys /\ noCache \in BOOLEAN
    BY <1>1, DeliveryAssumption DEF Plan, TypeOK
  <2>2. log' = Append(log, NewTuple(Sprint[at], 1, noCache))
    BY <1>1 DEF Plan, Seed
  <2>3. log'[i] = NewTuple(Sprint[at], 1, noCache)
    BY <2>1, <2>2, LogExtended DEF TypeOK
  <2> QED
    BY <2>3 DEF NewTuple
<1>2. CASE \E s \in Depth : FollowUp(s)
  <2> PICK s \in Depth : FollowUp(s)
    BY <1>2
  <2>1. log' = Append(log, NewTuple(Tuple(s).key, s + 1, Tuple(s).noCache)) /\ s + 1 \in Depth /\ step[s] = "marked"
    BY DEF FollowUp
  <2>2. Tuple(s).key \in Keys /\ Tuple(s).noCache \in BOOLEAN
    BY <2>1, TupleInHand DEF PlacesInv
  <2>3. log'[i] = NewTuple(Tuple(s).key, s + 1, Tuple(s).noCache)
    BY <2>1, <2>2, LogExtended DEF TypeOK
  <2> QED
    BY <2>1, <2>3 DEF NewTuple
<1>3. CASE ~Plan /\ ~\E s \in Depth : FollowUp(s)
  <2>1. DOMAIN log' = DOMAIN log
    <3>1. CASE \E s \in Depth : Take(s) \/ Complete(s) \/ Raise(s)
      BY <3>1, PlacesTake, PlacesComplete, PlacesRaise DEF Take, Complete, Raise, Mark, TypeOK
    <3>2. CASE log' = log
      BY <3>2
    <3> QED
      BY <1>3, <3>1, <3>2 DEF Next, Flow, Work, Start, Planned, PoolIdle, ApplyOutput, Finish, OpenPr, Commit,
                CacheHit, Execute, Record, Crash, durable
  <2> QED
    BY <2>1
<1> QED
  BY <1>1, <1>2, <1>3

(* A worker that is past the start of its tuple has the one it had.        *)
LEMMA SameTuple ==
  ASSUME TypeOK, PlacesInv, SameNames, Next, NEW s \in Depth, step'[s] \notin {"idle", "consumed"}
  PROVE  /\ step[s] # "idle" /\ Tuple(s).key \in Keys
         /\ Tuple(s)'.key = Tuple(s).key /\ Tuple(s)'.noCache = Tuple(s).noCache
<1>1. hand'[s] = hand[s] /\ step[s] # "idle"
  <2>1. CASE Start \/ Plan \/ Planned \/ PoolIdle \/ ApplyOutput \/ Finish
    <3>1. step' = step /\ hand' = hand
      BY <2>1 DEF Start, Plan, Planned, PoolIdle, ApplyOutput, Finish
    <3> QED
      BY <3>1
  <2>2. CASE Crash
    BY <2>2 DEF Crash, Idle
  <2>3. CASE Commit \/ OpenPr
    BY <2>3, StageNumbers DEF Commit, OpenPr, Goto, TypeOK
  <2>4. CASE \E u \in Depth : Work(u) \/ Raise(u)
    <3> PICK u \in Depth : Work(u) \/ Raise(u)
      BY <2>4
    <3>1. CASE u = s
      BY <3>1 DEF Work, Take, CacheHit, Execute, Record, Complete, FollowUp, Raise, Release, Goto, TypeOK
    <3>2. CASE u # s
      BY <3>2 DEF Work, Take, CacheHit, Execute, Record, Complete, FollowUp, Raise, Release, Goto, TypeOK
    <3> QED
      BY <3>1, <3>2
  <2> QED
    BY <2>1, <2>2, <2>3, <2>4 DEF Next, Flow
<1>2. hand[s] \in DOMAIN log /\ Tuple(s) = log[hand[s]] /\ log[hand[s]].key \in Keys
  BY <1>1, TupleInHand DEF PlacesInv
<1>3. Tuple(s)' = log'[hand[s]]
  BY <1>1 DEF Tuple
<1> QED
  BY <1>1, <1>2, <1>3 DEF SameNames

(* The dev stage is not passed without changes.                            *)
LEMMA DevNext ==
  ASSUME OwnTrees, TypeOK, PlacesInv, SameNames, TreesInv, DevInv, Next
  PROVE  DevInv'
<1> USE StageNumbers
<1>1. \A k \in Keys : Worked(k) => Worked(k)'
  BY TreesNext
<1>2. ASSUME NEW s \in Depth, step[s] # "idle", s > 1 \/ step[s] \in {"effected", "recorded", "marked"}
      PROVE  Tuple(s).key \in Keys /\ Worked(Tuple(s).key)
  <2>1. hand[s] \in DOMAIN log /\ Tuple(s) = log[hand[s]] /\ Tuple(s).key \in Keys /\ log[hand[s]].stage = s
    BY <1>2, TupleInHand DEF PlacesInv
  <2>2. s > 1 \/ s = 1
    BY DEF Depth
  <2> QED
    BY <1>2, <2>1, <2>2 DEF DevInv
<1>3. \A i \in DOMAIN log' : log'[i].stage > 1 => Worked(log[i].key)'
  <2> SUFFICES ASSUME NEW i \in DOMAIN log', log'[i].stage > 1 PROVE Worked(log[i].key)'
    OBVIOUS
  <2>1. PICK key : key = log'[i].key
    OBVIOUS
  <2>2. CASE i \in DOMAIN log
    <3>1. log[i] \in Entry
      BY <2>2 DEF TypeOK
    <3>2. log[i].key \in Keys
      BY <3>1 DEF Entry
    <3>3. Worked(key) /\ key \in Keys
      BY <2>1, <2>2, <3>2 DEF SameNames, DevInv
    <3> QED
      BY <1>1, <2>1, <3>3 DEF Worked
  <2>3. CASE i \notin DOMAIN log
    <3>1. PICK s \in Depth : step[s] = "marked" /\ key = Tuple(s).key
      BY <2>1, <2>3, NewTuples
    <3>2. Worked(key) /\ key \in Keys
      BY <1>2, <3>1
    <3> QED
      BY <1>1, <2>1, <3>2 DEF Worked
  <2> QED
    BY <2>2, <2>3
<1>4. \A k \in Keys : receipts'[<<1, k>>] # None => Worked(k)'
  <2> SUFFICES ASSUME NEW k \in Keys, receipts'[<<1, k>>] # None PROVE Worked(k)
    BY <1>1
  <2>1. CASE receipts'[<<1, k>>] = receipts[<<1, k>>]
    BY <2>1 DEF DevInv
  <2>2. CASE receipts'[<<1, k>>] # receipts[<<1, k>>]
    <3>1. PICK s \in Depth : Record(s)
      BY <2>2 DEF Next, Flow, Work, Start, Plan, Planned, PoolIdle, ApplyOutput, Finish, OpenPr, Commit, Take,
                  CacheHit, Execute, Complete, FollowUp, Raise, Crash, durable
    <3>2. s = 1 /\ k = Tuple(s).key /\ step[s] = "effected"
      BY <2>2, <3>1 DEF Record, TypeOK
    <3> QED
      BY <1>2, <3>2
  <2> QED
    BY <2>1, <2>2
<1>5. step'[1] \in {"effected", "recorded", "marked"} => Worked(Tuple(1).key)'
  <2> SUFFICES ASSUME step'[1] \in {"effected", "recorded", "marked"} PROVE Worked(Tuple(1).key)'
    OBVIOUS
  <2>1. PICK key \in Keys : step[1] # "idle" /\ key = Tuple(1).key /\ Tuple(1)'.key = key
    BY SameTuple
  <2>2. CASE step[1] \in {"effected", "recorded", "marked"}
    <3>1. Worked(key)
      BY <1>2, <2>1, <2>2
    <3> QED
      BY <1>1, <2>1, <3>1 DEF Worked
  <2>3. CASE step[1] \notin {"effected", "recorded", "marked"}
    <3>1. step[1] = "consumed"
      BY <2>1, <2>3 DEF PlacesInv, FlightInv, TypeOK
    <3>2. CacheHit(1) \/ Execute(1)
      <4>1. step'[1] # step[1]
        BY <3>1
      <4>2. CASE Start \/ Plan \/ Planned \/ PoolIdle \/ ApplyOutput \/ Finish
        BY <4>1, <4>2 DEF Start, Plan, Planned, PoolIdle, ApplyOutput, Finish
      <4>3. CASE Crash
        BY <4>3 DEF Crash, Idle
      <4>4. CASE Commit \/ OpenPr
        BY <4>1, <4>4 DEF Commit, OpenPr, Goto, TypeOK
      <4>5. CASE \E u \in Depth : Work(u) \/ Raise(u)
        <5> PICK u \in Depth : Work(u) \/ Raise(u)
          BY <4>5
        <5>1. u = 1
          BY <4>1 DEF Work, Take, CacheHit, Execute, Record, Complete, FollowUp, Raise, Release, Goto, TypeOK
        <5>2. Work(1) \/ Raise(1)
          BY <5>1
        <5>3. \A next : Goto(1, next) => step'[1] = next
          BY DEF Goto, TypeOK
        <5>4. CASE Take(1)
          BY <3>1, <5>3, <5>4 DEF Take
        <5>5. CASE Record(1)
          BY <3>1, <5>3, <5>5 DEF Record
        <5>6. CASE Complete(1)
          BY <3>1, <5>3, <5>6 DEF Complete
        <5>7. CASE FollowUp(1)
          BY <3>1, <5>3, <5>7 DEF FollowUp, Release
        <5>8. CASE Raise(1)
          BY <3>1, <5>3, <5>8 DEF Raise, Release
        <5> QED
          BY <5>2, <5>4, <5>5, <5>6, <5>7, <5>8 DEF Work
      <4> QED
        BY <4>2, <4>3, <4>4, <4>5 DEF Next, Flow
    <3>3. CASE CacheHit(1)
      <4>1. Worked(key)
        BY <2>1, <3>3 DEF CacheHit, Cached, DevInv
      <4> QED
        BY <1>1, <2>1, <4>1 DEF Worked
    <3>4. CASE Execute(1)
      <4>1. TreeOf[key] \in Trees /\ dirty' = [dirty EXCEPT ![TreeOf[key]] = @ \cup {key}]
        BY <2>1, <3>4, DeliveryAssumption DEF Execute
      <4>2. key \in dirty'[TreeOf[key]]
        BY <4>1 DEF TypeOK
      <4> QED
        BY <2>1, <4>2 DEF Worked
    <3> QED
      BY <3>2, <3>3, <3>4
  <2> QED
    BY <2>2, <2>3
<1> QED
  BY <1>3, <1>4, <1>5 DEF DevInv

(* A pull request is opened after a commit of these changes.               *)
LEMMA CommitNext ==
  ASSUME OwnTrees, TypeOK, PlacesInv, SameNames, WorkInv, Next
  PROVE  CommitInv'
<1> USE StageNumbers DEF WorkInv
<1>1. TreesInv' /\ \A k \in Keys : branch[k] \subseteq branch'[k]
  BY TreesNext
<1>2. \A k \in Keys : branch[k] = {k} => branch'[k] = {k}
  BY <1>1 DEF TreesInv
<1>3. step'[Last] = "committed" => branch'[Tuple(Last)'.key] = {Tuple(Last)'.key}
  <2> SUFFICES ASSUME step'[Last] = "committed" PROVE branch'[Tuple(Last)'.key] = {Tuple(Last)'.key}
    OBVIOUS
  <2>1. PICK key \in Keys : step[Last] # "idle" /\ key = Tuple(Last).key /\ Tuple(Last)'.key = key
    BY SameTuple
  <2>2. CASE step[Last] = "committed"
    BY <1>2, <2>1, <2>2 DEF CommitInv
  <2>3. CASE Commit
    <3>1. branch'[key] = branch[key] \cup dirty[TreeOf[key]]
      BY <2>1, <2>3 DEF Commit, TypeOK
    <3>2. hand[Last] \in DOMAIN log /\ Tuple(Last) = log[hand[Last]] /\ log[hand[Last]].stage = Last
      BY <2>1, TupleInHand DEF PlacesInv
    <3>3. key \in branch'[key]
      BY <2>1, <3>1, <3>2 DEF DevInv, Worked
    <3> QED
      BY <1>1, <2>1, <3>3 DEF TreesInv
  <2>4. CASE ~Commit /\ step[Last] # "committed"
    <3>1. CASE Start \/ Plan \/ Planned \/ PoolIdle \/ ApplyOutput \/ Finish
      BY <2>4, <3>1 DEF Start, Plan, Planned, PoolIdle, ApplyOutput, Finish
    <3>2. CASE Crash
      BY <3>2 DEF Crash, Idle
    <3>3. CASE OpenPr
      BY <2>4, <3>3 DEF OpenPr
    <3>4. CASE \E u \in Depth : Work(u) \/ Raise(u)
      <4> PICK u \in Depth : Work(u) \/ Raise(u)
        BY <3>4
      <4>1. \A next : Goto(u, next) /\ next # "committed" => step'[Last] # "committed"
        BY <2>4 DEF Goto, TypeOK
      <4>2. CASE Take(u)
        BY <4>1, <4>2 DEF Take
      <4>3. CASE CacheHit(u)
        BY <4>1, <4>3 DEF CacheHit
      <4>4. CASE Execute(u)
        BY <4>1, <4>4 DEF Execute
      <4>5. CASE Record(u)
        BY <4>1, <4>5 DEF Record
      <4>6. CASE Complete(u)
        BY <4>1, <4>6 DEF Complete
      <4>7. CASE FollowUp(u)
        BY <4>1, <4>7 DEF FollowUp, Release
      <4>8. CASE Raise(u)
        BY <4>1, <4>8 DEF Raise, Release
      <4> QED
        BY <2>4, <3>3, <4>2, <4>3, <4>4, <4>5, <4>6, <4>7, <4>8 DEF Work
    <3> QED
      BY <2>4, <3>1, <3>2, <3>3, <3>4 DEF Next, Flow
  <2> QED
    BY <2>2, <2>3, <2>4
<1>4. \A k \in Keys : opened'[k] > 0 => branch'[k] = {k}
  <2> SUFFICES ASSUME NEW k \in Keys, opened'[k] > 0 PROVE branch[k] = {k}
    BY <1>2
  <2>1. CASE opened'[k] = opened[k]
    BY <2>1 DEF CommitInv
  <2>2. CASE opened'[k] # opened[k]
    <3>1. OpenPr
      BY <2>2 DEF Next, Flow, Work, Start, Plan, Planned, PoolIdle, ApplyOutput, Finish, Commit, Take,
                  CacheHit, Execute, Record, Complete, FollowUp, Raise, Crash, durable
    <3>2. step[Last] = "committed" /\ k = Tuple(Last).key
      BY <2>2, <3>1 DEF OpenPr, TypeOK
    <3> QED
      BY <3>2 DEF CommitInv
  <2> QED
    BY <2>1, <2>2
<1> QED
  BY <1>3, <1>4 DEF CommitInv

(* A sprint of distinct deliveries, each with a working tree of its own:   *)
(* a pull request holds the changes of its delivery and no others, however *)
(* often the runs that made them were interrupted.                         *)
THEOREM CommitsOwnWorkKept == EachOnce /\ OwnTrees /\ Spec => []CommitsOwnWork
<1> SUFFICES ASSUME EachOnce, OwnTrees PROVE Spec => []CommitsOwnWork
  OBVIOUS
<1>1. Init => WorkInv
  <2> SUFFICES ASSUME Init PROVE WorkInv
    OBVIOUS
  <2>1. \A k \in Keys : dirty[TreeOf[k]] = {} /\ branch[k] = {} /\ opened[k] = 0
    BY DeliveryAssumption DEF Init
  <2>2. \A k \in Keys : receipts[<<1, k>>] = None
    BY StageNumbers DEF Init
  <2>3. DOMAIN log = {} /\ step[1] = "idle" /\ step[Last] = "idle"
    BY StageNumbers DEF Init, Idle
  <2>4. TreesInv
    BY <2>1 DEF TreesInv
  <2>6. CommitInv
    <3>1. \A k \in Keys : ~(opened[k] > 0)
      <4> SUFFICES ASSUME NEW k \in Keys PROVE ~(opened[k] > 0)
        OBVIOUS
      <4>1. opened[k] = 0
        BY <2>1
      <4> QED
        BY <4>1
    <3> QED
      BY <2>3, <3>1 DEF CommitInv
  <2>5. DevInv
    BY <2>2, <2>3 DEF DevInv
  <2> QED
    BY <2>4, <2>5, <2>6 DEF WorkInv
<1>2. TypeOK /\ PlacesInv /\ WorkInv /\ [Next]_vars => TypeOK' /\ PlacesInv' /\ WorkInv'
  <2> SUFFICES ASSUME TypeOK, PlacesInv, WorkInv, [Next]_vars PROVE TypeOK' /\ PlacesInv' /\ WorkInv'
    OBVIOUS
  <2>1. CASE Next
    BY <2>1, PlacesNext, TypeNext, TreesNext, DevNext, CommitNext DEF WorkInv
  <2>2. CASE UNCHANGED vars
    <3> USE <2>2 DEF vars, durable, volatile
    <3>1. TreesInv' /\ CommitInv'
      BY DEF WorkInv, TreesInv, CommitInv, Tuple
    <3>2. DevInv'
      BY DEF WorkInv, DevInv, Worked, Tuple
    <3> QED
      BY <2>2, <3>1, <3>2, StutterPlaces DEF WorkInv
  <2> QED
    BY <2>1, <2>2
<1>3. WorkInv => CommitsOwnWork
  BY DEF WorkInv, CommitInv, CommitsOwnWork
<1> QED
  BY <1>1, <1>2, <1>3, TypeInit, PlacesInit, PTL DEF Spec

================================================================================
