--------------------------- MODULE WorkerPool_proofs ---------------------------
(***************************************************************************)
(* Proofs about WorkerPool, for every pool, seed, capacity and follow-up   *)
(* function.                                                               *)
(***************************************************************************)
EXTENDS WorkerPool, SequenceTheorems, TLAPS

(* A busy worker holds a tuple; a suspended put has something to put; the  *)
(* drain walks lanes that exist.                                           *)
HandsFull ==
  \A l \in Lanes :
    /\ worker[l] \in Busy => hand[l] \in Tuples
    /\ worker[l] = "put" => todo[l] # <<>>

(* A task that has not had its first step has done nothing.                *)
NotStarted == \A i \in DOMAIN Pool : i > started => worker[Pool[i]] = "new"

WalkInside ==
  /\ pass <= Len(lanes)
  /\ main \in {"drain", "join", "woken", "close"} => at \in Nat \ {0}
  /\ main \in {"join", "woken"} => at <= pass

TypeInv == TypeOK /\ Accounted /\ HandsFull /\ NotStarted /\ WalkInside

(* Looking up a lane leaves a list of lanes, no shorter than before        *)
(* (bus.py:23-26).                                                         *)
LEMMA OpenType ==
  ASSUME BusTypeOK, NEW l \in Lanes, Open(l)
  PROVE  lanes' \in Seq(Lanes) /\ Len(lanes) <= Len(lanes')
  BY DEF Open, BusTypeOK

(* A put touches one lane: one item and one unfinished more.               *)
LEMMA EnqueueType ==
  ASSUME BusTypeOK, NEW l \in Lanes, NEW item \in Tuples \cup {Sentinel}, Enqueue(l, item)
  PROVE  /\ queue' \in [Lanes -> Seq(Tuples \cup {Sentinel})]
         /\ unfinished' \in [Lanes -> Nat]
         /\ unfinished'[l] = unfinished[l] + 1 /\ Len(queue'[l]) = Len(queue[l]) + 1
         /\ \A m \in Lanes \ {l} : unfinished'[m] = unfinished[m] /\ queue'[m] = queue[m]
  BY DEF Enqueue, BusTypeOK

(* A get touches one lane and takes one item from it.                      *)
LEMMA GetType ==
  ASSUME BusTypeOK, NEW l \in Lanes, NEW item, Get(l, item)
  PROVE  /\ queue' \in [Lanes -> Seq(Tuples \cup {Sentinel})]
         /\ Len(queue[l]) > 0
         /\ Len(queue'[l]) = Len(queue[l]) - 1
         /\ \A m \in Lanes \ {l} : queue'[m] = queue[m]
  BY DEF Get, BusTypeOK

(* The count stays right when a lane gains an item and no worker moves.    *)
LEMMA EnqueueAccounted ==
  ASSUME BusTypeOK, Accounted, NEW l \in Lanes, NEW item \in Tuples \cup {Sentinel},
         Enqueue(l, item), \A m \in Lanes : worker[m] \in Busy <=> worker'[m] \in Busy
  PROVE  Accounted'
  <1> SUFFICES ASSUME NEW m \in Lanes PROVE unfinished'[m] = Len(queue'[m]) + InHand(m)'
    BY DEF Accounted
  <1>1. unfinished[m] = Len(queue[m]) + InHand(m) /\ Len(queue[m]) \in Nat
    BY DEF Accounted, BusTypeOK
  <1>2. CASE m = l
    <2>1. unfinished'[m] = unfinished[m] + 1 /\ Len(queue'[m]) = Len(queue[m]) + 1
      BY <1>2, EnqueueType
    <2>2. CASE worker[m] \in Busy
      <3>1. unfinished[m] = Len(queue[m]) + 1 /\ worker'[m] \in Busy
        BY <1>1, <2>2 DEF InHand
      <3>2. unfinished'[m] = Len(queue'[m]) + 1
        BY <1>1, <2>1, <3>1
      <3> QED BY <3>1, <3>2 DEF InHand
    <2>3. CASE worker[m] \notin Busy
      <3>1. unfinished[m] = Len(queue[m]) /\ worker'[m] \notin Busy
        BY <1>1, <2>3 DEF InHand
      <3>2. unfinished'[m] = Len(queue'[m])
        BY <1>1, <2>1, <3>1
      <3>3. Len(queue'[m]) \in Nat
        BY <1>1, <2>1
      <3> QED BY <3>1, <3>2, <3>3 DEF InHand
    <2> QED BY <2>2, <2>3
  <1>3. CASE m # l
    <2>1. unfinished'[m] = unfinished[m] /\ queue'[m] = queue[m]
      BY <1>3, EnqueueType
    <2>2. unfinished'[m] = Len(queue'[m]) + InHand(m)
      BY <1>1, <2>1
    <2>3. InHand(m)' = InHand(m)
      BY DEF InHand
    <2> QED BY <2>2, <2>3
  <1> QED BY <1>2, <1>3

(* The strengthened type invariant holds when the pool is called.          *)
LEMMA TypeInvInit == Init => TypeInv
  <1> SUFFICES ASSUME Init PROVE TypeInv
    OBVIOUS
  <1>1. TypeOK
    <2>1. BusTypeOK
      <3>1. lanes \in Seq(Lanes) /\ unfinished \in [Lanes -> Nat]
        BY DEF Init, BusInit
      <3>4. closed \in BOOLEAN
        BY DEF Init, BusInit
      <3>2. <<>> \in Seq(Tuples \cup {Sentinel})
        OBVIOUS
      <3>3. queue \in [Lanes -> Seq(Tuples \cup {Sentinel})]
        BY <3>2 DEF Init, BusInit
      <3> QED BY <3>1, <3>3, <3>4 DEF BusTypeOK
    <2>2. seed \in Seeds /\ next \in 1..(Len(seed) + 1)
      BY PoolAssumption DEF Init
    <2>3. status \in [Tuples -> Statuses]
      BY DEF Init, Statuses
    <2>4. started \in 0..Len(Pool) /\ faults \in 0..MaxFaults
      BY PoolAssumption DEF Init
    <2>5. todo \in [Lanes -> Seq(Tuples)]
      BY DEF Init
    <2> QED BY <2>1, <2>2, <2>3, <2>4, <2>5 DEF Init, TypeOK
  <1>2. Accounted
    <2> SUFFICES ASSUME NEW l \in Lanes PROVE unfinished[l] = Len(queue[l]) + InHand(l)
      BY DEF Accounted
    <2>1. unfinished[l] = 0 /\ queue[l] = <<>>
      BY DEF Init, BusInit
    <2>2. worker[l] \notin Busy
      BY DEF Init, Busy
    <2> QED BY <2>1, <2>2 DEF InHand
  <1>3. HandsFull /\ WalkInside /\ NotStarted
    BY PoolAssumption DEF Init, BusInit, HandsFull, WalkInside, NotStarted, Busy
  <1> QED BY <1>1, <1>2, <1>3 DEF TypeInv

(* Every step of the main coroutine keeps it.                              *)
LEMMA TypeInvMain == TypeInv /\ Main => TypeInv'
  <1> USE DEF TypeInv
  <1> SUFFICES ASSUME TypeInv, Main PROVE TypeInv'
    OBVIOUS
  <1> USE DEF TypeOK
  <1>1. CASE PublishSeed
    <2>1. seed[next] \in Tuples /\ LaneOf[seed[next]] \in Lanes
      BY <1>1, PoolAssumption, BusAssumption DEF PublishSeed
    <2>2. Open(LaneOf[seed[next]]) /\ Enqueue(LaneOf[seed[next]], seed[next]) /\ UNCHANGED closed
      BY <1>1 DEF PublishSeed, Publish
    <2>3. BusTypeOK' /\ Len(lanes) <= Len(lanes')
      BY <2>1, <2>2, OpenType, EnqueueType DEF BusTypeOK
    <2>4. Accounted'
      BY <1>1, <2>1, <2>2, EnqueueAccounted DEF PublishSeed
    <2>5. HandsFull' /\ NotStarted' /\ WalkInside'
      BY <1>1, <2>3 DEF PublishSeed, HandsFull, NotStarted, WalkInside, BusTypeOK
    <2> QED BY <1>1, <2>3, <2>4, <2>5 DEF PublishSeed
  <1>2. CASE SeedPublished
    BY <1>2 DEF SeedPublished, busVars, BusTypeOK, Accounted, InHand, HandsFull, NotStarted, WalkInside
  <1>3. CASE Drain
    <2>1. at \in Nat \ {0} /\ pass \in Nat /\ Len(lanes) \in Nat
      BY <1>3 DEF Drain, WalkInside, BusTypeOK
    <2>2. /\ pass' \in Nat /\ at' \in Nat \ {0} /\ main' \in {"join", "close"}
          /\ pass' <= Len(lanes)
          /\ main' = "join" => at' <= pass'
          /\ closed' \in BOOLEAN
      <3>1. closed' \in BOOLEAN
        BY <1>3 DEF Drain, JoinAt, BusTypeOK
      <3>2. pass <= Len(lanes)
        BY DEF WalkInside
      <3>3. CASE \E i \in Unjoined(IF main = "woken" THEN at + 1 ELSE at, pass) : JoinAt(pass, i)
        BY <2>1, <3>1, <3>2, <3>3 DEF JoinAt, Unjoined
      <3>4. CASE \E i \in Unjoined(1, Len(lanes)) : JoinAt(Len(lanes), i)
        BY <2>1, <3>1, <3>2, <3>4 DEF JoinAt, Unjoined
      <3>5. CASE main' = "close" /\ at' = 1 /\ UNCHANGED pass
        BY <2>1, <3>1, <3>2, <3>5
      <3> QED BY <1>3, <3>3, <3>4, <3>5 DEF Drain
    <2> QED BY <1>3, <2>2 DEF Drain, BusTypeOK, Accounted, InHand, HandsFull, NotStarted, WalkInside
  <1>4. CASE CloseLane
    <2>1. lanes[at] \in Lanes
      BY <1>4 DEF CloseLane, WalkInside, BusTypeOK
    <2>2. Enqueue(lanes[at], Sentinel) /\ UNCHANGED <<lanes, closed>>
      BY <1>4 DEF CloseLane, PutSentinel
    <2>3. BusTypeOK'
      BY <2>1, <2>2, EnqueueType DEF BusTypeOK
    <2>4. Accounted'
      BY <1>4, <2>1, <2>2, EnqueueAccounted DEF CloseLane
    <2> QED BY <1>4, <2>2, <2>3, <2>4 DEF CloseLane, HandsFull, NotStarted, WalkInside
  <1>5. CASE CloseDone
    BY <1>5 DEF CloseDone, busVars, BusTypeOK, Accounted, InHand, HandsFull, NotStarted, WalkInside
  <1>6. CASE WorkersGathered
    BY <1>6 DEF WorkersGathered, busVars, BusTypeOK, Accounted, InHand, HandsFull, NotStarted, WalkInside
  <1> QED BY <1>1, <1>2, <1>3, <1>4, <1>5, <1>6 DEF Main

(* A worker's step touches the account of its own lane only.               *)
LEMMA AccountedElsewhere ==
  ASSUME Accounted, NEW l \in Lanes,
         \A m \in Lanes \ {l} : /\ unfinished'[m] = unfinished[m]
                                /\ queue'[m] = queue[m]
                                /\ worker'[m] = worker[m],
         unfinished'[l] = Len(queue'[l]) + InHand(l)'
  PROVE  Accounted'
  <1> SUFFICES ASSUME NEW m \in Lanes \ {l} PROVE unfinished'[m] = Len(queue'[m]) + InHand(m)'
    BY DEF Accounted
  <1>1. unfinished[m] = Len(queue[m]) + InHand(m)
    BY DEF Accounted
  <1>2. CASE worker[m] \in Busy
    BY <1>1, <1>2 DEF InHand
  <1>3. CASE worker[m] \notin Busy
    BY <1>1, <1>3 DEF InHand
  <1> QED BY <1>2, <1>3

(* What the end of a busy worker's step does to types and accounts.        *)
LEMMA AcknowledgeType ==
  ASSUME TypeInv, NEW l \in Lanes, Acknowledge(l), UNCHANGED <<lanes, queue, closed>>,
         worker[l] \in Busy, NEW w \in {"get", "dead"},
         worker' = [worker EXCEPT ![l] = w]
  PROVE  /\ BusTypeOK' /\ Accounted'
         /\ main' \in {"seed", "drain", "join", "woken", "close", "gather", "idle"}
         /\ main' = main \/ (main = "join" /\ main' = "woken")
  <1>1. unfinished[l] = Len(queue[l]) + 1 /\ Len(queue[l]) \in Nat
    BY DEF TypeInv, TypeOK, BusTypeOK, Accounted, InHand
  <1>2. unfinished' = [unfinished EXCEPT ![l] = @ - 1] /\ unfinished \in [Lanes -> Nat]
    BY DEF Acknowledge, TaskDone, TypeInv, TypeOK, BusTypeOK
  <1>3. unfinished' \in [Lanes -> Nat] /\ unfinished'[l] = Len(queue'[l])
    BY <1>1, <1>2
  <1>4. worker' \in [Lanes -> {"new", "get", "done", "dead"} \cup Busy] /\ worker'[l] \notin Busy
    BY DEF TypeInv, TypeOK, Busy
  <1>5. Accounted'
    <2>1. unfinished'[l] = Len(queue'[l]) + InHand(l)'
      BY <1>1, <1>3, <1>4 DEF InHand
    <2> QED BY <1>2, <2>1, AccountedElsewhere DEF TypeInv, TypeOK
  <1>6. BusTypeOK'
    BY <1>3 DEF TypeInv, TypeOK, BusTypeOK
  <1>7. /\ main' \in {"seed", "drain", "join", "woken", "close", "gather", "idle"}
        /\ main' = main \/ (main = "join" /\ main' = "woken")
    BY DEF Acknowledge, TypeInv, TypeOK
  <1> QED BY <1>5, <1>6, <1>7

(* With no tuple in the hand of its worker, a lane owes what waits in it.  *)
LEMMA IdleAccount ==
  ASSUME TypeInv, NEW l \in Lanes, worker[l] \notin Busy
  PROVE  Len(queue[l]) \in Nat /\ unfinished[l] = Len(queue[l])
  <1>1. Len(queue[l]) \in Nat
    BY DEF TypeInv, TypeOK, BusTypeOK
  <1>2. unfinished[l] = Len(queue[l]) + InHand(l)
    BY DEF TypeInv, Accounted
  <1>3. InHand(l) = 0
    BY DEF InHand
  <1>4. unfinished[l] = Len(queue[l]) + 0
    BY <1>2, <1>3
  <1> QED BY <1>1, <1>4

(* The first step of a worker task keeps it (workers.py:152-154).          *)
LEMMA TypeInvStart == TypeInv /\ StartWorker => TypeInv'
  <1> USE DEF TypeInv
  <1> SUFFICES ASSUME TypeInv, StartWorker PROVE TypeInv'
    OBVIOUS
  <1> DEFINE l == Pool[started + 1]
  <1>1. started \in Nat /\ started + 1 \in DOMAIN Pool /\ l \in Lanes
    BY PoolAssumption DEF StartWorker, TypeOK
  <1>2. Open(l) /\ worker' = [worker EXCEPT ![l] = "get"] /\ started' = started + 1
    BY DEF StartWorker
  <1>3. worker[l] = "new"
    BY <1>1 DEF NotStarted
  <1> HIDE DEF l
  <1>4. BusTypeOK' /\ Len(lanes) <= Len(lanes')
    BY <1>1, <1>2, OpenType DEF BusTypeOK, TypeOK, StartWorker
  <1>5. TypeOK'
    BY <1>1, <1>2, <1>4, PoolAssumption DEF TypeOK, StartWorker, Busy
  <1>6. Accounted' /\ HandsFull'
    <2>1. \A m \in Lanes : worker'[m] \in Busy => worker[m] = worker'[m]
      BY <1>1, <1>2 DEF TypeOK, Busy
    <2>2. \A m \in Lanes : worker[m] \in Busy => worker[m] = worker'[m]
      BY <1>1, <1>2, <1>3 DEF TypeOK, Busy
    <2>3. worker'[l] # "put" /\ \A m \in Lanes \ {l} : worker'[m] = worker[m]
      BY <1>1, <1>2 DEF TypeOK
    <2>4. Accounted'
      BY <2>1, <2>2 DEF Accounted, InHand, StartWorker
    <2>5. HandsFull'
      BY <2>1, <2>3 DEF HandsFull, StartWorker, Busy
    <2> QED BY <2>4, <2>5
  <1>7. NotStarted'
    BY <1>1, <1>2, PoolAssumption DEF NotStarted, TypeOK, l
  <1>8. WalkInside'
    BY <1>4 DEF WalkInside, StartWorker, TypeOK, BusTypeOK
  <1> QED BY <1>5, <1>6, <1>7, <1>8

(* A step of a running worker starts no other one.                         *)
LEMMA StillNotStarted ==
  ASSUME TypeInv, NEW l \in Lanes, NEW w, worker[l] # "new",
         worker' = [worker EXCEPT ![l] = w], UNCHANGED started
  PROVE  NotStarted'
  BY PoolAssumption DEF TypeInv, TypeOK, NotStarted

(* A walk that does not move stays inside the lanes that exist.            *)
LEMMA StillInside ==
  ASSUME TypeInv, UNCHANGED <<pass, at>>, Len(lanes') \in Nat, Len(lanes) <= Len(lanes'),
         main' = main \/ (main = "join" /\ main' = "woken")
  PROVE  WalkInside'
  BY DEF TypeInv, TypeOK, BusTypeOK, WalkInside

(* A worker gives up the tuple it holds: it finished, or it dies.          *)
LEMMA ReleaseType ==
  ASSUME TypeInv, NEW l \in Lanes, Acknowledge(l), worker[l] \in Busy,
         NEW w \in {"get", "dead"}, worker' = [worker EXCEPT ![l] = w],
         hand' = [hand EXCEPT ![l] = None],
         todo' = todo \/ todo' = [todo EXCEPT ![l] = <<>>],
         status' \in [Tuples -> Statuses], faults' \in 0..MaxFaults,
         UNCHANGED <<lanes, queue, closed, seed, next, pass, at, started>>
  PROVE  TypeInv'
  <1>1. /\ BusTypeOK' /\ Accounted'
        /\ main' \in {"seed", "drain", "join", "woken", "close", "gather", "idle"}
        /\ main' = main \/ (main = "join" /\ main' = "woken")
    BY AcknowledgeType
  <1>2. todo' \in [Lanes -> Seq(Tuples)] /\ \A m \in Lanes \ {l} : todo'[m] = todo[m]
    <2>1. todo \in [Lanes -> Seq(Tuples)]
      BY DEF TypeInv, TypeOK
    <2>2. CASE todo' = todo
      BY <2>1, <2>2
    <2>3. CASE todo' = [todo EXCEPT ![l] = <<>>]
      BY <2>1, <2>3
    <2> QED BY <2>2, <2>3
  <1>3. TypeOK'
    BY <1>1, <1>2 DEF TypeInv, TypeOK
  <1>4. HandsFull'
    BY <1>2 DEF TypeInv, TypeOK, HandsFull, Busy
  <1>5. NotStarted'
    BY StillNotStarted DEF Busy
  <1>6. WalkInside'
    BY <1>1, StillInside DEF TypeInv, TypeOK, BusTypeOK
  <1> QED BY <1>1, <1>3, <1>4, <1>5, <1>6 DEF TypeInv

(* Every step of a worker keeps it, a failed write of the log included.    *)
LEMMA TypeInvWork ==
  ASSUME TypeInv, NEW l \in Lanes, Work(l) \/ LogWriteFails(l)
  PROVE  TypeInv'
  <1> USE DEF TypeInv
  <1>1. CASE Take(l)
    <2> PICK t \in Tuples : Get(l, t) /\ hand' = [hand EXCEPT ![l] = t]
                            /\ status' = [status EXCEPT ![t] = "consumed"]
      BY <1>1 DEF Take
    <2>1. worker[l] = "get" /\ worker' = [worker EXCEPT ![l] = "run"]
      BY <1>1 DEF Take
    <2>2. BusTypeOK'
      BY <1>1, GetType DEF Take, TypeOK, BusTypeOK
    <2>3. TypeOK'
      BY <1>1, <2>1, <2>2 DEF Take, TypeOK, Busy, Statuses
    <2>4. Accounted'
      <3>1. unfinished[l] = Len(queue[l]) /\ Len(queue[l]) \in Nat
        BY <2>1, IdleAccount DEF Busy
      <3>2. Len(queue'[l]) = Len(queue[l]) - 1 /\ unfinished'[l] = unfinished[l]
        BY <1>1, GetType DEF Take, TypeOK
      <3>3. unfinished'[l] = Len(queue'[l]) + 1 /\ worker'[l] \in Busy
        BY <2>1, <3>1, <3>2 DEF TypeOK, Busy
      <3>4. unfinished'[l] = Len(queue'[l]) + InHand(l)'
        BY <3>3 DEF InHand
      <3>5. \A m \in Lanes \ {l} : queue'[m] = queue[m]
        BY GetType DEF TypeOK
      <3> QED BY <1>1, <2>1, <3>4, <3>5, AccountedElsewhere DEF Take, TypeOK
    <2>5. HandsFull'
      BY <1>1, <2>1 DEF Take, TypeOK, HandsFull, Busy
    <2>6. NotStarted'
      BY <1>1, <2>1, StillNotStarted DEF Take
    <2> QED BY <1>1, <2>3, <2>4, <2>5, <2>6 DEF Take, WalkInside
  <1>2. CASE TakeSentinel(l)
    <2>1. /\ worker[l] = "get" /\ worker' = [worker EXCEPT ![l] = "done"]
          /\ Get(l, Sentinel) /\ Acknowledge(l)
      BY <1>2 DEF TakeSentinel
    <2>2. unfinished[l] = Len(queue[l]) /\ Len(queue[l]) \in Nat
      BY <2>1, IdleAccount DEF Busy
    <2>3. Len(queue'[l]) = Len(queue[l]) - 1 /\ Len(queue[l]) > 0
      BY <2>1, GetType DEF TypeOK
    <2>4. unfinished' = [unfinished EXCEPT ![l] = @ - 1]
      BY <2>1 DEF Acknowledge, TaskDone
    <2>5. BusTypeOK' /\ unfinished'[l] = Len(queue'[l])
      BY <1>2, <2>1, <2>2, <2>3, <2>4, GetType DEF TakeSentinel, TypeOK, BusTypeOK
    <2>6. /\ main' \in {"seed", "drain", "join", "woken", "close", "gather", "idle"}
          /\ main' = main \/ (main = "join" /\ main' = "woken")
      BY <2>1 DEF Acknowledge, TypeOK
    <2>7. TypeOK'
      BY <1>2, <2>1, <2>5, <2>6 DEF TakeSentinel, TypeOK
    <2>8. Accounted'
      <3>1. worker'[l] \notin Busy /\ Len(queue'[l]) \in Nat
        BY <2>1, <2>2, <2>3 DEF TypeOK, Busy
      <3>2. unfinished'[l] = Len(queue'[l]) + InHand(l)'
        BY <2>5, <3>1 DEF InHand
      <3> QED BY <2>1, <2>4, <3>2, GetType, AccountedElsewhere DEF TypeOK, BusTypeOK
    <2>9. HandsFull'
      BY <1>2, <2>1 DEF TakeSentinel, TypeOK, HandsFull, Busy
    <2>10. NotStarted' /\ WalkInside'
      <3>1. NotStarted'
        BY <1>2, <2>1, StillNotStarted DEF TakeSentinel
      <3>2. Len(lanes') \in Nat /\ Len(lanes) <= Len(lanes')
        BY <1>2 DEF TakeSentinel, TypeOK, BusTypeOK
      <3>3. WalkInside'
        BY <1>2, <2>6, <3>2, StillInside DEF TakeSentinel
      <3> QED BY <3>1, <3>3
    <2> QED BY <2>7, <2>8, <2>9, <2>10
  <1>3. CASE Fail(l)
    <2>1. status' \in [Tuples -> Statuses]
      BY <1>3 DEF Fail, TypeOK, Statuses, Final
    <2> QED BY <1>3, <2>1, ReleaseType DEF Fail, Return, Busy, TypeOK
  <1>4. CASE Complete(l)
    <2>1. hand[l] \in Tuples /\ worker[l] = "run" /\ worker' = [worker EXCEPT ![l] = "emit"]
      BY <1>4 DEF Complete, HandsFull, Busy
    <2>2. TypeOK'
      BY <1>4, <2>1, PoolAssumption DEF Complete, busVars, TypeOK, BusTypeOK, Busy, Statuses, Final
    <2>3. Accounted'
      BY <1>4, <2>1 DEF Complete, busVars, Accounted, InHand, Busy, TypeOK
    <2>4. HandsFull' /\ NotStarted'
      BY <1>4, <2>1, StillNotStarted DEF Complete, HandsFull, TypeOK, Busy
    <2> QED BY <1>4, <2>2, <2>3, <2>4 DEF Complete, busVars, WalkInside
  <1>5. CASE Emit(l)
    <2> DEFINE c == Head(todo[l])
    <2>1. c \in Tuples /\ LaneOf[c] \in Lanes
      BY <1>5, BusAssumption DEF Emit, TypeOK
    <2>2. Open(LaneOf[c]) /\ Enqueue(LaneOf[c], c) /\ UNCHANGED closed
      BY <1>5 DEF Emit, Publish
    <2> HIDE DEF c
    <2>3. BusTypeOK' /\ Len(lanes) <= Len(lanes')
      BY <2>1, <2>2, OpenType, EnqueueType DEF TypeOK, BusTypeOK
    <2>4. todo' \in [Lanes -> Seq(Tuples)]
      BY <1>5 DEF Emit, TypeOK
    <2>5. TypeOK'
      BY <1>5, <2>1, <2>3, <2>4 DEF Emit, LogChild, TypeOK, Statuses
    <2>6. Accounted'
      BY <1>5, <2>1, <2>2, EnqueueAccounted DEF Emit, TypeOK
    <2>7. HandsFull'
      BY <1>5 DEF Emit, TypeOK, HandsFull
    <2>8. NotStarted'
      BY <1>5 DEF Emit, NotStarted
    <2>9. WalkInside'
      <3>1. Len(lanes') \in Nat
        BY <2>3 DEF BusTypeOK
      <3> QED BY <1>5, <2>3, <3>1, StillInside DEF Emit
    <2> QED BY <2>5, <2>6, <2>7, <2>8, <2>9
  <1>6. CASE EmitBlocks(l)
    <2>1. /\ worker[l] = "emit" /\ worker' = [worker EXCEPT ![l] = "put"]
          /\ Head(todo[l]) \in Tuples /\ todo[l] # <<>>
      BY <1>6 DEF EmitBlocks, TypeOK
    <2>2. TypeOK'
      BY <1>6, <2>1 DEF EmitBlocks, LogChild, busVars, TypeOK, BusTypeOK, Busy, Statuses
    <2>3. Accounted'
      BY <1>6, <2>1 DEF EmitBlocks, busVars, Accounted, InHand, Busy, TypeOK
    <2>4. HandsFull' /\ NotStarted'
      BY <1>6, <2>1, StillNotStarted DEF EmitBlocks, HandsFull, TypeOK, Busy
    <2> QED BY <1>6, <2>2, <2>3, <2>4 DEF EmitBlocks, busVars, WalkInside
  <1>7. CASE PutResumes(l)
    <2> DEFINE c == Head(todo[l])
    <2>1. /\ worker[l] = "put" /\ worker' = [worker EXCEPT ![l] = "emit"]
          /\ c \in Tuples /\ LaneOf[c] \in Lanes /\ todo[l] # <<>>
      BY <1>7, BusAssumption DEF PutResumes, HandsFull, TypeOK
    <2>2. Enqueue(LaneOf[c], c)
      BY <1>7 DEF PutResumes
    <2>3. todo' \in [Lanes -> Seq(Tuples)]
      BY <1>7, <2>1 DEF PutResumes, TypeOK
    <2> HIDE DEF c
    <2>4. BusTypeOK'
      BY <1>7, <2>1, <2>2, EnqueueType DEF PutResumes, TypeOK, BusTypeOK
    <2>5. TypeOK'
      BY <1>7, <2>1, <2>3, <2>4 DEF PutResumes, TypeOK, Busy
    <2>6. Accounted'
      <3>1. \A m \in Lanes : worker[m] \in Busy <=> worker'[m] \in Busy
        BY <2>1 DEF TypeOK, Busy
      <3> QED BY <2>1, <2>2, <3>1, EnqueueAccounted DEF TypeOK
    <2>7. HandsFull' /\ NotStarted'
      BY <1>7, <2>1, StillNotStarted DEF PutResumes, HandsFull, TypeOK, Busy
    <2> QED BY <1>7, <2>5, <2>6, <2>7 DEF PutResumes, WalkInside
  <1>8. CASE EmitOnClosed(l)
    <2>1. status' \in [Tuples -> Statuses]
      BY <1>8 DEF EmitOnClosed, LogChild, TypeOK, Statuses
    <2> QED BY <1>8, <2>1, ReleaseType DEF EmitOnClosed, Die, Busy, TypeOK
  <1>9. CASE Handled(l)
    BY <1>9, ReleaseType DEF Handled, Return, Busy, TypeOK
  <1>10. CASE LogWriteFails(l)
    <2>1. faults' \in 0..MaxFaults
      BY <1>10, PoolAssumption DEF LogWriteFails, TypeOK
    <2> QED BY <1>10, <2>1, ReleaseType DEF LogWriteFails, Die, Busy, TypeOK
  <1> QED BY <1>1, <1>2, <1>3, <1>4, <1>5, <1>6, <1>7, <1>8, <1>9, <1>10 DEF Work

(* Together: the strengthened type invariant is inductive.                 *)
LEMMA TypeInvNext == TypeInv /\ [Next]_vars => TypeInv'
  <1> SUFFICES ASSUME TypeInv, [Next]_vars PROVE TypeInv'
    OBVIOUS
  <1>1. CASE Next
    BY <1>1, TypeInvMain, TypeInvStart, TypeInvWork DEF Next
  <1>2. CASE UNCHANGED vars
    BY <1>2 DEF vars, busVars, poolVars, TypeInv, TypeOK, BusTypeOK, Accounted, InHand,
                HandsFull, NotStarted, WalkInside
  <1> QED BY <1>1, <1>2

(* The state of a call is well typed, and the unfinished count of every    *)
(* lane is what waits there plus what its worker holds: a worker           *)
(* acknowledges a tuple exactly once, whether it finishes or dies          *)
(* (bus.py:46-55).                                                         *)
THEOREM TypingAndAccount == Spec => [](TypeOK /\ Accounted)
  <1>1. Spec => []TypeInv
    BY TypeInvInit, TypeInvNext, PTL DEF Spec
  <1>2. TypeInv => TypeOK /\ Accounted
    BY DEF TypeInv
  <1> QED BY <1>1, <1>2, PTL

------------------------------------------------------------------------------
(* The drain of a pipelined call.  Every lane comes into being in the      *)
(* order of the pool, a tuple only ever moves to a later lane, and so a    *)
(* lane that has been joined stays quiet: nothing before it can feed it.   *)

Downstream(l, t) ==
  \E i, j \in DOMAIN Pool : i < j /\ l = Pool[i] /\ LaneOf[t] = Pool[j]

LanesInOrder ==
  /\ started <= Len(lanes) /\ Len(lanes) <= Len(Pool)
  /\ \A i \in DOMAIN lanes : lanes[i] = Pool[i]

InPlace ==
  \A l \in Lanes :
    /\ \A t \in Tuples : Holds(l, t) => LaneOf[t] = l /\ l \in Created
    /\ worker[l] \in Busy => LaneOf[hand[l]] = l /\ started = Len(Pool)
    /\ \A k \in DOMAIN todo[l] : Downstream(l, todo[l][k])

MainOrder ==
  /\ main # "seed" => next > Len(seed)
  /\ closed <=> main \in {"close", "gather", "idle"}
  /\ main = "drain" => at = 1

(* The lanes the walk has left behind.                                     *)
Passed == {k \in DOMAIN lanes : k < at \/ (k = at /\ main = "woken")}

WalkedQuiet ==
  main \in {"drain", "join", "woken"} => \A k \in Passed : Quiet(lanes[k])

ClosedQuiet == closed => \A l \in Lanes : Quiet(l)

PipeInv == LanesInOrder /\ InPlace /\ MainOrder /\ WalkedQuiet /\ ClosedQuiet

(* Every worker has a lane.                                                *)
LEMMA PoolLanes == \A i \in DOMAIN Pool : Pool[i] \in Lanes
  BY PoolAssumption

(* A join that returned leaves a quiet lane (bus.py:60-61).                *)
LEMMA QuietIfJoined ==
  ASSUME TypeInv, NEW l \in Lanes, unfinished[l] = 0
  PROVE  Quiet(l)
  <1>1. unfinished[l] = Len(queue[l]) + InHand(l) /\ Len(queue[l]) \in Nat
    BY DEF TypeInv, TypeOK, BusTypeOK, Accounted
  <1>2. worker[l] \notin Busy
    <2> SUFFICES ASSUME worker[l] \in Busy PROVE FALSE
      OBVIOUS
    <2>1. unfinished[l] = Len(queue[l]) + 1
      BY <1>1 DEF InHand
    <2> QED BY <1>1, <2>1
  <1>3. queue[l] = <<>>
    <2>1. unfinished[l] = Len(queue[l])
      BY <1>2, IdleAccount
    <2> QED BY <2>1 DEF TypeInv, TypeOK, BusTypeOK
  <1> QED BY <1>2, <1>3 DEF Quiet, Holds

(* Position in the list of lanes is position in the pipeline.              *)
LEMMA CreatedInOrder ==
  ASSUME TypeInv, LanesInOrder, NEW i \in DOMAIN Pool
  PROVE  Pool[i] \in Created <=> i \in DOMAIN lanes
  <1>1. \A k \in DOMAIN lanes : k \in DOMAIN Pool /\ lanes[k] = Pool[k]
    <2>1. DOMAIN lanes = 1..Len(lanes) /\ Len(lanes) \in Nat
      BY DEF TypeInv, TypeOK, BusTypeOK
    <2>2. DOMAIN Pool = 1..Len(Pool) /\ Len(Pool) \in Nat
      BY PoolAssumption
    <2>3. Len(lanes) <= Len(Pool) /\ \A k \in DOMAIN lanes : lanes[k] = Pool[k]
      BY DEF LanesInOrder
    <2> QED BY <2>1, <2>2, <2>3
  <1>2. \A k \in DOMAIN Pool : Pool[k] = Pool[i] => k = i
    BY PoolAssumption
  <1> QED BY <1>1, <1>2 DEF Created

(* The pipeline invariant holds when a pipelined call begins.              *)
LEMMA PipeInit == Init /\ Pipelined => PipeInv
  <1> SUFFICES ASSUME Init PROVE PipeInv
    OBVIOUS
  <1>1. \A l \in Lanes : queue[l] = <<>> /\ worker[l] = "new" /\ todo[l] = <<>>
    BY DEF Init, BusInit
  <1>2. \A l \in Lanes, t \in Tuples : ~Holds(l, t)
    <2> SUFFICES ASSUME NEW l \in Lanes PROVE DOMAIN queue[l] = {}
      BY DEF Holds
    <2>1. queue[l] = <<>>
      BY <1>1
    <2> QED BY <2>1
  <1>6. \A l \in Lanes : Quiet(l)
    BY <1>1, <1>2 DEF Quiet, Busy
  <1>3. lanes = <<>> /\ started = 0 /\ main = "seed" /\ ~closed
    BY DEF Init, BusInit
  <1>4. LanesInOrder
    BY <1>3, PoolAssumption DEF LanesInOrder
  <1>5. InPlace
    <2>1. \A l \in Lanes : DOMAIN todo[l] = {}
      <3> SUFFICES ASSUME NEW l \in Lanes PROVE DOMAIN todo[l] = {}
        OBVIOUS
      <3>1. todo[l] = <<>>
        BY <1>1
      <3> QED BY <3>1
    <2>2. \A l \in Lanes : worker[l] \notin Busy
      BY <1>1 DEF Busy
    <2> QED BY <1>2, <2>1, <2>2 DEF InPlace
  <1> QED BY <1>3, <1>4, <1>5 DEF PipeInv, MainOrder, WalkedQuiet, ClosedQuiet

(* The one step that needs the walk's memory.                              *)
LEMMA PipeDrain == TypeInv /\ PipeInv /\ Pipelined /\ Drain => PipeInv'
  <1> SUFFICES ASSUME TypeInv, PipeInv, Pipelined, Drain PROVE PipeInv'
    OBVIOUS
  <1> DEFINE from == IF main = "woken" THEN at + 1 ELSE at
  <1>1. /\ main \in {"drain", "woken"} /\ pass \in Nat /\ pass <= Len(lanes) /\ Len(lanes) \in Nat
        /\ from \in Nat \ {0}
        /\ UNCHANGED <<lanes, queue, unfinished, seed, next, started, worker, hand, todo>>
    BY DEF Drain, TypeInv, TypeOK, BusTypeOK, WalkInside
  <1>2. \A l \in Lanes : Quiet(l)' <=> Quiet(l)
    BY <1>1 DEF Quiet, Holds
  <1>3. LanesInOrder' /\ InPlace'
    BY <1>1 DEF PipeInv, LanesInOrder, InPlace, Holds, Created
  <1>4. \A k \in DOMAIN lanes : lanes[k] \in Lanes
    BY DEF TypeInv, TypeOK, BusTypeOK
  <1>5. \A k \in DOMAIN lanes : k < from => Quiet(lanes[k])
    <2> SUFFICES ASSUME NEW k \in DOMAIN lanes, k < from PROVE Quiet(lanes[k])
      OBVIOUS
    <2>1. k \in Nat /\ at \in Nat
      BY DEF TypeInv, TypeOK, BusTypeOK
    <2>2. k \in Passed
      <3>1. CASE main = "woken"
        BY <2>1, <3>1 DEF Passed
      <3>2. CASE main = "drain"
        BY <2>1, <3>2 DEF Passed
      <3> QED BY <1>1, <3>1, <3>2
    <2> QED BY <1>1, <2>2 DEF PipeInv, WalkedQuiet
  <1>6. \A k \in DOMAIN lanes : unfinished[lanes[k]] = 0 => Quiet(lanes[k])
    BY <1>4, QuietIfJoined
  <1>7. next > Len(seed) /\ ~closed
    BY <1>1 DEF PipeInv, MainOrder
  <1>8. Unjoined(from, pass) = {i \in from..pass : unfinished[lanes[i]] > 0}
    BY DEF Unjoined
  <1>9. \A k \in DOMAIN lanes : k \in 1..Len(lanes) /\ unfinished[lanes[k]] \in Nat
    BY <1>4 DEF TypeInv, TypeOK, BusTypeOK
  <1> HIDE DEF from
  (* What stopped the walk before lane i shows that every lane before is quiet. *)
  <1>10. \A i \in Unjoined(from, pass), k \in DOMAIN lanes :
           (\A j \in Unjoined(from, pass) : i <= j) /\ k < i => Quiet(lanes[k])
    <2> SUFFICES ASSUME NEW i \in Unjoined(from, pass), NEW k \in DOMAIN lanes,
                        \A j \in Unjoined(from, pass) : i <= j, k < i, k >= from
                 PROVE  Quiet(lanes[k])
      BY <1>1, <1>5, <1>9
    <2>1. k \notin Unjoined(from, pass) /\ k <= pass
      BY <1>1, <1>8, <1>9
    <2> QED BY <1>1, <1>6, <1>8, <1>9, <2>1
  <1>11. \A i \in Unjoined(1, Len(lanes)), k \in DOMAIN lanes :
           (\A j \in Unjoined(1, Len(lanes)) : i <= j) /\ k < i => Quiet(lanes[k])
    <2> SUFFICES ASSUME NEW i \in Unjoined(1, Len(lanes)), NEW k \in DOMAIN lanes,
                        \A j \in Unjoined(1, Len(lanes)) : i <= j, k < i
                 PROVE  Quiet(lanes[k])
      OBVIOUS
    <2>1. k \notin Unjoined(1, Len(lanes))
      BY <1>1, <1>9 DEF Unjoined
    <2> QED BY <1>1, <1>6, <1>9, <2>1 DEF Unjoined
  <1>12. CASE main' = "join" /\ closed' = closed /\ \A k \in DOMAIN lanes : k < at' => Quiet(lanes[k])
    BY <1>1, <1>2, <1>3, <1>4, <1>7, <1>12 DEF PipeInv, MainOrder, WalkedQuiet, Passed, ClosedQuiet
  <1>13. CASE /\ Unjoined(from, pass) = {}
              /\ IF pass = Len(lanes) THEN {} = {} ELSE Unjoined(1, Len(lanes)) = {}
              /\ closed' = TRUE /\ main' = "close"
    <2>1. \A k \in DOMAIN lanes : Quiet(lanes[k])
      <3>1. CASE pass = Len(lanes)
        BY <1>1, <1>5, <1>6, <1>8, <1>9, <1>13, <3>1
      <3>2. CASE pass # Len(lanes)
        BY <1>1, <1>6, <1>9, <1>13, <3>2 DEF Unjoined
      <3> QED BY <3>1, <3>2
    <2>2. \A l \in Lanes : Quiet(l)
      <3> SUFFICES ASSUME NEW l \in Lanes, ~Quiet(l) PROVE l \in Created
        BY <2>1 DEF Created
      <3>1. CASE \E t \in Tuples : Holds(l, t)
        BY <3>1 DEF PipeInv, InPlace
      <3>2. CASE worker[l] \in Busy
        <4>1. hand[l] \in Tuples /\ LaneOf[hand[l]] = l /\ started = Len(Pool)
          BY <3>2 DEF TypeInv, HandsFull, PipeInv, InPlace
        <4>2. PICK i \in DOMAIN Pool : l = Pool[i]
          BY <4>1 DEF Pipelined, FlowsForward
        <4>3. i \in DOMAIN lanes
          BY <4>1, <4>2, PoolAssumption DEF PipeInv, LanesInOrder, TypeInv, TypeOK, BusTypeOK
        <4> QED BY <4>2, <4>3, CreatedInOrder DEF PipeInv
      <3> QED BY <3>1, <3>2 DEF Quiet
    <2> QED BY <1>1, <1>2, <1>3, <1>7, <1>13, <2>2 DEF PipeInv, MainOrder, WalkedQuiet, ClosedQuiet
  <1> QED BY <1>10, <1>11, <1>12, <1>13 DEF Drain, JoinAt, from

(* Opening the lane the pool's order asks for keeps the order.             *)
LEMMA OpenInOrder ==
  ASSUME TypeInv, LanesInOrder, NEW i \in DOMAIN Pool, i <= Len(lanes) + 1, Open(Pool[i])
  PROVE  /\ Len(lanes') <= Len(Pool) /\ i <= Len(lanes') /\ Len(lanes) <= Len(lanes')
         /\ Len(lanes') \in Nat
         /\ \A k \in DOMAIN lanes' : lanes'[k] = Pool[k]
         /\ \A k \in DOMAIN lanes : k \in DOMAIN lanes' /\ lanes'[k] = lanes[k]
         /\ Created \subseteq Created' /\ Pool[i] \in Created'
  <1>1. DOMAIN lanes = 1..Len(lanes) /\ Len(lanes) \in Nat /\ lanes \in Seq(Lanes)
    BY DEF TypeInv, TypeOK, BusTypeOK
  <1>2. DOMAIN Pool = 1..Len(Pool) /\ Len(Pool) \in Nat /\ Pool[i] \in Lanes
    BY PoolAssumption
  <1>3. Len(lanes) <= Len(Pool) /\ \A k \in DOMAIN lanes : lanes[k] = Pool[k]
    BY DEF LanesInOrder
  <1>4. CASE Pool[i] \in Created
    <2>1. i \in DOMAIN lanes /\ lanes' = lanes
      BY <1>4, CreatedInOrder DEF Open
    <2> QED BY <1>1, <1>2, <1>3, <1>4, <2>1 DEF Created
  <1>5. CASE Pool[i] \notin Created
    <2>1. i = Len(lanes) + 1 /\ lanes' = Append(lanes, Pool[i])
      BY <1>1, <1>2, <1>5, CreatedInOrder DEF Open
    <2>2. /\ Len(lanes') = i /\ DOMAIN lanes' = 1..i /\ lanes'[i] = Pool[i]
          /\ \A k \in DOMAIN lanes : lanes'[k] = lanes[k]
      BY <1>1, <1>2, <2>1
    <2> QED BY <1>1, <1>2, <1>3, <2>1, <2>2 DEF Created
  <1> QED BY <1>4, <1>5

(* What holds a tuple after a put.                                         *)
LEMMA HoldsAfterEnqueue ==
  ASSUME BusTypeOK, NEW l \in Lanes, NEW item \in Tuples \cup {Sentinel}, Enqueue(l, item),
         NEW m \in Lanes, NEW t \in Tuples
  PROVE  Holds(m, t)' => Holds(m, t) \/ (m = l /\ t = item)
  <1>1. CASE m = l
    <2>1. /\ queue[l] \in Seq(Tuples \cup {Sentinel}) /\ queue'[l] = Append(queue[l], item)
          /\ Len(queue[l]) \in Nat
      BY DEF Enqueue, BusTypeOK
    <2>2. /\ DOMAIN queue'[l] = 1..(Len(queue[l]) + 1) /\ queue'[l][Len(queue[l]) + 1] = item
          /\ \A i \in 1..Len(queue[l]) : queue'[l][i] = queue[l][i]
          /\ DOMAIN queue[l] = 1..Len(queue[l])
      BY <2>1
    <2> QED BY <1>1, <2>1, <2>2 DEF Holds
  <1>2. CASE m # l
    BY <1>2, EnqueueType DEF Holds
  <1> QED BY <1>1, <1>2

(* A get adds no tuple to any lane.                                        *)
LEMMA HoldsAfterGet ==
  ASSUME BusTypeOK, NEW l \in Lanes, NEW item, Get(l, item), NEW m \in Lanes, NEW t \in Tuples
  PROVE  Holds(m, t)' => Holds(m, t)
  <1>1. CASE m = l
    <2>1. /\ queue[l] \in Seq(Tuples \cup {Sentinel}) /\ queue'[l] = Tail(queue[l]) /\ queue[l] # <<>>
          /\ Len(queue[l]) \in Nat
      BY DEF Get, BusTypeOK
    <2>2. /\ DOMAIN queue'[l] = 1..(Len(queue[l]) - 1) /\ DOMAIN queue[l] = 1..Len(queue[l])
          /\ \A i \in 1..(Len(queue[l]) - 1) : queue'[l][i] = queue[l][i + 1]
      BY <2>1
    <2> QED BY <1>1, <2>1, <2>2 DEF Holds
  <1>2. CASE m # l
    BY <1>2, GetType DEF Holds
  <1> QED BY <1>1, <1>2

(* A tuple that was taken had been waiting.                                *)
LEMMA GetHolds ==
  ASSUME BusTypeOK, NEW l \in Lanes, NEW t \in Tuples, Get(l, t)
  PROVE  Holds(l, t)
  BY DEF Get, BusTypeOK, Holds

(* Every step of the main coroutine keeps it.                              *)
LEMMA PipeMain == TypeInv /\ PipeInv /\ Pipelined /\ Main => PipeInv'
  <1> SUFFICES ASSUME TypeInv, PipeInv, Pipelined, Main PROVE PipeInv'
    OBVIOUS
  <1> USE DEF PipeInv
  <1>1. CASE PublishSeed
    <2>1. /\ seed[next] \in Tuples /\ LaneOf[seed[next]] = Pool[1] /\ 1 \in DOMAIN Pool
          /\ Pool[1] \in Lanes /\ Len(lanes) \in Nat
      <3>1. next \in DOMAIN seed /\ seed[next] \in Tuples
        BY <1>1, PoolAssumption DEF PublishSeed, TypeInv, TypeOK
      <3>2. Pool # <<>> /\ LaneOf[seed[next]] = Pool[1]
        BY <3>1 DEF Pipelined, SeedsAtHead, SeedSet
      <3>3. 1 \in DOMAIN Pool /\ Pool[1] \in Lanes
        BY <3>2, PoolAssumption
      <3>4. Len(lanes) \in Nat
        BY DEF TypeInv, TypeOK, BusTypeOK
      <3> QED BY <3>1, <3>2, <3>3, <3>4
    <2>2. /\ Open(Pool[1]) /\ Enqueue(Pool[1], seed[next])
          /\ main' = main /\ main = "seed" /\ closed' = closed
          /\ UNCHANGED <<started, worker, hand, todo>>
      BY <1>1, <2>1 DEF PublishSeed, Publish
    <2>3. LanesInOrder'
      BY <2>1, <2>2, OpenInOrder, PoolAssumption DEF LanesInOrder, TypeInv, TypeOK
    <2>4. \A l \in Lanes, t \in Tuples : Holds(l, t)' => LaneOf[t] = l /\ l \in Created'
      BY <2>1, <2>2, OpenInOrder, HoldsAfterEnqueue DEF InPlace, TypeInv, TypeOK
    <2>5. InPlace'
      BY <2>2, <2>4 DEF InPlace
    <2> QED BY <2>2, <2>3, <2>5 DEF MainOrder, WalkedQuiet, ClosedQuiet
  <1>2. CASE SeedPublished
    <2>1. /\ main = "seed" /\ main' = "drain" /\ at' = 1 /\ next > Len(seed)
          /\ UNCHANGED <<lanes, queue, closed, seed, next, started, worker, hand, todo>>
      BY <1>2 DEF SeedPublished, busVars
    <2>2. LanesInOrder' /\ InPlace' /\ MainOrder'
      BY <2>1 DEF LanesInOrder, InPlace, Holds, Created, MainOrder
    <2>3. Passed' = {}
      BY <2>1 DEF Passed, TypeInv, TypeOK, BusTypeOK
    <2> QED BY <2>1, <2>2, <2>3 DEF MainOrder, WalkedQuiet, ClosedQuiet
  <1>3. CASE Drain
    BY <1>3, PipeDrain
  <1>4. CASE CloseLane
    <2>1. /\ main = "close" /\ main' = main /\ lanes[at] \in Lanes
          /\ UNCHANGED <<lanes, closed, seed, next, started, worker, hand, todo>>
      BY <1>4 DEF CloseLane, PutSentinel, TypeInv, TypeOK, BusTypeOK, WalkInside
    <2>2. Enqueue(lanes[at], Sentinel)
      BY <1>4 DEF CloseLane, PutSentinel
    <2>3. \A l \in Lanes, t \in Tuples : Holds(l, t)' => Holds(l, t)
      BY <2>1, <2>2, HoldsAfterEnqueue, BusAssumption DEF TypeInv, TypeOK
    <2>4. LanesInOrder' /\ MainOrder'
      BY <2>1 DEF LanesInOrder, MainOrder
    <2>5. InPlace'
      BY <2>1, <2>3 DEF InPlace, Created
    <2>6. ClosedQuiet'
      BY <2>1, <2>3 DEF ClosedQuiet, Quiet
    <2> QED BY <2>1, <2>4, <2>5, <2>6 DEF WalkedQuiet
  <1>5. CASE CloseDone \/ WorkersGathered
    <2>1. /\ main \in {"close", "gather"} /\ main' \in {"gather", "idle"}
          /\ UNCHANGED <<lanes, queue, closed, seed, next, started, worker, hand, todo>>
      BY <1>5 DEF CloseDone, WorkersGathered, busVars
    <2>2. LanesInOrder' /\ InPlace' /\ MainOrder'
      BY <2>1 DEF LanesInOrder, InPlace, Holds, Created, MainOrder
    <2>3. ClosedQuiet'
      BY <2>1 DEF ClosedQuiet, Quiet, Holds
    <2> QED BY <2>1, <2>2, <2>3 DEF WalkedQuiet
  <1> QED BY <1>1, <1>2, <1>3, <1>4, <1>5 DEF Main

(* Workers open their lanes in the order of the pipeline.                  *)
LEMMA PipeStart == TypeInv /\ PipeInv /\ StartWorker => PipeInv'
  <1> SUFFICES ASSUME TypeInv, PipeInv, StartWorker PROVE PipeInv'
    OBVIOUS
  <1> USE DEF PipeInv
  <1>1. /\ started \in Nat /\ started + 1 \in DOMAIN Pool /\ started + 1 <= Len(lanes) + 1
        /\ Open(Pool[started + 1]) /\ started' = started + 1 /\ started < Len(Pool)
        /\ worker' = [worker EXCEPT ![Pool[started + 1]] = "get"] /\ Pool[started + 1] \in Lanes
        /\ UNCHANGED <<queue, closed, seed, next, main, at, hand, todo>>
    BY PoolAssumption DEF StartWorker, LanesInOrder, TypeInv, TypeOK, BusTypeOK
  <1>2. LanesInOrder'
    BY <1>1, OpenInOrder DEF LanesInOrder
  <1>3. Created \subseteq Created'
    BY <1>1, OpenInOrder
  <1>4. \A l \in Lanes : worker[l] \notin Busy
    BY <1>1, PoolAssumption DEF InPlace
  <1>5. \A l \in Lanes : worker'[l] \notin Busy
    BY <1>1, <1>4 DEF TypeInv, TypeOK, Busy
  <1>6. InPlace'
    BY <1>1, <1>3, <1>5 DEF InPlace, Holds
  <1>7. \A l \in Lanes : Quiet(l) => Quiet(l)'
    BY <1>1, <1>5 DEF Quiet, Holds
  <1>8. \A k \in DOMAIN lanes : lanes[k] \in Lanes /\ lanes'[k] = lanes[k]
    <2>1. \A k \in DOMAIN lanes : lanes[k] \in Lanes
      BY DEF TypeInv, TypeOK, BusTypeOK
    <2>2. \A k \in DOMAIN lanes : lanes'[k] = lanes[k]
      BY <1>1, OpenInOrder
    <2> QED BY <2>1, <2>2
  <1>9. main \in {"drain", "join", "woken"} => Passed' \subseteq Passed
    <2>1. DOMAIN lanes = 1..Len(lanes) /\ Len(lanes) \in Nat /\ lanes' \in Seq(Lanes)
      BY <1>1, OpenType DEF TypeInv, TypeOK, BusTypeOK
    <2>2. main \in {"drain", "join", "woken"} => at <= pass \/ at = 1
      BY DEF TypeInv, WalkInside, MainOrder
    <2>3. pass <= Len(lanes) /\ pass \in Nat /\ at \in Nat
      BY DEF TypeInv, TypeOK, WalkInside
    <2>4. at' = at /\ main' = main
      BY <1>1
    <2>5. DOMAIN lanes' = 1..Len(lanes') /\ Len(lanes') \in Nat
      BY <2>1
    <2>6. main = "woken" => at <= pass
      BY DEF TypeInv, WalkInside
    <2> QED BY <2>1, <2>2, <2>3, <2>4, <2>5, <2>6 DEF Passed
  <1>10. WalkedQuiet' /\ ClosedQuiet' /\ MainOrder'
    <2>1. MainOrder' /\ ClosedQuiet'
      BY <1>1, <1>7 DEF ClosedQuiet, MainOrder
    <2>2. \A k \in Passed : k \in DOMAIN lanes
      BY DEF Passed
    <2>3. WalkedQuiet'
      BY <1>1, <1>7, <1>8, <1>9, <2>2 DEF WalkedQuiet
    <2> QED BY <2>1, <2>3
  <1> QED BY <1>2, <1>6, <1>10

(* What a worker's step must show.                                         *)
LEMMA PipeKeeps ==
  ASSUME TypeInv, PipeInv, UNCHANGED <<lanes, closed, seed, next, at, started>>, InPlace',
         \/ main' = main
         \/ main = "join" /\ main' = "woken" /\ at \in DOMAIN lanes /\ Quiet(lanes[at])',
         main \in {"drain", "join", "woken"} => \A k \in Passed : Quiet(lanes[k])',
         closed => \A m \in Lanes : Quiet(m)'
  PROVE  PipeInv'
  <1> USE DEF PipeInv
  <1>1. LanesInOrder' /\ MainOrder'
    BY DEF LanesInOrder, MainOrder
  <1>2. WalkedQuiet'
    BY DEF WalkedQuiet, Passed
  <1>3. ClosedQuiet'
    BY DEF ClosedQuiet
  <1> QED BY <1>1, <1>2, <1>3

(* A worker that gives up its tuple keeps the pipeline invariant.          *)
LEMMA ReleaseKeeps ==
  ASSUME TypeInv, PipeInv, NEW l \in Lanes, Acknowledge(l), worker[l] \in Busy,
         NEW w \in {"get", "dead"}, worker' = [worker EXCEPT ![l] = w],
         hand' = [hand EXCEPT ![l] = None],
         todo' = todo \/ todo' = [todo EXCEPT ![l] = <<>>],
         UNCHANGED <<lanes, queue, closed, seed, next, pass, at, started>>
  PROVE  PipeInv'
  <1>1. /\ \A m \in Lanes \ {l} : worker'[m] = worker[m] /\ hand'[m] = hand[m]
        /\ worker'[l] \notin Busy
    BY DEF TypeInv, TypeOK, Busy
  <1>2. \A m \in Lanes : Quiet(m) => Quiet(m)'
    BY <1>1 DEF Quiet, Holds
  <1>3. \A m \in Lanes : \A k \in DOMAIN todo'[m] : Downstream(m, todo'[m][k])
    <2>1. /\ todo \in [Lanes -> Seq(Tuples)]
          /\ \A m \in Lanes : \A k \in DOMAIN todo[m] : Downstream(m, todo[m][k])
      BY DEF TypeInv, TypeOK, PipeInv, InPlace
    <2>2. CASE todo' = todo
      BY <2>1, <2>2
    <2>3. CASE todo' = [todo EXCEPT ![l] = <<>>]
      <3>1. todo'[l] = <<>> /\ \A m \in Lanes \ {l} : todo'[m] = todo[m]
        BY <2>1, <2>3
      <3>2. DOMAIN todo'[l] = {}
        BY <3>1
      <3> QED BY <2>1, <3>1, <3>2
    <2> QED BY <2>2, <2>3
  <1>4. InPlace'
    BY <1>1, <1>3 DEF PipeInv, InPlace, Holds, Created, Downstream
  <1>5. \/ main' = main
        \/ main = "join" /\ main' = "woken" /\ at \in DOMAIN lanes /\ Quiet(lanes[at])'
    <2> SUFFICES ASSUME main = "join", lanes[at] = l, unfinished[l] = 1, main' = "woken"
                 PROVE  at \in DOMAIN lanes /\ Quiet(l)'
      BY DEF Acknowledge
    <2>1. at \in DOMAIN lanes
      BY DEF TypeInv, TypeOK, BusTypeOK, WalkInside
    <2>2. unfinished[l] = Len(queue[l]) + 1 /\ Len(queue[l]) \in Nat /\ queue[l] \in Seq(Tuples \cup {Sentinel})
      <3>1. Len(queue[l]) \in Nat /\ queue[l] \in Seq(Tuples \cup {Sentinel})
        BY DEF TypeInv, TypeOK, BusTypeOK
      <3>2. unfinished[l] = Len(queue[l]) + InHand(l)
        BY DEF TypeInv, Accounted
      <3>3. unfinished[l] = Len(queue[l]) + 1
        BY <3>2 DEF InHand
      <3> QED BY <3>1, <3>3
    <2>3. DOMAIN queue'[l] = {}
      BY <2>2
    <2> QED BY <1>1, <2>1, <2>3 DEF Quiet, Holds
  <1>6. main \in {"drain", "join", "woken"} => \A k \in Passed : lanes[k] \in Lanes /\ Quiet(lanes[k])
    BY DEF PipeInv, WalkedQuiet, Passed, TypeInv, TypeOK, BusTypeOK
  <1>7. closed => \A m \in Lanes : Quiet(m)
    BY DEF PipeInv, ClosedQuiet
  <1> QED BY <1>2, <1>4, <1>5, <1>6, <1>7, PipeKeeps

(* A busy worker feeds only a lane the walk has not passed.                *)
LEMMA FeedsAhead ==
  ASSUME TypeInv, PipeInv, NEW l \in Lanes, worker[l] \in Busy,
         NEW c \in Tuples, Downstream(l, c)
  PROVE  /\ ~closed
         /\ LaneOf[c] \in Created /\ LaneOf[c] \in Lanes /\ LaneOf[c] # l
         /\ main \in {"drain", "join", "woken"} => \A k \in Passed : lanes[k] # LaneOf[c]
  <1>1. ~closed
    BY DEF PipeInv, ClosedQuiet, Quiet
  <1>2. PICK i, j \in DOMAIN Pool : i < j /\ l = Pool[i] /\ LaneOf[c] = Pool[j]
    BY DEF Downstream
  <1>3. started = Len(Pool) /\ Len(lanes) = Len(Pool) /\ DOMAIN Pool = 1..Len(Pool) /\ DOMAIN lanes = 1..Len(lanes)
    BY PoolAssumption DEF PipeInv, InPlace, LanesInOrder, TypeInv, TypeOK, BusTypeOK
  <1>4. \A k \in DOMAIN lanes : lanes[k] = Pool[k]
    BY DEF PipeInv, LanesInOrder
  <1>5. LaneOf[c] \in Created /\ LaneOf[c] \in Lanes
    BY <1>2, <1>3, <1>4, BusAssumption DEF Created
  <1>6. LaneOf[c] # l
    BY <1>2, <1>3, PoolAssumption
  <1>7. ASSUME main \in {"drain", "join", "woken"}, NEW k \in Passed, lanes[k] = LaneOf[c]
        PROVE  FALSE
    <2>1. k \in DOMAIN lanes /\ Pool[k] = Pool[j] /\ k <= at
      BY <1>2, <1>3, <1>4, <1>7 DEF Passed, TypeInv, TypeOK
    <2>2. k = j /\ i \in DOMAIN lanes /\ i < at
      BY <1>2, <1>3, <2>1, PoolAssumption DEF TypeInv, TypeOK
    <2>3. i \in Passed /\ lanes[i] = l
      BY <1>2, <1>4, <2>2 DEF Passed
    <2> QED BY <1>7, <2>3 DEF PipeInv, WalkedQuiet, Quiet
  <1> QED BY <1>1, <1>5, <1>6, <1>7

(* So a put by a busy worker keeps the walk's promise.                     *)
LEMMA FeedKeeps ==
  ASSUME TypeInv, PipeInv, NEW l \in Lanes, worker[l] \in {"emit", "put"},
         NEW c \in Tuples, Downstream(l, c), Enqueue(LaneOf[c], c),
         worker' = [worker EXCEPT ![l] = "emit"],
         todo' = [todo EXCEPT ![l] = Tail(@)], todo[l] # <<>>,
         UNCHANGED <<lanes, closed, seed, next, main, at, started, hand>>
  PROVE  PipeInv'
  <1>1. /\ ~closed /\ LaneOf[c] \in Created /\ LaneOf[c] \in Lanes
        /\ main \in {"drain", "join", "woken"} => \A k \in Passed : lanes[k] # LaneOf[c]
    BY FeedsAhead DEF Busy
  <1>2. \A m \in Lanes : worker'[m] \in Busy <=> worker[m] \in Busy
    BY DEF TypeInv, TypeOK, Busy
  <1>3. \A m \in Lanes, t \in Tuples : Holds(m, t)' => Holds(m, t) \/ (m = LaneOf[c] /\ t = c)
    BY <1>1, HoldsAfterEnqueue DEF TypeInv, TypeOK
  <1>4. \A m \in Lanes : m # LaneOf[c] /\ Quiet(m) => Quiet(m)'
    BY <1>2, <1>3 DEF Quiet
  <1>5. \A m \in Lanes : \A k \in DOMAIN todo'[m] : Downstream(m, todo'[m][k])
    <2>1. /\ todo \in [Lanes -> Seq(Tuples)]
          /\ \A m \in Lanes : \A k \in DOMAIN todo[m] : Downstream(m, todo[m][k])
      BY DEF TypeInv, TypeOK, PipeInv, InPlace
    <2>2. todo'[l] = Tail(todo[l]) /\ \A m \in Lanes \ {l} : todo'[m] = todo[m]
      BY <2>1
    <2>3. \A k \in DOMAIN Tail(todo[l]) : k + 1 \in DOMAIN todo[l] /\ Tail(todo[l])[k] = todo[l][k + 1]
      <3>1. todo[l] \in Seq(Tuples)
        BY <2>1
      <3> QED BY <3>1
    <2> QED BY <2>1, <2>2, <2>3
  <1>6. InPlace'
    BY <1>1, <1>2, <1>3, <1>5 DEF PipeInv, InPlace, Created, Downstream
  <1>7. main \in {"drain", "join", "woken"} => \A k \in Passed : lanes[k] \in Lanes /\ Quiet(lanes[k])
    BY DEF PipeInv, WalkedQuiet, Passed, TypeInv, TypeOK, BusTypeOK
  <1> QED BY <1>1, <1>4, <1>6, <1>7, PipeKeeps

(* Every step of a worker keeps the pipeline invariant.                    *)
LEMMA PipeWork ==
  ASSUME TypeInv, PipeInv, Pipelined, NEW l \in Lanes, Work(l) \/ LogWriteFails(l)
  PROVE  PipeInv'
  <1>1. main \in {"drain", "join", "woken"} => \A k \in Passed : lanes[k] \in Lanes /\ Quiet(lanes[k])
    BY DEF PipeInv, WalkedQuiet, Passed, TypeInv, TypeOK, BusTypeOK
  <1>2. closed => \A m \in Lanes : Quiet(m)
    BY DEF PipeInv, ClosedQuiet
  <1>3. CASE Take(l)
    <2> PICK t \in Tuples : Get(l, t) /\ hand' = [hand EXCEPT ![l] = t]
      BY <1>3 DEF Take
    <2>1. ~Quiet(l) /\ LaneOf[t] = l
      BY GetHolds DEF Quiet, PipeInv, InPlace, TypeInv, TypeOK
    <2>2. \A m \in Lanes, u \in Tuples : Holds(m, u)' => Holds(m, u)
      BY HoldsAfterGet DEF TypeInv, TypeOK
    <2>3. /\ worker' = [worker EXCEPT ![l] = "run"] /\ started = Len(Pool)
          /\ UNCHANGED <<lanes, closed, seed, next, main, at, started, todo>>
      BY <1>3 DEF Take
    <2>4. \A m \in Lanes \ {l} : worker'[m] = worker[m] /\ hand'[m] = hand[m]
      BY <2>3 DEF TypeInv, TypeOK
    <2>5. hand'[l] = t
      BY DEF TypeInv, TypeOK
    <2>6. InPlace'
      BY <2>1, <2>2, <2>3, <2>4, <2>5 DEF PipeInv, InPlace, Created, Downstream
    <2>7. \A m \in Lanes : Quiet(m) => Quiet(m)'
      BY <2>1, <2>2, <2>4 DEF Quiet
    <2> QED BY <1>1, <1>2, <2>3, <2>6, <2>7, PipeKeeps
  <1>4. CASE TakeSentinel(l)
    <2>1. /\ Get(l, Sentinel) /\ Acknowledge(l) /\ worker[l] = "get"
          /\ worker' = [worker EXCEPT ![l] = "done"]
          /\ UNCHANGED <<lanes, closed, seed, next, at, started, hand, todo>>
      BY <1>4 DEF TakeSentinel
    <2>2. \A m \in Lanes, u \in Tuples : Holds(m, u)' => Holds(m, u)
      BY <2>1, HoldsAfterGet DEF TypeInv, TypeOK
    <2>3. \A m \in Lanes : worker'[m] \in Busy => worker[m] \in Busy
      BY <2>1 DEF TypeInv, TypeOK, Busy
    <2>4. \A m \in Lanes : Quiet(m) => Quiet(m)'
      BY <2>2, <2>3 DEF Quiet
    <2>5. InPlace'
      BY <2>1, <2>2, <2>3 DEF PipeInv, InPlace, Created, Downstream
    <2>6. \/ main' = main
          \/ main = "join" /\ main' = "woken" /\ at \in DOMAIN lanes /\ Quiet(lanes[at])'
      <3> SUFFICES ASSUME main = "join", lanes[at] = l, unfinished[l] = 1, main' = "woken"
                   PROVE  at \in DOMAIN lanes /\ Quiet(l)'
        BY <2>1 DEF Acknowledge
      <3>1. at \in DOMAIN lanes
        BY DEF TypeInv, TypeOK, BusTypeOK, WalkInside
      <3>2. Len(queue[l]) = 1 /\ queue[l] \in Seq(Tuples \cup {Sentinel}) /\ queue'[l] = Tail(queue[l])
        BY <2>1, IdleAccount DEF Get, Busy, TypeInv, TypeOK, BusTypeOK
      <3>3. DOMAIN queue'[l] = {}
        <4>1. Len(queue'[l]) = 0 /\ queue'[l] \in Seq(Tuples \cup {Sentinel})
          BY <2>1, <3>2, GetType DEF TypeInv, TypeOK
        <4> QED BY <4>1
      <3>4. worker'[l] \notin Busy
        BY <2>1 DEF TypeInv, TypeOK, Busy
      <3> QED BY <3>1, <3>3, <3>4 DEF Quiet, Holds
    <2> QED BY <1>1, <1>2, <2>1, <2>4, <2>5, <2>6, PipeKeeps
  <1>5. CASE Complete(l)
    <2>1. /\ worker[l] = "run" /\ worker' = [worker EXCEPT ![l] = "emit"]
          /\ todo' = [todo EXCEPT ![l] = FollowUps[hand[l]]]
          /\ UNCHANGED <<lanes, queue, closed, seed, next, main, at, started, hand>>
      BY <1>5 DEF Complete, busVars
    <2>2. \A m \in Lanes : worker'[m] \in Busy <=> worker[m] \in Busy
      BY <2>1 DEF TypeInv, TypeOK, Busy
    <2>3. hand[l] \in Tuples /\ LaneOf[hand[l]] = l
      BY <2>1 DEF TypeInv, HandsFull, PipeInv, InPlace, Busy
    <2>4. \A k \in DOMAIN FollowUps[hand[l]] : Downstream(l, FollowUps[hand[l]][k])
      BY <2>3 DEF Pipelined, FlowsForward, Downstream
    <2>5. todo'[l] = FollowUps[hand[l]] /\ \A m \in Lanes \ {l} : todo'[m] = todo[m]
      BY <2>1 DEF TypeInv, TypeOK
    <2>6. InPlace'
      BY <2>1, <2>2, <2>4, <2>5 DEF PipeInv, InPlace, Holds, Created, Downstream
    <2>7. \A m \in Lanes : Quiet(m) => Quiet(m)'
      BY <2>1, <2>2 DEF Quiet, Holds
    <2> QED BY <1>1, <1>2, <2>1, <2>6, <2>7, PipeKeeps
  <1>6. CASE Emit(l)
    <2>1. /\ worker[l] = "emit" /\ todo[l] # <<>> /\ todo[l] \in Seq(Tuples)
          /\ todo' = [todo EXCEPT ![l] = Tail(@)]
          /\ UNCHANGED <<worker, closed, seed, next, main, at, started, hand>>
          /\ Open(LaneOf[Head(todo[l])]) /\ Enqueue(LaneOf[Head(todo[l])], Head(todo[l]))
      BY <1>6 DEF Emit, Publish, TypeInv, TypeOK
    <2>2. Head(todo[l]) \in Tuples /\ Downstream(l, Head(todo[l]))
      BY <2>1 DEF PipeInv, InPlace
    <2>3. LaneOf[Head(todo[l])] \in Created
      BY <2>1, <2>2, FeedsAhead DEF Busy
    <2>4. UNCHANGED lanes
      BY <2>1, <2>3 DEF Open
    <2>5. worker' = [worker EXCEPT ![l] = "emit"]
      BY <2>1 DEF TypeInv, TypeOK
    <2> QED BY <2>1, <2>2, <2>4, <2>5, FeedKeeps
  <1>7. CASE PutResumes(l)
    <2>1. /\ worker[l] = "put" /\ todo[l] # <<>> /\ todo[l] \in Seq(Tuples)
          /\ todo' = [todo EXCEPT ![l] = Tail(@)] /\ worker' = [worker EXCEPT ![l] = "emit"]
          /\ UNCHANGED <<lanes, closed, seed, next, main, at, started, hand>>
          /\ Enqueue(LaneOf[Head(todo[l])], Head(todo[l]))
      BY <1>7 DEF PutResumes, TypeInv, TypeOK, HandsFull
    <2>2. Head(todo[l]) \in Tuples /\ Downstream(l, Head(todo[l]))
      BY <2>1 DEF PipeInv, InPlace
    <2> QED BY <2>1, <2>2, FeedKeeps
  <1>8. CASE EmitBlocks(l)
    <2>1. /\ worker[l] = "emit" /\ worker' = [worker EXCEPT ![l] = "put"]
          /\ UNCHANGED <<lanes, queue, closed, seed, next, main, at, started, hand, todo>>
      BY <1>8 DEF EmitBlocks, busVars
    <2>2. \A m \in Lanes : worker'[m] \in Busy <=> worker[m] \in Busy
      BY <2>1 DEF TypeInv, TypeOK, Busy
    <2>3. InPlace'
      BY <2>1, <2>2 DEF PipeInv, InPlace, Holds, Created, Downstream
    <2>4. \A m \in Lanes : Quiet(m) => Quiet(m)'
      BY <2>1, <2>2 DEF Quiet, Holds
    <2> QED BY <1>1, <1>2, <2>1, <2>3, <2>4, PipeKeeps
  <1>9. CASE Fail(l) \/ Handled(l)
    <2>1. /\ Acknowledge(l) /\ worker[l] \in Busy /\ worker' = [worker EXCEPT ![l] = "get"]
          /\ hand' = [hand EXCEPT ![l] = None] /\ todo' = todo
          /\ UNCHANGED <<lanes, queue, closed, seed, next, pass, at, started>>
      BY <1>9 DEF Fail, Handled, Return, Busy
    <2> QED BY <2>1, ReleaseKeeps
  <1>10. CASE EmitOnClosed(l) \/ LogWriteFails(l)
    <2>1. /\ Acknowledge(l) /\ worker[l] \in Busy /\ worker' = [worker EXCEPT ![l] = "dead"]
          /\ hand' = [hand EXCEPT ![l] = None] /\ todo' = [todo EXCEPT ![l] = <<>>]
          /\ UNCHANGED <<lanes, queue, closed, seed, next, pass, at, started>>
      BY <1>10 DEF EmitOnClosed, LogWriteFails, Die, Busy
    <2> QED BY <2>1, ReleaseKeeps
  <1> QED BY <1>3, <1>4, <1>5, <1>6, <1>7, <1>8, <1>9, <1>10 DEF Work

(* The seed never changes, so a call that starts pipelined stays so.       *)
LEMMA PipelinedNext ==
  ASSUME [Next]_vars
  PROVE  seed' = seed /\ (Pipelined' <=> Pipelined)
  <1>1. CASE Main
    BY <1>1 DEF Main, PublishSeed, SeedPublished, Drain, CloseLane, CloseDone, WorkersGathered,
                Pipelined, SeedsAtHead, FlowsForward, SeedSet
  <1>2. CASE StartWorker
    BY <1>2 DEF StartWorker, Pipelined, SeedsAtHead, FlowsForward, SeedSet
  <1>3. ASSUME NEW l \in Lanes, Work(l) \/ LogWriteFails(l)
        PROVE  seed' = seed /\ (Pipelined' <=> Pipelined)
    BY <1>3 DEF Work, Take, TakeSentinel, Fail, Complete, Emit, EmitBlocks, PutResumes,
                EmitOnClosed, Handled, LogWriteFails, Pipelined, SeedsAtHead, FlowsForward, SeedSet
  <1>4. CASE UNCHANGED vars
    BY <1>4 DEF vars, poolVars, Pipelined, SeedsAtHead, FlowsForward, SeedSet
  <1> QED BY <1>1, <1>2, <1>3, <1>4 DEF Next

PipelinedInv == Pipelined => PipeInv

(* So in such a call the pipeline invariant is inductive.                  *)
LEMMA PipelinedInvNext == TypeInv /\ PipelinedInv /\ [Next]_vars => PipelinedInv'
  <1> SUFFICES ASSUME TypeInv, PipelinedInv, [Next]_vars, Pipelined PROVE PipeInv'
    BY PipelinedNext DEF PipelinedInv
  <1>1. PipeInv
    BY DEF PipelinedInv
  <1>2. CASE Next
    BY <1>1, <1>2, PipeMain, PipeStart, PipeWork DEF Next
  <1>3. CASE UNCHANGED vars
    BY <1>1, <1>3 DEF vars, busVars, poolVars, PipeInv, LanesInOrder, InPlace, Created, Holds,
                      MainOrder, WalkedQuiet, Passed, Quiet, ClosedQuiet, Downstream
  <1> QED BY <1>2, <1>3

(* The drain closes the bus of a pipelined call only when no tuple waits   *)
(* and no worker holds one, for every pool, seed, capacity and set of      *)
(* follow-ups (bus.py:57-64 under sprint_flow.py:448).                     *)
THEOREM NoEarlyCloseThm == Spec => []NoEarlyClose
  <1>1. Spec => []TypeInv
    BY TypeInvInit, TypeInvNext, PTL DEF Spec
  <1>2. Init => PipelinedInv
    BY PipeInit DEF PipelinedInv
  <1>3. Spec => []PipelinedInv
    BY <1>1, <1>2, PipelinedInvNext, PTL DEF Spec
  <1>4. PipelinedInv => NoEarlyClose
    BY DEF PipelinedInv, PipeInv, ClosedQuiet, NoEarlyClose
  <1> QED BY <1>3, <1>4, PTL

------------------------------------------------------------------------------
(* The call implements the contract of the log.  A tuple is in one place   *)
(* at a time, and its marker in the log says which.                        *)

Unfinished == {"emitted", "consumed"}
Emitting == {"emit", "put"}

(* Only the pool's workers ever run, and the pool returns after the last.  *)
PoolWorks ==
  /\ \A l \in Lanes : worker[l] # "new" => \E i \in DOMAIN Pool : Pool[i] = l
  /\ main = "idle" => \A i \in DOMAIN Pool : worker[Pool[i]] \in {"done", "dead"}

InOwnLane ==
  \A l \in Lanes :
    /\ \A t \in Tuples : Holds(l, t) => LaneOf[t] = l
    /\ worker[l] \in Busy => LaneOf[hand[l]] = l

(* The marker of a tuple that is due, waiting, in hand or being put.       *)
Marked ==
  /\ \A t \in Due : status[t] \in Unfinished
  /\ \A l \in Lanes, t \in Tuples : Holds(l, t) => status[t] \in Unfinished
  /\ \A l \in Lanes :
       /\ worker[l] = "run" => status[hand[l]] = "consumed"
       /\ worker[l] \in Emitting => status[hand[l]] = "completed"
       /\ worker[l] = "put" => status[Head(todo[l])] \in Unfinished

(* No tuple has follow-ups before it completed.                            *)
ParentsFirst ==
  \A p \in Tuples : status[p] # "completed" =>
    \A k \in DOMAIN FollowUps[p] : status[FollowUps[p][k]] = "absent"

(* What a worker has still to emit are follow-ups of what it holds, each   *)
(* once, and none of them is in the log yet but the one being put.         *)
TodoFresh ==
  \A l \in Lanes :
    /\ worker[l] \notin Emitting => todo[l] = <<>>
    /\ \A k \in DOMAIN todo[l] :
         /\ \E j \in DOMAIN FollowUps[hand[l]] : todo[l][k] = FollowUps[hand[l]][j]
         /\ k > 1 \/ worker[l] # "put" => status[todo[l][k]] = "absent"
    /\ \A j, k \in DOMAIN todo[l] : todo[l][j] = todo[l][k] => j = k

WaitsOnce ==
  \A l \in Lanes : \A i, j \in DOMAIN queue[l] :
    queue[l][i] = queue[l][j] /\ queue[l][i] \in Tuples => i = j

(* A tuple that is due, in hand or being put waits nowhere, and the one    *)
(* that is due or being put is in no hand.                                 *)
Elsewhere(t) ==
  \A m \in Lanes : ~Holds(m, t) /\ (worker[m] \in Busy => hand[m] # t)

OnePlace ==
  /\ \A t \in Due : Elsewhere(t)
  /\ \A l \in Lanes :
       /\ worker[l] \in Busy => \A m \in Lanes : ~Holds(m, hand[l])
       /\ worker[l] = "put" => Elsewhere(Head(todo[l]))

LogInv ==
  PoolWorks /\ InOwnLane /\ Marked /\ ParentsFirst /\ TodoFresh /\ WaitsOnce /\ OnePlace

(* The types the steps below rest on.                                      *)
LEMMA CallTypes ==
  ASSUME TypeInv
  PROVE  /\ worker \in [Lanes -> {"new", "get", "done", "dead"} \cup Busy]
         /\ hand \in [Lanes -> Tuples \cup {None}] /\ todo \in [Lanes -> Seq(Tuples)]
         /\ status \in [Tuples -> Statuses]
         /\ \A l \in Lanes : worker[l] \in Busy => hand[l] \in Tuples
         /\ \A l \in Lanes : worker[l] = "put" => todo[l] # <<>>
         /\ Due \subseteq Tuples /\ seed \in Seeds /\ seed \in Seq(Tuples) /\ next \in 1..(Len(seed) + 1)
         /\ \A t \in Tuples : FollowUps[t] \in Seq(Tuples)
         /\ BusTypeOK
  <1>1. seed \in Seeds /\ seed \in Seq(Tuples) /\ next \in 1..(Len(seed) + 1)
    BY PoolAssumption DEF TypeInv, TypeOK
  <1>2. Due \subseteq Tuples
    BY <1>1 DEF Due
  <1> QED BY <1>1, <1>2, PoolAssumption DEF TypeInv, TypeOK, HandsFull

(* The head of a list that is not empty is its first element.              *)
LEMMA HeadFirst ==
  ASSUME NEW S, NEW s \in Seq(S), s # <<>>
  PROVE  1 \in DOMAIN s /\ Head(s) = s[1] /\ Head(s) \in S /\ Tail(s) \in Seq(S)
  OBVIOUS

(* What a worker has still to emit has one parent, is not a seed, and is   *)
(* on no other worker's list.                                              *)
LEMMA TodoApart ==
  ASSUME TypeInv, LogInv, NEW l \in Lanes, NEW k \in DOMAIN todo[l]
  PROVE  /\ worker[l] \in Emitting /\ hand[l] \in Tuples
         /\ todo[l][k] \in Tuples /\ todo[l][k] \notin Due
         /\ \A m \in Lanes : \A j \in DOMAIN todo[m] : todo[m][j] = todo[l][k] => m = l /\ j = k
         /\ \A p \in Tuples : \A j \in DOMAIN FollowUps[p] : FollowUps[p][j] = todo[l][k] => p = hand[l]
  <1>1. \A m \in Lanes : \A j \in DOMAIN todo[m] :
          /\ worker[m] \in Emitting /\ worker[m] \in Busy /\ hand[m] \in Tuples /\ LaneOf[hand[m]] = m
          /\ \E i \in DOMAIN FollowUps[hand[m]] : todo[m][j] = FollowUps[hand[m]][i]
    <2> SUFFICES ASSUME NEW m \in Lanes, NEW j \in DOMAIN todo[m]
                 PROVE  /\ worker[m] \in Emitting /\ worker[m] \in Busy /\ hand[m] \in Tuples
                        /\ LaneOf[hand[m]] = m
                        /\ \E i \in DOMAIN FollowUps[hand[m]] : todo[m][j] = FollowUps[hand[m]][i]
      OBVIOUS
    <2>1. todo[m] # <<>>
      OBVIOUS
    <2>2. worker[m] \in Emitting /\ worker[m] \in Busy
      BY <2>1 DEF LogInv, TodoFresh, Emitting, Busy
    <2> QED BY <2>2, CallTypes DEF LogInv, TodoFresh, InOwnLane
  <1>2. todo[l][k] \in Tuples
    BY CallTypes
  <1>3. todo[l][k] \notin Due
    <2> SUFFICES ASSUME NEW i \in next..Len(seed), seed[i] = todo[l][k] PROVE FALSE
      BY DEF Due
    <2>1. seed \in Seeds /\ i \in DOMAIN seed
      BY CallTypes
    <2> QED BY <1>1, <2>1, FreshIds
  <1>4. \A p \in Tuples : \A j \in DOMAIN FollowUps[p] : FollowUps[p][j] = todo[l][k] => p = hand[l]
    BY <1>1, FreshIds
  <1>5. \A m \in Lanes : \A j \in DOMAIN todo[m] : todo[m][j] = todo[l][k] => m = l /\ j = k
    <2> SUFFICES ASSUME NEW m \in Lanes, NEW j \in DOMAIN todo[m], todo[m][j] = todo[l][k]
                 PROVE  m = l /\ j = k
      OBVIOUS
    <2>1. hand[m] = hand[l]
      BY <1>1, <1>4
    <2>2. m = l
      BY <1>1, <2>1
    <2> QED BY <2>2 DEF LogInv, TodoFresh
  <1> QED BY <1>1, <1>2, <1>3, <1>4, <1>5

(* It holds when the pool is called.                                       *)
LEMMA LogInvInit == Init => LogInv
  <1> SUFFICES ASSUME Init PROVE LogInv
    OBVIOUS
  <1>1. \A l \in Lanes : queue[l] = <<>> /\ worker[l] = "new" /\ todo[l] = <<>>
    BY DEF Init, BusInit
  <1>2. \A l \in Lanes : DOMAIN queue[l] = {} /\ DOMAIN todo[l] = {}
    <2> SUFFICES ASSUME NEW l \in Lanes PROVE DOMAIN queue[l] = {} /\ DOMAIN todo[l] = {}
      OBVIOUS
    <2>1. queue[l] = <<>> /\ todo[l] = <<>>
      BY <1>1
    <2> QED BY <2>1
  <1>3. seed \in Seeds /\ seed \in Seq(Tuples) /\ main = "seed" /\ next = 1
    BY PoolAssumption DEF Init
  <1>4. Due = SeedSet /\ Due \subseteq Tuples
    BY <1>3 DEF Due, SeedSet
  <1>5. \A t \in Tuples : status[t] = "absent" <=> t \notin SeedSet
    BY DEF Init
  <1>6. \A t \in Due : status[t] \in Unfinished
    BY <1>4, <1>5 DEF Init, Unfinished
  <1>7. ParentsFirst
    <2> SUFFICES ASSUME NEW p \in Tuples, NEW k \in DOMAIN FollowUps[p]
                 PROVE  status[FollowUps[p][k]] = "absent"
      BY DEF ParentsFirst
    <2>1. FollowUps[p][k] \in Tuples
      BY PoolAssumption
    <2>2. FollowUps[p][k] \notin SeedSet
      BY <1>3, FreshIds DEF SeedSet
    <2> QED BY <1>5, <2>1, <2>2
  <1>8. \A l \in Lanes, t \in Tuples : ~Holds(l, t)
    BY <1>2 DEF Holds
  <1>9. PoolWorks /\ InOwnLane
    BY <1>1, <1>3, <1>8 DEF PoolWorks, InOwnLane, Busy
  <1>10. Marked
    BY <1>1, <1>6, <1>8 DEF Marked, Emitting
  <1>11. TodoFresh /\ WaitsOnce
    BY <1>1, <1>2 DEF TodoFresh, WaitsOnce
  <1>12. OnePlace
    BY <1>1, <1>4, <1>8 DEF OnePlace, Elsewhere, Busy
  <1> QED BY <1>7, <1>9, <1>10, <1>11, <1>12 DEF LogInv

(* A step that moves no tuple and writes no marker keeps it.               *)
LEMMA LogInvStill ==
  ASSUME TypeInv, LogInv, UNCHANGED <<seed, next, hand, todo, status>>,
         \A m \in Lanes : worker'[m] = worker[m] \/ (worker[m] \notin Busy /\ worker'[m] \notin Busy),
         \A m \in Lanes, t \in Tuples : Holds(m, t)' => Holds(m, t),
         WaitsOnce', PoolWorks'
  PROVE  LogInv'
  <1>1. Due' = Due /\ Due \subseteq Tuples
    BY CallTypes DEF Due
  <1>2. \A m \in Lanes : /\ worker'[m] \in Busy <=> worker[m] \in Busy
                         /\ worker'[m] \in Emitting <=> worker[m] \in Emitting
                         /\ worker'[m] = "run" <=> worker[m] = "run"
                         /\ worker'[m] = "put" <=> worker[m] = "put"
    BY DEF Busy, Emitting
  <1>3. InOwnLane'
    BY <1>2 DEF LogInv, InOwnLane
  <1>4. Marked'
    BY <1>1, <1>2 DEF LogInv, Marked
  <1>5. ParentsFirst' /\ TodoFresh'
    BY <1>2 DEF LogInv, ParentsFirst, TodoFresh
  <1>6. \A t \in Tuples : Elsewhere(t) => Elsewhere(t)'
    BY <1>2 DEF Elsewhere
  <1>7. \A l \in Lanes : worker[l] = "put" => Head(todo[l]) \in Tuples
    BY CallTypes, HeadFirst
  <1>8. OnePlace'
    BY <1>1, <1>2, <1>6, <1>7, CallTypes DEF LogInv, OnePlace
  <1> QED BY <1>3, <1>4, <1>5, <1>8 DEF LogInv

(* An item waits once in a lane that gains one that was not there.         *)
LEMMA EnqueueOnce ==
  ASSUME BusTypeOK, WaitsOnce, NEW l \in Lanes, NEW item \in Tuples \cup {Sentinel}, Enqueue(l, item),
         item \in Tuples => ~Holds(l, item)
  PROVE  WaitsOnce'
  <1> SUFFICES ASSUME NEW m \in Lanes, NEW i \in DOMAIN queue'[m], NEW j \in DOMAIN queue'[m],
                      queue'[m][i] = queue'[m][j], queue'[m][i] \in Tuples
               PROVE  i = j
    BY DEF WaitsOnce
  <1>1. CASE m = l
    <2>1. /\ queue[l] \in Seq(Tuples \cup {Sentinel}) /\ queue'[l] = Append(queue[l], item)
          /\ Len(queue[l]) \in Nat
      BY DEF Enqueue, BusTypeOK
    <2>2. /\ DOMAIN queue'[l] = 1..(Len(queue[l]) + 1) /\ queue'[l][Len(queue[l]) + 1] = item
          /\ \A k \in 1..Len(queue[l]) : queue'[l][k] = queue[l][k]
          /\ DOMAIN queue[l] = 1..Len(queue[l])
      BY <2>1
    <2>3. CASE i \in DOMAIN queue[l] /\ j \in DOMAIN queue[l]
      BY <1>1, <2>2, <2>3 DEF WaitsOnce
    <2>4. CASE i \in DOMAIN queue[l] /\ j \notin DOMAIN queue[l]
      BY <1>1, <2>1, <2>2, <2>4 DEF Holds
    <2>5. CASE i \notin DOMAIN queue[l] /\ j \in DOMAIN queue[l]
      BY <1>1, <2>1, <2>2, <2>5 DEF Holds
    <2>6. CASE i \notin DOMAIN queue[l] /\ j \notin DOMAIN queue[l]
      BY <1>1, <2>1, <2>2, <2>6
    <2> QED BY <2>3, <2>4, <2>5, <2>6
  <1>2. CASE m # l
    BY <1>2, EnqueueType DEF WaitsOnce
  <1> QED BY <1>1, <1>2

(* A lane that loses its head holds what is left once, and the head not.   *)
LEMMA GetOnce ==
  ASSUME BusTypeOK, WaitsOnce, NEW l \in Lanes, NEW item \in Tuples \cup {Sentinel}, Get(l, item)
  PROVE  WaitsOnce' /\ (item \in Tuples => ~Holds(l, item)')
  <1>1. /\ queue[l] \in Seq(Tuples \cup {Sentinel}) /\ queue'[l] = Tail(queue[l]) /\ queue[l] # <<>>
        /\ Len(queue[l]) \in Nat /\ item = Head(queue[l])
    BY DEF Get, BusTypeOK
  <1>2. /\ DOMAIN queue'[l] = 1..(Len(queue[l]) - 1) /\ DOMAIN queue[l] = 1..Len(queue[l])
        /\ \A i \in 1..(Len(queue[l]) - 1) : queue'[l][i] = queue[l][i + 1]
        /\ 1 \in DOMAIN queue[l] /\ item = queue[l][1]
    BY <1>1
  <1>3. ASSUME NEW i \in DOMAIN queue'[l], NEW j \in DOMAIN queue'[l],
               queue'[l][i] = queue'[l][j], queue'[l][i] \in Tuples
        PROVE  i = j
    <2>1. i + 1 \in DOMAIN queue[l] /\ j + 1 \in DOMAIN queue[l] /\ i \in Nat /\ j \in Nat
      BY <1>1, <1>2
    <2>2. queue[l][i + 1] = queue[l][j + 1] /\ queue[l][i + 1] \in Tuples
      BY <1>2, <1>3
    <2>3. i + 1 = j + 1
      BY <2>1, <2>2 DEF WaitsOnce
    <2> QED BY <2>1, <2>3
  <1>4. ASSUME item \in Tuples, NEW i \in DOMAIN queue'[l], queue'[l][i] = item PROVE FALSE
    <2>1. i + 1 \in DOMAIN queue[l] /\ i \in Nat /\ i > 0 /\ queue[l][i + 1] = queue[l][1]
      BY <1>1, <1>2, <1>4
    <2>2. i + 1 = 1
      BY <1>2, <1>4, <2>1 DEF WaitsOnce
    <2> QED BY <2>1, <2>2
  <1>5. \A m \in Lanes \ {l} : queue'[m] = queue[m]
    BY GetType
  <1>6. WaitsOnce'
    BY <1>3, <1>5 DEF WaitsOnce
  <1> QED BY <1>4, <1>6 DEF Holds

(* A tuple that is in hand or being put has a marker of its own.           *)
LEMMA HandApart ==
  ASSUME TypeInv, LogInv, NEW l \in Lanes, worker[l] \in Busy
  PROVE  /\ hand[l] \in Tuples /\ hand[l] \notin Due
         /\ \A m \in Lanes : ~Holds(m, hand[l])
         /\ \A m \in Lanes \ {l} : worker[m] \in Busy => hand[m] # hand[l]
         /\ \A m \in Lanes : worker[m] = "put" => Head(todo[m]) # hand[l]
  BY CallTypes DEF LogInv, OnePlace, Elsewhere, InOwnLane

(* Taking a tuple moves it from its lane to the worker's hand.             *)
LEMMA LogInvTake ==
  ASSUME TypeInv, LogInv, NEW l \in Lanes, Take(l)
  PROVE  LogInv'
  <1> PICK t \in Tuples : Get(l, t) /\ hand' = [hand EXCEPT ![l] = t]
                          /\ status' = [status EXCEPT ![t] = "consumed"]
    BY DEF Take
  <1>1. /\ worker[l] = "get" /\ worker' = [worker EXCEPT ![l] = "run"]
        /\ UNCHANGED <<seed, next, main, todo>>
    BY DEF Take
  <1>2. Holds(l, t) /\ status[t] \in Unfinished /\ LaneOf[t] = l
    BY GetHolds, CallTypes DEF LogInv, Marked, InOwnLane
  <1>3. WaitsOnce' /\ ~Holds(l, t)' /\ \A m \in Lanes, u \in Tuples : Holds(m, u)' => Holds(m, u)
    BY CallTypes, GetOnce, HoldsAfterGet DEF LogInv
  <1>4. /\ worker'[l] = "run" /\ \A m \in Lanes \ {l} : worker'[m] = worker[m]
        /\ hand'[l] = t /\ \A m \in Lanes \ {l} : hand'[m] = hand[m]
        /\ status'[t] = "consumed" /\ \A u \in Tuples \ {t} : status'[u] = status[u]
    BY <1>1, CallTypes
  <1>5. t \notin Due /\ Due' = Due /\ Due \subseteq Tuples
    BY <1>1, <1>2, CallTypes DEF LogInv, OnePlace, Elsewhere, Due
  <1>6. \A m \in Lanes : worker[m] \in Emitting => hand[m] # t /\ hand[m] \in Tuples
    BY <1>2, CallTypes DEF LogInv, Marked, Unfinished, Emitting, Busy
  <1>7. \A m \in Lanes : worker[m] = "put" => Head(todo[m]) # t /\ Head(todo[m]) \in Tuples
    BY <1>2, CallTypes, HeadFirst DEF LogInv, OnePlace, Elsewhere
  <1>8. \A m \in Lanes : \A k \in DOMAIN todo[m] : k > 1 \/ worker[m] # "put" => todo[m][k] # t /\ todo[m][k] \in Tuples
    BY <1>2, CallTypes DEF LogInv, TodoFresh, Unfinished
  <1>9. PoolWorks'
    BY <1>1, <1>4, CallTypes DEF LogInv, PoolWorks
  <1>10. InOwnLane'
    BY <1>2, <1>3, <1>4 DEF LogInv, InOwnLane
  <1>11. Marked'
    <2>1. \A u \in Due : status'[u] \in Unfinished
      BY <1>4, <1>5 DEF LogInv, Marked
    <2>2. \A m \in Lanes, u \in Tuples : Holds(m, u)' => status'[u] \in Unfinished
      BY <1>3, <1>4 DEF LogInv, Marked, Unfinished
    <2>3. \A m \in Lanes : worker'[m] = "run" => status'[hand'[m]] = "consumed"
      BY <1>4, CallTypes DEF LogInv, Marked, Busy
    <2>4. \A m \in Lanes : worker'[m] \in Emitting => status'[hand'[m]] = "completed"
      BY <1>4, <1>6 DEF LogInv, Marked, Emitting
    <2>5. \A m \in Lanes : worker'[m] = "put" => status'[Head(todo'[m])] \in Unfinished
      BY <1>1, <1>4, <1>7 DEF LogInv, Marked
    <2> QED BY <1>5, <2>1, <2>2, <2>3, <2>4, <2>5 DEF Marked
  <1>12. ParentsFirst'
    <2>1. \A p \in Tuples : \A k \in DOMAIN FollowUps[p] : FollowUps[p][k] \in Tuples
      BY CallTypes
    <2>2. \A p \in Tuples : status'[p] # "completed" => status[p] # "completed"
      BY <1>2, <1>4 DEF Unfinished
    <2> QED BY <1>2, <1>4, <2>1, <2>2 DEF LogInv, ParentsFirst, Unfinished
  <1>13. TodoFresh'
    <2>1. worker[l] \notin Emitting /\ worker'[l] \notin Emitting /\ todo[l] = <<>>
      BY <1>1, <1>4 DEF LogInv, TodoFresh, Emitting
    <2>2. DOMAIN todo[l] = {}
      BY <2>1
    <2> QED BY <1>1, <1>4, <1>8, <2>1, <2>2 DEF LogInv, TodoFresh
  <1>14. OnePlace'
    <2>1. \A u \in Tuples \ {t} : Elsewhere(u) => Elsewhere(u)'
      BY <1>3, <1>4 DEF Elsewhere
    <2>2. \A u \in Due : Elsewhere(u)'
      BY <1>5, <2>1 DEF LogInv, OnePlace
    <2>3. \A m \in Lanes : ~Holds(m, t)'
      BY <1>2, <1>3 DEF LogInv, InOwnLane
    <2>4. \A m \in Lanes : worker'[m] \in Busy => \A n \in Lanes : ~Holds(n, hand[m])'
      <3> SUFFICES ASSUME NEW m \in Lanes, worker'[m] \in Busy, NEW n \in Lanes
                   PROVE  ~Holds(n, hand[m])'
        OBVIOUS
      <3>1. CASE m = l
        <4> PICK u : u = hand'[m]
          OBVIOUS
        <4>1. u = t /\ ~Holds(n, u)'
          BY <1>4, <2>3, <3>1
        <4> QED BY <4>1 DEF Holds
      <3>2. CASE m # l
        <4> PICK u : u = hand'[m]
          OBVIOUS
        <4>1. u = hand[m] /\ worker[m] \in Busy /\ u \in Tuples
          BY <1>4, <3>2, CallTypes
        <4>2. ~Holds(n, u)
          BY <4>1 DEF LogInv, OnePlace
        <4>3. ~Holds(n, u)'
          BY <1>3, <4>1, <4>2
        <4> QED BY <4>3 DEF Holds
      <3> QED BY <3>1, <3>2
    <2>5. \A m \in Lanes : worker'[m] = "put" => Elsewhere(Head(todo[m]))'
      <3> SUFFICES ASSUME NEW m \in Lanes, worker'[m] = "put" PROVE Elsewhere(Head(todo[m]))'
        OBVIOUS
      <3> PICK u : u = Head(todo[m])
        OBVIOUS
      <3>1. worker[m] = "put" /\ u \in Tuples \ {t} /\ u = Head(todo'[m])
        BY <1>1, <1>4, <1>7
      <3>2. Elsewhere(u)'
        BY <2>1, <3>1 DEF LogInv, OnePlace
      <3> QED BY <3>1, <3>2 DEF Elsewhere
    <2>6. \A u \in Due' : Elsewhere(u)'
      BY <1>5, <2>2
    <2> QED BY <2>4, <2>5, <2>6 DEF OnePlace
  <1> QED BY <1>3, <1>9, <1>10, <1>11, <1>12, <1>13, <1>14 DEF LogInv

(* The next follow-up of a worker that is in no put: it is new to the log. *)
LEMMA ChildFresh ==
  ASSUME TypeInv, LogInv, NEW l \in Lanes, worker[l] = "emit", todo[l] # <<>>,
         NEW c, c = Head(todo[l])
  PROVE  /\ c \in Tuples /\ status[c] = "absent" /\ c \notin Due /\ Elsewhere(c)
         /\ \A m \in Lanes : worker[m] = "put" => Head(todo[m]) # c
         /\ \A m \in Lanes : \A k \in DOMAIN todo[m] : todo[m][k] = c => m = l /\ k = 1
         /\ status[hand[l]] = "completed" /\ hand[l] \in Tuples
         /\ \E j \in DOMAIN FollowUps[hand[l]] : FollowUps[hand[l]][j] = c
         /\ \A p \in Tuples : \A j \in DOMAIN FollowUps[p] : FollowUps[p][j] = c => p = hand[l]
  <1>1. 1 \in DOMAIN todo[l] /\ c = todo[l][1] /\ c \in Tuples
    BY CallTypes, HeadFirst
  <1>2. status[c] = "absent" /\ status[hand[l]] = "completed"
    BY <1>1 DEF LogInv, TodoFresh, Marked, Emitting
  <1>3. Elsewhere(c)
    BY <1>1, <1>2 DEF Elsewhere, LogInv, Marked, Unfinished, Busy, Emitting
  <1>4. \A m \in Lanes : worker[m] = "put" => Head(todo[m]) # c
    BY <1>2 DEF LogInv, Marked, Unfinished
  <1>5. \A m \in Lanes : \A k \in DOMAIN todo[m] : todo[m][k] = c => m = l /\ k = 1
    BY <1>1, TodoApart
  <1>6. /\ \E j \in DOMAIN FollowUps[hand[l]] : FollowUps[hand[l]][j] = c
        /\ \A p \in Tuples : \A j \in DOMAIN FollowUps[p] : FollowUps[p][j] = c => p = hand[l]
        /\ c \notin Due /\ hand[l] \in Tuples
    BY <1>1, TodoApart DEF LogInv, TodoFresh
  <1> QED BY <1>1, <1>2, <1>3, <1>4, <1>5, <1>6

(* Putting a follow-up in the log keeps its parent's promise.              *)
LEMMA ChildLogged ==
  ASSUME TypeInv, LogInv, NEW l \in Lanes, worker[l] = "emit", todo[l] # <<>>, LogChild(l)
  PROVE  ParentsFirst'
  <1> PICK c : c = Head(todo[l])
    OBVIOUS
  <1>1. /\ c \in Tuples /\ status[c] = "absent" /\ status[hand[l]] = "completed"
        /\ \A p \in Tuples : \A j \in DOMAIN FollowUps[p] : FollowUps[p][j] = c => p = hand[l]
    BY ChildFresh
  <1>2. status'[c] = "emitted" /\ \A u \in Tuples \ {c} : status'[u] = status[u]
    BY <1>1, CallTypes DEF LogChild
  <1>3. \A p \in Tuples : \A k \in DOMAIN FollowUps[p] : FollowUps[p][k] \in Tuples
    BY CallTypes
  <1> QED BY <1>1, <1>2, <1>3 DEF LogInv, ParentsFirst

(* Two kinds of marker a worker's step may write.                          *)
EndMarked(l) == worker[l] = "run" /\ \E s \in Final : status' = [status EXCEPT ![hand[l]] = s]
ChildMarked(l) == worker[l] = "emit" /\ todo[l] # <<>> /\ LogChild(l)

(* What a worker's step may write in the log while no other tuple moves:   *)
(* the end of the tuple it runs, or its next follow-up.                    *)
LEMMA OthersMarked ==
  ASSUME TypeInv, LogInv, NEW l \in Lanes,
         \/ status' = status
         \/ EndMarked(l)
         \/ ChildMarked(l)
  PROVE  /\ \A t \in Due : status'[t] \in Unfinished
         /\ \A m \in Lanes, t \in Tuples : Holds(m, t) => status'[t] \in Unfinished
         /\ \A m \in Lanes \ {l} :
              /\ worker[m] \in Busy => status'[hand[m]] = status[hand[m]]
              /\ worker[m] = "put" => status'[Head(todo[m])] = status[Head(todo[m])]
              /\ \A k \in DOMAIN todo[m] : k > 1 \/ worker[m] # "put" => status'[todo[m][k]] = "absent"
         /\ ParentsFirst'
  <1>1. CASE status' = status
    BY <1>1 DEF LogInv, Marked, ParentsFirst, TodoFresh
  <1>2. CASE EndMarked(l)
    <2>1. /\ hand[l] \in Tuples /\ hand[l] \notin Due /\ status[hand[l]] = "consumed"
          /\ \A m \in Lanes : ~Holds(m, hand[l])
          /\ \A m \in Lanes \ {l} : worker[m] \in Busy => hand[m] # hand[l]
          /\ \A m \in Lanes : worker[m] = "put" => Head(todo[m]) # hand[l]
      BY <1>2, HandApart DEF EndMarked, Busy, LogInv, Marked
    <2>2. status'[hand[l]] \in Final /\ \A u \in Tuples \ {hand[l]} : status'[u] = status[u]
      BY <1>2, <2>1, CallTypes DEF EndMarked
    <2>3. /\ \A m \in Lanes : worker[m] \in Busy => hand[m] \in Tuples
          /\ \A m \in Lanes : worker[m] = "put" => Head(todo[m]) \in Tuples
          /\ \A m \in Lanes : \A k \in DOMAIN todo[m] : todo[m][k] \in Tuples
          /\ \A p \in Tuples : \A k \in DOMAIN FollowUps[p] : FollowUps[p][k] \in Tuples
          /\ Due \subseteq Tuples
      BY CallTypes, HeadFirst
    <2>4. ParentsFirst'
      BY <2>1, <2>2, <2>3 DEF LogInv, ParentsFirst
    <2>5. /\ \A t \in Due : status'[t] \in Unfinished
          /\ \A m \in Lanes, t \in Tuples : Holds(m, t) => status'[t] \in Unfinished
      BY <2>1, <2>2, <2>3 DEF LogInv, Marked
    <2>6. \A m \in Lanes \ {l} : \A k \in DOMAIN todo[m] :
            k > 1 \/ worker[m] # "put" => status'[todo[m][k]] = "absent"
      BY <2>1, <2>2, <2>3 DEF LogInv, TodoFresh
    <2> QED BY <2>1, <2>2, <2>3, <2>4, <2>5, <2>6
  <1>3. CASE ChildMarked(l)
    <2> PICK c : c = Head(todo[l])
      OBVIOUS
    <2>1. /\ c \in Tuples /\ status[c] = "absent" /\ c \notin Due /\ Elsewhere(c)
          /\ \A m \in Lanes : worker[m] = "put" => Head(todo[m]) # c
          /\ \A m \in Lanes : \A k \in DOMAIN todo[m] : todo[m][k] = c => m = l /\ k = 1
      BY <1>3, ChildFresh DEF ChildMarked
    <2>2. status'[c] = "emitted" /\ \A u \in Tuples \ {c} : status'[u] = status[u]
      BY <1>3, <2>1, CallTypes DEF ChildMarked, LogChild
    <2>3. /\ \A m \in Lanes : worker[m] \in Busy => hand[m] \in Tuples
          /\ \A m \in Lanes : worker[m] = "put" => Head(todo[m]) \in Tuples
          /\ \A m \in Lanes : \A k \in DOMAIN todo[m] : todo[m][k] \in Tuples
          /\ Due \subseteq Tuples
      BY CallTypes, HeadFirst
    <2>4. /\ \A t \in Due : status'[t] \in Unfinished
          /\ \A m \in Lanes, t \in Tuples : Holds(m, t) => status'[t] \in Unfinished
      BY <2>1, <2>2, <2>3 DEF LogInv, Marked, Elsewhere
    <2>5. \A m \in Lanes \ {l} : \A k \in DOMAIN todo[m] :
            k > 1 \/ worker[m] # "put" => status'[todo[m][k]] = "absent"
      BY <2>1, <2>2, <2>3 DEF LogInv, TodoFresh
    <2> QED BY <1>3, <2>1, <2>2, <2>3, <2>4, <2>5, ChildLogged DEF ChildMarked, Elsewhere
  <1> QED BY <1>1, <1>2, <1>3

(* A worker that gives up its tuple, whether it finished or died.          *)
LEMMA LogInvRelease ==
  ASSUME TypeInv, LogInv, NEW l \in Lanes, worker[l] \in {"run", "emit"},
         \/ status' = status
         \/ EndMarked(l)
         \/ ChildMarked(l),
         NEW w \in {"get", "dead"}, worker' = [worker EXCEPT ![l] = w],
         hand' = [hand EXCEPT ![l] = None], todo' = [todo EXCEPT ![l] = <<>>],
         main' = main \/ main' = "woken", UNCHANGED <<queue, seed, next>>
  PROVE  LogInv'
  <1>1. /\ worker'[l] \notin Busy /\ worker'[l] \notin Emitting /\ worker[l] \in Busy /\ worker'[l] # "put"
        /\ \A m \in Lanes \ {l} : worker'[m] = worker[m] /\ hand'[m] = hand[m] /\ todo'[m] = todo[m]
        /\ todo'[l] = <<>>
    BY CallTypes DEF Busy, Emitting
  <1>2. Due' = Due /\ \A m \in Lanes, t \in Tuples : Holds(m, t)' <=> Holds(m, t)
    BY DEF Due, Holds
  <1>3. \A t : Elsewhere(t) => Elsewhere(t)'
    BY <1>1 DEF Elsewhere, Holds
  <1>4. /\ \A u \in Due : status'[u] \in Unfinished
        /\ \A m \in Lanes, u \in Tuples : Holds(m, u) => status'[u] \in Unfinished
        /\ \A m \in Lanes \ {l} :
             /\ worker[m] \in Busy => status'[hand[m]] = status[hand[m]]
             /\ worker[m] = "put" => status'[Head(todo[m])] = status[Head(todo[m])]
             /\ \A k \in DOMAIN todo[m] : k > 1 \/ worker[m] # "put" => status'[todo[m][k]] = "absent"
        /\ ParentsFirst'
    BY OthersMarked
  <1>5. PoolWorks'
    BY <1>1, CallTypes DEF LogInv, PoolWorks, Busy
  <1>6. InOwnLane' /\ WaitsOnce'
    BY <1>1, <1>2 DEF LogInv, InOwnLane, WaitsOnce
  <1>7. Marked' /\ ParentsFirst'
    BY <1>1, <1>2, <1>4 DEF LogInv, Marked, Emitting, Busy
  <1>8. TodoFresh'
    <2>1. DOMAIN todo'[l] = {}
      BY <1>1
    <2>2. \A m \in Lanes \ {l} :
            /\ worker'[m] \notin Emitting => todo'[m] = <<>>
            /\ \A k \in DOMAIN todo'[m] :
                 /\ \E j \in DOMAIN FollowUps[hand'[m]] : todo'[m][k] = FollowUps[hand'[m]][j]
                 /\ k > 1 \/ worker'[m] # "put" => status'[todo'[m][k]] = "absent"
            /\ \A j, k \in DOMAIN todo'[m] : todo'[m][j] = todo'[m][k] => j = k
      BY <1>1, <1>4 DEF LogInv, TodoFresh
    <2> QED BY <1>1, <2>1, <2>2 DEF TodoFresh
  <1>9. OnePlace'
    <2>1. \A m \in Lanes : worker'[m] \in Busy => \A n \in Lanes : ~Holds(n, hand[m])'
      BY <1>1 DEF LogInv, OnePlace, Holds
    <2>2. \A m \in Lanes : worker'[m] = "put" => Elsewhere(Head(todo[m]))'
      BY <1>1 DEF LogInv, OnePlace, Elsewhere, Holds
    <2> QED BY <1>2, <1>3, <2>1, <2>2 DEF LogInv, OnePlace
  <1> QED BY <1>4, <1>5, <1>6, <1>7, <1>8, <1>9 DEF LogInv

(* A worker that stays busy and moves no tuple.                            *)
LEMMA LogInvStays ==
  ASSUME TypeInv, LogInv, NEW l \in Lanes, worker[l] \in {"run", "emit"},
         \/ EndMarked(l)
         \/ ChildMarked(l),
         NEW w \in Busy, worker' = [worker EXCEPT ![l] = w],
         w = "run" => status'[hand[l]] = "consumed",
         w \in Emitting => status'[hand[l]] = "completed",
         w = "put" => status'[Head(todo'[l])] \in Unfinished /\ Elsewhere(Head(todo'[l])),
         \A m \in Lanes \ {l} : todo'[m] = todo[m],
         w \notin Emitting => todo'[l] = <<>>,
         \A k \in DOMAIN todo'[l] :
            /\ \E j \in DOMAIN FollowUps[hand[l]] : todo'[l][k] = FollowUps[hand[l]][j]
            /\ k > 1 \/ w # "put" => status'[todo'[l][k]] = "absent",
         \A j, k \in DOMAIN todo'[l] : todo'[l][j] = todo'[l][k] => j = k,
         UNCHANGED <<queue, seed, next, main, hand>>
  PROVE  LogInv'
  <1>1. /\ worker'[l] = w /\ worker[l] \in Busy
        /\ \A m \in Lanes \ {l} : worker'[m] = worker[m]
        /\ \A m \in Lanes : worker'[m] \in Busy <=> worker[m] \in Busy
    BY CallTypes DEF Busy
  <1>2. Due' = Due /\ \A m \in Lanes, t \in Tuples : Holds(m, t)' <=> Holds(m, t)
    BY DEF Due, Holds
  <1>3. \A t : Elsewhere(t) => Elsewhere(t)'
    BY <1>1 DEF Elsewhere, Holds
  <1>4. PoolWorks'
    BY <1>1 DEF LogInv, PoolWorks, Busy
  <1>5. InOwnLane' /\ WaitsOnce'
    BY <1>1, <1>2 DEF LogInv, InOwnLane, WaitsOnce
  <1>6. /\ \A t \in Due : status'[t] \in Unfinished
        /\ \A m \in Lanes, t \in Tuples : Holds(m, t) => status'[t] \in Unfinished
        /\ \A m \in Lanes \ {l} :
             /\ worker[m] \in Busy => status'[hand[m]] = status[hand[m]]
             /\ worker[m] = "put" => status'[Head(todo[m])] = status[Head(todo[m])]
             /\ \A k \in DOMAIN todo[m] : k > 1 \/ worker[m] # "put" => status'[todo[m][k]] = "absent"
        /\ ParentsFirst'
    BY OthersMarked
  <1>7. Marked'
    <2>1. \A m \in Lanes \ {l} :
            /\ worker'[m] = "run" => status'[hand'[m]] = "consumed"
            /\ worker'[m] \in Emitting => status'[hand'[m]] = "completed"
            /\ worker'[m] = "put" => status'[Head(todo'[m])] \in Unfinished
      BY <1>1, <1>6 DEF LogInv, Marked, Emitting, Busy
    <2> QED BY <1>1, <1>2, <1>6, <2>1 DEF Marked
  <1>8. TodoFresh'
    <2>1. \A m \in Lanes \ {l} :
            /\ worker'[m] \notin Emitting => todo'[m] = <<>>
            /\ \A k \in DOMAIN todo'[m] :
                 /\ \E j \in DOMAIN FollowUps[hand'[m]] : todo'[m][k] = FollowUps[hand'[m]][j]
                 /\ k > 1 \/ worker'[m] # "put" => status'[todo'[m][k]] = "absent"
            /\ \A j, k \in DOMAIN todo'[m] : todo'[m][j] = todo'[m][k] => j = k
      BY <1>1, <1>6 DEF LogInv, TodoFresh
    <2> QED BY <1>1, <2>1 DEF TodoFresh
  <1>9. OnePlace'
    <2>1. \A m \in Lanes : worker'[m] \in Busy => \A n \in Lanes : ~Holds(n, hand[m])'
      BY <1>1 DEF LogInv, OnePlace, Holds
    <2>2. \A m \in Lanes : worker'[m] = "put" => Elsewhere(Head(todo[m]))'
      <3> SUFFICES ASSUME NEW m \in Lanes, worker'[m] = "put" PROVE Elsewhere(Head(todo[m]))'
        OBVIOUS
      <3> PICK u : u = Head(todo'[m])
        OBVIOUS
      <3>1. Elsewhere(u)
        BY <1>1 DEF LogInv, OnePlace
      <3> QED BY <1>3, <3>1 DEF Elsewhere
    <2> QED BY <1>2, <1>3, <2>1, <2>2 DEF LogInv, OnePlace
  <1> QED BY <1>4, <1>5, <1>6, <1>7, <1>8, <1>9 DEF LogInv

(* The dispatch succeeded: the follow-ups are listed.                      *)
LEMMA LogInvComplete ==
  ASSUME TypeInv, LogInv, NEW l \in Lanes, Complete(l)
  PROVE  LogInv'
  <1> PICK h : h = hand[l]
    OBVIOUS
  <1>1. /\ worker[l] = "run" /\ worker' = [worker EXCEPT ![l] = "emit"]
        /\ todo' = [todo EXCEPT ![l] = FollowUps[h]] /\ status' = [status EXCEPT ![h] = "completed"]
        /\ UNCHANGED <<queue, seed, next, main, hand>>
    BY DEF Complete, busVars
  <1>2. h \in Tuples /\ status[h] = "consumed"
    BY <1>1, CallTypes DEF LogInv, Marked, Busy
  <1>3. /\ status'[h] = "completed" /\ \A u \in Tuples \ {h} : status'[u] = status[u]
        /\ todo'[l] = FollowUps[h] /\ \A m \in Lanes \ {l} : todo'[m] = todo[m]
    BY <1>1, <1>2, CallTypes
  <1>4. \A k \in DOMAIN FollowUps[h] : status'[FollowUps[h][k]] = "absent"
    <2> SUFFICES ASSUME NEW k \in DOMAIN FollowUps[h] PROVE status'[FollowUps[h][k]] = "absent"
      OBVIOUS
    <2>1. FollowUps[h] \in Seq(Tuples)
      BY <1>2, CallTypes
    <2>2. FollowUps[h][k] \in Tuples
      BY <2>1
    <2>3. status[FollowUps[h][k]] = "absent"
      BY <1>2 DEF LogInv, ParentsFirst
    <2> QED BY <1>2, <1>3, <2>2, <2>3
  <1>5. \A j, k \in DOMAIN FollowUps[h] : FollowUps[h][j] = FollowUps[h][k] => j = k
    BY <1>2, FreshIds
  <1>6. EndMarked(l)
    BY <1>1 DEF EndMarked, Final
  <1>7. /\ \A k \in DOMAIN todo'[l] :
             /\ \E j \in DOMAIN FollowUps[hand[l]] : todo'[l][k] = FollowUps[hand[l]][j]
             /\ status'[todo'[l][k]] = "absent"
        /\ \A j, k \in DOMAIN todo'[l] : todo'[l][j] = todo'[l][k] => j = k
    BY <1>3, <1>4, <1>5
  <1>8. "emit" \in Busy /\ "emit" \in Emitting /\ status'[hand[l]] = "completed"
    BY <1>3 DEF Busy, Emitting
  <1>9. /\ worker[l] \in {"run", "emit"} /\ worker' = [worker EXCEPT ![l] = "emit"]
        /\ UNCHANGED <<queue, seed, next, main, hand>>
        /\ \A m \in Lanes \ {l} : todo'[m] = todo[m]
    BY <1>1, <1>3
  <1> QED BY <1>6, <1>7, <1>8, <1>9, LogInvStays

(* The next follow-up is logged, and its lane is full.                     *)
LEMMA LogInvBlocks ==
  ASSUME TypeInv, LogInv, NEW l \in Lanes, EmitBlocks(l)
  PROVE  LogInv'
  <1> PICK c : c = Head(todo[l])
    OBVIOUS
  <1>1. /\ ChildMarked(l) /\ worker[l] = "emit" /\ todo[l] # <<>> /\ LogChild(l)
        /\ worker' = [worker EXCEPT ![l] = "put"]
        /\ UNCHANGED <<queue, seed, next, main, hand, todo>>
    BY DEF EmitBlocks, busVars, ChildMarked
  <1>2. /\ c \in Tuples /\ status[c] = "absent" /\ Elsewhere(c)
        /\ \A k \in DOMAIN todo[l] : todo[l][k] = c => k = 1
        /\ status[hand[l]] = "completed" /\ hand[l] \in Tuples
    BY <1>1, ChildFresh
  <1>3. status'[c] = "emitted" /\ \A u \in Tuples \ {c} : status'[u] = status[u]
    BY <1>1, <1>2, CallTypes DEF LogChild
  <1>4. \A k \in DOMAIN todo[l] :
          /\ \E j \in DOMAIN FollowUps[hand[l]] : todo[l][k] = FollowUps[hand[l]][j]
          /\ k > 1 => status'[todo[l][k]] = "absent"
    BY <1>1, <1>2, <1>3, CallTypes DEF LogInv, TodoFresh
  <1>5. \A j, k \in DOMAIN todo[l] : todo[l][j] = todo[l][k] => j = k
    BY DEF LogInv, TodoFresh
  <1>6. status'[hand[l]] = "completed" /\ status'[Head(todo'[l])] \in Unfinished /\ Elsewhere(Head(todo'[l]))
    BY <1>1, <1>2, <1>3 DEF Unfinished
  <1>7. \A k \in DOMAIN todo'[l] :
          /\ \E j \in DOMAIN FollowUps[hand[l]] : todo'[l][k] = FollowUps[hand[l]][j]
          /\ k > 1 => status'[todo'[l][k]] = "absent"
    BY <1>1, <1>4
  <1>8. /\ \A m \in Lanes \ {l} : todo'[m] = todo[m]
        /\ \A j, k \in DOMAIN todo'[l] : todo'[l][j] = todo'[l][k] => j = k
    BY <1>1, <1>5
  <1> QED BY <1>1, <1>6, <1>7, <1>8, LogInvStays DEF Busy, Emitting

(* A tuple that was nowhere is put in its lane; it is no longer due, in a  *)
(* hand or on top of a list.                                               *)
LEMMA PutOnePlace ==
  ASSUME TypeInv, LogInv, NEW t \in Tuples, Elsewhere(t), Enqueue(LaneOf[t], t),
         \A m \in Lanes : worker'[m] \in Busy <=> worker[m] \in Busy,
         UNCHANGED hand, Due' \subseteq Due, t \notin Due',
         \A m \in Lanes : worker'[m] = "put" =>
           /\ worker[m] = "put" /\ Head(todo'[m]) = Head(todo[m])
           /\ Head(todo[m]) # t /\ Head(todo[m]) \in Tuples
  PROVE  OnePlace' /\ WaitsOnce' /\ InOwnLane'
  <1>1. \A m \in Lanes, u \in Tuples : Holds(m, u)' => Holds(m, u) \/ (m = LaneOf[t] /\ u = t)
    BY HoldsAfterEnqueue, BusAssumption, CallTypes
  <1>2. \A u \in Tuples \ {t} : Elsewhere(u) => Elsewhere(u)'
    BY <1>1 DEF Elsewhere
  <1>3. Due \subseteq Tuples
    BY CallTypes
  <1>4. \A u \in Due' : Elsewhere(u)'
    BY <1>2, <1>3 DEF LogInv, OnePlace
  <1>5. \A m \in Lanes : worker'[m] \in Busy => \A n \in Lanes : ~Holds(n, hand[m])'
    <2> SUFFICES ASSUME NEW m \in Lanes, worker'[m] \in Busy, NEW n \in Lanes
                 PROVE  ~Holds(n, hand[m])'
      OBVIOUS
    <2> PICK u : u = hand[m]
      OBVIOUS
    <2>1. worker[m] \in Busy /\ u \in Tuples /\ u # t
      BY CallTypes DEF Elsewhere
    <2>2. ~Holds(n, u)
      BY <2>1 DEF LogInv, OnePlace
    <2>3. ~Holds(n, u)'
      BY <1>1, <2>1, <2>2
    <2> QED BY <2>3 DEF Holds
  <1>6. \A m \in Lanes : worker'[m] = "put" => Elsewhere(Head(todo[m]))'
    <2> SUFFICES ASSUME NEW m \in Lanes, worker'[m] = "put" PROVE Elsewhere(Head(todo[m]))'
      OBVIOUS
    <2> PICK u : u = Head(todo'[m])
      OBVIOUS
    <2>1. worker[m] = "put" /\ u = Head(todo[m]) /\ u \in Tuples \ {t}
      OBVIOUS
    <2>2. Elsewhere(u)'
      BY <1>2, <2>1 DEF LogInv, OnePlace
    <2> QED BY <2>2 DEF Elsewhere
  <1>7. OnePlace'
    BY <1>4, <1>5, <1>6 DEF OnePlace
  <1>8. WaitsOnce'
    BY EnqueueOnce, BusAssumption, CallTypes DEF LogInv, Elsewhere
  <1>9. InOwnLane'
    BY <1>1 DEF LogInv, InOwnLane
  <1> QED BY <1>7, <1>8, <1>9

(* The main coroutine publishes the next tuple of the seed.                *)
LEMMA LogInvPublish ==
  ASSUME TypeInv, LogInv, PublishSeed
  PROVE  LogInv'
  <1> PICK t : t = seed[next]
    OBVIOUS
  <1>1. /\ next \in 1..Len(seed) /\ seed \in Seeds /\ seed \in Seq(Tuples)
        /\ Enqueue(LaneOf[t], t) /\ next' = next + 1
        /\ UNCHANGED <<seed, main, worker, hand, todo, status>>
    BY CallTypes DEF PublishSeed, Publish
  <1>2. t \in Due /\ t \in Tuples
    BY <1>1 DEF Due
  <1>3. Due' \subseteq Due
    BY <1>1 DEF Due
  <1>4. t \notin Due'
    <2> SUFFICES ASSUME NEW i \in (next + 1)..Len(seed), seed[i] = t PROVE FALSE
      BY <1>1 DEF Due
    <2>1. i \in DOMAIN seed /\ next \in DOMAIN seed /\ i # next
      BY <1>1
    <2> QED BY <1>1, <2>1, FreshIds
  <1>5. \A m \in Lanes : worker[m] = "put" => Head(todo[m]) # t /\ Head(todo[m]) \in Tuples
    <2> SUFFICES ASSUME NEW m \in Lanes, worker[m] = "put" PROVE Head(todo[m]) # t /\ Head(todo[m]) \in Tuples
      OBVIOUS
    <2>1. 1 \in DOMAIN todo[m] /\ Head(todo[m]) = todo[m][1]
      BY CallTypes, HeadFirst
    <2> QED BY <1>2, <2>1, TodoApart
  <1>6. Elsewhere(t) /\ status[t] \in Unfinished
    BY <1>2 DEF LogInv, OnePlace, Marked
  <1>7. OnePlace' /\ WaitsOnce' /\ InOwnLane'
    BY <1>1, <1>2, <1>3, <1>4, <1>5, <1>6, PutOnePlace
  <1>8. \A m \in Lanes, u \in Tuples : Holds(m, u)' => Holds(m, u) \/ u = t
    BY <1>1, <1>2, HoldsAfterEnqueue, BusAssumption, CallTypes
  <1>9. Marked'
    BY <1>1, <1>3, <1>6, <1>8 DEF LogInv, Marked
  <1>10. PoolWorks' /\ ParentsFirst' /\ TodoFresh'
    BY <1>1 DEF LogInv, PoolWorks, ParentsFirst, TodoFresh
  <1> QED BY <1>7, <1>9, <1>10 DEF LogInv

(* A follow-up that finds room, at once or after a suspended put.          *)
LEMMA LogInvPut ==
  ASSUME TypeInv, LogInv, NEW l \in Lanes, Emit(l) \/ PutResumes(l)
  PROVE  LogInv'
  <1> PICK c : c = Head(todo[l])
    OBVIOUS
  <1>1. /\ worker[l] \in Emitting /\ todo[l] # <<>> /\ Enqueue(LaneOf[c], c)
        /\ todo' = [todo EXCEPT ![l] = Tail(@)]
        /\ worker' = [worker EXCEPT ![l] = "emit"]
        /\ UNCHANGED <<seed, next, main, hand>>
    BY CallTypes DEF Emit, PutResumes, Publish, Emitting
  <1>2. \/ worker[l] = "emit" /\ LogChild(l)
        \/ worker[l] = "put" /\ status' = status
    BY DEF Emit, PutResumes
  <1>3. /\ 1 \in DOMAIN todo[l] /\ c = todo[l][1] /\ c \in Tuples /\ todo[l] \in Seq(Tuples)
    BY <1>1, CallTypes, HeadFirst
  <1>4. /\ c \notin Due /\ Due' = Due
        /\ \A m \in Lanes : \A k \in DOMAIN todo[m] : todo[m][k] = c => m = l /\ k = 1
    BY <1>1, <1>3, TodoApart DEF Due
  <1>5. Elsewhere(c) /\ status'[c] \in Unfinished
    <2>1. CASE worker[l] = "emit" /\ LogChild(l)
      BY <1>1, <1>3, <2>1, ChildFresh, CallTypes DEF LogChild, Unfinished
    <2>2. CASE worker[l] = "put" /\ status' = status
      BY <2>2 DEF LogInv, OnePlace, Marked
    <2> QED BY <1>2, <2>1, <2>2
  <1>6. /\ worker'[l] = "emit" /\ \A m \in Lanes \ {l} : worker'[m] = worker[m] /\ todo'[m] = todo[m]
        /\ todo'[l] = Tail(todo[l])
        /\ \A m \in Lanes : worker'[m] \in Busy <=> worker[m] \in Busy
    BY <1>1, CallTypes DEF Emitting, Busy
  <1>7. \A m \in Lanes \ {l} : worker[m] = "put" => Head(todo[m]) # c /\ Head(todo[m]) \in Tuples
    <2> SUFFICES ASSUME NEW m \in Lanes \ {l}, worker[m] = "put" PROVE Head(todo[m]) # c /\ Head(todo[m]) \in Tuples
      OBVIOUS
    <2>1. 1 \in DOMAIN todo[m] /\ Head(todo[m]) = todo[m][1] /\ Head(todo[m]) \in Tuples
      BY CallTypes, HeadFirst
    <2> QED BY <1>4, <2>1
  <1>8. OnePlace' /\ WaitsOnce' /\ InOwnLane'
    <2>1. \A m \in Lanes : worker'[m] = "put" =>
            /\ worker[m] = "put" /\ Head(todo'[m]) = Head(todo[m])
            /\ Head(todo[m]) # c /\ Head(todo[m]) \in Tuples
      BY <1>6, <1>7
    <2> QED BY <1>1, <1>3, <1>4, <1>5, <1>6, <2>1, PutOnePlace
  <1>9. \A m \in Lanes, u \in Tuples : Holds(m, u)' => Holds(m, u) \/ u = c
    BY <1>1, <1>3, HoldsAfterEnqueue, BusAssumption, CallTypes
  <1>10. status' = status \/ ChildMarked(l)
    BY <1>1, <1>2 DEF ChildMarked
  <1>11. /\ \A t \in Due : status'[t] \in Unfinished
         /\ \A m \in Lanes, t \in Tuples : Holds(m, t) => status'[t] \in Unfinished
         /\ \A m \in Lanes \ {l} :
              /\ worker[m] \in Busy => status'[hand[m]] = status[hand[m]]
              /\ worker[m] = "put" => status'[Head(todo[m])] = status[Head(todo[m])]
              /\ \A k \in DOMAIN todo[m] : k > 1 \/ worker[m] # "put" => status'[todo[m][k]] = "absent"
         /\ ParentsFirst'
    BY <1>10, OthersMarked
  <1>12. status'[hand[l]] = "completed"
    <2>1. CASE worker[l] = "emit" /\ LogChild(l)
      <3>1. status[hand[l]] = "completed" /\ status[c] = "absent" /\ hand[l] \in Tuples
        BY <1>1, <2>1, ChildFresh
      <3> QED BY <2>1, <3>1, CallTypes DEF LogChild
    <2>2. CASE worker[l] = "put" /\ status' = status
      BY <1>1, <2>2 DEF LogInv, Marked
    <2> QED BY <1>2, <2>1, <2>2
  <1>13. Marked'
    <2>1. \A m \in Lanes, u \in Tuples : Holds(m, u)' => status'[u] \in Unfinished
      BY <1>5, <1>9, <1>11
    <2>2. \A m \in Lanes \ {l} :
            /\ worker'[m] = "run" => status'[hand'[m]] = "consumed"
            /\ worker'[m] \in Emitting => status'[hand'[m]] = "completed"
            /\ worker'[m] = "put" => status'[Head(todo'[m])] \in Unfinished
      BY <1>1, <1>6, <1>11 DEF LogInv, Marked, Emitting, Busy
    <2> QED BY <1>1, <1>4, <1>6, <1>11, <1>12, <2>1, <2>2 DEF Marked
  <1>14. TodoFresh'
    <2>1. \A m \in Lanes \ {l} :
            /\ worker'[m] \notin Emitting => todo'[m] = <<>>
            /\ \A k \in DOMAIN todo'[m] :
                 /\ \E j \in DOMAIN FollowUps[hand'[m]] : todo'[m][k] = FollowUps[hand'[m]][j]
                 /\ k > 1 \/ worker'[m] # "put" => status'[todo'[m][k]] = "absent"
            /\ \A j, k \in DOMAIN todo'[m] : todo'[m][j] = todo'[m][k] => j = k
      BY <1>1, <1>6, <1>11 DEF LogInv, TodoFresh
    <2>2. \A k \in DOMAIN todo'[l] : k + 1 \in DOMAIN todo[l] /\ todo'[l][k] = todo[l][k + 1] /\ k \in Nat /\ k + 1 > 1
      BY <1>3, <1>6
    <2>3. \A k \in DOMAIN todo[l] : k > 1 => status'[todo[l][k]] = "absent"
      <3> SUFFICES ASSUME NEW k \in DOMAIN todo[l], k > 1 PROVE status'[todo[l][k]] = "absent"
        OBVIOUS
      <3>1. status[todo[l][k]] = "absent" /\ todo[l][k] # c /\ todo[l][k] \in Tuples
        BY <1>3, <1>4 DEF LogInv, TodoFresh
      <3> QED BY <1>2, <3>1, CallTypes DEF LogChild
    <2>4. \A k \in DOMAIN todo'[l] :
            /\ \E j \in DOMAIN FollowUps[hand'[l]] : todo'[l][k] = FollowUps[hand'[l]][j]
            /\ status'[todo'[l][k]] = "absent"
      <3> SUFFICES ASSUME NEW k \in DOMAIN todo'[l]
                   PROVE  /\ \E j \in DOMAIN FollowUps[hand[l]] : todo[l][k + 1] = FollowUps[hand[l]][j]
                          /\ status'[todo[l][k + 1]] = "absent"
        <4>1. \A k \in DOMAIN todo'[l] : todo'[l][k] = todo[l][k + 1]
          BY <2>2
        <4>2. hand' = hand
          BY <1>1
        <4> QED BY <4>1, <4>2
      <3>1. k + 1 \in DOMAIN todo[l] /\ k + 1 > 1
        BY <2>2
      <3>2. \E j \in DOMAIN FollowUps[hand[l]] : todo[l][k + 1] = FollowUps[hand[l]][j]
        BY <3>1 DEF LogInv, TodoFresh
      <3> QED BY <2>3, <3>1, <3>2
    <2>5. \A j, k \in DOMAIN todo'[l] : todo'[l][j] = todo'[l][k] => j = k
      <3> SUFFICES ASSUME NEW j \in DOMAIN todo'[l], NEW k \in DOMAIN todo'[l], todo'[l][j] = todo'[l][k]
                   PROVE  j = k
        OBVIOUS
      <3>1. j + 1 = k + 1
        BY <2>2 DEF LogInv, TodoFresh
      <3> QED BY <2>2, <3>1
    <2>6. worker'[l] \in Emitting
      BY <1>6 DEF Emitting
    <2> QED BY <2>1, <2>4, <2>5, <2>6 DEF TodoFresh
  <1>15. PoolWorks'
    BY <1>1, <1>6 DEF LogInv, PoolWorks, Emitting
  <1> QED BY <1>8, <1>11, <1>13, <1>14, <1>15 DEF LogInv

(* The steps that move no tuple: the main coroutine but for its publishes, *)
(* a task's first step, and the end of a lane.                             *)
LEMMA LogInvWalk ==
  ASSUME TypeInv, LogInv,
         SeedPublished \/ Drain \/ CloseDone \/ WorkersGathered \/ StartWorker \/ UNCHANGED vars
  PROVE  LogInv'
  <1>1. UNCHANGED <<queue, seed, next, hand, todo, status>>
    BY DEF SeedPublished, Drain, CloseDone, WorkersGathered, StartWorker, busVars, poolVars, vars
  <1>2. \A m \in Lanes : worker'[m] = worker[m] \/ (worker[m] \notin Busy /\ worker'[m] \notin Busy)
    <2>1. CASE StartWorker
      <3>1. started + 1 \in DOMAIN Pool /\ Pool[started + 1] \in Lanes
        BY <2>1, PoolAssumption DEF StartWorker, TypeInv, TypeOK
      <3>2. worker[Pool[started + 1]] = "new"
        BY <3>1, PoolAssumption DEF TypeInv, TypeOK, NotStarted
      <3> QED BY <2>1, <3>1, <3>2, CallTypes DEF StartWorker, Busy
    <2>2. CASE ~StartWorker
      BY <2>2 DEF SeedPublished, Drain, CloseDone, WorkersGathered, vars, poolVars
    <2> QED BY <2>1, <2>2
  <1>3. PoolWorks'
    <2>1. CASE StartWorker
      <3>1. started + 1 \in DOMAIN Pool /\ Pool[started + 1] \in Lanes
        BY <2>1, PoolAssumption DEF StartWorker, TypeInv, TypeOK
      <3>2. worker[Pool[started + 1]] = "new"
        BY <3>1, PoolAssumption DEF TypeInv, TypeOK, NotStarted
      <3> QED BY <2>1, <3>1, <3>2, CallTypes DEF StartWorker, LogInv, PoolWorks
    <2>2. CASE WorkersGathered
      BY <2>2 DEF WorkersGathered, LogInv, PoolWorks
    <2>3. CASE SeedPublished \/ Drain \/ CloseDone
      BY <2>3 DEF SeedPublished, Drain, JoinAt, CloseDone, LogInv, PoolWorks
    <2>4. CASE UNCHANGED vars
      BY <2>4 DEF vars, poolVars, LogInv, PoolWorks
    <2> QED BY <2>1, <2>2, <2>3, <2>4
  <1>4. WaitsOnce' /\ \A m \in Lanes, t \in Tuples : Holds(m, t)' => Holds(m, t)
    BY <1>1 DEF LogInv, WaitsOnce, Holds
  <1> QED BY <1>1, <1>2, <1>3, <1>4, LogInvStill

(* Sentinels come and go beside the tuples.                                *)
LEMMA LogInvSentinel ==
  ASSUME TypeInv, LogInv, CloseLane \/ \E l \in Lanes : TakeSentinel(l)
  PROVE  LogInv'
  <1>1. CASE CloseLane
    <2>1. lanes[at] \in Lanes /\ Enqueue(lanes[at], Sentinel)
      BY <1>1 DEF CloseLane, PutSentinel, TypeInv, TypeOK, WalkInside, BusTypeOK
    <2>2. UNCHANGED <<seed, next, main, worker, hand, todo, status>>
      BY <1>1 DEF CloseLane
    <2>3. WaitsOnce' /\ \A m \in Lanes, t \in Tuples : Holds(m, t)' => Holds(m, t)
      BY <2>1, EnqueueOnce, HoldsAfterEnqueue, BusAssumption, CallTypes DEF LogInv
    <2>4. PoolWorks'
      BY <2>2 DEF LogInv, PoolWorks
    <2> QED BY <2>2, <2>3, <2>4, LogInvStill
  <1>2. ASSUME NEW l \in Lanes, TakeSentinel(l) PROVE LogInv'
    <2>1. /\ Get(l, Sentinel) /\ worker[l] = "get" /\ worker' = [worker EXCEPT ![l] = "done"]
          /\ main' = main \/ main' = "woken"
          /\ UNCHANGED <<seed, next, hand, todo, status>>
      BY <1>2 DEF TakeSentinel, Acknowledge
    <2>2. WaitsOnce' /\ \A m \in Lanes, t \in Tuples : Holds(m, t)' => Holds(m, t)
      BY <2>1, GetOnce, HoldsAfterGet, CallTypes DEF LogInv
    <2>3. worker'[l] = "done" /\ \A m \in Lanes \ {l} : worker'[m] = worker[m]
      BY <2>1, CallTypes
    <2>4. PoolWorks'
      BY <2>1, <2>3 DEF LogInv, PoolWorks
    <2>5. \A m \in Lanes : worker'[m] = worker[m] \/ (worker[m] \notin Busy /\ worker'[m] \notin Busy)
      BY <2>1, <2>3 DEF Busy
    <2> QED BY <2>1, <2>2, <2>4, <2>5, LogInvStill
  <1> QED BY <1>1, <1>2

(* Together: the invariant of the log is inductive.                        *)
LEMMA LogInvNext == TypeInv /\ LogInv /\ [Next]_vars => LogInv'
  <1> SUFFICES ASSUME TypeInv, LogInv, [Next]_vars PROVE LogInv'
    OBVIOUS
  <1>1. CASE Main \/ StartWorker \/ UNCHANGED vars
    BY <1>1, LogInvPublish, LogInvWalk, LogInvSentinel DEF Main
  <1>2. ASSUME NEW l \in Lanes, Work(l) \/ LogWriteFails(l) PROVE LogInv'
    <2>1. CASE Fail(l) \/ Handled(l) \/ EmitOnClosed(l) \/ LogWriteFails(l)
      <3>1. /\ worker[l] \in {"run", "emit"} /\ UNCHANGED <<queue, seed, next>>
            /\ hand' = [hand EXCEPT ![l] = None]
            /\ main' = main \/ main' = "woken"
        BY <2>1 DEF Fail, Handled, EmitOnClosed, LogWriteFails, Return, Die, Acknowledge
      <3>2. PICK w \in {"get", "dead"} : worker' = [worker EXCEPT ![l] = w]
        BY <2>1 DEF Fail, Handled, EmitOnClosed, LogWriteFails, Return, Die
      <3>3. todo' = [todo EXCEPT ![l] = <<>>]
        <4>1. CASE Fail(l) \/ Handled(l)
          <5>1. todo' = todo /\ todo[l] = <<>>
            BY <4>1 DEF Fail, Handled, LogInv, TodoFresh, Emitting
          <5> QED BY <5>1, CallTypes
        <4>2. CASE EmitOnClosed(l) \/ LogWriteFails(l)
          BY <4>2 DEF EmitOnClosed, LogWriteFails, Die
        <4> QED BY <2>1, <4>1, <4>2
      <3>4. status' = status \/ EndMarked(l) \/ ChildMarked(l)
        <4>1. CASE Fail(l)
          BY <4>1 DEF Fail, EndMarked, Final
        <4>2. CASE EmitOnClosed(l)
          BY <4>2 DEF EmitOnClosed, ChildMarked
        <4>3. CASE Handled(l) \/ LogWriteFails(l)
          BY <4>3 DEF Handled, LogWriteFails
        <4> QED BY <2>1, <4>1, <4>2, <4>3
      <3> QED BY <3>1, <3>2, <3>3, <3>4, LogInvRelease
    <2> QED BY <1>2, <2>1, LogInvTake, LogInvSentinel, LogInvComplete, LogInvPut, LogInvBlocks DEF Work
  <1> QED BY <1>1, <1>2 DEF Next

(* A worker is busy or waiting only while the call has not returned.       *)
LEMMA NotIdle ==
  ASSUME LogInv, NEW l \in Lanes, worker[l] \in {"get"} \cup Busy
  PROVE  main # "idle"
  BY DEF LogInv, PoolWorks, Busy

(* A step of a worker is a step of the contract, or changes nothing in it. *)
LEMMA WorkMaps ==
  ASSUME TypeInv, LogInv, NEW l \in Lanes, Work(l) \/ LogWriteFails(l)
  PROVE  [Lifecycle!Next]_<<status, main = "idle">>
  <1>1. main # "idle" /\ main' # "idle"
    <2>1. main # "idle"
      BY NotIdle DEF Work, Take, TakeSentinel, Fail, Complete, Emit, EmitBlocks, PutResumes,
                     EmitOnClosed, Handled, LogWriteFails, Busy
    <2> QED BY <2>1 DEF Work, Take, TakeSentinel, Fail, Complete, Emit, EmitBlocks, PutResumes,
                     EmitOnClosed, Handled, LogWriteFails, Return, Die, Acknowledge
  <1>2. (main = "idle")' = (main = "idle")
    BY <1>1
  <1>3. CASE Take(l)
    <2> PICK t \in Tuples : Get(l, t) /\ status' = [status EXCEPT ![t] = "consumed"]
      BY <1>3 DEF Take
    <2>1. status[t] \in Unfinished
      BY GetHolds, CallTypes DEF LogInv, Marked
    <2>2. CASE status[t] = "emitted"
      BY <1>1, <1>2, <2>2 DEF Lifecycle!Next, Lifecycle!Consume, Lifecycle!Move
    <2>3. CASE status[t] = "consumed"
      <3>1. status' = status
        BY <2>3, CallTypes
      <3> QED BY <1>2, <3>1
    <2> QED BY <2>1, <2>2, <2>3 DEF Unfinished
  <1>4. CASE EndMarked(l)
    <2>1. hand[l] \in Tuples /\ status[hand[l]] = "consumed"
      BY <1>4, CallTypes DEF EndMarked, LogInv, Marked, Busy
    <2>2. Lifecycle!Finish(hand[l])
      BY <1>1, <1>2, <1>4, <2>1 DEF EndMarked, Final, Lifecycle!Finish, Lifecycle!Move
    <2> QED BY <2>1, <2>2 DEF Lifecycle!Next
  <1>5. CASE ChildMarked(l)
    <2> PICK c : c = Head(todo[l])
      OBVIOUS
    <2>1. /\ c \in Tuples /\ status[c] = "absent" /\ status[hand[l]] = "completed" /\ hand[l] \in Tuples
          /\ \E j \in DOMAIN FollowUps[hand[l]] : FollowUps[hand[l]][j] = c
      BY <1>5, ChildFresh DEF ChildMarked
    <2>2. Lifecycle!Spawn(hand[l], c)
      BY <1>1, <1>2, <1>5, <2>1 DEF ChildMarked, LogChild, Lifecycle!Spawn, Lifecycle!Move
    <2> QED BY <2>1, <2>2 DEF Lifecycle!Next
  <1>6. CASE status' = status
    BY <1>2, <1>6
  <1>7. \/ Take(l) \/ EndMarked(l) \/ ChildMarked(l) \/ status' = status
    BY DEF Work, Take, TakeSentinel, Fail, Complete, Emit, EmitBlocks, PutResumes,
           EmitOnClosed, Handled, LogWriteFails, EndMarked, ChildMarked, Final
  <1> QED BY <1>3, <1>4, <1>5, <1>6, <1>7

(* And so is every step of the call: the only other one the contract sees  *)
(* is the return of the pool.                                              *)
LEMMA StepMaps ==
  ASSUME TypeInv, LogInv, [Next]_vars
  PROVE  [Lifecycle!Next]_<<status, main = "idle">>
  <1>1. CASE PublishSeed \/ SeedPublished \/ Drain \/ CloseLane \/ CloseDone \/ StartWorker \/ UNCHANGED vars
    <2>1. status' = status
      BY <1>1 DEF PublishSeed, SeedPublished, Drain, CloseLane, CloseDone, StartWorker, vars, poolVars
    <2>2. main' = "idle" <=> main = "idle"
      BY <1>1 DEF PublishSeed, SeedPublished, Drain, JoinAt, CloseLane, CloseDone, StartWorker, vars, poolVars
    <2> QED BY <2>1, <2>2
  <1>2. CASE WorkersGathered
    <2>1. main # "idle" /\ main' = "idle" /\ status' = status
      BY <1>2 DEF WorkersGathered
    <2>2. Lifecycle!GoIdle
      BY <2>1 DEF Lifecycle!GoIdle
    <2> QED BY <2>2 DEF Lifecycle!Next
  <1>3. ASSUME NEW l \in Lanes, Work(l) \/ LogWriteFails(l)
        PROVE  [Lifecycle!Next]_<<status, main = "idle">>
    BY <1>3, WorkMaps
  <1> QED BY <1>1, <1>2, <1>3 DEF Next, Main

(* The pool implements the contract of the log, for every pool, seed,      *)
(* capacity and set of follow-ups: a tuple is consumed after it was        *)
(* emitted, finished once, and made only by a parent that completed, and   *)
(* nothing moves any more once run_until_idle has returned                 *)
(* (workers.py:67-123, 156-165).                                           *)
THEOREM LifecycleThm == Spec => ImplementsLifecycle
  <1>1. Init => Lifecycle!Init
    BY DEF Init, Lifecycle!Init
  <1>2. Spec => [](TypeInv /\ LogInv)
    BY TypeInvInit, TypeInvNext, LogInvInit, LogInvNext, PTL DEF Spec
  <1>3. TypeInv /\ LogInv /\ [Next]_vars => [Lifecycle!Next]_<<status, main = "idle">>
    BY StepMaps
  <1> QED BY <1>1, <1>2, <1>3, PTL DEF Spec, ImplementsLifecycle, Lifecycle!Spec

------------------------------------------------------------------------------
(* The order of the sprint.  A tuple that was published waits or was       *)
(* taken, and a taken one is in hand, or failed, or left its follow-ups:   *)
(* so the first of two items is at a lane before the second, and the lane  *)
(* is a queue with one worker.                                             *)

(* A tuple that was published: it waits in its lane or was taken.          *)
Reached(t) == Holds(LaneOf[t], t) \/ Taken(t)

(* What became of a tuple that was taken.                                  *)
Settled ==
  \A t \in Tuples : Taken(t) =>
    \/ worker[LaneOf[t]] \in Busy /\ hand[LaneOf[t]] = t
    \/ status[t] \in {"err", "err.budget"} \/ worker[LaneOf[t]] = "dead"
    \/ \A k \in DOMAIN FollowUps[t] : Reached(FollowUps[t][k])

(* Of the follow-ups of a tuple in hand, some are still to be put.         *)
Handing ==
  \A l \in Lanes : worker[l] \in Emitting =>
    \A k \in DOMAIN FollowUps[hand[l]] :
      \/ Reached(FollowUps[hand[l]][k])
      \/ \E n \in DOMAIN todo[l] : todo[l][n] = FollowUps[hand[l]][k]

SeedReached == \A i \in DOMAIN seed : i < next => Reached(seed[i])
PutEmitted == \A l \in Lanes : worker[l] = "put" => status[Head(todo[l])] = "emitted"

FlowInv == Settled /\ Handing /\ SeedReached /\ PutEmitted

(* Of two tuples of one lane, b neither was taken before a nor waits       *)
(* before it.                                                              *)
Before(l, a, b) ==
  \/ Taken(a)
  \/ /\ ~Taken(b)
     /\ \A n \in DOMAIN queue[l] : queue[l][n] = b => \E m \in DOMAIN queue[l] : m < n /\ queue[l][m] = a

InOrder ==
  \A i, j \in DOMAIN seed : i < j /\ Alike(seed[i][1], seed[j][1]) =>
    \A l \in Manned :
      Stopped(seed[i][1], l) \/ Before(l, T(seed[i][1], l), T(seed[j][1], l))

OrderInv == Pipelined /\ Itemised => InOrder

(* A list that gained one at its end, and one that lost its head.          *)
Grown(q, r, item) ==
  /\ \A m \in DOMAIN q : m \in DOMAIN r /\ r[m] = q[m]
  /\ \A n \in DOMAIN r : n \in DOMAIN q \/ (r[n] = item /\ \A m \in DOMAIN q : m < n)
  /\ \E n \in DOMAIN r : r[n] = item
Shrunk(q, r, item) ==
  /\ 1 \in DOMAIN q /\ q[1] = item /\ DOMAIN r \subseteq Nat /\ DOMAIN q \subseteq Nat
  /\ \A n \in DOMAIN r : n + 1 \in DOMAIN q /\ r[n] = q[n + 1]
  /\ \A m \in DOMAIN q : m = 1 \/ (m - 1 \in DOMAIN r /\ r[m - 1] = q[m])

(* A put, by positions.                                                    *)
LEMMA EnqueueGrows ==
  ASSUME BusTypeOK, NEW l \in Lanes, NEW item \in Tuples \cup {Sentinel}, Enqueue(l, item)
  PROVE  Grown(queue[l], queue'[l], item) /\ \A m \in Lanes \ {l} : queue'[m] = queue[m]
<1>1. /\ queue[l] \in Seq(Tuples \cup {Sentinel}) /\ queue'[l] = Append(queue[l], item)
      /\ Len(queue[l]) \in Nat
  BY DEF Enqueue, BusTypeOK
<1>2. /\ DOMAIN queue'[l] = 1..(Len(queue[l]) + 1) /\ queue'[l][Len(queue[l]) + 1] = item
      /\ \A i \in 1..Len(queue[l]) : queue'[l][i] = queue[l][i]
      /\ DOMAIN queue[l] = 1..Len(queue[l])
  BY <1>1
<1> QED BY <1>1, <1>2, EnqueueType DEF Grown

(* A get, by positions.                                                    *)
LEMMA GetShrinks ==
  ASSUME BusTypeOK, NEW l \in Lanes, NEW item, Get(l, item)
  PROVE  Shrunk(queue[l], queue'[l], item) /\ \A m \in Lanes \ {l} : queue'[m] = queue[m]
<1>1. /\ queue[l] \in Seq(Tuples \cup {Sentinel}) /\ queue'[l] = Tail(queue[l]) /\ queue[l] # <<>>
      /\ Len(queue[l]) \in Nat /\ item = Head(queue[l])
  BY DEF Get, BusTypeOK
<1>2. /\ DOMAIN queue'[l] = 1..(Len(queue[l]) - 1) /\ DOMAIN queue[l] = 1..Len(queue[l])
      /\ \A i \in 1..(Len(queue[l]) - 1) : queue'[l][i] = queue[l][i + 1]
      /\ 1 \in DOMAIN queue[l] /\ item = queue[l][1]
  BY <1>1
<1>3. \A m \in DOMAIN queue[l] : m = 1 \/ (m - 1 \in DOMAIN queue'[l] /\ queue'[l][m - 1] = queue[l][m])
  <2> SUFFICES ASSUME NEW m \in DOMAIN queue[l], m # 1
               PROVE  m - 1 \in DOMAIN queue'[l] /\ queue'[l][m - 1] = queue[l][m]
    OBVIOUS
  <2>1. m - 1 \in 1..(Len(queue[l]) - 1) /\ (m - 1) + 1 = m
    BY <1>1, <1>2
  <2>2. queue'[l][m - 1] = queue[l][(m - 1) + 1]
    BY <1>2, <2>1
  <2> QED BY <1>2, <2>1, <2>2
<1> QED BY <1>1, <1>2, <1>3, GetType DEF Shrunk

(* What a step does to the lanes.                                          *)
LEMMA QueueMoves ==
  ASSUME TypeInv, [Next]_vars
  PROVE  \/ queue' = queue /\ next' = next
         \/ \E l \in Lanes : Enqueue(l, Sentinel) /\ next' = next
         \/ \E l \in Lanes : Get(l, Sentinel) /\ next' = next
         \/ PublishSeed
         \/ \E l \in Lanes : Take(l)
         \/ \E l \in Lanes : Emit(l) \/ PutResumes(l)
<1>1. CASE CloseLane
  <2>1. lanes[at] \in Lanes /\ Enqueue(lanes[at], Sentinel) /\ next' = next
    BY <1>1 DEF CloseLane, PutSentinel, TypeInv, TypeOK, WalkInside, BusTypeOK
  <2> QED BY <2>1
<1>2. CASE SeedPublished \/ Drain \/ CloseDone \/ WorkersGathered \/ StartWorker \/ UNCHANGED vars
  BY <1>2 DEF SeedPublished, Drain, CloseDone, WorkersGathered, StartWorker, busVars, poolVars, vars
<1>3. ASSUME NEW l \in Lanes, Work(l) \/ LogWriteFails(l)
      PROVE  \/ queue' = queue /\ next' = next
             \/ Get(l, Sentinel) /\ next' = next
             \/ Take(l)
             \/ Emit(l) \/ PutResumes(l)
  BY <1>3 DEF Work, TakeSentinel, Fail, Complete, EmitBlocks, EmitOnClosed, Handled, LogWriteFails, busVars
<1> QED BY <1>1, <1>2, <1>3 DEF Next, Main

(* What a step does to the log.                                            *)
LEMMA StatusSteps ==
  ASSUME [Next]_vars
  PROVE  status' = status \/ \E l \in Lanes : Take(l) \/ EndMarked(l) \/ ChildMarked(l)
<1>1. CASE Main \/ StartWorker \/ UNCHANGED vars
  BY <1>1 DEF Main, PublishSeed, SeedPublished, Drain, CloseLane, CloseDone, WorkersGathered, StartWorker, vars, poolVars
<1>2. ASSUME NEW l \in Lanes, Work(l) \/ LogWriteFails(l)
      PROVE  Take(l) \/ EndMarked(l) \/ ChildMarked(l) \/ status' = status
  BY <1>2 DEF Work, Take, TakeSentinel, Fail, Complete, Emit, EmitBlocks, PutResumes,
           EmitOnClosed, Handled, LogWriteFails, EndMarked, ChildMarked, Final
<1> QED BY <1>1, <1>2 DEF Next

(* Markers only move on.                                                   *)
LEMMA StatusMoves ==
  ASSUME TypeInv, LogInv, [Next]_vars, NEW t \in Tuples
  PROVE  /\ status[t] \notin {"absent", "emitted"} => status'[t] \notin {"absent", "emitted"}
         /\ status[t] \in {"err", "err.budget"} => status'[t] = status[t]
<1>1. [Lifecycle!Next]_<<status, main = "idle">>
  BY StepMaps
<1>2. status \in [Tuples -> Statuses]
  BY CallTypes
<1>3. ASSUME NEW u \in Tuples, NEW from, NEW to, Lifecycle!Move(u, from, to),
             from \in {"absent", "emitted", "consumed"}, from \in {"emitted", "consumed"} => to \notin {"absent", "emitted"}
      PROVE  /\ status[t] \notin {"absent", "emitted"} => status'[t] \notin {"absent", "emitted"}
             /\ status[t] \in {"err", "err.budget"} => status'[t] = status[t]
  <2>1. status[u] = from /\ status' = [status EXCEPT ![u] = to]
    BY <1>3 DEF Lifecycle!Move
  <2>2. CASE t = u
    BY <1>2, <1>3, <2>1, <2>2
  <2>3. CASE t # u
    BY <1>2, <2>1, <2>3
  <2> QED BY <2>2, <2>3
<1>4. CASE status' = status
  BY <1>4
<1>5. ASSUME NEW u \in Tuples, Lifecycle!Consume(u) PROVE Lifecycle!Move(u, "emitted", "consumed")
  BY <1>5 DEF Lifecycle!Consume
<1>6. ASSUME NEW u \in Tuples, Lifecycle!Finish(u)
      PROVE  \E s \in {"completed", "err", "err.budget"} : Lifecycle!Move(u, "consumed", s)
  BY <1>6 DEF Lifecycle!Finish
<1>7. ASSUME NEW p \in Tuples, NEW u \in Tuples, Lifecycle!Spawn(p, u) PROVE Lifecycle!Move(u, "absent", "emitted")
  BY <1>7 DEF Lifecycle!Spawn
<1>8. Lifecycle!GoIdle => status' = status
  BY DEF Lifecycle!GoIdle
<1>9. \/ status' = status
      \/ \E u \in Tuples : Lifecycle!Consume(u) \/ Lifecycle!Finish(u)
      \/ \E p, u \in Tuples : Lifecycle!Spawn(p, u)
  BY <1>1, <1>8 DEF Lifecycle!Next
<1> QED BY <1>3, <1>4, <1>5, <1>6, <1>7, <1>9

(* A put of a tuple: by the main coroutine, or by a worker at once or      *)
(* after its lane was full.                                                *)
Put(t) ==
  \/ PublishSeed /\ t = seed[next]
  \/ \E m \in Lanes : (Emit(m) \/ PutResumes(m)) /\ t = Head(todo[m])

(* The head of a list that a worker puts is a tuple.                       *)
LEMMA PutTypes ==
  ASSUME TypeInv, LogInv, NEW t, Put(t)
  PROVE  t \in Tuples /\ LaneOf[t] \in Lanes /\ Enqueue(LaneOf[t], t)
<1>1. CASE PublishSeed /\ t = seed[next]
  <2>1. next \in DOMAIN seed /\ Enqueue(LaneOf[t], t)
    BY <1>1, CallTypes DEF PublishSeed, Publish
  <2>2. t \in Tuples
    BY <1>1, <2>1, CallTypes
  <2> QED BY <2>1, <2>2, BusAssumption
<1>2. ASSUME NEW m \in Lanes, Emit(m) \/ PutResumes(m), t = Head(todo[m])
      PROVE  t \in Tuples /\ LaneOf[t] \in Lanes /\ Enqueue(LaneOf[t], t)
  <2>1. todo[m] # <<>> /\ Enqueue(LaneOf[t], t)
    BY <1>2, CallTypes DEF Emit, PutResumes, Publish
  <2>2. todo[m] \in Seq(Tuples)
    BY CallTypes
  <2>3. t \in Tuples
    BY <1>2, <2>1, <2>2, HeadFirst
  <2> QED BY <2>1, <2>3, BusAssumption
<1> QED BY <1>1, <1>2 DEF Put

(* What a step does to one lane, by positions.                             *)
LEMMA LaneMoves ==
  ASSUME TypeInv, LogInv, [Next]_vars, NEW l \in Lanes
  PROVE  \/ queue'[l] = queue[l]
         \/ Grown(queue[l], queue'[l], Sentinel)
         \/ \E t \in Tuples : Put(t) /\ LaneOf[t] = l /\ Grown(queue[l], queue'[l], t)
         \/ Shrunk(queue[l], queue'[l], Sentinel)
         \/ \E t \in Tuples : Take(l) /\ Get(l, t) /\ Shrunk(queue[l], queue'[l], t)
<1> BusTypeOK
  BY CallTypes
<1>1. ASSUME NEW m \in Lanes, Enqueue(m, Sentinel)
      PROVE  queue'[l] = queue[l] \/ Grown(queue[l], queue'[l], Sentinel)
  BY <1>1, EnqueueGrows
<1>2. ASSUME NEW m \in Lanes, Get(m, Sentinel)
      PROVE  queue'[l] = queue[l] \/ Shrunk(queue[l], queue'[l], Sentinel)
  BY <1>2, GetShrinks
<1>3. ASSUME NEW m \in Lanes, Take(m)
      PROVE  queue'[l] = queue[l] \/ \E t \in Tuples : Take(l) /\ Get(l, t) /\ Shrunk(queue[l], queue'[l], t)
  <2> PICK t \in Tuples : Get(m, t)
    BY <1>3 DEF Take
  <2> QED BY <1>3, GetShrinks
<1>4. ASSUME NEW t, Put(t)
      PROVE  queue'[l] = queue[l] \/ (t \in Tuples /\ LaneOf[t] = l /\ Grown(queue[l], queue'[l], t))
  BY <1>4, PutTypes, EnqueueGrows
<1>5. CASE PublishSeed
  <2>1. Put(seed[next])
    BY <1>5 DEF Put
  <2> QED BY <1>4, <2>1
<1>6. ASSUME NEW m \in Lanes, Emit(m) \/ PutResumes(m)
      PROVE  queue'[l] = queue[l] \/ \E t \in Tuples : Put(t) /\ LaneOf[t] = l /\ Grown(queue[l], queue'[l], t)
  <2>1. Put(Head(todo[m]))
    BY <1>6 DEF Put
  <2> QED BY <1>4, <2>1
<1> QED BY <1>1, <1>2, <1>3, <1>5, <1>6, QueueMoves

(* A tuple is no longer due exactly when it is published.                  *)
LEMMA DueSteps ==
  ASSUME TypeInv, [Next]_vars
  PROVE  /\ Due' \subseteq Due
         /\ \A t \in Due : t \in Due' \/ (PublishSeed /\ t = seed[next])
         /\ PublishSeed => seed[next] \in Due
<1>1. seed' = seed /\ seed \in Seq(Tuples) /\ next \in Nat \ {0}
  BY PipelinedNext, CallTypes
<1>2. next' = next \/ PublishSeed
  BY QueueMoves DEF Take, Emit, PutResumes
<1>3. CASE PublishSeed
  <2>1. next' = next + 1 /\ next <= Len(seed)
    BY <1>3 DEF PublishSeed
  <2>2. Len(seed) \in Nat
    BY <1>1
  <2>3. \A i \in next..Len(seed) : i = next \/ i \in next'..Len(seed)
    BY <1>1, <2>1, <2>2
  <2>4. next'..Len(seed) \subseteq next..Len(seed) /\ next \in next..Len(seed)
    BY <1>1, <2>1, <2>2
  <2> QED BY <1>1, <1>3, <2>3, <2>4 DEF Due
<1>4. CASE next' = next /\ ~PublishSeed
  BY <1>1, <1>4 DEF Due
<1> QED BY <1>2, <1>3, <1>4

(* A tuple comes to wait only by a put, and stops waiting only when it is  *)
(* taken.                                                                  *)
LEMMA HoldsSteps ==
  ASSUME TypeInv, LogInv, [Next]_vars, NEW t \in Tuples
  PROVE  /\ Holds(LaneOf[t], t)' => Holds(LaneOf[t], t) \/ Put(t)
         /\ Holds(LaneOf[t], t) => Holds(LaneOf[t], t)' \/ (Take(LaneOf[t]) /\ Get(LaneOf[t], t))
         /\ Put(t) => Holds(LaneOf[t], t)'
<1> PICK l : l = LaneOf[t]
  OBVIOUS
<1>0. l \in Lanes /\ t # Sentinel /\ BusTypeOK
  BY BusAssumption, CallTypes
<1>1. Holds(l, t)' => Holds(l, t) \/ Put(t)
  BY <1>0, LaneMoves DEF Holds, Grown, Shrunk
<1>2. Holds(l, t) => Holds(l, t)' \/ (Take(l) /\ Get(l, t))
  BY <1>0, LaneMoves DEF Holds, Grown, Shrunk
<1>3. Put(t) => Holds(l, t)'
  BY <1>0, PutTypes, EnqueueGrows DEF Holds, Grown
<1> QED BY <1>1, <1>2, <1>3

(* A tuple that is taken now is taken in this step, from its own lane.     *)
LEMMA TakenByGet ==
  ASSUME TypeInv, LogInv, [Next]_vars, NEW t \in Tuples, Taken(t)', ~Taken(t)
  PROVE  Take(LaneOf[t]) /\ Get(LaneOf[t], t)
<1>1. status'[t] \notin {"absent", "emitted"} /\ t \notin Due' /\ ~Holds(LaneOf[t], t)'
  BY DEF Taken
<1>2. CASE t \in Due
  <2>1. Put(t)
    BY <1>1, <1>2, DueSteps DEF Put
  <2> QED BY <1>1, <2>1, HoldsSteps
<1>3. CASE Holds(LaneOf[t], t)
  BY <1>1, <1>3, HoldsSteps
<1>4. CASE status[t] \in {"absent", "emitted"}
  <2>1. ASSUME NEW l \in Lanes, Take(l) PROVE Take(LaneOf[t]) /\ Get(LaneOf[t], t)
    <3> PICK u \in Tuples : Get(l, u) /\ status' = [status EXCEPT ![u] = "consumed"]
      BY <2>1 DEF Take
    <3>1. u = t
      BY <1>1, <1>4, CallTypes
    <3>2. LaneOf[u] = l
      BY GetHolds, CallTypes DEF LogInv, InOwnLane
    <3> QED BY <2>1, <3>1, <3>2
  <2>2. ASSUME NEW l \in Lanes, EndMarked(l) PROVE FALSE
    <3>1. worker[l] = "run" /\ status[hand[l]] = "consumed"
      BY <2>2 DEF EndMarked, LogInv, Marked
    <3>2. t = hand[l]
      BY <1>1, <1>4, <2>2, CallTypes DEF EndMarked
    <3> QED BY <1>4, <3>1, <3>2
  <2>3. ASSUME NEW l \in Lanes, ChildMarked(l) PROVE FALSE
    BY <1>1, <1>4, <2>3, CallTypes DEF ChildMarked, LogChild
  <2> QED BY <1>1, <1>4, <2>1, <2>2, <2>3, StatusSteps
<1> QED BY <1>2, <1>3, <1>4 DEF Taken

(* What a worker gets off its lane it has taken.                           *)
LEMMA GetTakes ==
  ASSUME TypeInv, LogInv, [Next]_vars, NEW l \in Lanes, NEW t \in Tuples, Take(l), Get(l, t)
  PROVE  Taken(t)' /\ worker'[l] = "run" /\ hand'[l] = t /\ LaneOf[t] = l
<1> PICK u \in Tuples : /\ Get(l, u) /\ hand' = [hand EXCEPT ![l] = u]
                        /\ status' = [status EXCEPT ![u] = "consumed"]
  BY DEF Take
<1>1. u = t
  BY DEF Get
<1>2. Holds(l, t) /\ BusTypeOK
  BY GetHolds, CallTypes
<1>3. LaneOf[t] = l /\ t \notin Due
  BY <1>2 DEF LogInv, InOwnLane, OnePlace, Elsewhere
<1>4. ~Holds(l, t)'
  BY <1>2, GetOnce DEF LogInv
<1>5. t \notin Due'
  BY <1>3, DueSteps
<1>6. status'[t] = "consumed" /\ hand'[l] = t
  BY <1>1, CallTypes
<1>7. worker'[l] = "run"
  BY CallTypes DEF Take
<1> QED BY <1>3, <1>4, <1>5, <1>6, <1>7 DEF Taken

(* A tuple that was taken is never put again in this call.                 *)
LEMMA KeepTaken ==
  ASSUME TypeInv, LogInv, PutEmitted, [Next]_vars, NEW t \in Tuples, Taken(t)
  PROVE  Taken(t)' /\ ~Put(t)
<1>1. status[t] \notin {"absent", "emitted"} /\ t \notin Due /\ ~Holds(LaneOf[t], t)
  BY DEF Taken
<1>2. status'[t] \notin {"absent", "emitted"} /\ t \notin Due'
  BY <1>1, StatusMoves, DueSteps
<1>3. ~Put(t)
  <2>1. ~(PublishSeed /\ t = seed[next])
    BY <1>1, DueSteps
  <2>2. ASSUME NEW m \in Lanes, Emit(m), t = Head(todo[m]) PROVE FALSE
    BY <1>1, <2>2, ChildFresh DEF Emit
  <2>3. ASSUME NEW m \in Lanes, PutResumes(m), t = Head(todo[m]) PROVE FALSE
    BY <1>1, <2>3 DEF PutResumes, PutEmitted
  <2> QED BY <2>1, <2>2, <2>3 DEF Put
<1> QED BY <1>1, <1>2, <1>3, HoldsSteps DEF Taken

(* A tuple that was published is not lost.                                 *)
LEMMA KeepReached ==
  ASSUME TypeInv, LogInv, PutEmitted, [Next]_vars, NEW t \in Tuples, Reached(t) \/ Put(t)
  PROVE  Reached(t)'
<1>1. CASE Taken(t)
  BY <1>1, KeepTaken DEF Reached
<1>2. CASE Put(t)
  BY <1>2, HoldsSteps DEF Reached
<1>3. CASE Holds(LaneOf[t], t)
  <2>1. LaneOf[t] \in Lanes
    BY BusAssumption
  <2> QED BY <1>3, <2>1, HoldsSteps, GetTakes DEF Reached
<1> QED BY <1>1, <1>2, <1>3 DEF Reached

(* A step of one worker leaves the others where they are.                  *)
LEMMA OthersStand ==
  ASSUME TypeInv, NEW l \in Lanes, Work(l) \/ LogWriteFails(l), NEW m \in Lanes, m # l
  PROVE  worker'[m] = worker[m] /\ hand'[m] = hand[m] /\ todo'[m] = todo[m]
<1>1. worker'[m] = worker[m]
  BY CallTypes DEF Work, Take, TakeSentinel, Fail, Complete, Emit, EmitBlocks, PutResumes,
           EmitOnClosed, Handled, LogWriteFails, Return, Die
<1>2. hand'[m] = hand[m]
  BY CallTypes DEF Work, Take, TakeSentinel, Fail, Complete, Emit, EmitBlocks, PutResumes,
           EmitOnClosed, Handled, LogWriteFails, Return, Die, busVars
<1>3. todo'[m] = todo[m]
  BY CallTypes DEF Work, Take, TakeSentinel, Fail, Complete, Emit, EmitBlocks, PutResumes,
           EmitOnClosed, Handled, LogWriteFails, Return, Die, busVars
<1> QED BY <1>1, <1>2, <1>3

(* What a step does to the worker of one lane.                             *)
LEMMA WorkerSteps ==
  ASSUME TypeInv, [Next]_vars, NEW m \in Lanes
  PROVE  \/ worker'[m] = worker[m] /\ hand'[m] = hand[m] /\ todo'[m] = todo[m]
         \/ worker[m] = "new" /\ worker'[m] = "get"
         \/ Work(m) \/ LogWriteFails(m)
<1>1. CASE Main \/ UNCHANGED vars
  BY <1>1 DEF Main, PublishSeed, SeedPublished, Drain, CloseLane, CloseDone, WorkersGathered, vars, poolVars
<1>2. CASE StartWorker
  <2>1. started + 1 \in DOMAIN Pool /\ Pool[started + 1] \in Lanes
    BY <1>2, PoolAssumption DEF StartWorker, TypeInv, TypeOK
  <2>2. worker[Pool[started + 1]] = "new"
    BY <2>1, PoolAssumption DEF TypeInv, TypeOK, NotStarted
  <2> QED BY <1>2, <2>1, <2>2, CallTypes DEF StartWorker
<1>3. ASSUME NEW l \in Lanes, Work(l) \/ LogWriteFails(l), l # m
      PROVE  worker'[m] = worker[m] /\ hand'[m] = hand[m] /\ todo'[m] = todo[m]
  BY <1>3, OthersStand
<1> QED BY <1>1, <1>2, <1>3 DEF Next

(* A worker that has died stays dead.                                      *)
LEMMA KeepDead ==
  ASSUME TypeInv, [Next]_vars, NEW m \in Lanes, worker[m] = "dead"
  PROVE  worker'[m] = "dead"
BY WorkerSteps DEF Work, Take, TakeSentinel, Fail, Complete, Emit, EmitBlocks, PutResumes,
           EmitOnClosed, Handled, LogWriteFails

(* What stops an item stops it for good.                                   *)
LEMMA KeepStopped ==
  ASSUME TypeInv, LogInv, [Next]_vars, NEW item, \A l \in Manned : T(item, l) \in Tuples,
         NEW lane, Stopped(item, lane)
  PROVE  Stopped(item, lane)'
<1> PICK i, j \in DOMAIN Pool :
      /\ i < j /\ Pool[j] = lane
      /\ status[T(item, Pool[i])] \in {"err", "err.budget"} \/ worker[Pool[i]] = "dead"
  BY DEF Stopped
<1> PICK m : m = Pool[i]
  OBVIOUS
<1>1. m \in Lanes /\ T(item, m) \in Tuples
  BY PoolLanes DEF Manned
<1>2. status'[T(item, m)] \in {"err", "err.budget"} \/ worker'[m] = "dead"
  BY <1>1, StatusMoves, KeepDead
<1> QED BY <1>2 DEF Stopped

(* What a tuple that was taken became of it stays so, or goes on.          *)
LEMMA SettledNext ==
  ASSUME TypeInv, LogInv, FlowInv, [Next]_vars
  PROVE  Settled'
<1> SUFFICES ASSUME NEW t \in Tuples, Taken(t)'
             PROVE  \/ worker'[LaneOf[t]] \in Busy /\ hand'[LaneOf[t]] = t
                    \/ status'[t] \in {"err", "err.budget"} \/ worker'[LaneOf[t]] = "dead"
                    \/ \A k \in DOMAIN FollowUps[t] : Reached(FollowUps[t][k])'
  BY DEF Settled
<1> PICK l : l = LaneOf[t]
  OBVIOUS
<1>1. l \in Lanes
  BY BusAssumption
<1>2. CASE ~Taken(t)
  BY <1>1, <1>2, TakenByGet, GetTakes DEF Busy
<1>3. ASSUME \A k \in DOMAIN FollowUps[t] : Reached(FollowUps[t][k])
      PROVE  \A k \in DOMAIN FollowUps[t] : Reached(FollowUps[t][k])'
  <2> SUFFICES ASSUME NEW k \in DOMAIN FollowUps[t] PROVE Reached(FollowUps[t][k])'
    OBVIOUS
  <2> PICK u : u = FollowUps[t][k]
    OBVIOUS
  <2>1. u \in Tuples
    BY CallTypes
  <2>2. Reached(u)'
    BY <1>3, <2>1, KeepReached DEF FlowInv
  <2> QED BY <2>2
<1>4. CASE status[t] \in {"err", "err.budget"} \/ worker[l] = "dead"
  BY <1>1, <1>4, StatusMoves, KeepDead
<1>5. CASE worker[l] \in Busy /\ hand[l] = t
  <2>1. CASE worker'[l] = worker[l] /\ hand'[l] = hand[l]
    BY <1>5, <2>1
  <2>2. CASE Fail(l)
    <3>1. \E err \in {"err", "err.budget"} : status' = [status EXCEPT ![t] = err]
      BY <1>5, <2>2 DEF Fail
    <3> QED BY <3>1, CallTypes
  <2>3. CASE Complete(l) \/ Emit(l) \/ EmitBlocks(l) \/ PutResumes(l)
    <3>1. worker'[l] \in Busy /\ hand'[l] = hand[l]
      BY <1>1, <1>5, <2>3, CallTypes DEF Complete, Emit, EmitBlocks, PutResumes, Busy
    <3> QED BY <1>5, <3>1
  <2>4. CASE EmitOnClosed(l) \/ LogWriteFails(l)
    <3>1. worker'[l] = "dead"
      BY <1>1, <2>4, CallTypes DEF EmitOnClosed, LogWriteFails, Die
    <3> QED BY <3>1
  <2>5. CASE Handled(l)
    <3>1. worker[l] \in Emitting /\ todo[l] = <<>>
      BY <2>5 DEF Handled, Emitting
    <3>2. \A k \in DOMAIN FollowUps[t] : Reached(FollowUps[t][k])
      BY <1>1, <1>5, <3>1 DEF FlowInv, Handing
    <3> QED BY <1>3, <3>2
  <2>6. CASE Take(l) \/ TakeSentinel(l)
    BY <1>5, <2>6 DEF Take, TakeSentinel, Busy
  <2> QED BY <1>1, <1>5, <2>1, <2>2, <2>3, <2>4, <2>5, <2>6, WorkerSteps DEF Work, Busy
<1> QED BY <1>2, <1>3, <1>4, <1>5 DEF FlowInv, Settled

(* No follow-up of a tuple in hand is forgotten.                           *)
LEMMA HandingNext ==
  ASSUME TypeInv, LogInv, FlowInv, [Next]_vars
  PROVE  Handing'
<1> SUFFICES ASSUME NEW l \in Lanes, worker'[l] \in Emitting, NEW h, h = hand'[l],
                    NEW k \in DOMAIN FollowUps[h], NEW u, u = FollowUps[h][k]
             PROVE  Reached(u)' \/ \E n \in DOMAIN todo'[l] : todo'[l][n] = u
  BY DEF Handing
<1>1. ASSUME worker[l] \in Emitting, hand'[l] = hand[l]
      PROVE  /\ h \in Tuples /\ u \in Tuples
             /\ Reached(u) \/ \E n \in DOMAIN todo[l] : todo[l][n] = u
  <2>1. h \in Tuples
    BY <1>1, CallTypes DEF Emitting, Busy
  <2> QED BY <1>1, <2>1, CallTypes DEF FlowInv, Handing
<1>2. CASE worker'[l] = worker[l] /\ hand'[l] = hand[l] /\ todo'[l] = todo[l]
  BY <1>1, <1>2, KeepReached DEF FlowInv
<1>3. CASE EmitBlocks(l)
  <2>1. worker[l] \in Emitting /\ hand'[l] = hand[l] /\ todo'[l] = todo[l]
    BY <1>3 DEF EmitBlocks, Emitting
  <2> QED BY <1>1, <2>1, KeepReached DEF FlowInv
<1>4. CASE Complete(l)
  <2>1. hand'[l] = hand[l] /\ todo'[l] = FollowUps[hand[l]]
    BY <1>4, CallTypes DEF Complete
  <2> QED BY <2>1
<1>5. CASE Emit(l) \/ PutResumes(l)
  <2>1. worker[l] \in Emitting /\ hand'[l] = hand[l] /\ todo'[l] = Tail(todo[l]) /\ todo[l] # <<>>
        /\ todo[l] \in Seq(Tuples)
    BY <1>5, CallTypes DEF Emit, PutResumes, Emitting
  <2>2. Put(Head(todo[l]))
    BY <1>5 DEF Put
  <2>3. ASSUME NEW n \in DOMAIN todo[l], todo[l][n] = u
        PROVE  u = Head(todo[l]) \/ \E m \in DOMAIN todo'[l] : todo'[l][m] = u
    <3>1. /\ DOMAIN todo[l] = 1..Len(todo[l]) /\ Len(todo[l]) \in Nat
          /\ DOMAIN todo'[l] = 1..(Len(todo[l]) - 1) /\ Head(todo[l]) = todo[l][1]
          /\ \A i \in 1..(Len(todo[l]) - 1) : todo'[l][i] = todo[l][i + 1]
      BY <2>1
    <3>2. CASE n = 1
      BY <2>3, <3>1, <3>2
    <3>3. CASE n # 1
      <4>1. n - 1 \in 1..(Len(todo[l]) - 1) /\ (n - 1) + 1 = n
        BY <3>1, <3>3
      <4>2. todo'[l][n - 1] = todo[l][(n - 1) + 1]
        BY <3>1, <4>1
      <4> QED BY <2>3, <3>1, <4>1, <4>2
    <3> QED BY <3>2, <3>3
  <2>4. u \in Tuples /\ (Reached(u) \/ u = Head(todo[l]) \/ \E m \in DOMAIN todo'[l] : todo'[l][m] = u)
    BY <1>1, <2>1, <2>3
  <2> QED BY <2>2, <2>4, KeepReached DEF FlowInv
<1>6. CASE Take(l) \/ TakeSentinel(l) \/ Fail(l) \/ EmitOnClosed(l) \/ Handled(l) \/ LogWriteFails(l)
  <2>1. worker'[l] \in {"run", "done", "get", "dead"}
    BY <1>6, CallTypes DEF Take, TakeSentinel, Fail, EmitOnClosed, Handled, LogWriteFails, Return, Die
  <2> QED BY <2>1 DEF Emitting
<1>7. CASE worker[l] = "new" /\ worker'[l] = "get"
  BY <1>7 DEF Emitting
<1> QED BY <1>2, <1>3, <1>4, <1>5, <1>6, <1>7, WorkerSteps DEF Work

(* Every tuple of the seed before the next one was published.              *)
LEMMA SeedReachedNext ==
  ASSUME TypeInv, LogInv, FlowInv, [Next]_vars
  PROVE  SeedReached'
<1>1. seed' = seed /\ seed \in Seq(Tuples) /\ next \in Nat
  BY PipelinedNext, CallTypes
<1> SUFFICES ASSUME NEW i \in DOMAIN seed, i < next', NEW t, t = seed[i] PROVE Reached(t)'
  BY <1>1 DEF SeedReached
<1>2. t \in Tuples /\ i \in Nat
  BY <1>1
<1>3. next' = next \/ (PublishSeed /\ next' = next + 1)
  BY QueueMoves DEF Take, Emit, PutResumes, PublishSeed
<1>4. i < next \/ (PublishSeed /\ i = next)
  BY <1>1, <1>2, <1>3
<1>5. Reached(t) \/ Put(t)
  BY <1>4 DEF FlowInv, SeedReached, Put
<1> QED BY <1>2, <1>5, KeepReached DEF FlowInv

(* What a worker's step writes in the log.                                 *)
LEMMA WorkWrites ==
  ASSUME NEW l \in Lanes, Work(l) \/ LogWriteFails(l)
  PROVE  Take(l) \/ EndMarked(l) \/ ChildMarked(l) \/ status' = status
BY DEF Work, Take, TakeSentinel, Fail, Complete, Emit, EmitBlocks, PutResumes,
       EmitOnClosed, Handled, LogWriteFails, EndMarked, ChildMarked, Final

(* A tuple whose put is suspended keeps its first marker.                  *)
LEMMA PutEmittedNext ==
  ASSUME TypeInv, LogInv, FlowInv, [Next]_vars
  PROVE  PutEmitted'
<1> SUFFICES ASSUME NEW m \in Lanes, worker'[m] = "put" PROVE status'[Head(todo'[m])] = "emitted"
  BY DEF PutEmitted
<1>1. CASE EmitBlocks(m)
  <2>1. Head(todo[m]) \in Tuples /\ todo' = todo /\ LogChild(m)
    BY <1>1, ChildFresh DEF EmitBlocks
  <2> QED BY <2>1, CallTypes DEF LogChild
<1>2. CASE worker'[m] = worker[m] /\ todo'[m] = todo[m]
  <2> PICK c : c = Head(todo[m])
    OBVIOUS
  <2>1. worker[m] = "put" /\ status[c] = "emitted" /\ Head(todo'[m]) = c
    BY <1>2 DEF FlowInv, PutEmitted
  <2>2. ASSUME NEW l \in Lanes, Take(l) PROVE status'[c] = status[c]
    <3> PICK u \in Tuples : Get(l, u) /\ status' = [status EXCEPT ![u] = "consumed"]
      BY <2>2 DEF Take
    <3>1. Holds(l, u) /\ ~Holds(l, c)
      BY <2>1, GetHolds, CallTypes DEF LogInv, OnePlace, Elsewhere
    <3> QED BY <3>1, CallTypes
  <2>3. ASSUME NEW l \in Lanes, EndMarked(l) \/ ChildMarked(l) PROVE status'[c] = status[c]
    <3>1. l # m
      BY <2>1, <2>3 DEF EndMarked, ChildMarked
    <3> QED BY <2>1, <2>3, <3>1, OthersMarked
  <2> QED BY <2>1, <2>2, <2>3, StatusSteps
<1>3. CASE (Work(m) \/ LogWriteFails(m)) /\ ~EmitBlocks(m)
  <2>1. worker'[m] # "put"
    BY <1>3, CallTypes DEF Work, Take, TakeSentinel, Fail, Complete, Emit, PutResumes,
           EmitOnClosed, Handled, LogWriteFails, Return, Die
  <2> QED BY <2>1
<1> QED BY <1>1, <1>2, <1>3, WorkerSteps

(* Together: no tuple that was published is lost on its way.               *)
LEMMA FlowInvNext == TypeInv /\ LogInv /\ FlowInv /\ [Next]_vars => FlowInv'
BY SettledNext, HandingNext, SeedReachedNext, PutEmittedNext DEF FlowInv

(* The tuples of a pipelined call go from lane to lane with their item.    *)
LEMMA ItemsMove ==
  ASSUME Itemised, NEW p \in Tuples, NEW k \in DOMAIN FollowUps[p]
  PROVE  /\ p = T(p[1], LaneOf[p]) /\ FollowUps[p][k] \in Tuples
         /\ FollowUps[p][k] = T(p[1], LaneOf[FollowUps[p][k]])
<1>1. FollowUps[p] \in Seq(Tuples)
  BY PoolAssumption
<1>2. FollowUps[p][k] \in Tuples
  BY <1>1
<1> QED BY <1>2 DEF Itemised

(* A tuple of an item and a lane has this lane.                            *)
LEMMA LaneOfT ==
  ASSUME Itemised, NEW x, NEW l, T(x, l) \in Tuples
  PROVE  LaneOf[T(x, l)] = l
BY DEF Itemised, T

(* The order at one lane survives a step that puts b only after a.         *)
LEMMA BeforeKept ==
  ASSUME TypeInv, LogInv, FlowInv, [Next]_vars, NEW l \in Lanes,
         NEW a \in Tuples, NEW b \in Tuples, LaneOf[a] = l, LaneOf[b] = l,
         Before(l, a, b), Put(b) => Reached(a)
  PROVE  Before(l, a, b)'
<1> SUFFICES ASSUME ~Taken(a)'
             PROVE  /\ ~Taken(b)'
                    /\ \A n \in DOMAIN queue'[l] : queue'[l][n] = b =>
                         \E m \in DOMAIN queue'[l] : m < n /\ queue'[l][m] = a
  BY DEF Before
<1> PICK q : q = queue[l]
  OBVIOUS
<1> PICK r : r = queue'[l]
  OBVIOUS
<1>0. /\ q \in Seq(Tuples \cup {Sentinel}) /\ DOMAIN q \subseteq Nat \ {0}
      /\ a # Sentinel /\ b # Sentinel
  <2>1. q \in Seq(Tuples \cup {Sentinel})
    BY CallTypes DEF BusTypeOK
  <2> QED BY <2>1, BusAssumption
<1>1. ~Taken(a)
  BY KeepTaken DEF FlowInv
<1>2. ~Taken(b) /\ \A n \in DOMAIN q : q[n] = b => \E m \in DOMAIN q : m < n /\ q[m] = a
  BY <1>1 DEF Before
<1>3. ~(Take(l) /\ Get(l, b))
  <2> SUFFICES ASSUME Get(l, b) PROVE FALSE
    OBVIOUS
  <2>1. 1 \in DOMAIN q /\ q[1] = b
    BY <1>0 DEF Get
  <2> QED BY <1>0, <1>2, <2>1
<1>4. ~Taken(b)'
  BY <1>2, <1>3, TakenByGet
<1>5. ~(Take(l) /\ Get(l, a))
  BY GetTakes
<1>6. ASSUME Grown(q, r, Sentinel) \/ (Put(b) /\ Grown(q, r, b)) \/ \E t \in Tuples \ {b} : Grown(q, r, t),
             NEW n \in DOMAIN r, r[n] = b
      PROVE  \E m \in DOMAIN r : m < n /\ r[m] = a
  <2>1. CASE n \in DOMAIN q /\ q[n] = b
    <3> PICK m \in DOMAIN q : m < n /\ q[m] = a
      BY <1>2, <2>1
    <3> QED BY <1>6 DEF Grown
  <2>2. CASE Put(b) /\ Grown(q, r, b) /\ n \notin DOMAIN q
    <3>1. \E m \in DOMAIN q : q[m] = a
      BY <1>1, <2>2 DEF Reached, Holds
    <3> QED BY <2>2, <3>1 DEF Grown
  <2> QED BY <1>0, <1>6, <2>1, <2>2 DEF Grown
<1>7. ASSUME NEW item, Shrunk(q, r, item), item # a, NEW n \in DOMAIN r, r[n] = b
      PROVE  \E m \in DOMAIN r : m < n /\ r[m] = a
  <2>1. n + 1 \in DOMAIN q /\ q[n + 1] = b /\ n \in Nat
    BY <1>7 DEF Shrunk
  <2> PICK m \in DOMAIN q : m < n + 1 /\ q[m] = a
    BY <1>2, <2>1
  <2>2. m # 1 /\ m \in Nat \ {0}
    BY <1>0, <1>7 DEF Shrunk
  <2>3. m - 1 \in DOMAIN r /\ r[m - 1] = a
    BY <1>7, <2>2 DEF Shrunk
  <2>4. m - 1 < n
    BY <2>1, <2>2
  <2> QED BY <2>3, <2>4
<1>8. \A n \in DOMAIN r : r[n] = b => \E m \in DOMAIN r : m < n /\ r[m] = a
  <2>1. \/ r = q \/ Grown(q, r, Sentinel)
        \/ \E t \in Tuples : Put(t) /\ LaneOf[t] = l /\ Grown(q, r, t)
        \/ Shrunk(q, r, Sentinel)
        \/ \E t \in Tuples : Take(l) /\ Get(l, t) /\ Shrunk(q, r, t)
    BY LaneMoves
  <2>2. CASE r = q
    BY <1>2, <2>2
  <2>3. CASE Grown(q, r, Sentinel) \/ \E t \in Tuples : Put(t) /\ Grown(q, r, t)
    BY <1>6, <2>3
  <2>4. CASE Shrunk(q, r, Sentinel)
    BY <1>0, <1>7, <2>4
  <2>5. CASE \E t \in Tuples : Take(l) /\ Get(l, t) /\ Shrunk(q, r, t)
    <3> PICK t \in Tuples : Take(l) /\ Get(l, t) /\ Shrunk(q, r, t)
      BY <2>5
    <3>1. t # a
      BY <1>5
    <3> QED BY <1>7, <3>1
  <2> QED BY <2>1, <2>2, <2>3, <2>4, <2>5
<1> QED BY <1>4, <1>8

(* The second item comes to a lane only after the first, or the first      *)
(* cannot get there: its tuple at the lane before was taken earlier, and   *)
(* either failed, or left its follow-up behind.                            *)
LEMMA PutAfter ==
  ASSUME TypeInv, LogInv, FlowInv, Pipelined, Itemised, InOrder, [Next]_vars,
         NEW i \in DOMAIN seed, NEW j \in DOMAIN seed, i < j,
         NEW x, x = seed[i][1], NEW y, y = seed[j][1], Alike(x, y),
         NEW l \in Manned, Put(T(y, l)), ~Stopped(x, l)
  PROVE  Reached(T(x, l))
<1> PICK b : b = T(y, l)
  OBVIOUS
<1>0. /\ seed \in Seeds /\ seed \in Seq(Tuples) /\ next \in Nat
      /\ \A n \in Manned : T(x, n) \in Tuples /\ T(y, n) \in Tuples /\ n \in Lanes
  BY CallTypes, PoolLanes DEF Alike, Manned
<1>1. LaneOf[b] = l /\ b \in Tuples
  BY <1>0, LaneOfT
<1>2. /\ Pool # <<>> /\ Pool[1] \in Manned
      /\ \A n \in DOMAIN seed : seed[n] \in Tuples /\ seed[n] = T(seed[n][1], Pool[1])
  <2>1. Pool # <<>> /\ \A n \in DOMAIN seed : LaneOf[seed[n]] = Pool[1]
    BY DEF Pipelined, SeedsAtHead, SeedSet
  <2>2. \A n \in DOMAIN seed : seed[n] \in Tuples
    BY <1>0
  <2>3. 1 \in DOMAIN Pool
    BY <2>1, PoolAssumption
  <2> QED BY <2>1, <2>2, <2>3 DEF Itemised, Manned
<1>3. x # y
  <2>1. x = y => seed[i] = seed[j]
    BY <1>2
  <2>2. seed[i] = seed[j] => i = j
    BY <1>0, FreshIds
  <2>3. i # j
    BY <1>0
  <2> QED BY <2>1, <2>2, <2>3
<1>4. CASE PublishSeed /\ b = seed[next]
  <2>1. next \in DOMAIN seed
    BY <1>0, <1>4, CallTypes DEF PublishSeed
  <2>2. l = Pool[1]
    BY <1>1, <1>2, <1>4, <2>1 DEF Pipelined, SeedsAtHead, SeedSet
  <2>3. seed[j] = b /\ seed[i] = T(x, l)
    BY <1>2, <2>2
  <2>4. j = next
    BY <1>0, <1>4, <2>1, <2>3, FreshIds
  <2> QED BY <2>3, <2>4 DEF FlowInv, SeedReached
<1>5. ASSUME NEW m \in Lanes, Emit(m) \/ PutResumes(m), b = Head(todo[m])
      PROVE  Reached(T(x, l))
  <2> PICK h : h = hand[m]
    OBVIOUS
  <2>1. worker[m] \in Emitting /\ worker[m] \in Busy /\ todo[m] # <<>> /\ todo[m] \in Seq(Tuples)
    BY <1>5, CallTypes DEF Emit, PutResumes, Emitting, Busy
  <2>2. 1 \in DOMAIN todo[m] /\ todo[m][1] = b
    BY <1>5, <2>1
  <2>3. h \in Tuples /\ LaneOf[h] = m /\ status[h] = "completed" /\ m \in Manned
    <3>1. h \in Tuples /\ LaneOf[h] = m
      BY <2>1, CallTypes DEF LogInv, InOwnLane
    <3>2. status[h] = "completed"
      BY <2>1 DEF LogInv, Marked
    <3>3. worker[m] # "new"
      BY <2>1 DEF Busy
    <3>4. m \in Manned
      BY <3>3 DEF LogInv, PoolWorks, Manned
    <3> QED BY <3>1, <3>2, <3>4
  <2> PICK k \in DOMAIN FollowUps[h] : FollowUps[h][k] = b
    BY <2>2 DEF LogInv, TodoFresh
  <2>4. h = T(y, m)
    BY <1>0, <2>3, ItemsMove DEF T
  <2>5. Taken(h)
    BY <2>1, <2>3, HandApart DEF Taken
  <2> PICK c \in DOMAIN Pool : m = Pool[c] /\ \E d \in DOMAIN Pool : c < d /\ l = Pool[d]
    BY <1>1, <2>3 DEF Pipelined, FlowsForward
  <2>6. PICK d \in DOMAIN Pool : c < d /\ l = Pool[d]
    OBVIOUS
  <2>7. ~Stopped(x, m)
    <3> SUFFICES ASSUME NEW e \in DOMAIN Pool, NEW f \in DOMAIN Pool, e < f, Pool[f] = m,
                        status[T(x, Pool[e])] \in {"err", "err.budget"} \/ worker[Pool[e]] = "dead"
                 PROVE  FALSE
      BY DEF Stopped
    <3>1. f = c
      BY PoolAssumption
    <3>2. e < d
      BY <2>6, <3>1, PoolAssumption
    <3> QED BY <2>6, <3>2 DEF Stopped
  <2> PICK p : p = T(x, m)
    OBVIOUS
  <2>8. p \in Tuples /\ LaneOf[p] = m /\ p[1] = x
    BY <1>0, <2>3, LaneOfT DEF T
  <2>9. Taken(p)
    <3>1. Stopped(x, m) \/ Before(m, p, h)
      BY <2>3, <2>4 DEF InOrder
    <3> QED BY <2>5, <2>7, <3>1 DEF Before
  <2>10. p # h
    BY <1>3, <2>4 DEF T
  <2>11. worker[m] # "dead" /\ status[p] \notin {"err", "err.budget"}
    BY <2>1, <2>6 DEF Stopped, Busy
  <2>12. \A n \in DOMAIN FollowUps[p] : Reached(FollowUps[p][n])
    BY <2>8, <2>9, <2>10, <2>11 DEF FlowInv, Settled
  <2>13. k \in DOMAIN FollowUps[p] /\ LaneOf[FollowUps[p][k]] = l
    BY <1>1, <2>3, <2>4 DEF Alike
  <2>14. FollowUps[p][k] = T(x, l)
    BY <2>8, <2>13, ItemsMove
  <2> QED BY <2>12, <2>13, <2>14
<1> QED BY <1>4, <1>5 DEF Put

(* So the order of a sprint is inductive.                                  *)
LEMMA OrderInvNext ==
  ASSUME TypeInv, LogInv, FlowInv, OrderInv, [Next]_vars
  PROVE  OrderInv'
<1>1. seed' = seed /\ (Pipelined' <=> Pipelined)
  BY PipelinedNext
<1> SUFFICES ASSUME Pipelined, Itemised, InOrder,
                    NEW i \in DOMAIN seed, NEW j \in DOMAIN seed, i < j,
                    NEW x, x = seed[i][1], NEW y, y = seed[j][1], Alike(x, y), NEW l \in Manned
             PROVE  Stopped(x, l)' \/ Before(l, T(x, l), T(y, l))'
  BY <1>1 DEF OrderInv, InOrder
<1> PICK a : a = T(x, l)
  OBVIOUS
<1> PICK b : b = T(y, l)
  OBVIOUS
<1>2. a \in Tuples /\ b \in Tuples /\ LaneOf[a] = l /\ LaneOf[b] = l /\ l \in Lanes
  BY LaneOfT, PoolLanes DEF Alike, Manned
<1>3. CASE Stopped(x, l)
  <2>1. \A m \in Manned : T(x, m) \in Tuples
    BY DEF Alike
  <2> QED BY <1>3, <2>1, KeepStopped
<1>4. CASE ~Stopped(x, l)
  <2>1. Before(l, a, b)
    BY <1>4 DEF InOrder
  <2>2. Put(b) => Reached(a)
    BY <1>4, PutAfter
  <2>3. Before(l, a, b)'
    BY <1>2, <2>1, <2>2, BeforeKept
  <2> QED BY <2>3
<1> QED BY <1>3, <1>4

(* Nothing was taken when the pool is called.                              *)
LEMMA OrderInvInit == Init => FlowInv /\ OrderInv
<1> SUFFICES ASSUME Init PROVE FlowInv /\ OrderInv
  OBVIOUS
<1>1. seed \in Seq(Tuples) /\ next = 1
  BY PoolAssumption DEF Init
<1>2. \A t \in Tuples : ~Taken(t)
  <2> SUFFICES ASSUME NEW t \in Tuples, t \in SeedSet PROVE t \in Due
    BY DEF Init, Taken
  <2> QED BY <1>1 DEF SeedSet, Due
<1>3. FlowInv
  <2>1. SeedReached
    BY <1>1 DEF SeedReached
  <2>2. Handing /\ PutEmitted
    BY DEF Init, Handing, PutEmitted, Emitting
  <2> QED BY <1>2, <2>1, <2>2 DEF FlowInv, Settled
<1>4. OrderInv
  <2> SUFFICES ASSUME NEW l \in Manned, NEW a \in Tuples, NEW b \in Tuples PROVE Before(l, a, b)
    BY DEF OrderInv, InOrder, Alike
  <2>1. queue[l] = <<>>
    BY PoolLanes DEF Init, BusInit, Manned
  <2> QED BY <1>2, <2>1 DEF Before
<1> QED BY <1>3, <1>4

(* One worker per lane keeps the order of the sprint, whatever the pool,   *)
(* the capacity of its lanes, the follow-ups and the seed: of two items    *)
(* that go through the same lanes the second is not taken at a lane before *)
(* the first, unless the first failed or a worker died on the way there    *)
(* (workers.py:67-123, bus.py:33-55).                                      *)
THEOREM InSprintOrderKept == Spec => []InSprintOrder
<1>1. Init => TypeInv /\ LogInv /\ FlowInv /\ OrderInv
  BY TypeInvInit, LogInvInit, OrderInvInit
<1>2. TypeInv /\ LogInv /\ FlowInv /\ OrderInv /\ [Next]_vars
        => (TypeInv /\ LogInv /\ FlowInv /\ OrderInv)'
  BY TypeInvNext, LogInvNext, FlowInvNext, OrderInvNext
<1>3. OrderInv => InSprintOrder
  <2> SUFFICES ASSUME InOrder, Pipelined, Itemised, NEW i \in DOMAIN seed, NEW j \in DOMAIN seed, i < j,
                      Alike(seed[i][1], seed[j][1]), NEW l \in Manned, Taken(T(seed[j][1], l))
               PROVE  Taken(T(seed[i][1], l)) \/ Stopped(seed[i][1], l)
    BY DEF OrderInv, InSprintOrder
  <2> QED BY DEF InOrder, Before
<1> QED BY <1>1, <1>2, <1>3, PTL DEF Spec
===============================================================================
