------------------------------- MODULE TupleBus -------------------------------
(***************************************************************************)
(* The in-process bus of src/sendsprint/yool/bus.py: named lanes, each a   *)
(* bounded asyncio.Queue that is created the first time it is named, and a *)
(* close that leaves one sentinel in every lane that exists.  The lanes    *)
(* are kept in creation order, because drain walks the dict in that order. *)
(* The operators below are parts of actions: WorkerPool composes them with *)
(* the coroutines that call the bus.                                       *)
(***************************************************************************)
EXTENDS Naturals, Sequences

CONSTANTS
  Lanes,      \* lane names
  Tuples,     \* tuple ids; every tuple has one lane
  LaneOf,     \* the lane field of each tuple
  MaxSize,    \* capacity of each lane
  Sentinel    \* the object that tells a subscriber to stop

ASSUME BusAssumption ==
  /\ LaneOf \in [Tuples -> Lanes]
  /\ MaxSize \in Nat \ {0}
  /\ Sentinel \notin Tuples

VARIABLES
  lanes,       \* the keys of _lanes, in creation order
  queue,       \* the waiting items of each lane
  unfinished,  \* asyncio's count of items put and not yet marked done
  closed       \* _closed

busVars == <<lanes, queue, unfinished, closed>>

BusTypeOK ==
  /\ lanes \in Seq(Lanes)
  /\ queue \in [Lanes -> Seq(Tuples \cup {Sentinel})]
  /\ unfinished \in [Lanes -> Nat]
  /\ closed \in BOOLEAN

BusInit ==
  /\ lanes = <<>>
  /\ queue = [l \in Lanes |-> <<>>]
  /\ unfinished = [l \in Lanes |-> 0]
  /\ closed = FALSE

Created == {lanes[i] : i \in DOMAIN lanes}

Full(l) == Len(queue[l]) >= MaxSize

(* _queue: look the lane up, creating it at the end of the dict.           *)
Open(l) == lanes' = IF l \in Created THEN lanes ELSE Append(lanes, l)

(* Queue.put_nowait on a lane with room: the item waits, one more is       *)
(* unfinished.                                                             *)
Enqueue(l, item) ==
  /\ ~Full(l)
  /\ queue' = [queue EXCEPT ![l] = Append(@, item)]
  /\ unfinished' = [unfinished EXCEPT ![l] = @ + 1]

(* publish(tup) once the closed check has passed.                          *)
Publish(t) ==
  /\ Open(LaneOf[t])
  /\ Enqueue(LaneOf[t], t)
  /\ UNCHANGED closed

(* subscribe: queue.get() of the item at the head.                         *)
Get(l, item) ==
  /\ queue[l] # <<>>
  /\ item = Head(queue[l])
  /\ queue' = [queue EXCEPT ![l] = Tail(@)]

(* Mutant of TaskDone: also called after the body of the loop.             *)
TaskDoneTwice(l) == unfinished' = [unfinished EXCEPT ![l] = @ - 2]

(* The finally clause of subscribe.                                        *)
TaskDone(l) == unfinished' = [unfinished EXCEPT ![l] = @ - 1]

(* One lane of the loop in close.                                          *)
PutSentinel(l) ==
  /\ Enqueue(l, Sentinel)
  /\ UNCHANGED <<lanes, closed>>

(* The lanes of a drain pass over the first n that still have work.        *)
Unjoined(from, n) == {i \in from..n : unfinished[lanes[i]] > 0}
===============================================================================
