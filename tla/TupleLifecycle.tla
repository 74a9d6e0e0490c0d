---------------------------- MODULE TupleLifecycle ----------------------------
(***************************************************************************)
(* What a reader of the tuple log may rely on, whatever the bus does: a    *)
(* tuple is emitted once, consumed, and finished once; a follow-up is      *)
(* emitted only after its parent completed; and nothing moves any more     *)
(* when the pool has returned.                                             *)
(***************************************************************************)
EXTENDS Naturals, Sequences

CONSTANTS Tuples, FollowUps

VARIABLES status, idle

Init ==
  /\ status \in [Tuples -> {"absent", "emitted", "consumed"}]
  /\ idle = FALSE

Move(t, from, to) ==
  /\ ~idle
  /\ status[t] = from
  /\ status' = [status EXCEPT ![t] = to]
  /\ UNCHANGED idle

Consume(t) == Move(t, "emitted", "consumed")

Finish(t) == \E s \in {"completed", "err", "err.budget"} : Move(t, "consumed", s)

Spawn(parent, t) ==
  /\ status[parent] = "completed"
  /\ \E k \in DOMAIN FollowUps[parent] : FollowUps[parent][k] = t
  /\ Move(t, "absent", "emitted")

GoIdle == ~idle /\ idle' = TRUE /\ UNCHANGED status

Next ==
  \/ \E t \in Tuples : Consume(t) \/ Finish(t)
  \/ \E parent, t \in Tuples : Spawn(parent, t)
  \/ GoIdle

Spec == Init /\ [][Next]_<<status, idle>>
===============================================================================
