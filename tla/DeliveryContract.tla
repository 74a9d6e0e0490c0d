--------------------------- MODULE DeliveryContract ---------------------------
(***************************************************************************)
(* What the delivery of one work item promises of its effects outside the  *)
(* working tree: each only at a level of autonomy that allows it, each     *)
(* only after the one it builds on, and none taken back.                   *)
(***************************************************************************)
EXTENDS Naturals

CONSTANTS
  Effects,  \* of a delivery
  Rank,     \* of each effect: the lowest level that allows it, a number
  Needs     \* of each effect: the set of effects it builds on

VARIABLES
  granted,  \* rank of the level of the present run
  done      \* effects so far

ContractInit == granted \in Nat /\ done = {}

Advance(e) ==
  /\ Rank[e] <= granted
  /\ Needs[e] \subseteq done
  /\ done' = done \cup {e}
  /\ UNCHANGED granted

Grant == granted' \in Nat /\ UNCHANGED done

ContractNext == Grant \/ \E e \in Effects : Advance(e)

Contract == ContractInit /\ [][ContractNext]_<<granted, done>>
===============================================================================
