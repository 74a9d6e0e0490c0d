----------------------------- MODULE Subsequences -----------------------------
(***************************************************************************)
(* What a list comprehension with a condition makes of a list.             *)
(***************************************************************************)
EXTENDS Naturals, Sequences

(* Picking(s, K)[n]: the elements of s at the positions in K up to n.      *)
Picking(s, K) ==
  LET upTo[n \in 0..Len(s)] ==
        IF n = 0 THEN <<>>
        ELSE IF n \in K THEN Append(upTo[n - 1], s[n]) ELSE upTo[n - 1]
  IN upTo

Picked(s, K) == Picking(s, K)[Len(s)]
===============================================================================
