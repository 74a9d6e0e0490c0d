---------------------------- MODULE MCDeliveryRun ----------------------------
(***************************************************************************)
(* Two deliveries through three lanes, in at most two runs.                *)
(***************************************************************************)
EXTENDS DeliveryRun

MCSprint == <<"a", "b">>
MCStages == <<"dev", "security", "pr">>
OwnTree == [k \in Keys |-> k]
===============================================================================
