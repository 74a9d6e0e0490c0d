---------------------------- MODULE MCWorkerPool ----------------------------
(***************************************************************************)
(* Four lanes of the delivery pipeline.  Items 1 and 2 start at its head,  *)
(* as SprintFlow seeds them; item 3 was interrupted with its test tuple    *)
(* pending, as log.pending() hands it to run_worker_pool.                  *)
(***************************************************************************)
EXTENDS WorkerPool

MCPool == <<"dev", "lint", "test", "pr">>
MCLanes == {"dev", "lint", "test", "pr"}

MCTuples == ({1, 2} \X MCLanes) \cup {T(3, "test"), T(3, "pr")}
MCLaneOf == [t \in MCTuples |-> t[2]]

Successor == [dev |-> "lint", lint |-> "test", test |-> "pr"]
MCFollowUps == [t \in MCTuples |->
  IF t[2] = "pr" THEN <<>> ELSE <<T(t[1], Successor[t[2]])>>]

MCSeeds == {<<>>, <<T(1, "dev")>>, <<T(1, "dev"), T(2, "dev")>>, <<T(3, "test"), T(1, "dev")>>,
            <<T(1, "dev"), T(3, "test")>>}
ResumedSeeds == {<<T(3, "test"), T(1, "dev")>>}
=============================================================================
