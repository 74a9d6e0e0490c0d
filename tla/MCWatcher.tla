------------------------------- MODULE MCWatcher -------------------------------
(* Two items, one of a tracker that counts revisions and one of a tracker  *)
(* that does not; states 1 = active, 2 = closed, 3 = new.                  *)
EXTENDS Watcher
===============================================================================
