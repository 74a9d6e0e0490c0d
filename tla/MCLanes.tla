-------------------------------- MODULE MCLanes --------------------------------
(* One delivery, two runs; the configurations differ in what they stop at. *)
EXTENDS Lanes

Base == [level |-> "deploy-callback", stack |-> "known", codegen |-> TRUE, deploy |-> TRUE,
         url |-> TRUE, checkedOut |-> TRUE]

MCConfs ==
  {Base, [Base EXCEPT !.level = "push"], [Base EXCEPT !.level = "push", !.stack = "none"],
   [Base EXCEPT !.level = "plan"], [Base EXCEPT !.level = "push", !.stack = "bun"],
   [Base EXCEPT !.checkedOut = FALSE, !.stack = "none", !.codegen = FALSE],
   [Base EXCEPT !.url = FALSE, !.stack = "none"], [Base EXCEPT !.deploy = FALSE, !.stack = "none"]}

Silent == [ends |-> "timeout", json |-> FALSE, list |-> <<>>]
Clean == [files |-> {}, gitignore |-> TRUE, tools |-> [npm |-> Silent, pip |-> Silent, cargo |-> Silent]]

(* The second vulnerability of an audit is past the limit.                 *)
MCWorkTrees ==
  {Clean,
   [Clean EXCEPT !.files = {[kind |-> "env", ignoredDir |-> FALSE, large |-> FALSE, secret |-> TRUE]}, !.gitignore = FALSE],
   [Clean EXCEPT !.files = {[kind |-> "source", ignoredDir |-> FALSE, large |-> FALSE, secret |-> TRUE]}],
   [Clean EXCEPT !.tools.npm = [ends |-> "nonzero", json |-> TRUE, list |-> <<"moderate", "critical">>]],
   [Clean EXCEPT !.tools.pip = [ends |-> "nonzero", json |-> TRUE, list |-> <<"fixable">>]],
   [Clean EXCEPT !.tools.cargo = [ends |-> "nonzero", json |-> TRUE, list |-> <<"unscored">>]]}
===============================================================================
