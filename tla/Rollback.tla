-------------------------------- MODULE Rollback --------------------------------
(***************************************************************************)
(* The rollback plan of a run (build_rollback_plan of rollback.py) and     *)
(* what its instructions do when an operator walks them top-down.  The run *)
(* delivered a plan of <<repo, branch>> pairs and may have stopped at any  *)
(* point of it; git and gh are external.                                   *)
(***************************************************************************)
EXTENDS Integers, Sequences, FiniteSets, SequencesExt, Subsequences

CONSTANTS
  DeliveryPlan, \* delivery_plan.deliveries: a sequence of <<repo, branch>>
  Walks         \* how often the operator walks the plan

ASSUME RollbackAssumption == DeliveryPlan \in Seq(STRING \X STRING) /\ Walks \in Nat

VARIABLES
  made,  \* what the run left: set of <<"pr" | "remote" | "local" | "worktree", repo, branch>>
  prs,   \* report.prs
  plan,  \* the actions of the plan, once it is built
  walked \* instructions the operator has carried out

rollbackVars == <<made, prs, plan, walked>>

Delivered == Range(DeliveryPlan)
Kinds == {"pr", "remote", "local", "worktree"}
Thing(kind, d) == <<kind, d[1], d[2]>>

RollbackTypeOK ==
  /\ made \subseteq {Thing(k, d) : k \in Kinds, d \in Delivered}
  /\ prs \in Seq(Delivered)
  /\ plan \in Seq([kind : {"pr", "branch", "worktree"}, of : Delivered])
  /\ walked \in 0..(Walks * Len(plan))

RollbackInit == made = {} /\ prs = <<>> /\ plan = <<>> /\ walked = 0

------------------------------------------------------------------------------
(* The run: worktree add makes the branch, then the push, then the PR.     *)
Deliver(d) ==
  /\ plan = <<>>
  /\ \/ Thing("local", d) \notin made /\ made' = made \cup {Thing("local", d), Thing("worktree", d)} /\ UNCHANGED prs
     \/ Thing("local", d) \in made /\ Thing("remote", d) \notin made
        /\ made' = made \cup {Thing("remote", d)} /\ UNCHANGED prs
     \/ Thing("remote", d) \in made /\ Thing("pr", d) \notin made
        /\ made' = made \cup {Thing("pr", d)} /\ prs' = Append(prs, d)
  /\ UNCHANGED <<plan, walked>>

Action(kind, d) == [kind |-> kind, of |-> d]

(* The first pairs of their branch names: seen_branches has names only.    *)
FirstOfName(ds) == {i \in DOMAIN ds : \A j \in 1..i - 1 : ds[j][2] # ds[i][2]}

(* Branches of PRs, then for each delivery its branch, unless the name was *)
(* seen, and its worktree.                                                 *)
BranchesOf(opened) ==
  LET first == Picked(opened, FirstOfName(opened))
  IN [i \in DOMAIN first |-> Action("branch", first[i])]

Unwound(opened, i) ==
  LET d == DeliveryPlan[i]
  IN (IF i \in FirstOfName(DeliveryPlan) /\ \A p \in Range(opened) : p[2] # d[2] THEN <<Action("branch", d)>> ELSE <<>>)
       \o <<Action("worktree", d)>>

(* Mutant of PlanOf: the worktrees of pull requests are left to the merge. *)
PlanWithoutWorktrees(opened) ==
  [i \in DOMAIN opened |-> Action("pr", opened[i])]
    \o BranchesOf(opened)
    \o FlattenSeq([i \in DOMAIN DeliveryPlan |->
                     IF DeliveryPlan[i] \in Range(opened) THEN <<>> ELSE Unwound(opened, i)])

PlanOf(opened) ==
  [i \in DOMAIN opened |-> Action("pr", opened[i])]
    \o BranchesOf(opened)
    \o FlattenSeq([i \in DOMAIN DeliveryPlan |-> Unwound(opened, i)])

BuildPlan ==
  /\ plan = <<>>
  /\ plan' = PlanOf(prs)
  /\ UNCHANGED <<made, prs, walked>>

(* What an instruction removes.  gh closes the PR and deletes its branch,  *)
(* az abandons it and deletes nothing.  branch -D refuses a branch a       *)
(* worktree has, or one that is not there, and the push does not follow.   *)
Removes(action) ==
  LET d == action.of
  IN CASE action.kind = "pr" -> {{Thing("pr", d), Thing("remote", d)}, {Thing("pr", d)}}
       [] action.kind = "worktree" -> {{Thing("worktree", d)}}
       [] action.kind = "branch" ->
            IF Thing("worktree", d) \in made \/ Thing("local", d) \notin made THEN {{}}
            ELSE {{Thing("local", d), Thing("remote", d)}}

(* The operator, instruction by instruction, and from the top again.       *)
Perform ==
  /\ plan # <<>> /\ walked < Walks * Len(plan)
  /\ \E gone \in Removes(plan[(walked % Len(plan)) + 1]) : made' = made \ gone
  /\ walked' = walked + 1
  /\ UNCHANGED <<prs, plan>>

RollbackNext == (\E d \in Delivered : Deliver(d)) \/ BuildPlan \/ Perform

RollbackSpec == RollbackInit /\ [][RollbackNext]_rollbackVars

------------------------------------------------------------------------------
Twin(d) == \E e \in Delivered : e # d /\ e[2] = d[2]
WalkedThrough(n) == plan # <<>> /\ walked >= n * Len(plan)

(* Two walks undo whatever the run had done when it stopped, but for the   *)
(* branches that share their name with one of another repository.          *)
TwoWalksUndo ==
  WalkedThrough(2) =>
    \A d \in Delivered :
      /\ Thing("pr", d) \notin made /\ Thing("worktree", d) \notin made
      /\ ~Twin(d) => Thing("local", d) \notin made /\ Thing("remote", d) \notin made

(* rollback.py:126: the actions are in reverse-execution order so the      *)
(* operator can walk them top-down to undo state.                          *)
OneWalkUndoes == WalkedThrough(1) => \A d \in Delivered : Twin(d) \/ Thing("local", d) \notin made
================================================================================
