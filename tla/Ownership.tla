------------------------------- MODULE Ownership -------------------------------
(***************************************************************************)
(* Who may touch what when several agents deliver at once: the claims of   *)
(* src/sendsprint/control_plane.py on issues and worktrees, and the locks  *)
(* of locks.py on repositories, worktrees, issues and file patterns.  Both *)
(* are tables that a coordinator keeps and changes by one call at a time.  *)
(***************************************************************************)
EXTENDS Naturals, Sequences, Subsequences

CONSTANTS
  Agents,    \* worker ids, and owners of locks
  Issues,    \* ownership keys, repo::issue
  Trees,     \* worktree paths
  Strings,   \* keys of locks, and file patterns
  Matches,   \* fnmatch: pairs <<string, pattern>>
  Scopes,    \* what locks are asked for
  MaxClaims  \* bound on assignments, and on locks held

ASSUME OwnershipAssumption ==
  /\ Matches \subseteq Strings \X Strings
  /\ \A s \in Scopes : s.kind \in {"repo", "worktree", "issue", "files"} /\ s.patterns \subseteq Strings
  /\ MaxClaims \in Nat

VARIABLES
  assignments,  \* ControlPlaneState.assignments
  locks         \* LockRegistry.claims

ownershipVars == <<assignments, locks>>

Terminal == {"done", "failed"}
WorkerStatus == {"queued", "running", "blocked"} \cup Terminal
Assignment == [worker : Agents, issue : Issues, tree : Trees, status : WorkerStatus]
Lock == [owner : Agents, scope : Scopes]

OwnershipTypeOK ==
  /\ assignments \in Seq(Assignment)
  /\ locks \in Seq(Lock)

OwnershipInit ==
  /\ assignments = <<>>
  /\ locks = <<>>

------------------------------------------------------------------------------
Active(a) == a.status \notin Terminal

(* Mutant of Clash: only the issue counts.                                 *)
ClashIssue(a, b) == a.issue = b.issue

Clash(a, b) == a.issue = b.issue \/ a.tree = b.tree

(* Worker w is new: queued, and not yet at work.                           *)
Claim(w, i, t) ==
  /\ Len(assignments) < MaxClaims
  /\ LET new == [worker |-> w, issue |-> i, tree |-> t, status |-> "queued"]
     IN /\ \A n \in DOMAIN assignments : ~(Active(assignments[n]) /\ Clash(assignments[n], new))
        /\ assignments' = Append(assignments, new)
  /\ UNCHANGED locks

WithStatus(a, status) == [a EXCEPT !.status = status]

(* Every assignment of the worker changes, those that had ended included.  *)
Update(w, status) ==
  /\ \E n \in DOMAIN assignments : assignments[n].worker = w
  /\ assignments' = [n \in DOMAIN assignments |->
       IF assignments[n].worker = w THEN WithStatus(assignments[n], status) ELSE assignments[n]]
  /\ UNCHANGED locks

------------------------------------------------------------------------------
PatternsOverlap(left, right) ==
  \E p \in left, q \in right : p = q \/ <<q, p>> \in Matches \/ <<p, q>> \in Matches

(* Mutant of ConflictsWith: the patterns of the other side are not tried.  *)
ConflictsWithOneWay(a, b) ==
  /\ a.repo = b.repo
  /\ \/ a.kind # "files" /\ a.kind = b.kind /\ a.key = b.key
     \/ a.kind = "files" /\ b.kind = "files" /\ PatternsOverlap(a.patterns, b.patterns)
     \/ a.kind = "files" /\ b.kind # "files" /\ \E p \in a.patterns : <<b.key, p>> \in Matches

ConflictsWith(a, b) ==
  /\ a.repo = b.repo
  /\ \/ a.kind # "files" /\ a.kind = b.kind /\ a.key = b.key
     \/ a.kind = "files" /\ b.kind = "files" /\ PatternsOverlap(a.patterns, b.patterns)
     \/ a.kind = "files" /\ b.kind # "files" /\ \E p \in a.patterns : <<b.key, p>> \in Matches
     \/ a.kind # "files" /\ b.kind = "files" /\ \E p \in b.patterns : <<a.key, p>> \in Matches

Acquire(owner, scope) ==
  /\ Len(locks) < MaxClaims
  /\ \A n \in DOMAIN locks : locks[n].owner # owner => ~ConflictsWith(locks[n].scope, scope)
  /\ locks' = Append(locks, [owner |-> owner, scope |-> scope])
  /\ UNCHANGED assignments

ReleaseOwner(owner) ==
  /\ \E n \in DOMAIN locks : locks[n].owner = owner
  /\ locks' = Picked(locks, {n \in DOMAIN locks : locks[n].owner # owner})
  /\ UNCHANGED assignments

------------------------------------------------------------------------------
ClaimsNext ==
  \E w \in Agents :
    \/ \E i \in Issues, t \in Trees : Claim(w, i, t)
    \/ \E status \in WorkerStatus : Update(w, status)

LocksNext ==
  \E owner \in Agents :
    \/ \E scope \in Scopes : Acquire(owner, scope)
    \/ ReleaseOwner(owner)

OwnershipNext == ClaimsNext \/ LocksNext

OwnershipSpec == OwnershipInit /\ [][OwnershipNext]_ownershipVars

------------------------------------------------------------------------------
(* Two assignments that stand for the same issue or worktree.              *)
Contested(n, m) ==
  /\ n # m
  /\ Active(assignments[n]) /\ Active(assignments[m])
  /\ assignments[n].issue = assignments[m].issue \/ assignments[n].tree = assignments[m].tree

(* "Enforces repository and issue ownership so agents do not overwrite     *)
(* each other" (docs/roadmap/sprint-autopilot-roadmap.md:218): no call     *)
(* makes two agents active on one issue or worktree, except an update that *)
(* wakes an assignment that had ended, whose place another may have taken. *)
OnlyRevivalContests ==
  [][\A n, m \in DOMAIN assignments' :
       Contested(n, m)' =>
         \/ n \in DOMAIN assignments /\ m \in DOMAIN assignments /\ Contested(n, m)
         \/ \E k \in {n, m} \cap DOMAIN assignments : ~Active(assignments[k])]_ownershipVars

(* The strings a set of patterns stands for.                               *)
Covered(patterns) == patterns \cup {s \in Strings : \E p \in patterns : <<s, p>> \in Matches}

(* Patterns with a common string match one another.                        *)
Nested ==
  \A p, q \in UNION {s.patterns : s \in Scopes} :
    Covered({p}) \cap Covered({q}) # {} => PatternsOverlap({p}, {q})

(* File locks of two owners never cover the same file, and none covers     *)
(* what another owner has locked by its name, in whatever order they came  *)
(* (test_lock_registry_rejects_conflicting_file_patterns), as long as      *)
(* patterns nest: comparing patterns is not comparing what they match.     *)
LocksApart ==
  Nested => \A n, m \in DOMAIN locks :
    LET a == locks[n].scope
        b == locks[m].scope
    IN locks[n].owner # locks[m].owner /\ a.repo = b.repo /\ a.kind = "files" =>
         /\ b.kind = "files" => Covered(a.patterns) \cap Covered(b.patterns) = {}
         /\ b.kind # "files" => \A p \in a.patterns : <<b.key, p>> \notin Matches
===============================================================================
