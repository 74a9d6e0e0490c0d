--------------------------------- MODULE Rework ---------------------------------
(***************************************************************************)
(* The rework loop (rework.py) over the quality gate, and the bundle that  *)
(* keeps its evidence (BundleManager of evidence.py).  A fix is the        *)
(* caller's function: it may mend some faults, make others, or raise.      *)
(***************************************************************************)
EXTENDS Gates, SequencesExt

CONSTANTS
  Human,      \* values of require_human_review
  MaxRetries, \* max_retries
  Faults,     \* checks that may fail
  NoReport    \* before the first evaluation

ASSUME ReworkAssumption ==
  MaxRetries \in Nat /\ Human \subseteq BOOLEAN /\ Faults \subseteq Check /\ Faults # {}

VARIABLES
  human,    \* the policy
  flaws,    \* the checks the tree fails now
  unclear,  \* of those, the ones whose output names the environment
  report,   \* the report in hand
  point,    \* where the loop is
  attempts, \* result.attempts
  outcome,  \* result.outcome
  fixed,    \* reports that were handed to the fix
  expired,  \* the time budget is spent
  bundle,   \* the items on disk, or none
  holder    \* the items in memory, or none

reworkVars == <<human, flaws, unclear, report, point, attempts, outcome, fixed, expired, bundle, holder>>

Report == [failing : SUBSET Faults, unclear : SUBSET Faults]
Outcome == {"fixed", "max_retries_exceeded", "timeout_exceeded", "human_required", "environmental_failure"}
Item == [about : {"gate", "rework"}, says : Outcome \cup {"pass", "needs_human_approval", "needs_rework"}]

ReworkTypeOK ==
  /\ human \in Human /\ expired \in BOOLEAN
  /\ flaws \subseteq Faults /\ unclear \subseteq flaws
  /\ report \in Report \cup {NoReport}
  /\ point \in {"start", "loop", "fix", "evaluate", "done", "raised", "persisted"}
  /\ attempts \in Seq([class : {"correctable", "human_required", "environmental"},
                      result : {"stopped", "passed", "still failing"}])
  /\ Len(attempts) <= MaxRetries
  /\ outcome \in Outcome \cup {"none"}
  /\ fixed \subseteq Report
  /\ bundle \in Seq(Item) /\ holder \in Seq(Item)

ReworkInit ==
  /\ human \in Human /\ expired = FALSE
  /\ flaws \in SUBSET Faults /\ unclear \in SUBSET flaws
  /\ report = NoReport /\ point = "start"
  /\ attempts = <<>> /\ outcome = "none" /\ fixed = {}
  /\ bundle = <<>> /\ holder = <<>>

Found == [failing |-> flaws, unclear |-> unclear]
VerdictOf(r) == Gate(r.failing, human)
ClassOf(r) == Class(r.failing, r.unclear)

result == <<report, attempts, outcome>>
evidence == <<bundle, holder>>

------------------------------------------------------------------------------
(* add_item: memory first, then the whole bundle is written.               *)
AddItem(item) ==
  /\ holder' = Append(holder, item)
  /\ bundle' = holder'

(* create_bundle writes an empty one, whatever is on disk; load_bundle     *)
(* takes what is there.                                                    *)
OpenBundle ==
  /\ point = "start" /\ report = NoReport /\ bundle # holder
  /\ \/ holder' = bundle /\ UNCHANGED bundle
     \/ bundle' = <<>> /\ holder' = <<>>
  /\ UNCHANGED <<human, flaws, unclear, result, point, fixed, expired>>

(* run: the caller's report, which it has persisted, or a fresh one.       *)
Evaluate ==
  /\ point = "start" /\ bundle = holder
  /\ report' = Found /\ point' = "loop"
  /\ \/ UNCHANGED evidence
     \/ AddItem([about |-> "gate", says |-> VerdictOf(Found)])
  /\ UNCHANGED <<human, flaws, unclear, attempts, outcome, fixed, expired>>

(* The budget of time runs out; nothing is interrupted.                    *)
TimePasses ==
  /\ point \in {"loop", "fix", "evaluate"} /\ ~expired
  /\ expired' = TRUE
  /\ UNCHANGED <<human, flaws, unclear, result, point, fixed, evidence>>

Ends(how) == outcome' = how /\ point' = "done"

(* An iteration, up to the fix: each return of the loop in its order.      *)
Iterate ==
  /\ point = "loop"
  /\ LET tried == Len(attempts)
         passed == VerdictOf(report) = "pass"
         class == ClassOf(report)
         stop == Append(attempts, [class |-> class, result |-> "stopped"])
     IN \/ /\ passed /\ Ends("fixed") /\ UNCHANGED attempts
        \/ /\ ~passed /\ tried = MaxRetries
           /\ Ends("max_retries_exceeded") /\ UNCHANGED attempts
        \/ /\ ~passed /\ tried < MaxRetries /\ expired
           /\ Ends("timeout_exceeded") /\ UNCHANGED attempts
        \/ /\ ~passed /\ tried < MaxRetries /\ ~expired /\ class = "environmental"
           /\ attempts' = stop /\ Ends("environmental_failure")
        \/ /\ ~passed /\ tried < MaxRetries /\ ~expired /\ class = "human_required"
           /\ attempts' = stop /\ Ends("human_required")
        \/ /\ ~passed /\ tried < MaxRetries /\ ~expired /\ class = "correctable"
           /\ point' = "fix" /\ UNCHANGED <<attempts, outcome>>
  /\ UNCHANGED <<human, flaws, unclear, report, fixed, expired, evidence>>

(* fix_fn(report, diagnosis), or none at all; it leaves a tree of its own. *)
Fix ==
  /\ point = "fix"
  /\ fixed' = fixed \cup {report}
  /\ flaws' \in SUBSET Faults /\ unclear' \in SUBSET flaws'
  /\ point' = "evaluate"
  /\ UNCHANGED <<human, result, expired, evidence>>

FixRaises ==
  /\ point = "fix"
  /\ fixed' = fixed \cup {report}
  /\ point' = "raised"
  /\ UNCHANGED <<human, flaws, unclear, result, expired, evidence>>

(* Mutant of Revalidate: the attempt is judged by the report it had.       *)
RevalidateOld ==
  /\ point = "evaluate"
  /\ UNCHANGED report
  /\ attempts' = Append(attempts, [class |-> ClassOf(report), result |-> "passed"])
  /\ point' = "loop"
  /\ UNCHANGED <<human, flaws, unclear, outcome, fixed, expired, evidence>>

Revalidate ==
  /\ point = "evaluate"
  /\ report' = Found
  /\ attempts' = Append(attempts, [class |-> ClassOf(report),
                                  result |-> IF VerdictOf(Found) = "pass" THEN "passed" ELSE "still failing"])
  /\ point' = "loop"
  /\ UNCHANGED <<human, flaws, unclear, outcome, fixed, expired, evidence>>

(* persist_to_bundle refuses a result without an outcome.                  *)
Persist ==
  /\ point = "done"
  /\ AddItem([about |-> "rework", says |-> outcome])
  /\ point' = "persisted"
  /\ UNCHANGED <<human, flaws, unclear, result, fixed, expired>>

(* The process ends or dies; a later one finds the disk and the tree.      *)
Again ==
  /\ point \in {"persisted", "raised", "done", "loop", "fix"} /\ Len(bundle) < 3
  /\ report' = NoReport /\ attempts' = <<>> /\ outcome' = "none" /\ fixed' = {}
  /\ expired' = FALSE /\ holder' = <<>> /\ point' = "start"
  /\ UNCHANGED <<human, flaws, unclear, bundle>>

ReworkNext ==
  OpenBundle \/ Evaluate \/ TimePasses \/ Iterate \/ Fix \/ FixRaises \/ Revalidate \/ Persist \/ Again

ReworkSpec == ReworkInit /\ [][ReworkNext]_reworkVars

------------------------------------------------------------------------------
(* "fixed" is true of the tree as it stands when the loop ends: nothing    *)
(* that blocks is in it, the last attempt passed and those before did not. *)
(* What the fix was handed it may mend: nothing of the environment, no     *)
(* finding of the scan, never more often than max_retries (rework.py:178). *)
FixedIsClean ==
  /\ outcome = "fixed" =>
       /\ \A c \in flaws : Severity[c] = "warning"
       /\ human => flaws = {}
  /\ \A i \in 1..Len(attempts) - 1 : attempts[i].result = "still failing"
  /\ attempts # <<>> /\ outcome = "fixed" => Last(attempts).result = "passed"
  /\ \A r \in fixed : r.failing \subseteq Correctable /\ r.failing \cap r.unclear = {}
================================================================================
