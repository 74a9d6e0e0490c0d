------------------------------ MODULE Publication ------------------------------
(***************************************************************************)
(* What is known of a delivery only gets worse here: a check fails, a file *)
(* that was not planned turns up, a word of the issue is found, a section  *)
(* of it is missing, an item of a checklist is open, a score falls.  After *)
(* each the gates of Gates.tla judge again.                                *)
(***************************************************************************)
EXTENDS Gates, Sequences

CONSTANTS
  ChangedFiles, \* changed files that may turn up
  DomainChecks, \* checks of a domain gate, some of them satisfied
  Asking,       \* policies: what they ask of a human
  Scores,       \* raw scores
  Touches,      \* <<key, file>>: the key of an item is in the name of a target file
  MaxDefects    \* bound on defects

ASSUME PublicationAssumption ==
  /\ ChangedFiles \subseteq ChangedFile /\ DomainChecks \subseteq DomainCheck
  /\ Asking \subseteq [human : BOOLEAN, targets : BOOLEAN, external : BOOLEAN, explicit : BOOLEAN]
  /\ Touches \subseteq STRING \X STRING
  /\ Scores \in Seq(0..100) /\ Scores # <<>>
  /\ MaxDefects \in Nat

(* The raw scores are listed best first.                                   *)
ASSUME ScoresFall == \A i, j \in DOMAIN Scores : i < j => Scores[j] <= Scores[i]

VARIABLES
  dossier, \* what is known of the delivery
  opinion, \* the verdicts on it
  asking,  \* require_human_review, target_files, external-facing
  defects  \* defects so far

publicationVars == <<dossier, opinion, asking, defects>>

Opinion(d) ==
  [gate |-> Gate(d.failing, asking.human),
   diff |-> Diff(d.files, asking.targets),
   domain |-> Domain(d.checks, asking.external, asking.explicit),
   risk |-> Risk(d.words, d.files),
   readiness |-> Readiness([c \in DOMAIN Weight |-> Scores[d.places[c]]]),
   retries |-> Budget(Risk(d.words, d.files)),
   stages |-> Cardinality(Stages(Risk(d.words, d.files))),
   work |-> IF DuplicateWork(d.done, {t[2] : t \in Touches}, Touches) THEN "refused" ELSE "new",
   authorised |-> Authorise(d.profile, Risk(d.words, d.files)),
   issue |-> IssueQuality(d.sections),
   dedupe |-> OssDedupe(d.facts),
   oss |-> OssPublish(d.facts)]

(* The verdicts of a kind, best first.                                     *)
Ladder ==
  [gate |-> <<"pass", "needs_human_approval", "needs_rework">>,
   diff |-> <<"pass", "warn", "block">>,
   domain |-> <<"pass", "needs_human_approval", "needs_rework">>,
   risk |-> <<"docs-only", "low", "medium", "high", "critical">>,
   readiness |-> <<"auto_publish", "needs_human_approval", "blocked">>,
   retries |-> <<1, 2, 3>>, stages |-> <<1, 2, 3>>,
   work |-> <<"new", "refused">>,
   authorised |-> <<"auto", "manual">>,
   issue |-> <<"passes", "planning">>,
   dedupe |-> <<"passed", "blocked">>,
   oss |-> <<"ready", "blocked">>]

PublicationTypeOK ==
  /\ dossier \in [failing : SUBSET Check, files : SUBSET ChangedFiles, words : SUBSET Word,
                  checks : SUBSET DomainChecks, places : [DOMAIN Weight -> DOMAIN Scores],
                  sections : SUBSET DOMAIN SectionWeight, facts : SUBSET OssFact, profile : BOOLEAN,
                  done : SUBSET {t[1] : t \in Touches}]
  /\ \A kind \in DOMAIN Ladder : opinion[kind] \in Range(Ladder[kind])
  /\ asking \in Asking
  /\ defects \in 0..MaxDefects

PublicationInit ==
  /\ asking \in Asking
  /\ \E f \in ChangedFiles :
       f.kind = "doc" /\ dossier = [failing |-> {}, files |-> {f}, words |-> {}, checks |-> {},
                                   places |-> [c \in DOMAIN Weight |-> 1],
                                   sections |-> DOMAIN SectionWeight, facts |-> OssFact, profile |-> TRUE, done |-> {}]
  /\ opinion = Opinion(dossier)
  /\ defects = 0

------------------------------------------------------------------------------
Judge ==
  /\ defects < MaxDefects /\ defects' = defects + 1
  /\ opinion' = Opinion(dossier')
  /\ UNCHANGED asking

CheckFails == \E c \in Check \ dossier.failing : dossier' = [dossier EXCEPT !.failing = @ \cup {c}] /\ Judge

(* A test file may excuse a source file: it is no defect.                  *)
FileTurnsUp ==
  \E f \in ChangedFiles \ dossier.files :
    f.kind # "test" /\ dossier' = [dossier EXCEPT !.files = @ \cup {f}] /\ Judge

WordFound == \E w \in Word \ dossier.words : dossier' = [dossier EXCEPT !.words = @ \cup {w}] /\ Judge

CheckRegistered ==
  \E c \in DomainChecks \ dossier.checks : dossier' = [dossier EXCEPT !.checks = @ \cup {c}] /\ Judge

ScoreFalls ==
  \E c \in DOMAIN Weight :
    dossier.places[c] < Len(Scores) /\ dossier' = [dossier EXCEPT !.places[c] = @ + 1] /\ Judge

SectionMissing ==
  \E s \in dossier.sections : dossier' = [dossier EXCEPT !.sections = @ \ {s}] /\ Judge

FactFalls == \E f \in dossier.facts : dossier' = [dossier EXCEPT !.facts = @ \ {f}] /\ Judge

WorkDone ==
  \E k \in {t[1] : t \in Touches} \ dossier.done : dossier' = [dossier EXCEPT !.done = @ \cup {k}] /\ Judge

PublicationNext ==
  WorkDone \/ CheckFails \/ FileTurnsUp \/ WordFound \/ CheckRegistered \/ ScoreFalls \/ SectionMissing \/ FactFalls

PublicationSpec == PublicationInit /\ [][PublicationNext]_publicationVars

------------------------------------------------------------------------------
Place(kind, verdict) == CHOOSE i \in DOMAIN Ladder[kind] : Ladder[kind][i] = verdict

(* Another defect never improves a verdict: no failing check hides one     *)
(* that is worse, no surface of the code makes another look harmless, no   *)
(* file excuses an unplanned one, a score that falls opens no gate, and an *)
(* issue that says less does not read better                               *)
(* (quality_gate.py:276-296, risk_policy.py:41-60, diff_verifier.py:295,   *)
(* domain_quality.py:377-400, readiness_score.py:111-117,                  *)
(* issue_quality.py:170-197, delivery_authorization.py:47-69).             *)
WorseNeverBetter ==
  [][opinion' # opinion =>
       \A kind \in DOMAIN Ladder : Place(kind, opinion[kind]) <= Place(kind, opinion'[kind])]_publicationVars
================================================================================
