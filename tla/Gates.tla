--------------------------------- MODULE Gates ---------------------------------
(***************************************************************************)
(* The verdicts on a delivery before it is published: the quality gate     *)
(* (quality_gate.py), the classes of a failed gate (rework.py), the diff   *)
(* verifier (diff_verifier.py), the gate of work that is not code          *)
(* (domain_quality.py), the risk with its validation stages                *)
(* (risk_policy.py, validation_planner.py, delivery_authorization.py), the *)
(* plan (plan_verifier.py), the readiness score (readiness_score.py), the  *)
(* quality of an issue (issue_quality.py) and the checks on a contribution *)
(* to another project (oss_mode.py).  Operators only.                      *)
(***************************************************************************)
EXTENDS Integers, FiniteSets, Functions

CONSTANTS
  Threshold,     \* risk_threshold of a domain gate
  Approvals,     \* required_approvals
  AutoPublish,   \* auto_publish_threshold, in per cent
  HumanApproval  \* human_approval_threshold

ASSUME GatesAssumption ==
  /\ {Threshold, Approvals} \subseteq Nat
  /\ {AutoPublish, HumanApproval} \subseteq 0..100 /\ HumanApproval < AutoPublish

Check == {"lint", "tests", "security", "coverage", "playwright", "diff-hygiene"}

Severity ==
  [c \in Check |->
     CASE c \in {"lint", "playwright"} -> "error"
       [] c \in {"tests", "security", "diff-hygiene"} -> "blocking"
       [] c = "coverage" -> "warning"]

(* evaluate: the worst severity decides; a warning only asks for a human   *)
(* where the policy does.                                                  *)
GateVerdict(severities, asks) ==
  CASE severities \cap {"blocking", "error"} # {} -> "needs_rework"
    [] severities = {"warning"} /\ asks -> "needs_human_approval"
    [] OTHER -> "pass"

Gate(failing, human) == GateVerdict({Severity[c] : c \in failing}, human)

Correctable == {"lint", "diff-hygiene", "tests", "coverage"}

(* classify_failure; unclear: failures whose details name the environment. *)
Class(failing, unclear) ==
  CASE failing \cap unclear # {} -> "environmental"
    [] failing \cap unclear = {} /\ failing \subseteq Correctable -> "correctable"
    [] OTHER -> "human_required"

------------------------------------------------------------------------------
(* A changed file, by what the verifier tells of it.                       *)
ChangedFile == [kind : {"source", "test", "doc"}, planned : BOOLEAN, large : BOOLEAN, generated : BOOLEAN]

DiffWarnings(files, targets) ==
  {f \in files : targets /\ ~f.planned} \cup {f \in files : f.large \/ f.generated}

(* Any test file excuses every source file.                                *)
MissingTests(files) ==
  IF \E f \in files : f.kind = "test" THEN {} ELSE {f \in files : f.kind = "source"}

Diff(files, targets) ==
  CASE MissingTests(files) # {} -> "block"
    [] MissingTests(files) = {} /\ DiffWarnings(files, targets) # {} -> "warn"
    [] OTHER -> "pass"

------------------------------------------------------------------------------
(* A check of a domain gate with its input: open items of a checklist or   *)
(* of the evidence, approvals, or a risk score.                            *)
DomainCheck == [type : {"checklist", "source", "review", "risk"}, required : BOOLEAN, given : BOOLEAN, amount : Nat]

Satisfied(c) ==
  /\ c.given
  /\ c.type \in {"checklist", "source"} => c.amount = 0
  /\ c.type = "review" => c.amount >= Approvals
  /\ c.type = "risk" => c.amount <= Threshold

DomainSeverities(checks) ==
  {(IF c.required THEN "blocking" ELSE "warning") : c \in {x \in checks : ~Satisfied(x)}}

(* External work is never published on the word of the gate alone.         *)
Domain(checks, external, explicit) ==
  IF DomainSeverities(checks) = {} /\ external /\ explicit THEN "needs_human_approval"
  ELSE GateVerdict(DomainSeverities(checks), TRUE)

------------------------------------------------------------------------------
(* words: the groups of words found in the issue and in the paths.         *)
Word == {"sensitive", "delivery", "business", "integration"}

DocsOnly(files) == files # {} /\ \A f \in files : f.kind = "doc"

(* Mutant of Risk: the surfaces are asked for in the other order.          *)
RiskUpwards(words, files) ==
  CASE "integration" \in words /\ ~DocsOnly(files) -> "medium"
    [] "sensitive" \in words -> "critical"
    [] words \cap {"delivery", "business"} # {} -> "high"
    [] OTHER -> IF DocsOnly(files) THEN "docs-only" ELSE "low"

Risk(words, files) ==
  CASE "sensitive" \in words -> "critical"
    [] "sensitive" \notin words /\ words \cap {"delivery", "business"} # {} -> "high"
    [] words = {"integration"} /\ ~DocsOnly(files) -> "medium"
    [] OTHER -> IF DocsOnly(files) THEN "docs-only" ELSE "low"

(* max_retries and the stages a risk asks for.                             *)
Budget(risk) ==
  CASE risk \in {"docs-only", "low"} -> 1 [] risk = "medium" -> 2 [] OTHER -> 3

Stages(risk) ==
  {"focused"}
    \cup (IF risk \in {"medium", "high", "critical"} THEN {"regression"} ELSE {})
    \cup (IF risk \in {"high", "critical"} THEN {"evidence"} ELSE {})

------------------------------------------------------------------------------
(* Weights in per cent and the score in hundredths of a point.             *)
Weight ==
  [quality_gate |-> 25, diff_verifier |-> 15, validations |-> 20,
   evidence_completeness |-> 15, ci_status |-> 15, review_status |-> 10]

Score(raw) == SumFunction([c \in DOMAIN Weight |-> Weight[c] * raw[c]])

Readiness(raw) ==
  CASE Score(raw) >= 100 * AutoPublish -> "auto_publish"
    [] Score(raw) \in (100 * HumanApproval)..(100 * AutoPublish - 1) -> "needs_human_approval"
    [] OTHER -> "blocked"

------------------------------------------------------------------------------
(* What an issue says of the work, weighed; criteria count as a test plan. *)
SectionWeight ==
  [objective |-> 15, scope |-> 15, acceptance_criteria |-> 20, test_plan |-> 15,
   constraints |-> 10, evidence |-> 15, reproduction_steps |-> 10]

Sections(given) == given \cup (IF "acceptance_criteria" \in given THEN {"test_plan"} ELSE {})

IssueQuality(given) ==
  IF SumFunctionOnSet(SectionWeight, Sections(given)) >= 70 THEN "passes" ELSE "planning"

(* authorize_action: a profile may allow an action, a high risk takes the  *)
(* word of a human.                                                        *)
Authorise(allowed, risk) == IF allowed /\ risk \notin {"high", "critical"} THEN "auto" ELSE "manual"

(* A contribution to an open-source project is published when no reference *)
(* overlaps it and its validation has commands that passed.                *)
OssFact == {"unique", "commands", "passed"}
OssDedupe(facts) == IF "unique" \in facts THEN "passed" ELSE "blocked"
OssPublish(facts) == IF {"commands", "passed"} \subseteq facts THEN "ready" ELSE "blocked"

------------------------------------------------------------------------------
(* The keys of completed work a plan touches, and the refusal when they    *)
(* cover every target file; touches says which key is in which file name.  *)
Overlap(completed, files, touches) == {k \in completed : \E f \in files : <<k, f>> \in touches}

DuplicateWork(completed, files, touches) ==
  /\ files # {} /\ Overlap(completed, files, touches) # {}
  /\ \A f \in files : \E k \in completed : <<k, f>> \in touches
================================================================================
