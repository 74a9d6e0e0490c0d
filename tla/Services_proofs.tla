----------------------------- MODULE Services_proofs -----------------------------
(***************************************************************************)
(* For any faults, policies and number of retries: the rework loop says    *)
(* "fixed" only of code that is. For any dossiers: a defect more makes no  *)
(* verdict better. For any accounts, secrets, environments and terminals:  *)
(* no flow uses a secret with an account it was not given for, and the     *)
(* logins that keep apart all leave their mark. For any drafts: a          *)
(* publication that can see all issues makes no second one. For any        *)
(* releases, files and lines: commands that write into a repository or a   *)
(* configuration leave what others wrote, and are complete when they end   *)
(* well. For any sprints, scopes and workspaces: what is read from a       *)
(* tracker reaches the repositories.                                       *)
(***************************************************************************)
EXTENDS MCServices, Subsequences_proofs, FiniteSetTheorems, TLAPS

Entry == [class : {"correctable", "human_required", "environmental"},
          result : {"stopped", "passed", "still failing"}]

TypedInv ==
  /\ human \in BOOLEAN
  /\ flaws \subseteq Faults
  /\ attempts \in Seq(Entry)

(* The report in hand is of the tree as it is, except between a fix and    *)
(* the next evaluation, and the loop can end only on a fresh one.          *)
FreshInv ==
  /\ point \in {"loop", "fix", "done", "persisted"} => report = Found
  /\ outcome = "fixed" => point \in {"done", "persisted"} /\ VerdictOf(report) = "pass"

(* The loop goes on only after an attempt that did not pass.               *)
AttemptsInv ==
  /\ \A i \in 1..Len(attempts) - 1 : attempts[i].result = "still failing"
  /\ attempts # <<>> /\ point \in {"fix", "evaluate"} => attempts[Len(attempts)].result = "still failing"
  /\ attempts # <<>> /\ point = "loop" =>
       attempts[Len(attempts)].result = IF VerdictOf(report) = "pass" THEN "passed" ELSE "still failing"
  /\ attempts # <<>> /\ outcome = "fixed" => attempts[Len(attempts)].result = "passed"
  /\ point = "start" => attempts = <<>>

(* A fix is handed only what the classification calls correctable.         *)
FixInv ==
  /\ point = "fix" => ClassOf(report) = "correctable"
  /\ \A r \in fixed : r.failing \subseteq Correctable /\ r.failing \cap r.unclear = {}

ReworkInv == TypedInv /\ FreshInv /\ AttemptsInv /\ FixInv

(* What passes the gate has only warnings, and none where the policy asks  *)
(* for a human (quality_gate.py:276-296).                                  *)
LEMMA PassingGate ==
  ASSUME NEW failing \in SUBSET Check, NEW asks \in BOOLEAN, Gate(failing, asks) = "pass"
  PROVE  /\ \A c \in failing : Severity[c] = "warning"
         /\ asks => failing = {}
<1> DEFINE severities == {Severity[c] : c \in failing}
<1>1. \A c \in failing : Severity[c] \in {"warning", "error", "blocking"}
  BY DEF Severity, Check
<1>2. severities \cap {"blocking", "error"} = {}
  <2>1. CASE severities \cap {"blocking", "error"} # {}
    BY <2>1 DEF Gate, GateVerdict
  <2> QED
    BY <2>1
<1>3. \A c \in failing : Severity[c] = "warning"
  BY <1>1, <1>2
<1>4. ASSUME asks, failing # {} PROVE FALSE
  <2>1. severities = {"warning"}
    BY <1>3, <1>4
  <2>2. Gate(failing, asks) = "needs_human_approval"
    BY <1>4, <2>1 DEF Gate, GateVerdict
  <2> QED
    BY <2>2
<1> QED
  BY <1>3, <1>4

(* What is classified as correctable (rework.py).                          *)
LEMMA CorrectableClass ==
  ASSUME NEW failing, NEW unknown, Class(failing, unknown) = "correctable"
  PROVE  failing \subseteq Correctable /\ failing \cap unknown = {}
<1>1. CASE failing \cap unknown # {}
  BY <1>1 DEF Class
<1>2. CASE failing \cap unknown = {} /\ ~(failing \subseteq Correctable)
  BY <1>2 DEF Class
<1> QED
  BY <1>1, <1>2

(* What the classification may answer.                                     *)
LEMMA Classes ==
  ASSUME NEW failing, NEW unknown
  PROVE  Class(failing, unknown) \in {"correctable", "human_required", "environmental"}
<1>1. CASE failing \cap unknown # {}
  BY <1>1 DEF Class
<1>2. CASE failing \cap unknown = {} /\ failing \subseteq Correctable
  BY <1>2 DEF Class
<1>3. CASE failing \cap unknown = {} /\ ~(failing \subseteq Correctable)
  BY <1>3 DEF Class
<1> QED
  BY <1>1, <1>2, <1>3

(* What Append does to a sequence.                                         *)
LEMMA AppendedOne ==
  ASSUME NEW S, NEW s \in Seq(S), NEW e \in S
  PROVE  /\ Append(s, e) \in Seq(S) /\ Append(s, e) # <<>>
         /\ Len(Append(s, e)) = Len(s) + 1 /\ Len(s) \in Nat
         /\ Append(s, e)[Len(s) + 1] = e
         /\ \A i \in 1..Len(s) : Append(s, e)[i] = s[i]
         /\ s = <<>> => Len(s) = 0
OBVIOUS

(* After one more attempt the ones before it are those there were.         *)
LEMMA OneMore ==
  ASSUME NEW tried \in Seq(Entry), NEW e \in Entry
  PROVE  LET longer == Append(tried, e)
         IN /\ longer \in Seq(Entry) /\ longer # <<>> /\ longer[Len(longer)] = e
            /\ /\ \A i \in 1..Len(tried) - 1 : tried[i].result = "still failing"
               /\ tried # <<>> => tried[Len(tried)].result = "still failing"
               => \A i \in 1..Len(longer) - 1 : longer[i].result = "still failing"
<1> DEFINE longer == Append(tried, e)
<1>1. longer \in Seq(Entry) /\ longer # <<>> /\ longer[Len(longer)] = e
  BY AppendedOne
<1>2. /\ Len(tried) \in Nat /\ Len(longer) = Len(tried) + 1
      /\ \A i \in 1..Len(tried) : longer[i] = tried[i]
      /\ Len(tried) > 0 => tried # <<>>
  BY AppendedOne
<1> HIDE DEF longer
<1>3. ASSUME \A i \in 1..Len(tried) - 1 : tried[i].result = "still failing",
             tried # <<>> => tried[Len(tried)].result = "still failing",
             NEW i \in 1..Len(longer) - 1
      PROVE  longer[i].result = "still failing"
  <2>1. i \in 1..Len(tried) - 1 \/ (i = Len(tried) /\ tried # <<>>)
    BY <1>2
  <2>2. longer[i] = tried[i]
    BY <1>2
  <2> QED
    BY <1>3, <2>1, <2>2
<1> QED
  BY <1>1, <1>3 DEF longer

(* The loop starts without a report (rework.py).                           *)
LEMMA ReworkInvInit == ReworkInit => ReworkInv
<1> SUFFICES ASSUME ReworkInit PROVE ReworkInv
  OBVIOUS
<1>1. TypedInv
  BY ReworkAssumption DEF ReworkInit, TypedInv
<1>2. FreshInv
  BY DEF ReworkInit, FreshInv
<1>3. AttemptsInv
  BY DEF ReworkInit, AttemptsInv
<1>4. FixInv
  BY DEF ReworkInit, FixInv
<1> QED
  BY <1>1, <1>2, <1>3, <1>4 DEF ReworkInv

(* The returns of the loop, and its way to the fix.                        *)
LEMMA ReworkInvIterate == ASSUME ReworkInv, Iterate PROVE ReworkInv'
<1> DEFINE class == ClassOf(report)
           stop == [class |-> class, result |-> "stopped"]
<1> USE DEF ReworkInv
<1>1. UNCHANGED <<human, flaws, unclear, report, fixed>> /\ point = "loop" /\ outcome # "fixed"
  BY DEF Iterate, FreshInv
<1>2. UNCHANGED <<VerdictOf(report), ClassOf(report), Found>>
  BY <1>1 DEF VerdictOf, ClassOf, Found
<1>3. stop \in Entry
  BY Classes DEF ClassOf, Entry
<1>4. CASE VerdictOf(report) = "pass" /\ Ends("fixed") /\ UNCHANGED attempts
  BY <1>1, <1>2, <1>4 DEF Ends, TypedInv, FreshInv, AttemptsInv, FixInv
<1>5. CASE UNCHANGED attempts /\ (Ends("max_retries_exceeded") \/ Ends("timeout_exceeded"))
  BY <1>1, <1>2, <1>5 DEF Ends, TypedInv, FreshInv, AttemptsInv, FixInv
<1>6. CASE /\ VerdictOf(report) # "pass" /\ attempts' = Append(attempts, stop)
           /\ Ends("environmental_failure") \/ Ends("human_required")
  <2>1. TypedInv'
    BY <1>1, <1>3, <1>6, AppendedOne DEF TypedInv
  <2>3. FreshInv' /\ FixInv'
    BY <1>1, <1>2, <1>6 DEF Ends, FreshInv, FixInv
  <2>2. attempts # <<>> => attempts[Len(attempts)].result = "still failing"
    BY <1>1, <1>6 DEF AttemptsInv
  <2>4. \A i \in 1..Len(attempts)' - 1 : attempts'[i].result = "still failing"
    BY <1>3, <1>6, <2>2, OneMore DEF AttemptsInv, TypedInv
  <2>5. point' = "done" /\ outcome' # "fixed"
    BY <1>6 DEF Ends
  <2> QED
    BY <2>1, <2>3, <2>4, <2>5 DEF AttemptsInv
<1>7. CASE /\ VerdictOf(report) # "pass" /\ class = "correctable"
           /\ point' = "fix" /\ UNCHANGED <<attempts, outcome>>
  BY <1>1, <1>2, <1>7 DEF TypedInv, FreshInv, AttemptsInv, FixInv
<1> QED
  BY <1>4, <1>5, <1>6, <1>7 DEF Iterate

(* Each fix is judged by a report of the tree it left.                     *)
LEMMA ReworkInvRevalidate == ASSUME ReworkInv, Revalidate PROVE ReworkInv'
<1> DEFINE new == [class |-> ClassOf(report),
                   result |-> IF VerdictOf(Found) = "pass" THEN "passed" ELSE "still failing"]
<1> USE DEF ReworkInv
<1>1. /\ UNCHANGED <<human, flaws, unclear, fixed, outcome>> /\ report' = Found
      /\ point = "evaluate" /\ point' = "loop" /\ outcome # "fixed"
      /\ attempts' = Append(attempts, new)
  BY DEF Revalidate, FreshInv
<1>2. Found' = Found /\ VerdictOf(report)' = VerdictOf(Found)
  BY <1>1 DEF Found, VerdictOf
<1>3. new \in Entry
  BY Classes DEF ClassOf, Entry
<1>4. TypedInv'
  BY <1>1, <1>3, AppendedOne DEF TypedInv
<1>8. FreshInv' /\ FixInv'
  BY <1>1, <1>2 DEF FreshInv, FixInv
<1>5. attempts # <<>> => attempts[Len(attempts)].result = "still failing"
  BY <1>1 DEF AttemptsInv
<1>6. attempts'[Len(attempts)'] = new /\ \A i \in 1..Len(attempts)' - 1 : attempts'[i].result = "still failing"
  BY <1>1, <1>3, <1>5, OneMore DEF AttemptsInv, TypedInv
<1>7. new.result = IF VerdictOf(Found) = "pass" THEN "passed" ELSE "still failing"
  OBVIOUS
<1> QED
  BY <1>1, <1>2, <1>4, <1>6, <1>7, <1>8 DEF AttemptsInv

(* Every step keeps the invariant.                                         *)
LEMMA ReworkInvNext == ReworkInv /\ [ReworkNext]_reworkVars => ReworkInv'
<1> SUFFICES ASSUME ReworkInv, [ReworkNext]_reworkVars PROVE ReworkInv'
  OBVIOUS
<1> USE DEF ReworkInv
<1>1. CASE OpenBundle
  <2>1. UNCHANGED <<human, flaws, unclear, report, attempts, outcome, point, fixed>>
    BY <1>1 DEF OpenBundle, result
  <2> QED
    BY <2>1 DEF TypedInv, FreshInv, AttemptsInv, FixInv, VerdictOf, ClassOf, Found
<1>2. CASE Evaluate
  <2>1. /\ UNCHANGED <<human, flaws, unclear, attempts, outcome, fixed>> /\ report' = Found
        /\ point = "start" /\ point' = "loop"
    BY <1>2 DEF Evaluate
  <2> QED
    BY <2>1 DEF TypedInv, FreshInv, AttemptsInv, FixInv, Found
<1>3. CASE TimePasses
  <2>1. UNCHANGED <<human, flaws, unclear, report, attempts, outcome, point, fixed>>
    BY <1>3 DEF TimePasses, result
  <2> QED
    BY <2>1 DEF TypedInv, FreshInv, AttemptsInv, FixInv, VerdictOf, ClassOf, Found
<1>4. CASE Fix
  <2>1. /\ UNCHANGED <<human, report, attempts, outcome>> /\ flaws' \subseteq Faults
        /\ point = "fix" /\ point' = "evaluate" /\ fixed' = fixed \cup {report} /\ outcome # "fixed"
    BY <1>4 DEF Fix, result, FreshInv
  <2>2. report.failing \subseteq Correctable /\ report.failing \cap report.unclear = {}
    BY <2>1, CorrectableClass DEF FixInv, ClassOf
  <2> QED
    BY <2>1, <2>2 DEF TypedInv, FreshInv, AttemptsInv, FixInv
<1>5. CASE FixRaises
  <2>1. /\ UNCHANGED <<human, flaws, report, attempts, outcome>>
        /\ point = "fix" /\ point' = "raised" /\ fixed' = fixed \cup {report} /\ outcome # "fixed"
    BY <1>5 DEF FixRaises, result, FreshInv
  <2>2. report.failing \subseteq Correctable /\ report.failing \cap report.unclear = {}
    BY <2>1, CorrectableClass DEF FixInv, ClassOf
  <2> QED
    BY <2>1, <2>2 DEF TypedInv, FreshInv, AttemptsInv, FixInv
<1>6. CASE Persist
  <2>1. /\ UNCHANGED <<human, flaws, unclear, report, attempts, outcome, fixed>>
        /\ point = "done" /\ point' = "persisted"
    BY <1>6 DEF Persist, result
  <2> QED
    BY <2>1 DEF TypedInv, FreshInv, AttemptsInv, FixInv, VerdictOf, ClassOf, Found
<1>7. CASE Again
  <2>1. UNCHANGED flaws /\ point' = "start" /\ attempts' = <<>> /\ outcome' = "none" /\ fixed' = {}
    BY <1>7 DEF Again
  <2>2. UNCHANGED human
    BY <1>7 DEF Again
  <2>3. attempts' \in Seq(Entry) /\ Len(attempts') = 0
    BY <2>1
  <2>4. TypedInv'
    BY <2>1, <2>2, <2>3 DEF TypedInv
  <2>5. FreshInv' /\ FixInv'
    BY <2>1 DEF FreshInv, FixInv
  <2>6. AttemptsInv'
    <3>1. 1..Len(attempts') - 1 = {}
      BY <2>3
    <3>2. \A i \in 1..Len(attempts') - 1 : attempts'[i].result = "still failing"
      BY <3>1
    <3> QED
      BY <2>1, <3>2 DEF AttemptsInv
  <2> QED
    BY <2>4, <2>5, <2>6
<1>8. CASE UNCHANGED reworkVars
  BY <1>8 DEF reworkVars, TypedInv, FreshInv, AttemptsInv, FixInv, VerdictOf, ClassOf, Found
<1> QED
  BY <1>1, <1>2, <1>3, <1>4, <1>5, <1>6, <1>7, <1>8, ReworkInvIterate, ReworkInvRevalidate DEF ReworkNext

(* "fixed" is true of the tree at the end of the loop, the last attempt    *)
(* passed and those before did not, and a fix was handed only what may be  *)
(* mended (rework.py:178): for any faults, policies and retries.           *)
THEOREM FixedIsCleanKept == ReworkSpec => []FixedIsClean
<1>1. ReworkInv => FixedIsClean
  <2> SUFFICES ASSUME ReworkInv PROVE FixedIsClean
    OBVIOUS
  <2>1. ASSUME outcome = "fixed"
        PROVE  (\A c \in flaws : Severity[c] = "warning") /\ (human => flaws = {})
    <3>1. report = Found /\ VerdictOf(report) = "pass"
      BY <2>1 DEF ReworkInv, FreshInv
    <3>2. Gate(flaws, human) = "pass"
      BY <3>1 DEF VerdictOf, Found
    <3>3. flaws \in SUBSET Check /\ human \in BOOLEAN
      BY ReworkAssumption DEF ReworkInv, TypedInv
    <3> QED
      BY <3>2, <3>3, PassingGate
  <2>2. Last(attempts) = attempts[Len(attempts)]
    BY DEF Last
  <2> QED
    BY <2>1, <2>2 DEF ReworkInv, AttemptsInv, FixInv, FixedIsClean
<1> QED
  BY <1>1, ReworkInvInit, ReworkInvNext, PTL DEF ReworkSpec

(* What the invariant leaves out: the evidence, and how often the loop     *)
(* has tried.                                                              *)
Answer == {"pass", "needs_human_approval", "needs_rework"}
EvidenceTyped == bundle \in Seq(Item) /\ holder \in Seq(Item)
LoopTyped ==
  /\ human \in Human /\ expired \in BOOLEAN /\ unclear \subseteq flaws
  /\ report \in Report \cup {NoReport} /\ fixed \subseteq Report
  /\ point \in {"start", "loop", "fix", "evaluate", "done", "raised", "persisted"}
  /\ outcome \in Outcome \cup {"none"}
  /\ point = "done" => outcome \in Outcome
TriesLeft ==
  /\ Len(attempts) <= MaxRetries
  /\ point \in {"fix", "evaluate"} => Len(attempts) < MaxRetries
LoopInv == ReworkInv /\ EvidenceTyped /\ LoopTyped /\ TriesLeft

(* What is added to the evidence is an item.                               *)
LEMMA AddedItem ==
  ASSUME EvidenceTyped, NEW item \in Item, AddItem(item)
  PROVE  EvidenceTyped'
  BY DEF EvidenceTyped, AddItem

(* The gate answers one of three things (quality_gate.py:276-296).         *)
LEMMA GateAnswers ==
  ASSUME NEW failing, NEW asks
  PROVE  Gate(failing, asks) \in Answer
<1> PICK severities : severities = {Severity[c] : c \in failing}
  OBVIOUS
<1>1. GateVerdict(severities, asks) \in Answer
  <2>1. CASE severities \cap {"blocking", "error"} # {}
    BY <2>1 DEF GateVerdict, Answer
  <2>2. CASE severities \cap {"blocking", "error"} = {} /\ severities = {"warning"} /\ asks
    BY <2>2 DEF GateVerdict, Answer
  <2>3. CASE severities \cap {"blocking", "error"} = {} /\ ~(severities = {"warning"} /\ asks)
    BY <2>3 DEF GateVerdict, Answer
  <2> QED BY <2>1, <2>2, <2>3
<1> QED BY <1>1 DEF Gate

(* The report of a tree is one.                                            *)
LEMMA FoundIsReport ==
  ASSUME ReworkInv, LoopTyped
  PROVE  Found \in Report
  BY DEF ReworkInv, TypedInv, LoopTyped, Found, Report

(* The evidence only grows by items.                                       *)
LEMMA EvidenceKept ==
  ASSUME LoopInv, [ReworkNext]_reworkVars
  PROVE  EvidenceTyped'
<1>0. EvidenceTyped /\ LoopTyped
  BY DEF LoopInv
<1>1. CASE OpenBundle
  <2>1. PICK none : none = <<>>
    OBVIOUS
  <2>0. none \in Seq(Item)
    BY <2>1
  <2>2. (holder' = bundle /\ bundle' = bundle) \/ (bundle' = none /\ holder' = none)
    BY <1>1, <2>1 DEF OpenBundle
  <2> QED BY <1>0, <2>0, <2>2 DEF EvidenceTyped
<1>2. CASE Evaluate
  <2>1. CASE UNCHANGED evidence
    BY <1>0, <2>1 DEF EvidenceTyped, evidence
  <2>2. CASE AddItem([about |-> "gate", says |-> VerdictOf(Found)])
    <3>1. VerdictOf(Found) \in Answer
      BY GateAnswers DEF VerdictOf
    <3>2. PICK item : item = [about |-> "gate", says |-> VerdictOf(Found)]
      OBVIOUS
    <3>3. item \in Item
      BY <3>1, <3>2 DEF Item, Answer
    <3> QED BY <1>0, <2>2, <3>2, <3>3, AddedItem
  <2> QED BY <1>2, <2>1, <2>2 DEF Evaluate
<1>3. CASE Persist
  <2>1. outcome \in Outcome /\ AddItem([about |-> "rework", says |-> outcome])
    BY <1>0, <1>3 DEF Persist, LoopTyped
  <2>2. PICK item : item = [about |-> "rework", says |-> outcome]
    OBVIOUS
  <2>3. item \in Item
    BY <2>1, <2>2 DEF Item
  <2> QED BY <1>0, <2>1, <2>2, <2>3, AddedItem
<1>4. CASE Again
  <2>1. PICK none : none = <<>>
    OBVIOUS
  <2>0. none \in Seq(Item)
    BY <2>1
  <2>2. bundle' = bundle /\ holder' = none
    BY <1>4, <2>1 DEF Again
  <2> QED BY <1>0, <2>0, <2>2 DEF EvidenceTyped
<1>5. CASE TimePasses \/ Iterate \/ Fix \/ FixRaises \/ Revalidate \/ UNCHANGED reworkVars
  <2>1. bundle' = bundle /\ holder' = holder
    BY <1>5 DEF TimePasses, Iterate, Fix, FixRaises, Revalidate, reworkVars, evidence
  <2> QED BY <1>0, <2>1 DEF EvidenceTyped
<1> QED BY <1>1, <1>2, <1>3, <1>4, <1>5 DEF ReworkNext

(* The loop goes from point to point.                                      *)
LEMMA LoopKept ==
  ASSUME LoopInv, [ReworkNext]_reworkVars
  PROVE  LoopTyped'
<1>0. ReworkInv /\ LoopTyped /\ flaws \subseteq Faults
  BY DEF LoopInv, ReworkInv, TypedInv
<1>1. Found \in Report
  BY <1>0, FoundIsReport
<1>2. point = "fix" => report \in Report
  BY <1>0, <1>1 DEF ReworkInv, FreshInv
<1>3. CASE OpenBundle
  BY <1>0, <1>3 DEF OpenBundle, result, LoopTyped
<1>4. CASE Evaluate
  BY <1>0, <1>1, <1>4 DEF Evaluate, LoopTyped
<1>5. CASE TimePasses
  BY <1>0, <1>5 DEF TimePasses, result, LoopTyped
<1>6. CASE Iterate
  <2>1. UNCHANGED <<human, flaws, unclear, report, fixed, expired>>
    BY <1>6 DEF Iterate
  <2>2. (point' = "fix" /\ outcome' = outcome) \/ (point' = "done" /\ outcome' \in Outcome)
    BY <1>6 DEF Iterate, Ends, Outcome
  <2> QED BY <1>0, <2>1, <2>2 DEF LoopTyped
<1>7. CASE Fix
  BY <1>0, <1>2, <1>7 DEF Fix, result, LoopTyped
<1>8. CASE FixRaises
  BY <1>0, <1>2, <1>8 DEF FixRaises, result, LoopTyped
<1>9. CASE Revalidate
  BY <1>0, <1>1, <1>9 DEF Revalidate, LoopTyped
<1>10. CASE Persist
  BY <1>0, <1>10 DEF Persist, result, LoopTyped
<1>11. CASE Again
  BY <1>0, <1>11 DEF Again, LoopTyped
<1>12. CASE UNCHANGED reworkVars
  BY <1>0, <1>12 DEF reworkVars, LoopTyped
<1> QED BY <1>3, <1>4, <1>5, <1>6, <1>7, <1>8, <1>9, <1>10, <1>11, <1>12 DEF ReworkNext

(* An attempt is begun only while there are retries left (rework.py:178).  *)
LEMMA TriesKept ==
  ASSUME LoopInv, [ReworkNext]_reworkVars
  PROVE  TriesLeft'
<1>0. TriesLeft /\ attempts \in Seq(Entry) /\ MaxRetries \in Nat
  BY ReworkAssumption DEF LoopInv, ReworkInv, TypedInv
<1>1. CASE OpenBundle \/ TimePasses \/ Fix \/ FixRaises \/ Persist \/ Evaluate \/ UNCHANGED reworkVars
  <2>1. attempts' = attempts /\ (point' \in {"fix", "evaluate"} => point \in {"fix", "evaluate"})
    BY <1>1 DEF OpenBundle, TimePasses, Fix, FixRaises, Persist, Evaluate, reworkVars, result
  <2> QED BY <1>0, <2>1 DEF TriesLeft
<1>2. CASE Iterate
  <2>1. CASE attempts' = attempts
    <3>1. point' \in {"fix", "evaluate"} => Len(attempts) < MaxRetries
      <4>1. ASSUME point' \in {"fix", "evaluate"}, ~(Len(attempts) < MaxRetries) PROVE FALSE
        <5>1. point' = "done"
          BY <1>2, <4>1 DEF Iterate, Ends
        <5> QED BY <4>1, <5>1
      <4> QED BY <4>1
    <3> QED BY <1>0, <2>1, <3>1 DEF TriesLeft
  <2>2. CASE attempts' # attempts
    <3>1. PICK e : attempts' = Append(attempts, e) /\ e = [class |-> ClassOf(report), result |-> "stopped"]
                   /\ Len(attempts) < MaxRetries /\ point' = "done"
      BY <1>2, <2>2 DEF Iterate, Ends
    <3>2. e \in Entry
      BY <3>1, Classes DEF ClassOf, Entry
    <3>3. Len(Append(attempts, e)) = Len(attempts) + 1 /\ Len(attempts) \in Nat
      BY <1>0, <3>2, AppendedOne
    <3>4. Len(attempts)' = Len(attempts) + 1
      BY <3>1, <3>3
    <3> QED BY <1>0, <3>1, <3>3, <3>4 DEF TriesLeft
  <2> QED BY <2>1, <2>2
<1>3. CASE Revalidate
  <2>1. PICK e : /\ attempts' = Append(attempts, e) /\ point = "evaluate" /\ point' = "loop"
                 /\ e = [class |-> ClassOf(report), result |-> IF VerdictOf(Found) = "pass" THEN "passed" ELSE "still failing"]
    BY <1>3 DEF Revalidate
  <2>2. e \in Entry
    BY <2>1, Classes DEF ClassOf, Entry
  <2>3. Len(Append(attempts, e)) = Len(attempts) + 1 /\ Len(attempts) \in Nat
    BY <1>0, <2>2, AppendedOne
  <2>4. Len(attempts)' = Len(attempts) + 1 /\ Len(attempts) < MaxRetries
    BY <1>0, <2>1, <2>3 DEF TriesLeft
  <2>5. point' \notin {"fix", "evaluate"}
    BY <2>1
  <2>6. Len(attempts)' <= MaxRetries
    BY <1>0, <2>3, <2>4
  <2> QED BY <2>5, <2>6 DEF TriesLeft
<1>4. CASE Again
  <2>1. attempts' = <<>> /\ point' = "start"
    BY <1>4 DEF Again
  <2>2. Len(attempts') = 0
    BY <2>1
  <2> QED BY <1>0, <2>1, <2>2 DEF TriesLeft
<1> QED BY <1>1, <1>2, <1>3, <1>4 DEF ReworkNext

(* The loop is well typed, and never tries more often than max_retries,    *)
(* whatever the fixes make of the tree (rework.py:178, evidence.py).       *)
THEOREM ReworkTypeOKKept == ReworkSpec => []ReworkTypeOK
<1>1. ReworkInit => LoopInv
  <2> SUFFICES ASSUME ReworkInit PROVE LoopInv
    OBVIOUS
  <2>0. PICK none : none = <<>>
    OBVIOUS
  <2>1. none = <<>> /\ none \in Seq(Item) /\ Len(none) = 0
    BY <2>0
  <2>2. bundle = none /\ holder = none /\ attempts = none
    BY <2>1 DEF ReworkInit
  <2>3. EvidenceTyped
    BY <2>1, <2>2 DEF EvidenceTyped
  <2>4. TriesLeft
    BY <2>1, <2>2, ReworkAssumption DEF TriesLeft, ReworkInit
  <2>5. LoopTyped
    BY DEF ReworkInit, LoopTyped
  <2> QED BY <2>3, <2>4, <2>5, ReworkInvInit DEF LoopInv
<1>2. LoopInv /\ [ReworkNext]_reworkVars => LoopInv'
  BY ReworkInvNext, EvidenceKept, LoopKept, TriesKept DEF LoopInv
<1>3. LoopInv => ReworkTypeOK
  BY DEF LoopInv, ReworkInv, TypedInv, Entry, EvidenceTyped, LoopTyped, TriesLeft, ReworkTypeOK
<1> QED BY <1>1, <1>2, <1>3, PTL DEF ReworkSpec

------------------------------------------------------------------------------
(* The accounts and their secrets.                                         *)

Typed ==
  /\ keyring \in [Provider -> [Places -> Secrets \cup {Absent}]]
  /\ profile \in Profile \cup {Broken}
  /\ terminal \in [Terminals -> Command \cup {NoCommand}]
  /\ expected \in Profile /\ separate \in BOOLEAN

(* An account has its secret in the keyring, unless it was forgotten.      *)
Known(p, a) == Stored(p, a) # Absent \/ <<p, a>> \in forgotten

KeyringGiven ==
  \A p \in Provider, a \in Places : Stored(p, a) # Absent => <<p, a, Stored(p, a)>> \in given

FlowGiven ==
  flow # NoCommand /\ ~flow.mixed /\ Absent \notin {flow.account, flow.secret} =>
    <<flow.provider, flow.account, flow.secret>> \in given

(* A command past its credentials holds an account with its secret.        *)
Credentials ==
  \A t \in Terminals : terminal[t] # NoCommand /\ terminal[t].at # "resolve" =>
    /\ terminal[t].account \in Accounts
    /\ <<terminal[t].provider, terminal[t].account, terminal[t].secret>> \in given
    /\ Known(terminal[t].provider, terminal[t].account)

(* The jira account of the profile, and of a copy of it, is known.         *)
JiraKnown ==
  /\ profile # Broken /\ profile.jira # Absent => Known("jira", profile.jira)
  /\ \A t \in Terminals : terminal[t] # NoCommand /\ terminal[t].copy.jira # Absent =>
       Known("jira", terminal[t].copy.jira)

(* Of logins that keep apart one at most is between its load and the end   *)
(* of its write, with a copy of what the others added up to.               *)
Saving(t) == terminal[t] # NoCommand /\ terminal[t].at \in {"save", "write"}
Apart ==
  separate =>
    /\ \A t, u \in Terminals : Saving(t) /\ Saving(u) => t = u
    /\ \A t \in Terminals : Saving(t) => terminal[t].copy = expected
    /\ (\A t \in Terminals : terminal[t] # NoCommand => terminal[t].at # "write") => profile = expected

SecretInv == Typed /\ KeyringGiven /\ FlowGiven /\ Credentials /\ JiraKnown /\ Apart

(* What storing a secret does to the keyring.                              *)
LEMMA SecretStored ==
  ASSUME Typed, NEW p \in Provider, NEW a \in Places, NEW s \in Secrets, SetSecret(p, a, s)
  PROVE  /\ keyring' \in [Provider -> [Places -> Secrets \cup {Absent}]]
         /\ Known(p, a)'
         /\ \A q \in Provider, b \in Places : Known(q, b) => Known(q, b)'
         /\ \A q \in Provider, b \in Places :
              Stored(q, b)' = Stored(q, b) \/ (q = p /\ b = a /\ Stored(q, b)' = s)
<1>1. keyring' \in [Provider -> [Places -> Secrets \cup {Absent}]]
  BY DEF Typed, SetSecret
<1>2. \A q \in Provider, b \in Places :
        Stored(q, b)' = IF q = p /\ b = a THEN s ELSE Stored(q, b)
  BY DEF Typed, SetSecret, Stored
<1>3. s # Absent
  BY OnboardingAssumption
<1>4. \A q \in Provider, b \in Places : <<q, b>> \in forgotten => <<q, b>> \in forgotten' \/ (q = p /\ b = a)
  BY DEF SetSecret
<1> QED BY <1>1, <1>2, <1>3, <1>4 DEF Known

(* A step that changes neither keyring nor what was forgotten.             *)
LEMMA KeyringRests ==
  ASSUME UNCHANGED <<keyring, forgotten>>
  PROVE  \A p, a : Stored(p, a)' = Stored(p, a) /\ (Known(p, a)' <=> Known(p, a))
BY DEF Stored, Known

(* A login writes its account, or what was typed, into the profile.        *)
LEMMA PatchedType ==
  ASSUME NEW old \in Profile, NEW c \in Command
  PROVE  /\ Patched(old, c) \in Profile
         /\ Patched(old, c).jira = old.jira \/ (c.provider = "jira" /\ Patched(old, c).jira = c.account)
<1>1. c.provider \in {"jira", "azuredevops"} /\ c.account \in Accounts \cup {Absent} /\ c.typed \in Accounts \cup {Absent}
  BY DEF Command, Provider
<1>2. CASE c.provider = "jira"
  BY <1>1, <1>2 DEF Patched, Profile, Provider
<1>3. CASE c.provider = "azuredevops"
  BY <1>1, <1>3 DEF Patched, Profile, Provider
<1> QED BY <1>1, <1>2, <1>3

(* A command moves on, begins or ends; the others stay where they are.     *)
LEMMA CommandMoves ==
  ASSUME Typed, Credentials, JiraKnown, NEW t \in Terminals, NEW c, c \in Command \/ c = NoCommand,
         terminal' = [terminal EXCEPT ![t] = c], given \subseteq given',
         \A p \in Provider, a \in Places : Known(p, a) => Known(p, a)',
         c # NoCommand /\ c.at # "resolve" =>
           /\ c.account \in Accounts /\ <<c.provider, c.account, c.secret>> \in given'
           /\ Known(c.provider, c.account)',
         c # NoCommand /\ c.copy.jira # Absent => Known("jira", c.copy.jira)'
  PROVE  /\ terminal' \in [Terminals -> Command \cup {NoCommand}]
         /\ Credentials'
         /\ (\A u \in Terminals : terminal[u] # NoCommand /\ terminal[u].copy.jira # Absent =>
              Known("jira", terminal[u].copy.jira))'
<1>1. /\ terminal' \in [Terminals -> Command \cup {NoCommand}]
      /\ terminal'[t] = c /\ \A u \in Terminals \ {t} : terminal'[u] = terminal[u]
  BY DEF Typed
<1>2. \A u \in Terminals : terminal[u] # NoCommand =>
        /\ terminal[u].provider \in Provider /\ terminal[u].copy \in Profile
  BY DEF Typed, Command
<1>3. \A x \in Profile : x.jira = Absent \/ x.jira \in Places
  BY DEF Profile, Places
<1>4. ASSUME NEW u \in Terminals, NEW d, d = terminal'[u], d # NoCommand, d.at # "resolve"
      PROVE  d.account \in Accounts /\ <<d.provider, d.account, d.secret>> \in given' /\ Known(d.provider, d.account)'
  <2>1. CASE u = t
    BY <1>1, <1>4, <2>1
  <2>2. CASE u # t
    <3>1. d = terminal[u]
      BY <1>1, <1>4, <2>2
    <3>2. d.account \in Accounts /\ <<d.provider, d.account, d.secret>> \in given /\ Known(d.provider, d.account)
      BY <1>4, <3>1 DEF Credentials
    <3>3. Known(d.provider, d.account)'
      BY <1>2, <1>4, <3>1, <3>2 DEF Places
    <3> QED BY <3>2, <3>3
  <2> QED BY <2>1, <2>2
<1>5. ASSUME NEW u \in Terminals, NEW d, d = terminal'[u], d # NoCommand, d.copy.jira # Absent
      PROVE  Known("jira", d.copy.jira)'
  <2>1. CASE u = t
    BY <1>1, <1>5, <2>1
  <2>2. CASE u # t
    <3>1. d = terminal[u]
      BY <1>1, <1>5, <2>2
    <3>2. Known("jira", d.copy.jira) /\ d.copy.jira \in Places
      BY <1>2, <1>3, <1>5, <3>1 DEF JiraKnown
    <3> QED BY <3>2 DEF Provider
  <2> QED BY <2>1, <2>2
<1>6. Credentials'
  BY <1>4 DEF Credentials
<1>7. (\A u \in Terminals : terminal[u] # NoCommand /\ terminal[u].copy.jira # Absent =>
         Known("jira", terminal[u].copy.jira))'
  BY <1>5
<1> QED BY <1>1, <1>6, <1>7

(* What a command outside its load and its write does not disturb.         *)
LEMMA ApartMoves ==
  ASSUME Typed, Apart, NEW t \in Terminals, NEW c, terminal' = [terminal EXCEPT ![t] = c],
         UNCHANGED <<profile, expected, separate>>,
         c # NoCommand => c.at \notin {"save", "write"},
         terminal[t] # NoCommand => terminal[t].at # "write"
  PROVE  Apart'
<1>1. terminal'[t] = c /\ \A u \in Terminals \ {t} : terminal'[u] = terminal[u]
  BY DEF Typed
<1>2. \A u \in Terminals : Saving(u)' => Saving(u) /\ terminal'[u] = terminal[u]
  BY <1>1 DEF Saving
<1>3. (\A u \in Terminals : terminal'[u] # NoCommand => terminal'[u].at # "write") =>
        \A u \in Terminals : terminal[u] # NoCommand => terminal[u].at # "write"
  BY <1>1
<1> QED BY <1>2, <1>3 DEF Apart

(* The profile's own promise, while the profile is left alone.             *)
LEMMA ProfileRests ==
  ASSUME Typed, JiraKnown, UNCHANGED profile,
         \A p \in Provider, a \in Places : Known(p, a) => Known(p, a)'
  PROVE  (profile # Broken /\ profile.jira # Absent => Known("jira", profile.jira))'
<1> PICK a : a = profile.jira
  OBVIOUS
<1>1. profile # Broken /\ a # Absent => Known("jira", a) /\ a \in Places /\ "jira" \in Provider
  BY DEF Typed, JiraKnown, Profile, Places, Provider
<1>2. profile # Broken /\ a # Absent => Known("jira", a)'
  BY <1>1
<1> QED BY <1>2

(* A flow's secret stays one that was given.                               *)
LEMMA FlowRests ==
  ASSUME FlowGiven, UNCHANGED flow, given \subseteq given'
  PROVE  FlowGiven'
BY DEF FlowGiven

(* The words the model uses are no accounts.                               *)
LEMMA StringsApart == "jira" \in Provider /\ "azuredevops" \in Provider /\ Nobody \in Profile /\ Absent \notin Places
<1>1. Nobody \in Profile
  BY DEF Nobody, Profile
<1>2. Absent \notin Places
  BY OnboardingAssumption DEF Absent, Places
<1> QED BY <1>1, <1>2 DEF Provider

(* A command starts with what the profile says.                            *)
LEMMA SecretInvBegin ==
  ASSUME SecretInv, NEW t \in Terminals, NEW p \in Provider, NEW env \in Environments, BeginCommand(t, p, env)
  PROVE  SecretInv'
<1>1. PICK what \in {"login", "sprint"}, typed \in Accounts \cup {Absent} :
        terminal' = [terminal EXCEPT ![t] =
          [what |-> what, provider |-> p, env |-> env, typed |-> typed,
           copy |-> IF what = "login" THEN Nobody ELSE profile,
           account |-> Absent, secret |-> Absent, at |-> "resolve"]]
  BY DEF BeginCommand
<1> PICK c : c = [what |-> what, provider |-> p, env |-> env, typed |-> typed,
                  copy |-> IF what = "login" THEN Nobody ELSE profile,
                  account |-> Absent, secret |-> Absent, at |-> "resolve"]
  OBVIOUS
<1>2. /\ UNCHANGED <<keyring, profile, flow, given, forgotten, expected, separate>>
      /\ terminal[t] = NoCommand /\ profile # Broken
  BY DEF BeginCommand
<1>3. terminal' = [terminal EXCEPT ![t] = c] /\ c.at = "resolve" /\ c.copy \in {Nobody, profile}
  BY <1>1
<1>4. profile \in Profile /\ Nobody \in Profile
  BY <1>2, StringsApart DEF SecretInv, Typed
<1>5. c \in Command
  BY <1>4 DEF Command
<1>6. \A q, a : Stored(q, a)' = Stored(q, a) /\ (Known(q, a)' <=> Known(q, a))
  BY <1>2, KeyringRests
<1>7. c.copy.jira # Absent => Known("jira", c.copy.jira)'
  <2>1. c.copy.jira # Absent => Known("jira", c.copy.jira)
    BY <1>2, <1>3 DEF SecretInv, JiraKnown, Nobody
  <2> QED BY <1>6, <2>1
<1>8. /\ terminal' \in [Terminals -> Command \cup {NoCommand}] /\ Credentials'
      /\ (\A u \in Terminals : terminal[u] # NoCommand /\ terminal[u].copy.jira # Absent =>
            Known("jira", terminal[u].copy.jira))'
  BY <1>2, <1>3, <1>5, <1>6, <1>7, CommandMoves DEF SecretInv
<1>9. Apart'
  BY <1>2, <1>3, ApartMoves DEF SecretInv
<1>10. JiraKnown'
  BY <1>2, <1>6, <1>8, ProfileRests DEF SecretInv, JiraKnown
<1>11. KeyringGiven' /\ FlowGiven'
  BY <1>2, <1>6, FlowRests DEF SecretInv, KeyringGiven
<1> QED BY <1>2, <1>8, <1>9, <1>10, <1>11 DEF SecretInv, Typed

(* A command past "resolve" holds what it found.                           *)
LEMMA HoldingMoves ==
  ASSUME Typed, NEW t \in Terminals, terminal[t] # NoCommand,
         NEW a \in Accounts, NEW s \in Secrets, Holding(t, a, s)
  PROVE  \E c \in Command :
           /\ terminal' = [terminal EXCEPT ![t] = c] /\ c.at \in {"load", "start"}
           /\ c.provider = terminal[t].provider /\ c.copy = terminal[t].copy
           /\ c.account = a /\ c.secret = s
<1> PICK d : d = terminal[t]
  OBVIOUS
<1> PICK w \in {"load", "start"} : w = IF d.what = "login" THEN "load" ELSE "start"
  OBVIOUS
<1> PICK c : c = [d EXCEPT !.account = a, !.secret = s, !.at = w]
  OBVIOUS
<1>1. d \in Command
  BY DEF Typed
<1>2. c \in Command /\ c.at = w /\ c.provider = d.provider /\ c.copy = d.copy /\ c.account = a /\ c.secret = s
  BY <1>1 DEF Command
<1>3. terminal' = [terminal EXCEPT ![t] = c]
  BY <1>1 DEF Holding, Typed
<1> QED BY <1>2, <1>3

(* What is given in a step is given.                                       *)
LEMMA GivenTogether ==
  ASSUME NEW p \in Provider, NEW a \in Places, NEW s \in Secrets
  PROVE  Together(p, a, s) = given \cup {<<p, a, s>>}
BY StringsApart, OnboardingAssumption DEF Together

(* Credentials from the environment or a prompt go to the keyring and to   *)
(* the command, or the keyring raises and the command ends.                *)
LEMMA SecretInvStore ==
  ASSUME SecretInv, NEW t \in Terminals, NEW p, p = terminal[t].provider,
         terminal[t] # NoCommand, terminal[t].at = "resolve",
         NEW a \in Accounts, NEW s \in Secrets, given' = Together(p, a, s),
         \/ SetSecret(p, a, s) /\ Holding(t, a, s)
         \/ Leave(t) /\ UNCHANGED <<keyring, forgotten>>,
         UNCHANGED <<profile, flow, expected, separate>>
  PROVE  SecretInv'
<1>1. p \in Provider /\ a \in Places /\ terminal[t] \in Command
  BY DEF SecretInv, Typed, Command, Places
<1>2. given' = given \cup {<<p, a, s>>}
  BY <1>1, GivenTogether
<1>3. CASE SetSecret(p, a, s) /\ Holding(t, a, s)
  <2>1. /\ keyring' \in [Provider -> [Places -> Secrets \cup {Absent}]]
        /\ Known(p, a)'
        /\ \A q \in Provider, b \in Places : Known(q, b) => Known(q, b)'
        /\ \A q \in Provider, b \in Places :
             Stored(q, b)' = Stored(q, b) \/ (q = p /\ b = a /\ Stored(q, b)' = s)
    BY <1>1, <1>3, SecretStored DEF SecretInv
  <2> PICK c \in Command :
        /\ terminal' = [terminal EXCEPT ![t] = c] /\ c.at \in {"load", "start"}
        /\ c.provider = p /\ c.copy = terminal[t].copy /\ c.account = a /\ c.secret = s
    BY <1>3, HoldingMoves DEF SecretInv
  <2>2. c.copy.jira # Absent => Known("jira", c.copy.jira)'
    <3>1. c.copy.jira # Absent => Known("jira", c.copy.jira) /\ c.copy.jira \in Places
      BY <1>1 DEF SecretInv, JiraKnown, Command, Profile, Places
    <3> QED BY <2>1, <3>1, StringsApart
  <2>3. c # NoCommand /\ c.at # "resolve" =>
           /\ c.account \in Accounts /\ <<c.provider, c.account, c.secret>> \in given'
           /\ Known(c.provider, c.account)'
    BY <1>2, <2>1
  <2>4. /\ terminal' \in [Terminals -> Command \cup {NoCommand}] /\ Credentials'
        /\ (\A u \in Terminals : terminal[u] # NoCommand /\ terminal[u].copy.jira # Absent =>
              Known("jira", terminal[u].copy.jira))'
    BY <1>2, <2>1, <2>2, <2>3, CommandMoves DEF SecretInv
  <2>5. Apart'
    BY ApartMoves DEF SecretInv
  <2>6. JiraKnown'
    BY <2>1, <2>4, ProfileRests DEF SecretInv, JiraKnown
  <2>7. KeyringGiven'
    BY <1>2, <2>1 DEF SecretInv, KeyringGiven
  <2>8. FlowGiven'
    BY <1>2, FlowRests DEF SecretInv
  <2> QED BY <2>1, <2>4, <2>5, <2>6, <2>7, <2>8 DEF SecretInv, Typed
<1>4. CASE Leave(t) /\ UNCHANGED <<keyring, forgotten>>
  <2>1. \A q, b : Stored(q, b)' = Stored(q, b) /\ (Known(q, b)' <=> Known(q, b))
    BY <1>4, KeyringRests
  <2>2. terminal' = [terminal EXCEPT ![t] = NoCommand]
    BY <1>4 DEF Leave
  <2>3. /\ terminal' \in [Terminals -> Command \cup {NoCommand}] /\ Credentials'
        /\ (\A u \in Terminals : terminal[u] # NoCommand /\ terminal[u].copy.jira # Absent =>
              Known("jira", terminal[u].copy.jira))'
    BY <1>2, <2>1, <2>2, CommandMoves DEF SecretInv
  <2>4. Apart'
    BY <2>2, ApartMoves DEF SecretInv
  <2>5. JiraKnown'
    BY <2>1, <2>3, ProfileRests DEF SecretInv, JiraKnown
  <2>6. KeyringGiven' /\ FlowGiven'
    BY <1>2, <2>1, FlowRests DEF SecretInv, KeyringGiven
  <2> QED BY <1>4, <2>3, <2>4, <2>5, <2>6 DEF SecretInv, Typed
<1> QED BY <1>3, <1>4

(* The steps in which a command finds its credentials                      *)
(* (credentials.py:71-113).                                                *)
LEMMA SecretInvResolve ==
  ASSUME SecretInv, NEW t \in Terminals, FromEnvironment(t) \/ FromKeyring(t) \/ Prompted(t)
  PROVE  SecretInv'
<1> PICK d : d = terminal[t]
  OBVIOUS
<1>1. d # NoCommand /\ d.at = "resolve"
  BY DEF FromEnvironment, FromKeyring, Prompted
<1>2. d \in Command
  BY <1>1 DEF SecretInv, Typed
<1>3. d.provider \in Provider /\ d.env.account \in Accounts \cup {Absent} /\ d.env.secret \in Secrets \cup {Absent}
  <2>1. d.env \in Environments /\ d.provider \in Provider
    BY <1>2 DEF Command
  <2> QED BY <2>1, OnboardingAssumption
<1>4. CASE FromEnvironment(t)
  <2>1. d.env.account \in Accounts /\ d.env.secret \in Secrets
    BY <1>3, <1>4 DEF FromEnvironment
  <2> QED BY <1>1, <1>4, <2>1, SecretInvStore DEF FromEnvironment
<1>5. CASE Prompted(t)
  <2>1. PICK a \in IF d.env.account = Absent THEN Accounts ELSE {d.env.account}, s \in Secrets :
          /\ given' = Together(d.provider, a, s)
          /\ \/ SetSecret(d.provider, a, s) /\ Holding(t, a, s)
             \/ Leave(t) /\ UNCHANGED <<keyring, forgotten>>
    BY <1>5 DEF Prompted
  <2>2. a \in Accounts
    BY <1>3
  <2>3. UNCHANGED <<profile, flow, expected, separate>>
    BY <1>5 DEF Prompted
  <2> QED BY <1>1, <2>1, <2>2, <2>3, SecretInvStore
<1>6. CASE FromKeyring(t)
  <2> PICK a : a = d.env.account
    OBVIOUS
  <2> PICK s : s = Stored(d.provider, a)
    OBVIOUS
  <2>1. /\ a # Absent /\ s # Absent /\ Holding(t, a, s)
        /\ UNCHANGED <<keyring, profile, flow, given, forgotten, expected, separate>>
    BY <1>6 DEF FromKeyring
  <2>2. a \in Accounts /\ a \in Places
    BY <1>3, <2>1 DEF Places
  <2>3. s \in Secrets /\ <<d.provider, a, s>> \in given /\ Known(d.provider, a)
    <3>1. s \in Secrets
      BY <1>3, <2>1, <2>2 DEF SecretInv, Typed, Stored
    <3> QED BY <1>3, <2>1, <2>2, <3>1 DEF SecretInv, KeyringGiven, Known
  <2> PICK c \in Command :
        /\ terminal' = [terminal EXCEPT ![t] = c] /\ c.at \in {"load", "start"}
        /\ c.provider = d.provider /\ c.copy = d.copy /\ c.account = a /\ c.secret = s
    BY <1>1, <2>1, <2>2, <2>3, HoldingMoves DEF SecretInv
  <2>4. \A q, b : Stored(q, b)' = Stored(q, b) /\ (Known(q, b)' <=> Known(q, b))
    BY <2>1, KeyringRests
  <2>5. c.copy.jira # Absent => Known("jira", c.copy.jira)'
    <3>1. c.copy.jira # Absent => Known("jira", c.copy.jira)
      BY <1>1 DEF SecretInv, JiraKnown
    <3> QED BY <2>4, <3>1
  <2>6. c # NoCommand /\ c.at # "resolve" =>
           /\ c.account \in Accounts /\ <<c.provider, c.account, c.secret>> \in given'
           /\ Known(c.provider, c.account)'
    BY <2>1, <2>2, <2>3, <2>4
  <2>7. /\ terminal' \in [Terminals -> Command \cup {NoCommand}] /\ Credentials'
        /\ (\A u \in Terminals : terminal[u] # NoCommand /\ terminal[u].copy.jira # Absent =>
              Known("jira", terminal[u].copy.jira))'
    BY <2>1, <2>4, <2>5, <2>6, CommandMoves DEF SecretInv
  <2>8. Apart'
    BY <1>1, <2>1, ApartMoves DEF SecretInv
  <2>9. JiraKnown'
    BY <2>1, <2>4, <2>7, ProfileRests DEF SecretInv, JiraKnown
  <2>10. KeyringGiven' /\ FlowGiven'
    BY <2>1, <2>4, FlowRests DEF SecretInv, KeyringGiven
  <2> QED BY <2>1, <2>7, <2>8, <2>9, <2>10 DEF SecretInv, Typed
<1> QED BY <1>4, <1>5, <1>6

(* A command that ends leaves the rest as it is, but for one that dies     *)
(* within its write.                                                       *)
LEMMA CommandEnds ==
  ASSUME SecretInv, NEW t \in Terminals, Leave(t), UNCHANGED <<keyring, profile, given, forgotten, expected>>,
         FlowGiven', separate' \in BOOLEAN, separate' => separate /\ terminal[t].at # "write", terminal[t] # NoCommand
  PROVE  SecretInv'
<1>1. \A q, b : Stored(q, b)' = Stored(q, b) /\ (Known(q, b)' <=> Known(q, b))
  BY KeyringRests
<1>2. terminal' = [terminal EXCEPT ![t] = NoCommand]
  BY DEF Leave
<1>3. /\ terminal' \in [Terminals -> Command \cup {NoCommand}] /\ Credentials'
      /\ (\A u \in Terminals : terminal[u] # NoCommand /\ terminal[u].copy.jira # Absent =>
            Known("jira", terminal[u].copy.jira))'
  BY <1>1, <1>2, CommandMoves DEF SecretInv
<1>4. Apart'
  <2>1. CASE separate' = separate
    <3>1. CASE separate
      BY <1>2, <2>1, <3>1, ApartMoves DEF SecretInv
    <3>2. CASE ~separate
      BY <2>1, <3>2 DEF Apart
    <3> QED BY <3>1, <3>2
  <2>2. CASE separate' # separate
    BY <2>2 DEF SecretInv, Typed, Apart
  <2> QED BY <2>1, <2>2
<1>5. JiraKnown'
  BY <1>1, <1>3, ProfileRests DEF SecretInv, JiraKnown
<1>6. KeyringGiven'
  BY <1>1 DEF SecretInv, KeyringGiven
<1> QED BY <1>3, <1>4, <1>5, <1>6 DEF SecretInv, Typed

(* A sprint starts with the pair it holds, and a command may die.          *)
LEMMA SecretInvEnd ==
  ASSUME SecretInv, NEW t \in Terminals, StartSprint(t) \/ CommandDies(t)
  PROVE  SecretInv'
<1> PICK d : d = terminal[t]
  OBVIOUS
<1>1. CASE StartSprint(t)
  <2> PICK a : a = IF d.provider = "azuredevops" /\ d.copy.azuredevops # Absent THEN d.copy.azuredevops ELSE d.account
    OBVIOUS
  <2>1. /\ d # NoCommand /\ d.at = "start" /\ Leave(t)
        /\ flow' = [provider |-> d.provider, account |-> a, secret |-> d.secret, mixed |-> a # d.account]
        /\ UNCHANGED <<keyring, profile, given, forgotten, expected, separate>>
    BY <1>1 DEF StartSprint
  <2>2. <<d.provider, d.account, d.secret>> \in given
    BY <2>1 DEF SecretInv, Credentials
  <2>3. FlowGiven'
    BY <2>1, <2>2 DEF FlowGiven
  <2> QED BY <2>1, <2>3, CommandEnds DEF SecretInv, Typed
<1>2. CASE CommandDies(t)
  <2>1. FlowGiven'
    BY <1>2, FlowRests DEF CommandDies, SecretInv
  <2> QED BY <1>2, <2>1, CommandEnds DEF CommandDies, SecretInv, Typed
<1> QED BY <1>1, <1>2

(* login loads the profile, truncates the file and writes it               *)
(* (profile.py:93-109).                                                    *)
LEMMA SecretInvLoad ==
  ASSUME SecretInv, NEW t \in Terminals, LoadProfile(t)
  PROVE  SecretInv'
<1> PICK d : d = terminal[t]
  OBVIOUS
<1> PICK c : c = [d EXCEPT !.copy = profile, !.at = "save"]
  OBVIOUS
<1>1. /\ d # NoCommand /\ d.at = "load" /\ profile # Broken
      /\ separate' = (separate /\ \A u \in Terminals \ {t} : terminal[u] # NoCommand => terminal[u].at \notin {"save", "write"})
      /\ UNCHANGED <<keyring, profile, flow, given, forgotten, expected, issued>>
  BY DEF LoadProfile
<1>2. d \in Command /\ profile \in Profile
  BY <1>1 DEF SecretInv, Typed
<1>3. /\ c \in Command /\ c.copy = profile /\ c.at = "save" /\ c.provider = d.provider
      /\ c.account = d.account /\ c.secret = d.secret
  BY <1>2 DEF Command
<1>4. terminal' = [terminal EXCEPT ![t] = c]
  BY <1>2 DEF LoadProfile, SecretInv, Typed
<1>5. \A q, b : Stored(q, b)' = Stored(q, b) /\ (Known(q, b)' <=> Known(q, b))
  BY <1>1, KeyringRests
<1>6. c.copy.jira # Absent => Known("jira", c.copy.jira)'
  <2>1. c.copy.jira # Absent => Known("jira", c.copy.jira)
    BY <1>1, <1>3 DEF SecretInv, JiraKnown
  <2> QED BY <1>5, <2>1
<1>7. c.account \in Accounts /\ <<c.provider, c.account, c.secret>> \in given' /\ Known(c.provider, c.account)'
  <2>1. d.account \in Accounts /\ <<d.provider, d.account, d.secret>> \in given /\ Known(d.provider, d.account)
    BY <1>1 DEF SecretInv, Credentials
  <2> QED BY <1>1, <1>3, <1>5, <2>1
<1>8. /\ terminal' \in [Terminals -> Command \cup {NoCommand}] /\ Credentials'
      /\ (\A u \in Terminals : terminal[u] # NoCommand /\ terminal[u].copy.jira # Absent =>
            Known("jira", terminal[u].copy.jira))'
  BY <1>1, <1>3, <1>4, <1>5, <1>6, <1>7, CommandMoves DEF SecretInv
<1>9. Apart'
  <2> SUFFICES ASSUME separate' PROVE Apart'
    BY DEF Apart
  <2>1. separate /\ \A u \in Terminals \ {t} : ~Saving(u)
    BY <1>1 DEF Saving
  <2>2. terminal'[t] = c /\ \A u \in Terminals \ {t} : terminal'[u] = terminal[u]
    BY <1>4 DEF SecretInv, Typed
  <2>3. \A u \in Terminals \ {t} : ~Saving(u)'
    BY <2>1, <2>2 DEF Saving
  <2>4. \A u \in Terminals : terminal[u] # NoCommand => terminal[u].at # "write"
    BY <1>1, <2>1 DEF Saving
  <2>5. profile = expected
    BY <2>1, <2>4 DEF SecretInv, Apart
  <2> QED BY <1>1, <1>3, <2>2, <2>3, <2>5 DEF Apart
<1>10. JiraKnown'
  BY <1>1, <1>5, <1>8, ProfileRests DEF SecretInv, JiraKnown
<1>11. KeyringGiven' /\ FlowGiven'
  BY <1>1, <1>5, FlowRests DEF SecretInv, KeyringGiven
<1> QED BY <1>1, <1>2, <1>8, <1>9, <1>10, <1>11 DEF SecretInv, Typed

(* What may be on the disk while a login writes says no more than it.      *)
LEMMA WrittenKnown ==
  ASSUME SecretInv, NEW t \in Terminals, NEW d, d = terminal[t], d # NoCommand, d.at # "resolve",
         UNCHANGED <<keyring, forgotten>>, NEW q, q = Patched(d.copy, d),
         NEW r \in FirstLines(q) \cup {q}
  PROVE  q \in Profile /\ r \in Profile /\ (r.jira # Absent => Known("jira", r.jira)')
<1>1. d \in Command /\ d.copy \in Profile
  BY DEF SecretInv, Typed, Command
<1>2. q \in Profile /\ (q.jira = d.copy.jira \/ (d.provider = "jira" /\ q.jira = d.account))
  BY <1>1, PatchedType
<1>3. q.jira # Absent => Known("jira", q.jira)
  BY <1>2 DEF SecretInv, JiraKnown, Credentials
<1>4. r \in Profile /\ (r.jira = Absent \/ r.jira = q.jira)
  BY <1>2 DEF FirstLines, Nobody, Profile
<1> QED BY <1>2, <1>3, <1>4, KeyringRests

(* A save empties the file first: what is on disk is part of the new one.  *)
LEMMA SecretInvTruncate ==
  ASSUME SecretInv, NEW t \in Terminals, TruncateProfile(t)
  PROVE  SecretInv'
<1> PICK d : d = terminal[t]
  OBVIOUS
<1> PICK c : c = [d EXCEPT !.at = "write"]
  OBVIOUS
<1> PICK q : q = Patched(d.copy, d)
  OBVIOUS
<1>1. /\ d # NoCommand /\ d.at = "save" /\ profile' \in FirstLines(q) \cup {Broken}
      /\ UNCHANGED <<keyring, flow, given, forgotten, expected, separate, issued>>
  BY DEF TruncateProfile
<1>2. d \in Command
  BY <1>1 DEF SecretInv, Typed
<1>3. /\ c \in Command /\ c.copy = d.copy /\ c.at = "write" /\ c.provider = d.provider
      /\ c.account = d.account /\ c.secret = d.secret
  BY <1>2 DEF Command
<1>4. terminal' = [terminal EXCEPT ![t] = c]
  BY <1>2 DEF TruncateProfile, SecretInv, Typed
<1>5. \A p, b : Stored(p, b)' = Stored(p, b) /\ (Known(p, b)' <=> Known(p, b))
  BY <1>1, KeyringRests
<1>6. c.copy.jira # Absent => Known("jira", c.copy.jira)'
  BY <1>1, <1>3, <1>5 DEF SecretInv, JiraKnown
<1>7. c.account \in Accounts /\ <<c.provider, c.account, c.secret>> \in given' /\ Known(c.provider, c.account)'
  <2>1. d.account \in Accounts /\ <<d.provider, d.account, d.secret>> \in given /\ Known(d.provider, d.account)
    BY <1>1 DEF SecretInv, Credentials
  <2> QED BY <1>1, <1>3, <1>5, <2>1
<1>8. /\ terminal' \in [Terminals -> Command \cup {NoCommand}] /\ Credentials'
      /\ (\A u \in Terminals : terminal[u] # NoCommand /\ terminal[u].copy.jira # Absent =>
            Known("jira", terminal[u].copy.jira))'
  BY <1>1, <1>3, <1>4, <1>5, <1>6, <1>7, CommandMoves DEF SecretInv
<1>9. Apart'
  <2>1. terminal'[t] = c /\ \A u \in Terminals \ {t} : terminal'[u] = terminal[u]
    BY <1>4 DEF SecretInv, Typed
  <2>2. \A u \in Terminals : Saving(u)' => Saving(u) /\ terminal'[u].copy = terminal[u].copy
    BY <1>1, <1>3, <2>1 DEF Saving
  <2>3. ~\A u \in Terminals : terminal'[u] # NoCommand => terminal'[u].at # "write"
    <3>1. CASE c # NoCommand
      BY <1>3, <2>1, <3>1
    <3>2. CASE c = NoCommand
      BY <1>3, <3>2, NoCommandApart
    <3> QED BY <3>1, <3>2
  <2> QED BY <1>1, <2>2, <2>3 DEF SecretInv, Apart
<1>10. profile' = Broken \/ profile' \in Profile
  BY <1>1, WrittenKnown
<1>11. JiraKnown'
  <2> PICK r : r = profile'
    OBVIOUS
  <2>1. r # Broken /\ r.jira # Absent => Known("jira", r.jira)'
    BY <1>1, WrittenKnown
  <2> QED BY <1>8, <2>1 DEF JiraKnown
<1>12. KeyringGiven' /\ FlowGiven'
  BY <1>1, <1>5, FlowRests DEF SecretInv, KeyringGiven
<1> QED BY <1>1, <1>8, <1>9, <1>10, <1>11, <1>12 DEF SecretInv, Typed

(* The write of a login that kept apart leaves what all of them add up to. *)
LEMMA SecretInvSave ==
  ASSUME SecretInv, NEW t \in Terminals, SaveProfile(t)
  PROVE  SecretInv'
<1> PICK d : d = terminal[t]
  OBVIOUS
<1> PICK q : q = Patched(d.copy, d)
  OBVIOUS
<1>1. /\ d # NoCommand /\ d.at = "write" /\ profile' = q /\ expected' = Patched(expected, d)
      /\ terminal' = [terminal EXCEPT ![t] = NoCommand]
      /\ UNCHANGED <<keyring, flow, given, forgotten, separate, issued>>
  BY DEF SaveProfile, Leave
<1>2. d \in Command
  BY <1>1 DEF SecretInv, Typed
<1>3. \A p, b : Stored(p, b)' = Stored(p, b) /\ (Known(p, b)' <=> Known(p, b))
  BY <1>1, KeyringRests
<1>4. /\ terminal' \in [Terminals -> Command \cup {NoCommand}] /\ Credentials'
      /\ (\A u \in Terminals : terminal[u] # NoCommand /\ terminal[u].copy.jira # Absent =>
            Known("jira", terminal[u].copy.jira))'
  BY <1>1, <1>3, CommandMoves DEF SecretInv
<1>5. q \in Profile /\ (q.jira # Absent => Known("jira", q.jira)')
  BY <1>1, WrittenKnown
<1>6. JiraKnown'
  BY <1>1, <1>4, <1>5 DEF JiraKnown
<1>7. expected' \in Profile
  BY <1>1, <1>2, PatchedType DEF SecretInv, Typed
<1>8. Apart'
  <2> SUFFICES ASSUME separate PROVE Apart'
    BY <1>1 DEF Apart
  <2>1. d.copy = expected /\ \A u \in Terminals \ {t} : ~Saving(u)
    BY <1>1 DEF SecretInv, Apart, Saving
  <2>2. \A u \in Terminals : ~Saving(u)'
    BY <1>1, <2>1 DEF Saving, SecretInv, Typed
  <2>3. profile' = expected'
    BY <1>1, <2>1
  <2> QED BY <2>2, <2>3 DEF Apart
<1>9. KeyringGiven' /\ FlowGiven'
  BY <1>1, <1>3, FlowRests DEF SecretInv, KeyringGiven
<1> QED BY <1>1, <1>4, <1>5, <1>6, <1>7, <1>8, <1>9 DEF SecretInv, Typed

(* What no command in a terminal does leaves those that are there.         *)
LEMMA TerminalsRest ==
  ASSUME SecretInv, UNCHANGED <<profile, terminal, expected, separate>>, given \subseteq given',
         \A p \in Provider, a \in Places : Known(p, a) => Known(p, a)'
  PROVE  Credentials' /\ JiraKnown' /\ Apart'
<1>1. (profile # Broken /\ profile.jira # Absent => Known("jira", profile.jira))'
  BY ProfileRests DEF SecretInv
<1>2. ASSUME NEW d \in Command, d.copy.jira # Absent => Known("jira", d.copy.jira)
      PROVE  d.copy.jira # Absent => Known("jira", d.copy.jira)'
  <2>1. d.copy.jira \in Places \cup {Absent}
    BY DEF Command, Profile, Places
  <2> QED BY <1>2, <2>1, StringsApart
<1>3. ASSUME NEW d \in Command, d.account \in Accounts, Known(d.provider, d.account)
      PROVE  Known(d.provider, d.account)'
  BY <1>3 DEF Command, Places
<1>4. \A u \in Terminals : terminal[u] # NoCommand => terminal[u] \in Command
  BY DEF SecretInv, Typed
<1>5. JiraKnown'
  BY <1>1, <1>2, <1>4 DEF SecretInv, JiraKnown
<1>6. Credentials'
  BY <1>3, <1>4 DEF SecretInv, Credentials
<1>7. Apart'
  BY DEF SecretInv, Apart, Saving
<1> QED BY <1>5, <1>6, <1>7

(* run and preflight take the secret that belongs to the account           *)
(* (credentials.py:71-113).                                                *)
LEMMA SecretInvRun ==
  ASSUME SecretInv, NEW p \in Provider, NEW env \in Environments, StartRun(p, env)
  PROVE  SecretInv'
<1> PICK named : named = IF env.account = Absent /\ profile # Broken THEN profile[p] ELSE env.account
  OBVIOUS
<1> PICK secret : secret = IF env.secret = Absent /\ named # Absent THEN Stored(p, named) ELSE env.secret
  OBVIOUS
<1>1. /\ flow' = [provider |-> p, account |-> named, secret |-> secret,
                  mixed |-> env.account = Absent /\ env.secret # Absent]
      /\ given' = Together(p, env.account, env.secret)
      /\ UNCHANGED <<keyring, profile, terminal, forgotten, expected, separate>>
  BY DEF StartRun
<1>2. env.account \in Accounts \cup {Absent} /\ env.secret \in Secrets \cup {Absent}
  BY OnboardingAssumption
<1>3. given \subseteq given'
  BY <1>1 DEF Together
<1>4. \A q, b : Stored(q, b)' = Stored(q, b) /\ (Known(q, b)' <=> Known(q, b))
  BY <1>1, KeyringRests
<1>5. KeyringGiven'
  BY <1>3, <1>4 DEF SecretInv, KeyringGiven
<1>6. FlowGiven'
  <2> SUFFICES ASSUME ~(env.account = Absent /\ env.secret # Absent), named # Absent, secret # Absent
               PROVE  <<p, named, secret>> \in given'
    BY <1>1 DEF FlowGiven
  <2>1. CASE env.secret # Absent
    <3>1. secret = env.secret /\ named = env.account /\ env.account # Absent
      BY <2>1
    <3> QED BY <1>1, <2>1, <3>1 DEF Together
  <2>2. CASE env.secret = Absent
    <3>1. secret = Stored(p, named)
      BY <2>2
    <3>2. named \in Places
      <4>1. CASE named = env.account
        BY <1>2, <4>1 DEF Places
      <4>2. CASE named # env.account
        <5>1. profile \in Profile /\ named = profile[p]
          BY <4>2 DEF SecretInv, Typed
        <5>2. named \in Accounts \cup {Absent}
          BY <5>1 DEF Profile, Provider
        <5> QED BY <5>2 DEF Places
      <4> QED BY <4>1, <4>2
    <3> QED BY <1>3, <3>1, <3>2 DEF SecretInv, KeyringGiven
  <2> QED BY <2>1, <2>2
<1>7. Credentials' /\ JiraKnown' /\ Apart'
  BY <1>1, <1>3, <1>4, TerminalsRest
<1> QED BY <1>1, <1>5, <1>6, <1>7 DEF SecretInv, Typed

(* logout forgets the pair it removes, or means to.                        *)
LEMMA SecretInvLogout ==
  ASSUME SecretInv, NEW p \in Provider, Logout(p)
  PROVE  SecretInv'
<1>1. PICK a \in (Accounts \cup {profile[p]}) \ {Absent} :
        /\ keyring' \in {keyring, [keyring EXCEPT ![p][a] = Absent]}
        /\ forgotten' = forgotten \cup {<<p, a>>}
  BY DEF Logout
<1>2. UNCHANGED <<profile, terminal, flow, given, expected, separate>> /\ profile # Broken
  BY DEF Logout
<1>3. a \in Places
  <2>1. profile \in Profile
    BY <1>2 DEF SecretInv, Typed
  <2>2. profile[p] \in Accounts \cup {Absent}
    BY <2>1 DEF Profile, Provider
  <2> QED BY <2>2 DEF Places
<1>4. /\ keyring' \in [Provider -> [Places -> Secrets \cup {Absent}]]
      /\ \A q \in Provider, b \in Places : Stored(q, b)' = Stored(q, b) \/ (q = p /\ b = a /\ Stored(q, b)' = Absent)
  BY <1>1, <1>3 DEF SecretInv, Typed, Stored
<1>5. \A q \in Provider, b \in Places : Known(q, b) => Known(q, b)'
  BY <1>1, <1>4 DEF Known
<1>6. KeyringGiven'
  BY <1>2, <1>4 DEF SecretInv, KeyringGiven
<1>7. FlowGiven'
  BY <1>2, FlowRests DEF SecretInv
<1>8. Credentials' /\ JiraKnown' /\ Apart'
  BY <1>2, <1>5, TerminalsRest
<1> QED BY <1>2, <1>4, <1>6, <1>7, <1>8 DEF SecretInv, Typed

(* A login at the API stores what it was given (api/routes/auth.py).       *)
LEMMA SecretInvApi ==
  ASSUME SecretInv, NEW p \in Provider, NEW a \in Accounts, NEW s \in Secrets, ApiLogin(p, a, s)
  PROVE  SecretInv'
<1> PICK b : b = IF p = "jira" THEN a ELSE "organization/project"
  OBVIOUS
<1>1. /\ given' = Together(p, b, s) /\ (SetSecret(p, b, s) \/ UNCHANGED <<keyring, forgotten>>)
      /\ UNCHANGED <<profile, terminal, flow, expected, separate>> /\ b \in Places
  BY DEF ApiLogin, Places
<1>2. given' = given \cup {<<p, b, s>>}
  BY <1>1, GivenTogether
<1>3. /\ keyring' \in [Provider -> [Places -> Secrets \cup {Absent}]]
      /\ \A q \in Provider, x \in Places : Known(q, x) => Known(q, x)'
      /\ \A q \in Provider, x \in Places :
           Stored(q, x)' = Stored(q, x) \/ (q = p /\ x = b /\ Stored(q, x)' = s)
  <2>1. CASE SetSecret(p, b, s)
    BY <1>1, <2>1, SecretStored DEF SecretInv
  <2>2. CASE UNCHANGED <<keyring, forgotten>>
    BY <2>2, KeyringRests DEF SecretInv, Typed
  <2> QED BY <1>1, <2>1, <2>2
<1>4. KeyringGiven'
  BY <1>2, <1>3 DEF SecretInv, KeyringGiven
<1>5. FlowGiven'
  BY <1>1, <1>2, FlowRests DEF SecretInv
<1>6. Credentials' /\ JiraKnown' /\ Apart'
  BY <1>1, <1>2, <1>3, TerminalsRest
<1> QED BY <1>1, <1>3, <1>4, <1>5, <1>6 DEF SecretInv, Typed

(* The types of what the steps above leave out.                            *)
Rest ==
  /\ flow # NoCommand => flow.provider \in Provider /\ flow.account \in Places \cup {Absent}
  /\ given \subseteq Provider \X Places \X Secrets
  /\ forgotten \subseteq Provider \X Places
  /\ issued \in 0..MaxCommands

(* Every step keeps the types of what SecretInv leaves out.                *)
LEMMA RestNext == SecretInv /\ Rest /\ [OnboardingNext]_onboardingVars => Rest'
<1> SUFFICES ASSUME SecretInv, Rest, [OnboardingNext]_onboardingVars PROVE Rest'
  OBVIOUS
<1>1. \A p \in Provider, a \in Places \cup {Absent}, s \in Secrets \cup {Absent} :
        Together(p, a, s) \subseteq Provider \X Places \X Secrets
  BY DEF Together, Rest
<1>2. \A p \in Provider, a \in Places : \A s : SetSecret(p, a, s) => forgotten' \subseteq Provider \X Places
  BY DEF SetSecret, Rest
<1>3. \A t \in Terminals : terminal[t] # NoCommand =>
        /\ terminal[t] \in Command /\ terminal[t].provider \in Provider
        /\ terminal[t].env \in Environments /\ terminal[t].account \in Accounts \cup {Absent}
        /\ terminal[t].copy \in Profile
  BY DEF SecretInv, Typed, Command
<1>4. \A env \in Environments : env.account \in Accounts \cup {Absent} /\ env.secret \in Secrets \cup {Absent}
  BY OnboardingAssumption
<1>5. \A q \in Profile, p \in Provider : q[p] \in Accounts \cup {Absent}
  BY DEF Profile, Provider
<1>6. Accounts \subseteq Places /\ "organization/project" \in Places
  BY DEF Places
<1>7. MaxCommands \in Nat
  BY OnboardingAssumption
<1>8. ASSUME NEW t \in Terminals, FromEnvironment(t) \/ Prompted(t) PROVE Rest'
  <2> PICK d : d = terminal[t]
    OBVIOUS
  <2>1. /\ UNCHANGED <<flow, issued>> /\ d # NoCommand
        /\ \E a \in Accounts \cup {Absent}, s \in Secrets \cup {Absent} :
             /\ given' = Together(d.provider, a, s)
             /\ (a # Absent /\ SetSecret(d.provider, a, s)) \/ UNCHANGED forgotten
    <3>1. CASE FromEnvironment(t)
      BY <1>3, <1>4, <3>1 DEF FromEnvironment
    <3>2. CASE Prompted(t)
      <4>1. d # NoCommand
        BY <3>2 DEF Prompted
      <4>2. d.env.account \in Accounts \cup {Absent}
        BY <1>3, <1>4, <4>1
      <4>3. PICK a \in IF d.env.account = Absent THEN Accounts ELSE {d.env.account}, s \in Secrets :
              given' = Together(d.provider, a, s) /\ (SetSecret(d.provider, a, s) \/ UNCHANGED forgotten)
        BY <3>2 DEF Prompted
      <4>4. a \in Accounts /\ a # Absent
        BY <4>2, OnboardingAssumption
      <4> QED BY <3>2, <4>1, <4>3, <4>4 DEF Prompted
    <3> QED BY <1>8, <3>1, <3>2
  <2>2. PICK a \in Accounts \cup {Absent}, s \in Secrets \cup {Absent} :
             /\ given' = Together(d.provider, a, s)
             /\ (a # Absent /\ SetSecret(d.provider, a, s)) \/ UNCHANGED forgotten
    BY <2>1
  <2>3. d.provider \in Provider
    BY <1>3, <2>1
  <2>4. given' \subseteq Provider \X Places \X Secrets
    BY <1>1, <1>6, <2>2, <2>3
  <2>5. forgotten' \subseteq Provider \X Places
    BY <1>2, <1>6, <2>2, <2>3 DEF Rest
  <2> QED BY <2>1, <2>4, <2>5 DEF Rest
<1>9. ASSUME NEW t \in Terminals, StartSprint(t) PROVE Rest'
  <2> PICK d : d = terminal[t]
    OBVIOUS
  <2> PICK a : a = IF d.provider = "azuredevops" /\ d.copy.azuredevops # Absent THEN d.copy.azuredevops ELSE d.account
    OBVIOUS
  <2>1. /\ d # NoCommand
        /\ flow' = [provider |-> d.provider, account |-> a, secret |-> d.secret, mixed |-> a # d.account]
        /\ UNCHANGED <<given, forgotten, issued>>
    BY <1>9 DEF StartSprint
  <2>2. d.copy["azuredevops"] \in Accounts \cup {Absent}
    BY <1>3, <1>5, <2>1, StringsApart
  <2>3. a \in Accounts \cup {Absent}
    BY <1>3, <2>1, <2>2
  <2> QED BY <1>3, <1>6, <2>1, <2>3 DEF Rest
<1>10. ASSUME NEW p \in Provider, NEW env \in Environments, StartRun(p, env) PROVE Rest'
  <2> PICK named : named = IF env.account = Absent /\ profile # Broken THEN profile[p] ELSE env.account
    OBVIOUS
  <2>1. named \in Accounts \cup {Absent}
    BY <1>4, <1>5 DEF SecretInv, Typed
  <2>2. flow'.provider = p /\ flow'.account = named /\ given' = Together(p, env.account, env.secret)
        /\ UNCHANGED forgotten /\ issued < MaxCommands /\ issued' = issued + 1
    BY <1>10 DEF StartRun
  <2>3. given' \subseteq Provider \X Places \X Secrets
    BY <1>1, <1>4, <1>6, <2>2
  <2> QED BY <1>6, <1>7, <2>1, <2>2, <2>3 DEF Rest
<1>11. ASSUME NEW p \in Provider, Logout(p) PROVE Rest'
  <2>1. /\ profile # Broken /\ UNCHANGED <<flow, given>> /\ issued < MaxCommands /\ issued' = issued + 1
        /\ \E a \in (Accounts \cup {profile[p]}) \ {Absent} : forgotten' = forgotten \cup {<<p, a>>}
    BY <1>11 DEF Logout
  <2>2. profile[p] \in Accounts \cup {Absent}
    BY <1>5, <2>1 DEF SecretInv, Typed
  <2> QED BY <1>6, <1>7, <2>1, <2>2 DEF Rest
<1>12. ASSUME NEW p \in Provider, NEW a \in Accounts, NEW s \in Secrets, ApiLogin(p, a, s) PROVE Rest'
  <2> PICK b : b = IF p = "jira" THEN a ELSE "organization/project"
    OBVIOUS
  <2>1. /\ UNCHANGED flow /\ issued < MaxCommands /\ issued' = issued + 1 /\ b \in Places
        /\ given' = Together(p, b, s) /\ (SetSecret(p, b, s) \/ UNCHANGED forgotten)
    BY <1>6, <1>12 DEF ApiLogin
  <2>2. given' \subseteq Provider \X Places \X Secrets
    BY <2>1, GivenTogether DEF Rest
  <2> QED BY <1>2, <1>7, <2>1, <2>2 DEF Rest
<1>13. ASSUME NEW t \in Terminals, FromKeyring(t) \/ LoadProfile(t) \/ TruncateProfile(t) \/ SaveProfile(t) \/ CommandDies(t)
       PROVE  Rest'
  BY <1>13 DEF FromKeyring, LoadProfile, TruncateProfile, SaveProfile, CommandDies, Rest
<1>14. ASSUME NEW t \in Terminals, NEW p \in Provider, NEW env \in Environments, BeginCommand(t, p, env) PROVE Rest'
  BY <1>7, <1>14 DEF BeginCommand, Rest
<1>15. CASE UNCHANGED onboardingVars
  BY <1>15 DEF onboardingVars, Rest
<1> QED BY <1>8, <1>9, <1>10, <1>11, <1>12, <1>13, <1>14, <1>15 DEF OnboardingNext

(* Nobody has given anything at first.                                     *)
LEMMA SecretInvInit == OnboardingInit => SecretInv
<1> SUFFICES ASSUME OnboardingInit PROVE SecretInv
  OBVIOUS
<1>1. \A t \in Terminals : terminal[t] = NoCommand
  BY DEF OnboardingInit
<1>2. Typed
  BY StringsApart DEF OnboardingInit, Typed
<1>3. KeyringGiven /\ FlowGiven
  BY DEF OnboardingInit, KeyringGiven, FlowGiven, Stored
<1>4. Credentials /\ Apart
  BY <1>1 DEF OnboardingInit, Credentials, Apart, Saving
<1>5. JiraKnown
  BY <1>1 DEF OnboardingInit, JiraKnown, Nobody
<1> QED BY <1>2, <1>3, <1>4, <1>5 DEF SecretInv

(* Together.                                                               *)
LEMMA SecretInvNext == SecretInv /\ [OnboardingNext]_onboardingVars => SecretInv'
<1> SUFFICES ASSUME SecretInv, [OnboardingNext]_onboardingVars PROVE SecretInv'
  OBVIOUS
<1>1. CASE UNCHANGED onboardingVars
  <2>1. UNCHANGED <<keyring, profile, terminal, flow, given, forgotten, expected, separate>>
    BY <1>1 DEF onboardingVars
  <2>2. \A q, b : Stored(q, b)' = Stored(q, b) /\ (Known(q, b)' <=> Known(q, b))
    BY <2>1, KeyringRests
  <2>3. Credentials' /\ JiraKnown' /\ Apart'
    BY <2>1, <2>2, TerminalsRest
  <2>4. KeyringGiven' /\ FlowGiven'
    BY <2>1, <2>2, FlowRests DEF SecretInv, KeyringGiven
  <2> QED BY <2>1, <2>3, <2>4 DEF SecretInv, Typed
<1> QED BY <1>1, SecretInvBegin, SecretInvResolve, SecretInvLoad, SecretInvTruncate, SecretInvSave,
           SecretInvEnd, SecretInvRun, SecretInvLogout, SecretInvApi DEF OnboardingNext

(* For any accounts, secrets, environments and terminals, and any number   *)
(* of commands: a flow uses no secret with an account it was not given     *)
(* for, the keyring holds only such pairs, the profile's jira account has  *)
(* its secret until a logout, and logins that keep apart all leave their   *)
(* mark (credentials.py:71-113, profile.py:93-109, cli.py:813-882).        *)
THEOREM RightSecretKept == OnboardingSpec => []RightSecret
<1>1. SecretInv => RightSecret
  <2>1. SecretInv => /\ profile # Broken /\ profile.jira # Absent =>
                          Stored("jira", profile.jira) # Absent \/ <<"jira", profile.jira>> \in forgotten
    BY DEF SecretInv, JiraKnown, Known
  <2> QED BY <2>1 DEF SecretInv, KeyringGiven, FlowGiven, Apart, RightSecret
<1> QED BY <1>1, SecretInvInit, SecretInvNext, PTL DEF OnboardingSpec

(* The state of the accounts is well typed: a command that runs keeps the  *)
(* shape of its record through every step (cli.py:813-882).                *)
THEOREM OnboardingTypeOKKept == OnboardingSpec => []OnboardingTypeOK
<1>1. OnboardingInit => Rest
  BY OnboardingAssumption DEF OnboardingInit, Rest
<1>2. SecretInv /\ Rest => OnboardingTypeOK
  BY DEF SecretInv, Typed, Rest, OnboardingTypeOK
<1> QED BY <1>1, <1>2, SecretInvInit, SecretInvNext, RestNext, PTL DEF OnboardingSpec

------------------------------------------------------------------------------
(* The planning issues.                                                    *)
Publisher ==
  [stage : {"off", "listing", "publishing", "published", "raised"},
   mode : {"dry-run", "publish"}, allowed : BOOLEAN]

BoardTyped ==
  /\ issues \in Seq(Issue) /\ listed \in Seq(Issue) /\ Len(issues) <= MaxIssues
  /\ publisher \in Publisher
  /\ entries \in Seq({"created", "existing", "blocked", "dry-run"}) /\ Len(entries) <= Len(Drafts)
  /\ publisher.stage = "listing" => entries = <<>>
  /\ publisher.stage = "published" => Len(entries) = Len(Drafts)
  /\ cutShort \in BOOLEAN

(* An issue is told by its marker: people give none.                       *)
Genuine(i) ==
  /\ i.draft # 0 => i.draft \in DOMAIN Drafts /\ i.marker = Drafts[i.draft].marker
  /\ i.draft = 0 => i.marker = "" /\ i.title = "other"

GenuineInv ==
  /\ \A n \in DOMAIN issues : Genuine(issues[n])
  /\ \A n \in DOMAIN listed : Genuine(listed[n])

(* What the publisher has still to come to, and exists, is on its list.    *)
ListedInv ==
  publisher.stage = "publishing" /\ Len(issues) <= ListLimit =>
    \A n \in DOMAIN issues : issues[n].draft > Len(entries) =>
      \E m \in DOMAIN listed : listed[m].marker = issues[n].marker

OnceInv ==
  Len(issues) <= ListLimit =>
    \A n, m \in DOMAIN issues : issues[n].draft = issues[m].draft /\ issues[n].draft # 0 => n = m

(* Publications that were not cut short left all issues or none; the one   *)
(* that found none and may write has left those it went past.              *)
HasIssue(d) == \E n \in DOMAIN issues : issues[n].draft = d
Complete == \A d \in DOMAIN Drafts : HasIssue(d)
Untouched == \A n \in DOMAIN issues : issues[n].draft = 0
Begun ==
  /\ \A m \in DOMAIN listed : listed[m].draft = 0
  /\ publisher.mode = "publish" /\ publisher.allowed => \A d \in DOMAIN entries : HasIssue(d)
  /\ ~(publisher.mode = "publish" /\ publisher.allowed) => Untouched

WholeInv ==
  ~cutShort =>
    /\ publisher.stage # "publishing" => Complete \/ Untouched
    /\ publisher.stage = "publishing" => Complete \/ Begun
    /\ \A d \in DOMAIN entries : entries[d] \in {"created", "existing"} => HasIssue(d)

BoardInv == BoardTyped /\ GenuineInv /\ ListedInv /\ OnceInv /\ WholeInv

------------------------------------------------------------------------------
(* An issue is appended.                                                   *)
Added(i) == i \in Issue /\ Len(issues) < MaxIssues /\ issues' = Append(issues, i)

(* One that exists is closed or gets another title.                        *)
Edited ==
  /\ issues' \in Seq(Issue) /\ DOMAIN issues' = DOMAIN issues /\ Len(issues') = Len(issues)
  /\ \A n \in DOMAIN issues :
       /\ issues'[n].draft = issues[n].draft /\ issues'[n].marker = issues[n].marker
       /\ issues'[n].title = issues[n].title \/ issues[n].title \in Titles

(* The list with the added issue.                                          *)
LEMMA AddedKeeps ==
  ASSUME BoardTyped, NEW i, Added(i)
  PROVE  /\ issues' \in Seq(Issue) /\ Len(issues') = Len(issues) + 1 /\ Len(issues') <= MaxIssues
         /\ issues'[Len(issues) + 1] = i
         /\ \A n \in DOMAIN issues : issues'[n] = issues[n]
         /\ DOMAIN issues' = DOMAIN issues \cup {Len(issues) + 1}
  BY BoardAssumption DEF Added, BoardTyped

(* One element of the list is replaced by one that differs little.         *)
LEMMA ReplacedEdits ==
  ASSUME BoardTyped, NEW n \in DOMAIN issues, NEW i \in Issue, issues' = [issues EXCEPT ![n] = i],
         i.draft = issues[n].draft, i.marker = issues[n].marker,
         i.title = issues[n].title \/ issues[n].title \in Titles
  PROVE  Edited
<1>1. issues \in Seq(Issue)
  BY DEF BoardTyped
<1>2. issues' \in Seq(Issue) /\ DOMAIN issues' = DOMAIN issues /\ Len(issues') = Len(issues)
  BY <1>1
<1>3. \A m \in DOMAIN issues : issues'[m] = IF m = n THEN i ELSE issues[m]
  BY <1>1
<1> QED BY <1>2, <1>3 DEF Edited

(* People: an edit, or an issue without a draft.                           *)
LEMMA PeopleEdit ==
  ASSUME BoardTyped, OthersClose \/ OthersRename
  PROVE  Edited
<1>1. CASE OthersClose
  <2>1. PICK n \in DOMAIN issues : issues[n].open /\ issues' = [issues EXCEPT ![n].open = FALSE]
    BY <1>1 DEF OthersClose
  <2>2. PICK i : i = [issues[n] EXCEPT !.open = FALSE]
    OBVIOUS
  <2>3. issues[n] \in Issue
    BY <2>1 DEF BoardTyped
  <2>4. i \in Issue /\ i.draft = issues[n].draft /\ i.marker = issues[n].marker /\ i.title = issues[n].title
    BY <2>2, <2>3 DEF Issue
  <2>5. issues' = [issues EXCEPT ![n] = i]
    BY <2>1, <2>2, <2>3 DEF BoardTyped
  <2> QED BY <2>1, <2>4, <2>5, ReplacedEdits
<1>2. CASE OthersRename
  <2>1. PICK n \in DOMAIN issues : issues[n].title \in Titles /\ issues' = [issues EXCEPT ![n].title = "renamed"]
    BY <1>2 DEF OthersRename
  <2>2. PICK i : i = [issues[n] EXCEPT !.title = "renamed"]
    OBVIOUS
  <2>3. issues[n] \in Issue
    BY <2>1 DEF BoardTyped
  <2>4. i \in Issue /\ i.draft = issues[n].draft /\ i.marker = issues[n].marker
    BY <2>2, <2>3 DEF Issue
  <2>5. issues' = [issues EXCEPT ![n] = i]
    BY <2>1, <2>2, <2>3 DEF BoardTyped
  <2> QED BY <2>1, <2>4, <2>5, ReplacedEdits
<1> QED BY <1>1, <1>2

(* Zero stands for no draft.                                               *)
LEMMA NoDraft == 0 \in 0..Len(Drafts)
<1>1. Len(Drafts) \in Nat
  BY BoardAssumption
<1> QED BY <1>1

(* What people open.                                                       *)
LEMMA OtherIsIssue ==
  ASSUME NEW x, x = [title |-> "other", marker |-> "", draft |-> 0, open |-> TRUE]
  PROVE  x \in Issue /\ x.draft = 0 /\ Genuine(x)
<1>1. 0 \in 0..Len(Drafts)
  BY NoDraft
<1>2. "other" \in Titles \cup {"other", "renamed"} /\ "" \in {d.marker : d \in Range(Drafts)} \cup {""}
  OBVIOUS
<1>3. x \in Issue
  BY <1>1, <1>2 DEF Issue
<1>4. Genuine(x)
  BY DEF Genuine
<1> QED BY <1>3, <1>4

(* What the publisher opens for the draft it has come to.                  *)
LEMMA OpenedIsAdded ==
  ASSUME BoardTyped, Len(entries) < Len(Drafts), Len(issues) < MaxIssues, issues' = Opened
  PROVE  \E i : /\ Added(i) /\ Genuine(i) /\ i.draft = Len(entries) + 1
                /\ i.draft \in DOMAIN Drafts /\ i.draft # 0 /\ i.marker = Draft.marker
<1>1. PICK i : i = [title |-> Draft.title, marker |-> Draft.marker, draft |-> Len(entries) + 1, open |-> TRUE]
  OBVIOUS
<1>2. Len(entries) + 1 \in DOMAIN Drafts /\ Len(entries) + 1 \in 0..Len(Drafts) /\ Len(entries) + 1 # 0
  BY BoardAssumption DEF BoardTyped
<1>3. Draft \in Range(Drafts)
  BY <1>2 DEF Draft, Range
<1>4. i \in Issue
  BY <1>1, <1>2, <1>3 DEF Issue, Titles
<1>5. i.draft = Len(entries) + 1 /\ i.marker = Drafts[Len(entries) + 1].marker
  BY <1>1 DEF Draft
<1>6. Genuine(i)
  BY <1>2, <1>5 DEF Genuine
<1>7. Added(i)
  BY <1>1, <1>4 DEF Opened, Added
<1> QED BY <1>2, <1>5, <1>6, <1>7 DEF Draft

(* The titles and markers of drafts are not those of people.               *)
LEMMA DraftsTold == "other" \notin Titles /\ \A d \in DOMAIN Drafts : Drafts[d].marker # "" /\ Drafts[d].title # "other"
<1>1. \A d \in DOMAIN Drafts : Drafts[d] \in Range(Drafts)
  BY DEF Range
<1> QED BY <1>1, DraftsApart DEF Titles

(* A title of a draft is the only one that people change.                  *)
LEMMA EditedGenuine ==
  ASSUME BoardTyped, GenuineInv, Edited
  PROVE  \A n \in DOMAIN issues' : Genuine(issues'[n])
<1> SUFFICES ASSUME NEW n \in DOMAIN issues PROVE Genuine(issues'[n])
  BY DEF Edited
<1>1. Genuine(issues[n])
  BY DEF GenuineInv
<1>2. /\ issues'[n].draft = issues[n].draft /\ issues'[n].marker = issues[n].marker
      /\ issues'[n].title = issues[n].title \/ issues[n].title \in Titles
  BY DEF Edited
<1> QED BY <1>1, <1>2, DraftsTold DEF Genuine

(* Edits disturb nothing: markers tell the issues.                         *)
LEMMA BoardInvEdited ==
  ASSUME BoardInv, Edited, UNCHANGED <<listed, publisher, entries, cutShort>>
  PROVE  BoardInv'
<1>1. BoardTyped /\ GenuineInv /\ ListedInv /\ OnceInv /\ WholeInv
  BY DEF BoardInv
<1>2. BoardTyped'
  BY <1>1 DEF BoardTyped, Edited
<1>3. GenuineInv'
  BY <1>1, EditedGenuine DEF GenuineInv
<1>4. /\ Len(issues') = Len(issues) /\ DOMAIN issues' = DOMAIN issues
      /\ \A n \in DOMAIN issues : issues'[n].draft = issues[n].draft /\ issues'[n].marker = issues[n].marker
  BY DEF Edited
<1>5. ListedInv'
  BY <1>1, <1>4 DEF ListedInv
<1>6. OnceInv'
  BY <1>1, <1>4 DEF OnceInv
<1>7. (\A d : HasIssue(d)' <=> HasIssue(d)) /\ (Untouched' <=> Untouched)
  BY <1>4 DEF HasIssue, Untouched
<1>8. (Complete' <=> Complete) /\ (Begun' <=> Begun)
  BY <1>7 DEF Complete, Begun
<1>9. WholeInv'
  BY <1>1, <1>7, <1>8 DEF WholeInv
<1> QED BY <1>2, <1>3, <1>5, <1>6, <1>9 DEF BoardInv

(* What an added issue leaves as it was.                                   *)
LEMMA AddedLists ==
  ASSUME BoardInv, NEW i, Added(i), Genuine(i)
  PROVE  /\ \A n \in DOMAIN issues' : Genuine(issues'[n])
         /\ \A d : HasIssue(d)' <=> (HasIssue(d) \/ d = i.draft)
         /\ Complete => Complete'
         /\ (Untouched' <=> (Untouched /\ i.draft = 0))
<1>1. BoardTyped /\ GenuineInv
  BY DEF BoardInv
<1>2. /\ issues'[Len(issues) + 1] = i /\ \A n \in DOMAIN issues : issues'[n] = issues[n]
      /\ DOMAIN issues' = DOMAIN issues \cup {Len(issues) + 1}
  BY <1>1, AddedKeeps
<1>3. \A n \in DOMAIN issues' : Genuine(issues'[n])
  BY <1>1, <1>2 DEF GenuineInv
<1>4. \A d : HasIssue(d)' <=> (HasIssue(d) \/ d = i.draft)
  BY <1>2 DEF HasIssue
<1>5. Complete => Complete'
  BY <1>4 DEF Complete
<1>6. Untouched' <=> (Untouched /\ i.draft = 0)
  BY <1>2 DEF Untouched
<1> QED BY <1>3, <1>4, <1>5, <1>6

(* At most one of a draft, when the one that is added is the first.        *)
LEMMA AddedOnce ==
  ASSUME BoardInv, NEW i, Added(i),
         Len(issues) <= ListLimit /\ i.draft # 0 => ~HasIssue(i.draft)
  PROVE  OnceInv'
<1>1. BoardTyped /\ OnceInv
  BY DEF BoardInv
<1>2. /\ issues'[Len(issues) + 1] = i /\ \A n \in DOMAIN issues : issues'[n] = issues[n]
      /\ DOMAIN issues' = DOMAIN issues \cup {Len(issues) + 1} /\ Len(issues') = Len(issues) + 1
  BY <1>1, AddedKeeps
<1>3. Len(issues') <= ListLimit => Len(issues) <= ListLimit
  BY <1>1, <1>2, BoardAssumption DEF BoardTyped
<1> QED BY <1>1, <1>2, <1>3 DEF OnceInv, HasIssue

(* An issue of other people stands for no draft.                           *)
LEMMA BoardInvOthersOpen ==
  ASSUME BoardInv, OthersOpen
  PROVE  BoardInv'
<1>1. PICK x : x = [title |-> "other", marker |-> "", draft |-> 0, open |-> TRUE]
  OBVIOUS
<1>2. BoardTyped /\ GenuineInv /\ ListedInv /\ OnceInv /\ WholeInv
  BY DEF BoardInv
<1>3. x \in Issue /\ x.draft = 0 /\ Genuine(x)
  BY <1>1, OtherIsIssue
<1>4. Added(x) /\ UNCHANGED <<listed, publisher, entries, cutShort>>
  BY <1>1, <1>3 DEF OthersOpen, Added
<1>5. /\ issues' \in Seq(Issue) /\ Len(issues') = Len(issues) + 1 /\ Len(issues') <= MaxIssues
      /\ issues'[Len(issues) + 1] = x /\ \A n \in DOMAIN issues : issues'[n] = issues[n]
      /\ DOMAIN issues' = DOMAIN issues \cup {Len(issues) + 1}
  BY <1>2, <1>4, AddedKeeps
<1>6. BoardTyped'
  BY <1>2, <1>4, <1>5 DEF BoardTyped
<1>7. /\ \A n \in DOMAIN issues' : Genuine(issues'[n])
      /\ \A d : HasIssue(d)' <=> (HasIssue(d) \/ d = x.draft)
      /\ Complete => Complete'
      /\ (Untouched' <=> (Untouched /\ x.draft = 0))
  BY <1>3, <1>4, AddedLists
<1>8. GenuineInv'
  BY <1>2, <1>4, <1>7 DEF GenuineInv
<1>9. Len(issues') <= ListLimit => Len(issues) <= ListLimit
  BY <1>2, <1>5, BoardAssumption DEF BoardTyped
<1>10. ListedInv'
  <2>1. entries' = entries /\ Len(entries) \in Nat /\ ~(0 > Len(entries))
    BY <1>2, <1>4 DEF BoardTyped
  <2> QED BY <1>2, <1>3, <1>4, <1>5, <1>9, <2>1 DEF ListedInv
<1>11. OnceInv'
  BY <1>3, <1>4, AddedOnce
<1>12. WholeInv'
  <2>1. Begun => Begun'
    BY <1>3, <1>4, <1>7 DEF Begun
  <2>2. Untouched => Untouched'
    BY <1>3, <1>7
  <2> QED BY <1>2, <1>4, <1>7, <2>1, <2>2 DEF WholeInv
<1> QED BY <1>6, <1>8, <1>10, <1>11, <1>12 DEF BoardInv

(* A new publication begins with an empty list.                            *)
LEMMA BoardInvStart ==
  ASSUME BoardInv, StartPublishing
  PROVE  BoardInv'
<1>1. BoardTyped /\ GenuineInv /\ OnceInv /\ WholeInv
  BY DEF BoardInv
<1>2. /\ publisher.stage \in {"off", "published", "raised"}
      /\ publisher' \in Publisher /\ publisher'.stage = "listing"
      /\ entries' = <<>> /\ listed' = <<>> /\ issues' = issues /\ cutShort' = cutShort
  BY DEF StartPublishing, Publisher
<1>3. BoardTyped'
  <2>1. 0 <= Len(Drafts)
    BY BoardAssumption
  <2> QED BY <1>1, <1>2, <2>1 DEF BoardTyped
<1>4. GenuineInv' /\ ListedInv' /\ OnceInv'
  BY <1>1, <1>2 DEF GenuineInv, ListedInv, OnceInv
<1>5. (Complete' <=> Complete) /\ (Untouched' <=> Untouched)
  BY <1>2 DEF Complete, Untouched, HasIssue
<1>6. WholeInv'
  BY <1>1, <1>2, <1>5 DEF WholeInv
<1> QED BY <1>3, <1>4, <1>6 DEF BoardInv

(* The list is of issues, and of all of them while they are few enough.    *)
LEMMA ListHolds ==
  ASSUME BoardTyped, ListIssues
  PROVE  /\ listed' \in Seq(Issue)
         /\ \A m \in DOMAIN listed' : \E n \in DOMAIN issues : listed'[m] = issues[n]
         /\ Len(issues) <= ListLimit => \A n \in DOMAIN issues : n \in DOMAIN listed' /\ listed'[n] = issues[n]
<1>1. issues \in Seq(Issue) /\ Len(issues) \in Nat /\ ListLimit \in Nat
  BY BoardAssumption DEF BoardTyped
<1>2. PICK first \in Nat : /\ first >= 1 /\ listed' = SubSeq(issues, first, Len(issues))
                           /\ Len(issues) <= ListLimit => first = 1
  <2>1. PICK length \in Nat : length = Len(issues)
    BY <1>1
  <2>2. CASE length > ListLimit
    <3>1. length - ListLimit + 1 \in Nat /\ length - ListLimit + 1 >= 1 /\ ~(length <= ListLimit)
      BY <1>1, <2>2
    <3>2. listed' = SubSeq(issues, length - ListLimit + 1, Len(issues))
      BY <2>1, <2>2 DEF ListIssues
    <3> QED BY <2>1, <3>1, <3>2
  <2>3. CASE ~(length > ListLimit)
    <3>1. listed' = SubSeq(issues, 1, Len(issues))
      BY <2>1, <2>3 DEF ListIssues
    <3> QED BY <3>1
  <2> QED BY <2>2, <2>3
<1>3. listed' \in Seq(Issue)
  BY <1>1, <1>2
<1>4. \A m \in DOMAIN listed' : m + first - 1 \in DOMAIN issues /\ listed'[m] = issues[m + first - 1]
  BY <1>1, <1>2
<1>5. first = 1 => \A n \in DOMAIN issues : n \in DOMAIN listed' /\ listed'[n] = issues[n]
  BY <1>1, <1>2
<1> QED BY <1>2, <1>3, <1>4, <1>5

(* The list: it shows a draft when all have issues, or none does.          *)
LEMMA BoardInvList ==
  ASSUME BoardInv, ListIssues
  PROVE  BoardInv'
<1>1. BoardTyped /\ GenuineInv /\ OnceInv /\ WholeInv
  BY DEF BoardInv
<1>2. /\ publisher.stage = "listing" /\ publisher' \in Publisher /\ publisher'.stage = "publishing"
      /\ entries' = entries /\ issues' = issues /\ cutShort' = cutShort /\ entries = <<>>
  BY <1>1 DEF ListIssues, BoardTyped, Publisher
<1>3. /\ listed' \in Seq(Issue)
      /\ \A m \in DOMAIN listed' : \E n \in DOMAIN issues : listed'[m] = issues[n]
      /\ Len(issues) <= ListLimit => \A n \in DOMAIN issues : n \in DOMAIN listed' /\ listed'[n] = issues[n]
  BY <1>1, ListHolds
<1>4. BoardTyped'
  BY <1>1, <1>2, <1>3 DEF BoardTyped
<1>5. GenuineInv' /\ OnceInv'
  BY <1>1, <1>2, <1>3 DEF GenuineInv, OnceInv
<1>6. ListedInv'
  BY <1>2, <1>3 DEF ListedInv
<1>7. (Complete' <=> Complete) /\ (Untouched' <=> Untouched)
  BY <1>2 DEF Complete, Untouched, HasIssue
<1>8. Untouched => Begun'
  BY <1>2, <1>3, <1>7 DEF Untouched, Begun
<1>9. WholeInv'
  BY <1>1, <1>2, <1>7, <1>8 DEF WholeInv
<1> QED BY <1>4, <1>5, <1>6, <1>9 DEF BoardInv

(* A draft not on the list has no issue, as long as the list is complete.  *)
LEMMA NotListedIsNew ==
  ASSUME BoardInv, publisher.stage = "publishing", Len(entries) < Len(Drafts), ~Existing, Len(issues) <= ListLimit
  PROVE  ~HasIssue(Len(entries) + 1)
<1> SUFFICES ASSUME NEW n \in DOMAIN issues, issues[n].draft = Len(entries) + 1 PROVE FALSE
  BY DEF HasIssue
<1>1. BoardTyped /\ GenuineInv /\ ListedInv
  BY DEF BoardInv
<1>2. Len(entries) \in Nat /\ Len(entries) + 1 # 0 /\ Len(entries) + 1 > Len(entries)
  BY <1>1 DEF BoardTyped
<1>3. Genuine(issues[n])
  BY <1>1 DEF GenuineInv
<1>4. issues[n].marker = Draft.marker
  BY <1>2, <1>3 DEF Genuine, Draft
<1>5. PICK m \in DOMAIN listed : listed[m].marker = issues[n].marker
  BY <1>1, <1>2 DEF ListedInv
<1>6. listed[m] \in Range(listed)
  BY <1>5 DEF Range
<1> QED BY <1>4, <1>5, <1>6 DEF Existing

(* One that is on the list has an issue, unless publications were cut      *)
(* short: those that were not left all or none.                            *)
LEMMA ListedIsThere ==
  ASSUME BoardInv, publisher.stage = "publishing", Len(entries) < Len(Drafts), Existing, ~cutShort
  PROVE  Complete
<1>1. BoardTyped /\ GenuineInv /\ WholeInv
  BY DEF BoardInv
<1>2. Complete \/ Begun
  BY <1>1 DEF WholeInv
<1> SUFFICES ASSUME \A m \in DOMAIN listed : listed[m].draft = 0 PROVE FALSE
  BY <1>2 DEF Begun
<1>3. PICK i \in Range(listed) : i.title = Draft.title \/ i.marker = Draft.marker
  BY DEF Existing
<1>4. PICK m \in DOMAIN listed : i = listed[m]
  BY <1>3 DEF Range
<1>5. Genuine(i) /\ i.draft = 0
  BY <1>1, <1>4 DEF GenuineInv
<1>6. Len(entries) + 1 \in DOMAIN Drafts
  BY <1>1, BoardAssumption DEF BoardTyped
<1> QED BY <1>3, <1>5, <1>6, DraftsTold DEF Genuine, Draft

(* Drafts are counted.                                                     *)
LEMMA DraftNumber == ASSUME BoardTyped, NEW n \in DOMAIN issues PROVE issues[n].draft \in Int
<1>1. issues[n] \in Issue
  BY DEF BoardTyped
<1>2. Len(Drafts) \in Nat
  BY BoardAssumption
<1>3. issues[n].draft \in 0..Len(Drafts)
  BY <1>1 DEF Issue
<1> QED BY <1>2, <1>3

(* A draft that is passed over: nothing is written.                        *)
LEMMA BoardInvPassed ==
  ASSUME BoardInv, publisher.stage = "publishing", Len(entries) < Len(Drafts),
         NEW e \in {"existing", "blocked", "dry-run"}, entries' = Append(entries, e),
         e = "existing" => Existing,
         e # "existing" => ~(publisher.mode = "publish" /\ publisher.allowed),
         UNCHANGED <<issues, listed, publisher, cutShort>>
  PROVE  BoardInv'
<1>1. BoardTyped /\ GenuineInv /\ ListedInv /\ OnceInv /\ WholeInv
  BY DEF BoardInv
<1>2. PICK k \in Nat : k = Len(entries)
  BY <1>1 DEF BoardTyped
<1>3. /\ entries' \in Seq({"created", "existing", "blocked", "dry-run"}) /\ Len(entries') = k + 1
      /\ DOMAIN entries' = DOMAIN entries \cup {k + 1}
      /\ \A d \in DOMAIN entries : entries'[d] = entries[d] /\ entries'[k + 1] = e
  BY <1>1, <1>2 DEF BoardTyped
<1>4. k + 1 <= Len(Drafts) /\ k + 1 \in DOMAIN Drafts
  BY <1>2, BoardAssumption
<1>5. BoardTyped'
  BY <1>1, <1>3, <1>4 DEF BoardTyped
<1>6. GenuineInv' /\ OnceInv'
  BY <1>1 DEF GenuineInv, OnceInv
<1>7. ListedInv'
  <2> SUFFICES ASSUME Len(issues) <= ListLimit, NEW n \in DOMAIN issues, issues[n].draft > k + 1
               PROVE  \E m \in DOMAIN listed : listed[m].marker = issues[n].marker
    BY <1>3 DEF ListedInv
  <2>1. issues[n].draft > Len(entries)
    <3>1. issues[n].draft \in Int
      BY <1>1, DraftNumber
    <3> QED BY <1>2, <3>1
  <2> QED BY <1>1, <2>1 DEF ListedInv
<1>8. \A d : HasIssue(d)' <=> HasIssue(d)
  BY DEF HasIssue
<1>9. (Complete' <=> Complete) /\ (Untouched' <=> Untouched)
  BY <1>8 DEF Complete, Untouched
<1>10. WholeInv'
  <2> SUFFICES ASSUME ~cutShort PROVE WholeInv'
    BY DEF WholeInv
  <2>1. Complete \/ Begun
    BY <1>1 DEF WholeInv
  <2>2. e = "existing" => Complete
    BY ListedIsThere
  <2>3. e # "existing" /\ Begun => Begun'
    BY <1>9 DEF Begun
  <2>4. \A d \in DOMAIN entries' : entries'[d] \in {"created", "existing"} => HasIssue(d)
    <3>1. \A d \in DOMAIN entries : entries[d] \in {"created", "existing"} => HasIssue(d)
      BY <1>1 DEF WholeInv
    <3>2. e = "existing" => HasIssue(k + 1)
      BY <1>4, <2>2 DEF Complete
    <3>3. e # "existing" => e \notin {"created", "existing"}
      OBVIOUS
    <3> QED BY <1>3, <3>1, <3>2, <3>3
  <2> QED BY <1>8, <1>9, <2>1, <2>2, <2>3, <2>4 DEF WholeInv
<1> QED BY <1>5, <1>6, <1>7, <1>10 DEF BoardInv

(* A draft whose issue is opened, and the answer arrives.                  *)
LEMMA BoardInvCreated ==
  ASSUME BoardInv, publisher.stage = "publishing", Len(entries) < Len(Drafts), Len(issues) < MaxIssues, ~Existing,
         publisher.mode = "publish" /\ publisher.allowed,
         entries' = Append(entries, "created"), issues' = Opened,
         UNCHANGED <<listed, publisher, cutShort>>
  PROVE  BoardInv'
<1>1. BoardTyped /\ GenuineInv /\ ListedInv /\ OnceInv /\ WholeInv
  BY DEF BoardInv
<1>2. PICK k \in Nat : k = Len(entries)
  BY <1>1 DEF BoardTyped
<1>3. /\ entries' \in Seq({"created", "existing", "blocked", "dry-run"}) /\ Len(entries') = k + 1
      /\ DOMAIN entries' = DOMAIN entries \cup {k + 1}
      /\ \A d \in DOMAIN entries : entries'[d] = entries[d] /\ entries'[k + 1] = "created"
  BY <1>1, <1>2 DEF BoardTyped
<1>4. PICK i : /\ Added(i) /\ Genuine(i) /\ i.draft = k + 1 /\ i.draft # 0
  BY <1>1, <1>2, OpenedIsAdded
<1>5. /\ issues' \in Seq(Issue) /\ Len(issues') = Len(issues) + 1 /\ Len(issues') <= MaxIssues
      /\ issues'[Len(issues) + 1] = i /\ \A n \in DOMAIN issues : issues'[n] = issues[n]
      /\ DOMAIN issues' = DOMAIN issues \cup {Len(issues) + 1}
  BY <1>1, <1>4, AddedKeeps
<1>6. /\ \A n \in DOMAIN issues' : Genuine(issues'[n])
      /\ \A d : HasIssue(d)' <=> (HasIssue(d) \/ d = k + 1)
      /\ Complete => Complete'
  BY <1>4, AddedLists
<1>7. BoardTyped'
  <2>1. k + 1 <= Len(Drafts)
    BY <1>2, BoardAssumption
  <2> QED BY <1>1, <1>3, <1>5, <2>1 DEF BoardTyped
<1>8. GenuineInv'
  BY <1>1, <1>6 DEF GenuineInv
<1>9. OnceInv'
  <2>1. Len(issues) <= ListLimit => ~HasIssue(k + 1)
    BY <1>2, NotListedIsNew
  <2> QED BY <1>4, <2>1, AddedOnce
<1>10. ListedInv'
  <2> SUFFICES ASSUME Len(issues) + 1 <= ListLimit, NEW n \in DOMAIN issues', issues'[n].draft > k + 1
               PROVE  \E m \in DOMAIN listed : listed[m].marker = issues'[n].marker
    BY <1>3, <1>5 DEF ListedInv
  <2>1. n \in DOMAIN issues /\ issues'[n] = issues[n]
    BY <1>4, <1>5
  <2>2. issues[n].draft > Len(entries)
    <3>1. issues[n].draft \in Int
      BY <1>1, <2>1, DraftNumber
    <3> QED BY <1>2, <2>1, <3>1
  <2>3. Len(issues) <= ListLimit
    BY <1>1, BoardAssumption DEF BoardTyped
  <2> QED BY <1>1, <2>1, <2>2, <2>3 DEF ListedInv
<1>11. WholeInv'
  <2> SUFFICES ASSUME ~cutShort PROVE WholeInv'
    BY DEF WholeInv
  <2>1. Complete \/ Begun
    BY <1>1 DEF WholeInv
  <2>2. Begun => Begun'
    BY <1>3, <1>6 DEF Begun
  <2>3. \A d \in DOMAIN entries' : entries'[d] \in {"created", "existing"} => HasIssue(d)'
    <3>1. \A d \in DOMAIN entries : entries[d] \in {"created", "existing"} => HasIssue(d)
      BY <1>1 DEF WholeInv
    <3> QED BY <1>3, <1>6, <3>1
  <2> QED BY <1>6, <2>1, <2>2, <2>3 DEF WholeInv
<1> QED BY <1>7, <1>8, <1>9, <1>10, <1>11 DEF BoardInv

(* The next draft, whatever becomes of it.                                 *)
LEMMA BoardInvNext ==
  ASSUME BoardInv, PublishNext
  PROVE  BoardInv'
<1>1. /\ publisher.stage = "publishing" /\ Len(entries) < Len(Drafts)
      /\ UNCHANGED <<listed, publisher, cutShort>>
  BY DEF PublishNext
<1>2. CASE \E e \in {"existing", "blocked", "dry-run"} :
             /\ entries' = Append(entries, e) /\ UNCHANGED issues
             /\ e = "existing" => Existing
             /\ e # "existing" => ~(publisher.mode = "publish" /\ publisher.allowed)
  BY <1>1, <1>2, BoardInvPassed
<1>3. CASE /\ ~Existing /\ publisher.mode = "publish" /\ publisher.allowed /\ Len(issues) < MaxIssues
           /\ entries' = Append(entries, "created") /\ issues' = Opened
  BY <1>1, <1>3, BoardInvCreated
<1> QED BY <1>2, <1>3 DEF PublishNext

(* The publisher dies, perhaps after the issue was opened.                 *)
LEMMA BoardInvRaises ==
  ASSUME BoardInv, PublishRaises
  PROVE  BoardInv'
<1>1. BoardTyped /\ GenuineInv /\ OnceInv
  BY DEF BoardInv
<1>2. /\ publisher' \in Publisher /\ publisher'.stage = "raised" /\ listed' = listed
      /\ entries' = <<>> /\ cutShort' = TRUE /\ Len(entries) < Len(Drafts)
  BY <1>1 DEF PublishRaises, BoardTyped, Publisher
<1>3. ListedInv' /\ WholeInv'
  BY <1>2 DEF ListedInv, WholeInv
<1>4. issues' \in Seq(Issue) /\ Len(issues') <= MaxIssues => BoardTyped'
  <2>1. 0 <= Len(Drafts)
    BY BoardAssumption
  <2> QED BY <1>1, <1>2, <2>1 DEF BoardTyped
<1>5. CASE UNCHANGED issues
  <2>1. BoardTyped'
    BY <1>1, <1>4, <1>5 DEF BoardTyped
  <2>2. GenuineInv' /\ OnceInv'
    BY <1>1, <1>2, <1>5 DEF GenuineInv, OnceInv
  <2> QED BY <1>3, <2>1, <2>2 DEF BoardInv
<1>6. CASE /\ publisher.stage = "publishing" /\ ~Existing /\ Len(issues) < MaxIssues /\ issues' = Opened
  <2>1. PICK i : Added(i) /\ Genuine(i) /\ i.draft = Len(entries) + 1
    BY <1>1, <1>2, <1>6, OpenedIsAdded
  <2>2. issues' \in Seq(Issue) /\ Len(issues') <= MaxIssues
    BY <1>1, <2>1, AddedKeeps
  <2>3. \A n \in DOMAIN issues' : Genuine(issues'[n])
    BY <2>1, AddedLists
  <2>4. GenuineInv'
    BY <1>1, <1>2, <2>3 DEF GenuineInv
  <2>5. Len(issues) <= ListLimit => ~HasIssue(i.draft)
    BY <1>2, <1>6, <2>1, NotListedIsNew
  <2>6. OnceInv'
    BY <2>1, <2>5, AddedOnce
  <2> QED BY <1>3, <1>4, <2>2, <2>4, <2>6 DEF BoardInv
<1> QED BY <1>5, <1>6 DEF PublishRaises

(* Past the last draft, all have issues or the publisher wrote none.       *)
LEMMA BoardInvEnds ==
  ASSUME BoardInv, PublishEnds
  PROVE  BoardInv'
<1>1. BoardTyped /\ GenuineInv /\ OnceInv /\ WholeInv
  BY DEF BoardInv
<1>2. /\ publisher.stage = "publishing" /\ publisher' \in Publisher /\ publisher'.stage = "published"
      /\ Len(entries) = Len(Drafts) /\ issues' = issues /\ listed' = listed /\ entries' = entries /\ cutShort' = cutShort
  BY <1>1 DEF PublishEnds, BoardTyped, Publisher
<1>3. BoardTyped' /\ GenuineInv' /\ ListedInv' /\ OnceInv'
  BY <1>1, <1>2 DEF BoardTyped, GenuineInv, ListedInv, OnceInv
<1>4. \A d : HasIssue(d)' <=> HasIssue(d)
  BY <1>2 DEF HasIssue
<1>5. (Complete' <=> Complete) /\ (Untouched' <=> Untouched)
  BY <1>2, <1>4 DEF Complete, Untouched
<1>6. Begun => Complete \/ Untouched
  <2>1. DOMAIN Drafts = DOMAIN entries
    BY <1>1, <1>2, BoardAssumption DEF BoardTyped
  <2> QED BY <2>1 DEF Begun, Complete
<1>7. WholeInv'
  BY <1>1, <1>2, <1>4, <1>5, <1>6 DEF WholeInv
<1> QED BY <1>3, <1>7 DEF BoardInv

(* Every step keeps the invariant.                                         *)
LEMMA BoardInvStep == BoardInv /\ [BoardNext]_boardVars => BoardInv'
<1> SUFFICES ASSUME BoardInv, [BoardNext]_boardVars PROVE BoardInv'
  OBVIOUS
<1>1. CASE OthersClose \/ OthersRename
  <2>1. BoardTyped
    BY DEF BoardInv
  <2>2. Edited
    BY <1>1, <2>1, PeopleEdit
  <2> QED BY <1>1, <2>2, BoardInvEdited DEF OthersClose, OthersRename
<1>2. CASE UNCHANGED boardVars
  <2>1. UNCHANGED <<issues, listed, publisher, entries, cutShort>>
    BY <1>2 DEF boardVars
  <2>2. BoardTyped' /\ GenuineInv' /\ ListedInv' /\ OnceInv'
    BY <2>1 DEF BoardInv, BoardTyped, GenuineInv, ListedInv, OnceInv
  <2>3. WholeInv'
    BY <2>1 DEF BoardInv, WholeInv, Complete, Untouched, Begun, HasIssue
  <2> QED BY <2>2, <2>3 DEF BoardInv
<1> QED BY <1>1, <1>2, BoardInvOthersOpen, BoardInvStart, BoardInvList, BoardInvNext, BoardInvRaises, BoardInvEnds
        DEF BoardNext

(* No issue yet.                                                           *)
LEMMA BoardInvInit == BoardInit => BoardInv
<1> SUFFICES ASSUME BoardInit PROVE BoardInv
  OBVIOUS
<1>1. /\ issues = <<>> /\ listed = <<>> /\ entries = <<>> /\ cutShort = FALSE
      /\ publisher \in Publisher /\ publisher.stage = "off"
  BY DEF BoardInit, Publisher
<1>2. BoardTyped
  <2>1. 0 <= Len(Drafts) /\ 0 <= MaxIssues
    BY BoardAssumption
  <2>2. Len(issues) = 0 /\ Len(entries) = 0
    BY <1>1
  <2>3. issues \in Seq(Issue) /\ listed \in Seq(Issue) /\ entries \in Seq({"created", "existing", "blocked", "dry-run"})
    BY <1>1
  <2> QED BY <1>1, <2>1, <2>2, <2>3 DEF BoardTyped
<1>3. GenuineInv /\ ListedInv /\ OnceInv
  BY <1>1 DEF GenuineInv, ListedInv, OnceInv
<1>4. WholeInv
  BY <1>1 DEF WholeInv, Untouched
<1> QED BY <1>2, <1>3, <1>4 DEF BoardInv

(* For any drafts, list limit and number of issues: while the list reaches *)
(* back to the first issue no draft is published twice, and a publication  *)
(* that was never cut short leaves an issue of its own for each draft it   *)
(* is not told to hold back (planning_publish.py:108-179).                 *)
THEOREM PublishedOnceKept == BoardSpec => []PublishedOnce
<1>1. BoardInv => PublishedOnce
  <2> SUFFICES ASSUME BoardInv PROVE PublishedOnce
    OBVIOUS
  <2>1. BoardTyped /\ OnceInv /\ WholeInv
    BY DEF BoardInv
  <2>2. ASSUME Len(issues) <= ListLimit, NEW d \in DOMAIN Drafts
        PROVE  Cardinality({n \in DOMAIN issues : issues[n].draft = d}) <= 1
    <3>1. d # 0
      BY BoardAssumption
    <3>2. PICK S : S = {n \in DOMAIN issues : issues[n].draft = d}
      OBVIOUS
    <3>3. \A n, m \in S : n = m
      BY <2>1, <2>2, <3>1, <3>2 DEF OnceInv
    <3>4. CASE S = {}
      BY <3>2, <3>4, FS_EmptySet
    <3>5. CASE S # {}
      <4>1. PICK n \in S : S = {n}
        BY <3>3, <3>5
      <4>2. Cardinality({n}) = 1
        BY FS_Singleton
      <4> QED BY <3>2, <4>1, <4>2
    <3> QED BY <3>4, <3>5
  <2>3. ASSUME publisher.stage = "published", ~cutShort, NEW d \in DOMAIN Drafts,
               entries[d] \in {"created", "existing"}
        PROVE  \E i \in Range(issues) : i.draft = d
    <3>1. HasIssue(d)
      <4>1. d \in DOMAIN entries
        BY <2>1, <2>3, BoardAssumption DEF BoardTyped
      <4> QED BY <2>1, <2>3, <4>1 DEF WholeInv
    <3> QED BY <3>1 DEF HasIssue, Range
  <2> QED BY <2>2, <2>3 DEF PublishedOnce
<1> QED BY <1>1, BoardInvInit, BoardInvStep, PTL DEF BoardSpec

(* The board is well typed, the records of its publisher included.         *)
THEOREM BoardTypeOKKept == BoardSpec => []BoardTypeOK
<1>1. BoardInv => BoardTypeOK
  BY DEF BoardInv, BoardTyped, Publisher, BoardTypeOK
<1> QED BY <1>1, BoardInvInit, BoardInvStep, PTL DEF BoardSpec

------------------------------------------------------------------------------
Step == {"generate", "fetch", "look", "write", "lock", "npx", "read", "put"}
RunOf(lines) ==
  [command : {"init", "sync", "install"}, mode : {"missing", "force", "dry"},
   source : {"model", "offline", "github", "local", "none"},
   ref : {"none", "latest"} \cup Range(Releases) \cup Projects, step : Step,
   content : Contents, todo : Seq(Paths), read : {lines}]

FilesTyped ==
  /\ files \in [Paths -> Contents] /\ release \in DOMAIN Releases
  /\ run # NoRun => run \in RunOf(run.read)
  /\ kept \cup promised \subseteq Paths /\ exact \in {"missing"} \cup Range(Releases)

Drafting(r) == r.content \in {"draft", "template"}
Copying(r) == r.content \in Range(Releases)

(* What a step of a command may take for granted: where its contents come  *)
(* from, which paths are left, and what its history has not said yet.      *)
SourceInv ==
  run # NoRun =>
    /\ exact = "missing"
    /\ run.step \in {"look", "write"} => (Drafting(run) \/ Copying(run))
    /\ run.step = "lock" => Copying(run) /\ run.todo = <<>>
    /\ run.step = "generate" => run.command = "init"
    /\ run.step = "fetch" => run.source \in {"github", "local"}
    /\ Drafting(run) => run.command = "init" /\ Range(run.todo) \subseteq Range(Specs)
    /\ Copying(run) => /\ run.source \in {"github", "local"}
                       /\ run.source = "github" => run.ref = run.content
    /\ run.command = "init" => run.mode # "dry"

(* With --force no path that is left is one to keep, and nothing was       *)
(* promised before.                                                        *)
ForceInv ==
  run # NoRun /\ run.mode = "force" =>
    /\ promised = {}
    /\ run.command = "init" => kept \cap Range(Specs) = {} /\ ~Copying(run) /\ run.step # "fetch"
    /\ run.command # "init" => kept = {}

(* What was found missing, or may be overwritten, is not to be kept.       *)
WriteInv == run # NoRun /\ run.step = "write" => run.todo # <<>> /\ Head(run.todo) \notin kept

(* The paths a command has behind it.                                      *)
Behind(r) ==
  {p \in Paths : /\ (Drafting(r) /\ p \in Range(Specs)) \/ (Copying(r) /\ p \in Range(Starter[r.content]))
                 /\ p \notin Range(r.todo)}
BehindInv ==
  run # NoRun /\ run.step \in {"look", "write", "lock"} /\ run.mode # "dry" =>
    \A p \in Behind(run) \ edited :
      files[p] # "missing" /\ (run.mode = "force" => files[p] = run.content)

ProvisioningInv ==
  FilesTyped /\ SourceInv /\ ForceInv /\ WriteInv /\ BehindInv /\ UsersFilesKept /\ CommandsComplete

------------------------------------------------------------------------------
(* The lists of paths a command goes by.                                   *)
LEMMA ListsTyped ==
  /\ Specs \in Seq(Paths) /\ Range(Specs) \subseteq Paths
  /\ \A v \in Range(Releases) : Starter[v] \in Seq(Paths) /\ Range(Starter[v]) \subseteq Paths
  /\ \A n \in DOMAIN Releases : Releases[n] \in Range(Releases)
<1>1. Range(Specs) \subseteq Paths /\ \A v \in Range(Releases) : Range(Starter[v]) \subseteq Paths
  BY DEF Paths
<1>2. \A s \in Seq(STRING) : Range(s) \subseteq Paths => s \in Seq(Paths)
  BY DEF Range
<1>3. Specs \in Seq(STRING) /\ \A v \in Range(Releases) : Starter[v] \in Seq(STRING)
  BY ProvisioningAssumption
<1>4. \A n \in DOMAIN Releases : Releases[n] \in Range(Releases)
  BY DEF Range
<1> QED BY <1>1, <1>2, <1>3, <1>4

(* What a file can hold.                                                   *)
LEMMA ContentsTyped ==
  /\ Range(Releases) \subseteq Contents /\ {"missing", "user", "torn", "draft", "template"} \subseteq Contents
  BY DEF Contents

(* What is left after one path.                                            *)
LEMMA PathsLeft ==
  ASSUME NEW s \in Seq(Paths), s # <<>>
  PROVE  /\ Head(s) \in Paths /\ Tail(s) \in Seq(Paths) /\ Head(s) \in Range(s)
         /\ Range(s) = Range(Tail(s)) \cup {Head(s)}
<1>1. /\ Head(s) \in Paths /\ Tail(s) \in Seq(Paths) /\ Len(s) \in Nat /\ Len(s) >= 1 /\ Head(s) = s[1]
      /\ DOMAIN s = 1..Len(s) /\ DOMAIN Tail(s) = 1..(Len(s) - 1)
      /\ \A n \in DOMAIN Tail(s) : Tail(s)[n] = s[n + 1]
  OBVIOUS
<1>2. Range(Tail(s)) \subseteq Range(s) /\ Head(s) \in Range(s)
  BY <1>1 DEF Range
<1>3. ASSUME NEW p \in Range(s), p # Head(s) PROVE p \in Range(Tail(s))
  <2>1. PICK n \in 1..Len(s) : p = s[n]
    BY <1>1 DEF Range
  <2>2. n # 1
    BY <1>1, <1>3, <2>1
  <2>3. n - 1 \in DOMAIN Tail(s) /\ (n - 1) + 1 = n
    BY <1>1, <2>1, <2>2
  <2>4. Tail(s)[n - 1] = p
    BY <1>1, <2>1, <2>3
  <2> QED BY <2>3, <2>4 DEF Range
<1> QED BY <1>1, <1>2, <1>3

(* A new command: its history begins anew.                                 *)
LEMMA BeginKeeps ==
  ASSUME ProvisioningInv,
         NEW command \in {"init", "sync", "install"}, NEW mode \in {"missing", "force", "dry"},
         NEW source \in {"model", "offline", "github", "local", "none"},
         NEW ref \in {"none", "latest"} \cup Range(Releases) \cup Projects,
         NEW step \in {"generate", "fetch", "npx"}, Begin(command, mode, source, ref, step),
         step = "generate" <=> command = "init",
         step = "fetch" => command = "sync" /\ source \in {"github", "local"},
         command = "init" => mode # "dry"
  PROVE  ProvisioningInv'
<1>0. FilesTyped /\ SourceInv /\ ForceInv /\ WriteInv /\ BehindInv /\ UsersFilesKept /\ CommandsComplete
  BY DEF ProvisioningInv
<1>1. PICK q : q = [command |-> command, mode |-> mode, source |-> source, ref |-> ref, step |-> step,
                    content |-> "missing", todo |-> <<>>, read |-> <<>>]
  OBVIOUS
<1>2. /\ q.command = command /\ q.mode = mode /\ q.source = source /\ q.step = step
      /\ q.content = "missing" /\ q.todo = <<>> /\ q.read = <<>>
  BY <1>1
<1>3. q \in RunOf(q.read)
  <2>1. "missing" \in Contents /\ step \in Step /\ <<>> \in Seq(Paths)
    BY DEF Contents, Step
  <2> QED BY <1>1, <2>1 DEF RunOf
<1>4. /\ run' = q /\ UNCHANGED <<files, release, lock, config>> /\ promised' = {} /\ edited' = {} /\ exact' = "missing"
      /\ kept' = {p \in Paths : files[p] = "user" /\ (mode = "force" => command = "init" /\ p \notin Range(Specs))}
  BY <1>1 DEF Begin, disk
<1>5. FilesTyped'
  BY <1>0, <1>3, <1>4 DEF FilesTyped
<1>6. ~Drafting(q) /\ ~Copying(q)
  BY <1>2, ReleasesApart DEF Drafting, Copying
<1>7. SourceInv'
  <2>1. ~Drafting(run') /\ ~Copying(run')
    BY <1>4, <1>6
  <2> QED BY <1>2, <1>4, <2>1 DEF SourceInv, Drafting, Copying
<1>8. ForceInv'
  BY <1>2, <1>4, <1>6 DEF ForceInv, Copying
<1>9. WriteInv' /\ BehindInv'
  BY <1>2, <1>4 DEF WriteInv, BehindInv
<1>10. UsersFilesKept' /\ CommandsComplete'
  BY <1>4 DEF UsersFilesKept, CommandsComplete
<1> QED BY <1>5, <1>7, <1>8, <1>9, <1>10 DEF ProvisioningInv

(* Any of the three commands begins.                                       *)
LEMMA CommandsBegin ==
  ASSUME ProvisioningInv, InitCommand \/ SyncCommand \/ InstallCommand
  PROVE  ProvisioningInv'
<1>1. CASE InitCommand
  BY <1>1, BeginKeeps DEF InitCommand
<1>2. CASE SyncCommand
  <2>1. PICK mode \in {"missing", "force", "dry"}, source \in {"github", "local"},
             ref \in {"latest"} \cup {Releases[i] : i \in 1..release} : Begin("sync", mode, source, ref, "fetch")
    BY <1>2 DEF SyncCommand
  <2>2. release \in DOMAIN Releases /\ DOMAIN Releases = 1..Len(Releases)
    BY ProvisioningAssumption DEF ProvisioningInv, FilesTyped
  <2>3. ref \in {"none", "latest"} \cup Range(Releases) \cup Projects
    BY <2>1, <2>2, ListsTyped
  <2> QED BY <2>1, <2>3, BeginKeeps
<1>3. CASE InstallCommand
  BY <1>3, BeginKeeps DEF InstallCommand
<1> QED BY <1>1, <1>2, <1>3

(* What a command says when it goes on in the same place or stops.         *)
LEMMA StopKeeps ==
  ASSUME ProvisioningInv, run # NoRun, Stops, UNCHANGED <<files, release, lock, history>>
  PROVE  ProvisioningInv'
<1>0. FilesTyped /\ SourceInv /\ UsersFilesKept /\ CommandsComplete
  BY DEF ProvisioningInv
<1>1. /\ run' = NoRun /\ files' = files /\ release' = release /\ lock' = lock /\ kept' = kept /\ promised' = promised
      /\ edited' = edited /\ exact' = exact /\ exact = "missing"
  BY <1>0 DEF Stops, history, SourceInv
<1>2. FilesTyped' /\ SourceInv' /\ ForceInv' /\ WriteInv' /\ BehindInv'
  BY <1>0, <1>1 DEF FilesTyped, SourceInv, ForceInv, WriteInv, BehindInv
<1>3. UsersFilesKept' /\ CommandsComplete'
  BY <1>0, <1>1 DEF UsersFilesKept, CommandsComplete
<1> QED BY <1>2, <1>3 DEF ProvisioningInv

(* The command goes on and touches nothing: its own record decides.        *)
LEMMA GoKeeps ==
  ASSUME ProvisioningInv, run # NoRun, NEW q, q \in RunOf(q.read), GoesOn(q), UNCHANGED <<files, release, lock, history>>,
         SourceInv', ForceInv', WriteInv', BehindInv'
  PROVE  ProvisioningInv'
<1>0. FilesTyped /\ SourceInv /\ UsersFilesKept /\ CommandsComplete
  BY DEF ProvisioningInv
<1>1. /\ run' = q /\ files' = files /\ release' = release /\ lock' = lock /\ kept' = kept /\ promised' = promised
      /\ edited' = edited /\ exact' = exact /\ exact = "missing"
  BY <1>0 DEF GoesOn, history, SourceInv
<1>2. FilesTyped'
  BY <1>0, <1>1 DEF FilesTyped
<1>3. UsersFilesKept' /\ CommandsComplete'
  BY <1>0, <1>1 DEF UsersFilesKept, CommandsComplete
<1> QED BY <1>2, <1>3 DEF ProvisioningInv

(* The documents are drafted, and none is behind the command yet.          *)
LEMMA GenerateKeeps ==
  ASSUME ProvisioningInv, Generate
  PROVE  ProvisioningInv'
<1>0. FilesTyped /\ SourceInv /\ ForceInv
  BY DEF ProvisioningInv
<1>1. run # NoRun /\ run.step = "generate" /\ UNCHANGED <<files, release, lock, history>>
  BY DEF Generate, At, disk
<1>2. CASE Stops
  BY <1>1, <1>2, StopKeeps
<1>3. ASSUME NEW c \in {"draft", "template"}, GoesOn([run EXCEPT !.step = "look", !.todo = Specs, !.content = c])
      PROVE  ProvisioningInv'
  <2>1. PICK q : q = [run EXCEPT !.step = "look", !.todo = Specs, !.content = c]
    OBVIOUS
  <2>2. run \in RunOf(run.read)
    BY <1>0, <1>1 DEF FilesTyped
  <2>3. /\ q \in RunOf(q.read) /\ q.step = "look" /\ q.todo = Specs /\ q.content = c
        /\ q.command = run.command /\ q.mode = run.mode /\ q.source = run.source /\ q.ref = run.ref
    BY <2>1, <2>2, ListsTyped, ContentsTyped DEF RunOf, Step
  <2>4. run' = q
    BY <1>3, <2>1 DEF GoesOn
  <2>5. Drafting(q) /\ ~Copying(q)
    BY <2>3, ReleasesApart DEF Drafting, Copying
  <2>6. run.command = "init" /\ exact = "missing" /\ run.mode # "dry"
    BY <1>0, <1>1 DEF SourceInv
  <2>7. UNCHANGED <<exact, kept, promised, edited, files>>
    BY <1>1 DEF history
  <2>8. SourceInv'
    <3>1. Drafting(run') /\ ~Copying(run')
      BY <2>4, <2>5
    <3> QED BY <2>3, <2>4, <2>6, <2>7, <3>1 DEF SourceInv
  <2>9. ForceInv'
    <3>1. ~Copying(run')
      BY <2>4, <2>5
    <3> QED BY <1>0, <1>1, <2>3, <2>4, <2>6, <2>7, <3>1 DEF ForceInv
  <2>10. WriteInv'
    BY <2>3, <2>4 DEF WriteInv
  <2>11. BehindInv'
    <3>1. Behind(q) = {}
      BY <2>3, <2>5 DEF Behind
    <3>2. Behind(run') = {}
      BY <2>4, <3>1
    <3> QED BY <3>2 DEF BehindInv
  <2> QED BY <1>1, <1>3, <2>1, <2>3, <2>8, <2>9, <2>10, <2>11, GoKeeps
<1> QED BY <1>2, <1>3 DEF Generate

(* A release has arrived; --force of init does not reach the starter.      *)
LEMMA FetchKeeps ==
  ASSUME ProvisioningInv, Fetch
  PROVE  ProvisioningInv'
<1>0. FilesTyped /\ SourceInv /\ ForceInv
  BY DEF ProvisioningInv
<1>1. run # NoRun /\ run.step = "fetch" /\ UNCHANGED <<files, release, lock, history>>
  BY DEF Fetch, At, disk
<1>2. CASE Stops
  BY <1>1, <1>2, StopKeeps
<1>3. ASSUME NEW v \in Range(Releases), NEW ref, ref = (IF run.source = "github" THEN v ELSE run.ref),
             GoesOn([run EXCEPT !.step = "look", !.content = v, !.todo = Starter[v], !.ref = ref])
      PROVE  ProvisioningInv'
  <2>1. PICK q : q = [run EXCEPT !.step = "look", !.content = v, !.todo = Starter[v], !.ref = ref]
    OBVIOUS
  <2>2. run \in RunOf(run.read)
    BY <1>0, <1>1 DEF FilesTyped
  <2>3. ref \in {"none", "latest"} \cup Range(Releases) \cup Projects
    BY <1>3, <2>2 DEF RunOf
  <2>4. /\ q \in RunOf(q.read) /\ q.step = "look" /\ q.todo = Starter[v] /\ q.content = v
        /\ q.command = run.command /\ q.mode = run.mode /\ q.source = run.source /\ q.ref = ref
    BY <2>1, <2>2, <2>3, ListsTyped, ContentsTyped DEF RunOf, Step
  <2>5. run' = q
    BY <1>3, <2>1 DEF GoesOn
  <2>6. Copying(q) /\ ~Drafting(q)
    BY <2>4, ReleasesApart DEF Drafting, Copying
  <2>7. run.source \in {"github", "local"} /\ exact = "missing" /\ (run.command = "init" => run.mode # "dry")
    BY <1>0, <1>1 DEF SourceInv
  <2>8. UNCHANGED <<exact, kept, promised, edited, files>>
    BY <1>1 DEF history
  <2>9. SourceInv'
    <3>1. Copying(run') /\ ~Drafting(run')
      BY <2>5, <2>6
    <3>2. run'.source = "github" => run'.ref = run'.content
      BY <1>3, <2>4, <2>5
    <3> QED BY <2>4, <2>5, <2>7, <2>8, <3>1, <3>2 DEF SourceInv
  <2>10. ForceInv'
    <3>1. run.mode = "force" => run.command # "init"
      BY <1>0, <1>1 DEF ForceInv
    <3> QED BY <1>0, <1>1, <2>4, <2>5, <2>8, <3>1 DEF ForceInv
  <2>11. WriteInv'
    BY <2>4, <2>5 DEF WriteInv
  <2>12. BehindInv'
    <3>1. Behind(q) = {}
      BY <2>4, <2>6 DEF Behind
    <3>2. Behind(run') = {}
      BY <2>5, <3>1
    <3> QED BY <3>2 DEF BehindInv
  <2> QED BY <1>1, <1>3, <2>1, <2>4, <2>9, <2>10, <2>11, <2>12, GoKeeps
<1>4. CASE \E v \in Range(Releases) :
             GoesOn([run EXCEPT !.step = "look", !.content = v, !.todo = Starter[v],
                                !.ref = IF run.source = "github" THEN v ELSE @])
  <2>1. PICK v \in Range(Releases) :
             GoesOn([run EXCEPT !.step = "look", !.content = v, !.todo = Starter[v],
                                !.ref = IF run.source = "github" THEN v ELSE @])
    BY <1>4
  <2>2. PICK ref : ref = (IF run.source = "github" THEN v ELSE run.ref)
    OBVIOUS
  <2>3. run \in RunOf(run.read)
    BY <1>0, <1>1 DEF FilesTyped
  <2>4. GoesOn([run EXCEPT !.step = "look", !.content = v, !.todo = Starter[v], !.ref = ref])
    BY <2>1, <2>2, <2>3 DEF RunOf
  <2> QED BY <1>3, <2>2, <2>4
<1> QED BY <1>2, <1>4 DEF Fetch

(* From step to step of a walk over the same content with the same request.*)
LEMMA WalkKeeps ==
  ASSUME SourceInv, ForceInv, run # NoRun, NEW q, run' = q, UNCHANGED <<exact, kept, promised>>,
         q.content = run.content, q.command = run.command, q.mode = run.mode,
         q.source = run.source, q.ref = run.ref, Range(q.todo) \subseteq Range(run.todo),
         q.step \in {"look", "write"} => run.step \in {"look", "write"},
         q.step = "lock" => Copying(run) /\ q.todo = <<>>, q.step \notin {"generate", "fetch"}
  PROVE  SourceInv' /\ ForceInv' /\ (Copying(q) <=> Copying(run)) /\ (Drafting(q) <=> Drafting(run))
<1>1. (Copying(q) <=> Copying(run)) /\ (Drafting(q) <=> Drafting(run))
  BY DEF Copying, Drafting
<1>2. (Copying(run') <=> Copying(run)) /\ (Drafting(run') <=> Drafting(run))
  BY <1>1
<1>3. SourceInv'
  BY <1>2 DEF SourceInv
<1>4. ForceInv'
  BY <1>2 DEF ForceInv
<1> QED BY <1>1, <1>3, <1>4

(* What a command puts there is something.                                 *)
LEMMA ContentIsThere == \A r : Copying(r) \/ Drafting(r) => r.content # "missing"
  BY ReleasesApart DEF Copying, Drafting

(* A path is skipped because a file is there, or is written to because none*)
(* is or --force may overwrite it.                                         *)
LEMMA LookKeeps ==
  ASSUME ProvisioningInv, Look
  PROVE  ProvisioningInv'
<1>0. FilesTyped /\ SourceInv /\ ForceInv /\ BehindInv /\ UsersFilesKept
  BY DEF ProvisioningInv
<1>1. run # NoRun /\ run.step = "look" /\ run.todo # <<>> /\ UNCHANGED <<files, release, lock, history>>
  BY DEF Look, At, disk
<1>2. run \in RunOf(run.read) /\ run.todo \in Seq(Paths)
  BY <1>0, <1>1 DEF FilesTyped, RunOf
<1>3. UNCHANGED <<exact, kept, promised, edited, files>>
  BY <1>1 DEF history
<1>4. PICK h : h = Head(run.todo) /\ h \in Paths /\ h \in Range(run.todo) /\ Tail(run.todo) \in Seq(Paths)
               /\ Range(run.todo) = Range(Tail(run.todo)) \cup {h}
  BY <1>1, <1>2, PathsLeft
<1>5. CASE Skips(files[h] # "missing")
  <2>1. PICK q : q = [run EXCEPT !.todo = Tail(run.todo)]
    OBVIOUS
  <2>2. /\ q \in RunOf(q.read) /\ q.step = "look" /\ q.todo = Tail(run.todo) /\ q.content = run.content
        /\ q.command = run.command /\ q.mode = run.mode /\ q.source = run.source /\ q.ref = run.ref
    BY <1>1, <1>2, <1>4, <2>1 DEF RunOf
  <2>3. GoesOn(q) /\ run' = q
    BY <1>4, <1>5, <2>1 DEF Look, GoesOn
  <2>4. /\ SourceInv' /\ ForceInv' /\ (Copying(q) <=> Copying(run)) /\ (Drafting(q) <=> Drafting(run))
    <3>1. Range(q.todo) \subseteq Range(run.todo)
      BY <1>4, <2>2
    <3> QED BY <1>0, <1>1, <1>3, <2>2, <2>3, <3>1, WalkKeeps
  <2>5. WriteInv'
    BY <2>2, <2>3 DEF WriteInv
  <2>6. BehindInv'
    <3>1. Behind(q) \subseteq Behind(run) \cup {h}
      BY <1>4, <2>2, <2>4 DEF Behind
    <3>2. Behind(run') \subseteq Behind(run) \cup {h}
      BY <2>3, <3>1
    <3>3. run.mode # "dry" => files[h] # "missing" /\ run.mode # "force"
      BY <1>5 DEF Skips
    <3> QED BY <1>0, <1>1, <1>3, <2>2, <2>3, <3>2, <3>3 DEF BehindInv
  <2> QED BY <1>1, <2>2, <2>3, <2>4, <2>5, <2>6, GoKeeps
<1>6. CASE ~Skips(files[h] # "missing")
  <2>1. PICK q : q = [run EXCEPT !.step = "write"]
    OBVIOUS
  <2>2. /\ q \in RunOf(q.read) /\ q.step = "write" /\ q.todo = run.todo /\ q.content = run.content
        /\ q.command = run.command /\ q.mode = run.mode /\ q.source = run.source /\ q.ref = run.ref
    BY <1>1, <1>2, <2>1 DEF RunOf, Step
  <2>3. GoesOn(q) /\ run' = q
    BY <1>4, <1>6, <2>1 DEF Look, GoesOn
  <2>4. /\ SourceInv' /\ ForceInv' /\ (Copying(q) <=> Copying(run)) /\ (Drafting(q) <=> Drafting(run))
    BY <1>0, <1>1, <1>3, <2>2, <2>3, WalkKeeps
  <2>5. WriteInv'
    <3>1. CASE files[h] = "missing"
      BY <1>0, <1>1, <1>3, <1>4, <2>2, <2>3, <3>1 DEF WriteInv, UsersFilesKept
    <3>2. CASE run.mode = "force"
      <4>1. run.command = "init" => h \in Range(Specs)
        BY <1>0, <1>1, <1>4, <3>2 DEF ForceInv, SourceInv
      <4>2. h \notin kept
        BY <1>0, <1>1, <3>2, <4>1 DEF ForceInv
      <4> QED BY <1>1, <1>3, <1>4, <2>2, <2>3, <4>2 DEF WriteInv
    <3> QED BY <1>6, <3>1, <3>2 DEF Skips
  <2>6. BehindInv'
    <3>1. Behind(q) = Behind(run)
      BY <2>2, <2>4 DEF Behind
    <3>2. Behind(run') = Behind(run)
      BY <2>3, <3>1
    <3> QED BY <1>0, <1>1, <1>3, <2>2, <2>3, <3>2 DEF BehindInv
  <2> QED BY <1>1, <2>2, <2>3, <2>4, <2>5, <2>6, GoKeeps
<1> QED BY <1>5, <1>6

(* The file that is written is not one to keep, and is there afterwards.   *)
LEMMA WriteKeeps ==
  ASSUME ProvisioningInv, Write
  PROVE  ProvisioningInv'
<1>0. FilesTyped /\ SourceInv /\ ForceInv /\ WriteInv /\ BehindInv /\ UsersFilesKept /\ CommandsComplete
  BY DEF ProvisioningInv
<1>1. run # NoRun /\ run.step = "write" /\ UNCHANGED <<release, lock, history>>
  BY DEF Write, At
<1>2. run \in RunOf(run.read) /\ run.todo \in Seq(Paths) /\ run.content \in Contents
  BY <1>0, <1>1 DEF FilesTyped, RunOf
<1>3. UNCHANGED <<exact, kept, promised, edited>> /\ exact = "missing"
  BY <1>0, <1>1 DEF history, SourceInv
<1>4. PICK h : h = Head(run.todo) /\ h \in Paths /\ h \in Range(run.todo) /\ Tail(run.todo) \in Seq(Paths)
               /\ Range(run.todo) = Range(Tail(run.todo)) \cup {h}
  BY <1>0, <1>1, <1>2, PathsLeft DEF WriteInv
<1>5. h \notin kept /\ run.content # "missing"
  BY <1>0, <1>1, <1>4, ContentIsThere DEF WriteInv, SourceInv
<1>6. /\ files' \in [Paths -> Contents] /\ files'[h] = run.content
      /\ \A p \in Paths : p # h => files'[p] = files[p]
  BY <1>0, <1>2, <1>4 DEF Write, FilesTyped
<1>7. PICK q : q = [run EXCEPT !.todo = Tail(run.todo), !.step = "look"]
  OBVIOUS
<1>8. /\ q \in RunOf(q.read) /\ q.step = "look" /\ q.todo = Tail(run.todo) /\ q.content = run.content
      /\ q.command = run.command /\ q.mode = run.mode /\ q.source = run.source /\ q.ref = run.ref
  BY <1>2, <1>4, <1>7 DEF RunOf, Step
<1>9. run' = q
  BY <1>7 DEF Write, GoesOn
<1>10. SourceInv' /\ ForceInv' /\ (Copying(q) <=> Copying(run)) /\ (Drafting(q) <=> Drafting(run))
  <2>1. Range(q.todo) \subseteq Range(run.todo)
    BY <1>4, <1>8
  <2> QED BY <1>0, <1>1, <1>3, <1>8, <1>9, <2>1, WalkKeeps
<1>11. FilesTyped' /\ WriteInv'
  BY <1>0, <1>1, <1>3, <1>6, <1>8, <1>9 DEF FilesTyped, WriteInv
<1>12. BehindInv'
  <2>1. Behind(q) \subseteq Behind(run) \cup {h} /\ Behind(run) \subseteq Paths
    BY <1>4, <1>8, <1>10 DEF Behind
  <2>2. Behind(run') \subseteq Behind(run) \cup {h}
    BY <1>9, <2>1
  <2>3. \A p \in Behind(run) \ edited : run.mode # "dry" =>
          files[p] # "missing" /\ (run.mode = "force" => files[p] = run.content)
    BY <1>0, <1>1 DEF BehindInv
  <2> QED BY <1>3, <1>5, <1>6, <1>8, <1>9, <2>1, <2>2, <2>3 DEF BehindInv
<1>13. UsersFilesKept'
  BY <1>0, <1>3, <1>5, <1>6 DEF UsersFilesKept, FilesTyped
<1>14. CommandsComplete'
  <2>1. \A p \in promised \ edited : files[p] # "missing" => files'[p] # "missing"
    BY <1>0, <1>5, <1>6 DEF FilesTyped
  <2> QED BY <1>0, <1>1, <1>3, <2>1 DEF CommandsComplete
<1> QED BY <1>10, <1>11, <1>12, <1>13, <1>14 DEF ProvisioningInv

(* A command that has no path left has all behind it.                      *)
LEMMA AllBehind ==
  ASSUME ProvisioningInv, run # NoRun, run.step \in {"look", "lock"}, run.todo = <<>>, run.mode # "dry",
         NEW P, P \subseteq Paths,
         \/ Drafting(run) /\ P = Range(Specs)
         \/ Copying(run) /\ P = Range(Starter[run.content])
  PROVE  \A p \in P \ edited : files[p] # "missing" /\ (run.mode = "force" => files[p] = run.content)
<1>1. Range(run.todo) = {}
  BY DEF Range
<1>2. P \subseteq Behind(run)
  BY <1>1 DEF Behind
<1> QED BY <1>2 DEF ProvisioningInv, BehindInv

(* All documents are there; the starter comes next, without --force.       *)
LEMMA DraftedKeeps ==
  ASSUME ProvisioningInv, Drafted
  PROVE  ProvisioningInv'
<1>0. FilesTyped /\ SourceInv /\ ForceInv /\ WriteInv /\ BehindInv /\ UsersFilesKept /\ CommandsComplete
  BY DEF ProvisioningInv
<1>1. /\ run # NoRun /\ run.step = "look" /\ run.todo = <<>> /\ run.content \in {"draft", "template"}
      /\ UNCHANGED <<files, release, lock>> /\ UNCHANGED <<kept, edited, exact>> /\ promised' = Range(Specs)
  BY DEF Drafted, At, disk
<1>2. Drafting(run) /\ ~Copying(run) /\ run.command = "init" /\ run.mode # "dry" /\ exact = "missing"
  BY <1>0, <1>1, ReleasesApart DEF Drafting, Copying, SourceInv
<1>3. \A p \in Range(Specs) \ edited : files[p] # "missing"
  BY <1>1, <1>2, AllBehind, ListsTyped
<1>4. UsersFilesKept' /\ CommandsComplete'
  BY <1>0, <1>1, <1>2, <1>3 DEF UsersFilesKept, CommandsComplete
<1>5. CASE Stops
  <2>1. FilesTyped'
    BY <1>0, <1>1, <1>5, ListsTyped DEF FilesTyped, Stops
  <2>2. SourceInv' /\ ForceInv' /\ WriteInv' /\ BehindInv'
    BY <1>5 DEF Stops, SourceInv, ForceInv, WriteInv, BehindInv
  <2> QED BY <1>4, <2>1, <2>2 DEF ProvisioningInv
<1>6. CASE GoesOn([run EXCEPT !.step = "fetch", !.mode = "missing", !.source = "github"])
  <2>1. PICK q : q = [run EXCEPT !.step = "fetch", !.mode = "missing", !.source = "github"]
    OBVIOUS
  <2>2. run \in RunOf(run.read)
    BY <1>0, <1>1 DEF FilesTyped
  <2>3. /\ q \in RunOf(q.read) /\ q.step = "fetch" /\ q.mode = "missing" /\ q.source = "github"
        /\ q.todo = run.todo /\ q.content = run.content /\ q.command = run.command
    BY <2>1, <2>2 DEF RunOf, Step
  <2>4. run' = q
    BY <1>6, <2>1 DEF GoesOn
  <2>5. Drafting(run') /\ ~Copying(run')
    <3>1. Drafting(q) /\ ~Copying(q)
      BY <1>2, <2>3 DEF Drafting, Copying
    <3> QED BY <2>4, <3>1
  <2>6. SourceInv'
    <3>1. Range(<<>>) \subseteq Range(Specs)
      BY DEF Range
    <3> QED BY <1>1, <1>2, <2>3, <2>4, <2>5, <3>1 DEF SourceInv
  <2>7. ForceInv' /\ WriteInv' /\ BehindInv'
    BY <2>3, <2>4 DEF ForceInv, WriteInv, BehindInv
  <2>8. FilesTyped'
    BY <1>0, <1>1, <2>3, <2>4, ListsTyped DEF FilesTyped
  <2> QED BY <1>4, <2>6, <2>7, <2>8 DEF ProvisioningInv
<1> QED BY <1>5, <1>6 DEF Drafted

(* What a command that copied all says at its end.                         *)
LEMMA PromiseKeeps ==
  ASSUME ProvisioningInv, run # NoRun, Copying(run), run.todo = <<>>, run.step \in {"look", "lock"}, Stops, Promise,
         UNCHANGED <<files, release, kept, edited>>, lock' # NoLock,
         run.mode = "force" => (lock'.source = "github" => lock'.ref = run.content)
  PROVE  ProvisioningInv'
<1>0. FilesTyped /\ SourceInv /\ ForceInv /\ WriteInv /\ BehindInv /\ UsersFilesKept /\ CommandsComplete
  BY DEF ProvisioningInv
<1>1. exact = "missing" /\ run.content # "missing" /\ run.content \in Range(Releases)
  BY <1>0, ContentIsThere DEF SourceInv, Copying
<1>2. CASE run.mode = "dry"
  <2>1. promised' = promised /\ exact' = exact
    BY <1>2 DEF Promise
  <2>2. FilesTyped' /\ SourceInv' /\ ForceInv' /\ WriteInv' /\ BehindInv'
    BY <1>0, <2>1 DEF Stops, FilesTyped, SourceInv, ForceInv, WriteInv, BehindInv
  <2>3. UsersFilesKept' /\ CommandsComplete'
    BY <1>0, <1>1, <2>1 DEF UsersFilesKept, CommandsComplete
  <2> QED BY <2>2, <2>3 DEF ProvisioningInv
<1>3. CASE run.mode # "dry"
  <2>0. PICK P : P = Range(Starter[run.content])
    OBVIOUS
  <2>1. /\ promised' = promised \cup P /\ P \subseteq Paths
        /\ exact' = IF run.mode = "force" THEN run.content ELSE "missing"
    BY <1>1, <1>3, <2>0, ListsTyped DEF Promise
  <2>2. \A p \in P \ edited : files[p] # "missing" /\ (run.mode = "force" => files[p] = run.content)
    BY <1>3, <2>0, <2>1, AllBehind
  <2>3. FilesTyped' /\ SourceInv' /\ ForceInv' /\ WriteInv' /\ BehindInv'
    BY <1>0, <1>1, <2>1 DEF Stops, FilesTyped, SourceInv, ForceInv, WriteInv, BehindInv
  <2>4. UsersFilesKept'
    BY <1>0 DEF UsersFilesKept
  <2>5. CommandsComplete'
    <3>1. CASE run.mode = "force"
      <4>1. promised' = P /\ exact' = run.content
        BY <1>0, <2>1, <3>1 DEF ForceInv
      <4> QED BY <2>2, <3>1, <4>1 DEF CommandsComplete
    <3>2. CASE run.mode # "force"
      <4>1. exact' = "missing"
        BY <2>1, <3>2
      <4> QED BY <1>0, <2>1, <2>2, <4>1 DEF CommandsComplete
    <3> QED BY <3>1, <3>2
  <2> QED BY <2>3, <2>4, <2>5 DEF ProvisioningInv
<1> QED BY <1>2, <1>3

(* The lock is looked at when all files are there: it is left only without *)
(* --force.                                                                *)
LEMMA LookLockKeeps ==
  ASSUME ProvisioningInv, LookLock
  PROVE  ProvisioningInv'
<1>0. FilesTyped /\ SourceInv /\ ForceInv /\ BehindInv
  BY DEF ProvisioningInv
<1>1. /\ run # NoRun /\ run.step = "look" /\ run.todo = <<>> /\ Copying(run)
      /\ UNCHANGED <<files, release, lock>> /\ UNCHANGED <<kept, edited, theirs, apart>>
  BY DEF LookLock, At, disk, Copying
<1>2. CASE Skips(lock # NoLock)
  <2>1. Stops /\ Promise
    BY <1>2 DEF LookLock
  <2>2. CASE run.mode = "dry"
    <3>1. UNCHANGED <<files, release, lock, history>>
      BY <1>1, <2>1, <2>2 DEF Promise, history
    <3> QED BY <1>1, <2>1, <3>1, StopKeeps
  <2>3. CASE run.mode # "dry"
    BY <1>1, <1>2, <2>1, <2>3, PromiseKeeps DEF Skips
  <2> QED BY <2>2, <2>3
<1>3. CASE ~Skips(lock # NoLock)
  <2>0. GoesOn([run EXCEPT !.step = "lock"]) /\ UNCHANGED <<promised, exact>>
    BY <1>3 DEF LookLock
  <2>1. PICK q : q = [run EXCEPT !.step = "lock"]
    OBVIOUS
  <2>2. run \in RunOf(run.read)
    BY <1>0, <1>1 DEF FilesTyped
  <2>3. /\ q \in RunOf(q.read) /\ q.step = "lock" /\ q.todo = run.todo /\ q.content = run.content
        /\ q.command = run.command /\ q.mode = run.mode /\ q.source = run.source /\ q.ref = run.ref
    BY <2>1, <2>2 DEF RunOf, Step
  <2>4. GoesOn(q) /\ run' = q /\ UNCHANGED <<files, release, lock, history>>
    BY <1>1, <2>0, <2>1 DEF GoesOn, history
  <2>5. SourceInv' /\ ForceInv' /\ (Copying(q) <=> Copying(run)) /\ (Drafting(q) <=> Drafting(run))
    BY <1>0, <1>1, <2>0, <2>3, <2>4, WalkKeeps
  <2>6. WriteInv'
    BY <2>3, <2>4 DEF WriteInv
  <2>7. BehindInv'
    <3>1. Behind(q) = Behind(run)
      BY <2>3, <2>5 DEF Behind
    <3>2. Behind(run') = Behind(run)
      BY <2>4, <3>1
    <3> QED BY <1>0, <1>1, <2>3, <2>4, <3>2 DEF BehindInv
  <2> QED BY <1>1, <2>3, <2>4, <2>5, <2>6, <2>7, GoKeeps
<1> QED BY <1>2, <1>3

(* The new lock names what a forced command copied.                        *)
LEMMA WriteLockKeeps ==
  ASSUME ProvisioningInv, WriteLock
  PROVE  ProvisioningInv'
<1>1. run # NoRun /\ run.step = "lock" /\ Copying(run) /\ run.todo = <<>>
  BY DEF WriteLock, At, ProvisioningInv, SourceInv
<1>2. Stops /\ Promise /\ UNCHANGED <<files, release, kept, edited>>
  BY DEF WriteLock
<1>3. run.source # "none" /\ (run.source = "github" => run.ref = run.content)
  BY <1>1 DEF ProvisioningInv, SourceInv
<1>4. lock'.source = run.source /\ lock'.ref = run.ref /\ NoLock.source = "none"
  BY DEF WriteLock, NoLock
<1>5. lock' # NoLock
  BY <1>3, <1>4
<1> QED BY <1>1, <1>2, <1>3, <1>4, <1>5, PromiseKeeps

------------------------------------------------------------------------------
(* A command for the configuration touches no path.                        *)
LEMMA InstallKeeps ==
  ASSUME ProvisioningInv, FindNpx \/ ReadConfig \/ WriteConfig
  PROVE  ProvisioningInv'
<1>0. FilesTyped /\ SourceInv /\ ForceInv
  BY DEF ProvisioningInv
<1>1. run # NoRun /\ UNCHANGED <<files, release, lock, history>>
  BY DEF FindNpx, ReadConfig, WriteConfig, At, disk
<1>2. CASE Stops
  BY <1>1, <1>2, StopKeeps
<1>3. ASSUME NEW step \in {"read", "put"}, NEW lines, GoesOn([run EXCEPT !.step = step, !.read = lines])
      PROVE  ProvisioningInv'
  <2>1. PICK q : q = [run EXCEPT !.step = step, !.read = lines]
    OBVIOUS
  <2>2. run \in RunOf(run.read)
    BY <1>0, <1>1 DEF FilesTyped
  <2>3. /\ q \in RunOf(q.read) /\ q.step = step /\ q.todo = run.todo /\ q.content = run.content
        /\ q.command = run.command /\ q.mode = run.mode /\ q.source = run.source /\ q.ref = run.ref
    BY <2>1, <2>2 DEF RunOf, Step
  <2>4. GoesOn(q) /\ run' = q
    BY <1>3, <2>1 DEF GoesOn
  <2>5. SourceInv' /\ ForceInv'
    <3>1. UNCHANGED <<exact, kept, promised>>
      BY <1>1 DEF history
    <3> QED BY <1>0, <1>1, <2>3, <2>4, <3>1, WalkKeeps
  <2>6. WriteInv' /\ BehindInv'
    BY <2>3, <2>4 DEF WriteInv, BehindInv
  <2> QED BY <1>1, <2>3, <2>4, <2>5, <2>6, GoKeeps
<1>4. CASE FindNpx /\ ~Stops
  <2>1. run \in RunOf(run.read)
    BY <1>0, <1>1 DEF FilesTyped
  <2>2. GoesOn([run EXCEPT !.step = "read"])
    BY <1>4 DEF FindNpx
  <2>3. [run EXCEPT !.step = "read"] = [run EXCEPT !.step = "read", !.read = run.read]
    BY <2>1 DEF RunOf
  <2> QED BY <1>3, <2>2, <2>3
<1>5. CASE ReadConfig
  BY <1>3, <1>5 DEF ReadConfig
<1> QED BY <1>2, <1>4, <1>5 DEF WriteConfig

(* A death may tear the file that is written, which is none to keep.       *)
LEMMA DiesKeeps ==
  ASSUME ProvisioningInv, Dies
  PROVE  ProvisioningInv'
<1>0. FilesTyped /\ SourceInv /\ WriteInv /\ UsersFilesKept /\ CommandsComplete
  BY DEF ProvisioningInv
<1>1. run # NoRun /\ run' = NoRun /\ UNCHANGED <<release, kept, promised, edited, exact>> /\ exact = "missing"
  BY <1>0 DEF Dies, Stops, SourceInv
<1>2. /\ files' \in [Paths -> Contents] /\ \A p \in kept : files'[p] = files[p]
      /\ \A p \in Paths : files'[p] = files[p] \/ files'[p] = "torn"
  <2>1. CASE At("write")
    <3>1. run.todo \in Seq(Paths) /\ run.todo # <<>> /\ Head(run.todo) \notin kept
      BY <1>0, <1>1, <2>1 DEF At, WriteInv, FilesTyped, RunOf
    <3>2. PICK h : h = Head(run.todo) /\ h \in Paths
      BY <3>1, PathsLeft
    <3>3. files' = [files EXCEPT ![h] = "torn"]
      BY <2>1, <3>2 DEF Dies
    <3> QED BY <1>0, <3>1, <3>2, <3>3, ContentsTyped DEF FilesTyped
  <2>2. CASE ~At("write")
    BY <1>0, <2>2 DEF Dies, FilesTyped
  <2> QED BY <2>1, <2>2
<1>3. lock' = lock \/ lock' # NoLock
  <2>1. TornLock.ref = "torn" /\ NoLock.ref = "none"
    BY DEF TornLock, NoLock
  <2> QED BY <2>1 DEF Dies
<1>4. FilesTyped' /\ SourceInv' /\ ForceInv' /\ WriteInv' /\ BehindInv'
  BY <1>0, <1>1, <1>2 DEF FilesTyped, SourceInv, ForceInv, WriteInv, BehindInv
<1>5. UsersFilesKept'
  BY <1>0, <1>1, <1>2 DEF UsersFilesKept
<1>6. CommandsComplete'
  <2>1. \A p \in promised \ edited : files'[p] # "missing"
    BY <1>0, <1>2 DEF FilesTyped, CommandsComplete
  <2> QED BY <1>0, <1>1, <1>3, <2>1 DEF CommandsComplete
<1> QED BY <1>4, <1>5, <1>6 DEF ProvisioningInv

(* What people do to a path, and what they may not count on afterwards.    *)
LEMMA UserKeeps ==
  ASSUME ProvisioningInv, NEW p \in Paths, UserWrites(p) \/ UserDeletes(p)
  PROVE  ProvisioningInv'
<1>0. FilesTyped /\ SourceInv /\ ForceInv /\ WriteInv /\ BehindInv /\ UsersFilesKept /\ CommandsComplete
  BY DEF ProvisioningInv
<1>1. edited' = edited \cup {p} /\ UNCHANGED <<release, lock, run, promised, exact>>
  BY DEF UserWrites, UserDeletes
<1>2. files' \in [Paths -> Contents] /\ \A o \in Paths : o # p => files'[o] = files[o]
  BY <1>0, ContentsTyped DEF FilesTyped, UserWrites, UserDeletes
<1>3. /\ kept' \subseteq kept \cup {p} /\ \A o \in kept' : files'[o] = "user"
  <2>1. CASE UserWrites(p)
    <3>1. kept' \subseteq kept \cup {p} /\ files'[p] = "user"
      BY <1>0, <2>1 DEF UserWrites, FilesTyped
    <3> QED BY <1>0, <1>2, <3>1 DEF UsersFilesKept, FilesTyped
  <2>2. CASE UserDeletes(p)
    <3>1. kept' = kept \ {p}
      BY <2>2 DEF UserDeletes
    <3> QED BY <1>0, <1>2, <3>1 DEF UsersFilesKept, FilesTyped
  <2> QED BY <2>1, <2>2
<1>4. p \in kept' \ kept => ~(At("write") /\ Head(run.todo) = p)
                            /\ ~(run # NoRun /\ run.mode = "force" /\ (run.command = "init" => p \in Range(Specs)))
  BY DEF UserWrites, UserDeletes
<1>5. FilesTyped'
  BY <1>0, <1>1, <1>2, <1>3 DEF FilesTyped
<1>6. SourceInv'
  BY <1>0, <1>1 DEF SourceInv, Drafting, Copying
<1>7. ForceInv'
  BY <1>0, <1>1, <1>3, <1>4 DEF ForceInv, Copying
<1>8. WriteInv'
  BY <1>0, <1>1, <1>3, <1>4 DEF WriteInv, At
<1>9. BehindInv'
  <2>1. Behind(run') = Behind(run) /\ Behind(run) \subseteq Paths
    BY <1>1 DEF Behind
  <2> QED BY <1>0, <1>1, <1>2, <2>1 DEF BehindInv
<1>10. UsersFilesKept' /\ CommandsComplete'
  BY <1>0, <1>1, <1>2, <1>3 DEF UsersFilesKept, CommandsComplete, FilesTyped
<1> QED BY <1>5, <1>6, <1>7, <1>8, <1>9, <1>10 DEF ProvisioningInv

(* What touches neither the paths nor the command.                         *)
LEMMA ElsewhereKeeps ==
  ASSUME ProvisioningInv, UNCHANGED <<files, lock, run, kept, promised, edited, exact>>, release' \in DOMAIN Releases
  PROVE  ProvisioningInv'
<1>0. FilesTyped /\ SourceInv /\ ForceInv /\ WriteInv /\ BehindInv /\ UsersFilesKept /\ CommandsComplete
  BY DEF ProvisioningInv
<1>1. FilesTyped' /\ WriteInv'
  BY <1>0 DEF FilesTyped, WriteInv
<1>2. SourceInv' /\ ForceInv'
  BY <1>0 DEF SourceInv, ForceInv, Copying, Drafting
<1>3. BehindInv'
  <2>1. Behind(run') = Behind(run)
    BY DEF Behind
  <2> QED BY <1>0, <2>1 DEF BehindInv
<1>4. UsersFilesKept' /\ CommandsComplete'
  BY <1>0 DEF UsersFilesKept, CommandsComplete
<1> QED BY <1>1, <1>2, <1>3, <1>4 DEF ProvisioningInv

(* The invariant is kept by every step of commands and people.             *)
LEMMA ProvisioningInvNext ==
  ASSUME ProvisioningInv, [ProvisioningNext]_provisioningVars
  PROVE  ProvisioningInv'
<1>1. release \in DOMAIN Releases /\ DOMAIN Releases = 1..Len(Releases) /\ Len(Releases) \in Nat
  BY ProvisioningAssumption DEF ProvisioningInv, FilesTyped
<1>2. CASE InitCommand \/ SyncCommand \/ InstallCommand
  BY <1>2, CommandsBegin
<1>3. CASE Generate \/ Fetch
  BY <1>3, GenerateKeeps, FetchKeeps
<1>4. CASE Look \/ Write
  BY <1>4, LookKeeps, WriteKeeps
<1>5. CASE Drafted \/ LookLock \/ WriteLock
  BY <1>5, DraftedKeeps, LookLockKeeps, WriteLockKeeps
<1>6. CASE FindNpx \/ ReadConfig \/ WriteConfig
  BY <1>6, InstallKeeps
<1>7. CASE Dies
  BY <1>7, DiesKeeps
<1>8. CASE \E p \in Paths : UserWrites(p) \/ UserDeletes(p)
  BY <1>8, UserKeeps
<1>9. CASE EditConfig
  BY <1>1, <1>9, ElsewhereKeeps DEF EditConfig
<1>10. CASE Publish
  <2>1. release' \in DOMAIN Releases
    BY <1>1, <1>10 DEF Publish
  <2> QED BY <1>10, <2>1, ElsewhereKeeps DEF Publish, history
<1>11. CASE UNCHANGED provisioningVars
  BY <1>1, <1>11, ElsewhereKeeps DEF provisioningVars, disk, history
<1> QED BY <1>2, <1>3, <1>4, <1>5, <1>6, <1>7, <1>8, <1>9, <1>10, <1>11 DEF ProvisioningNext

(* Before the first command there is nothing to keep and nothing promised. *)
LEMMA ProvisioningInvInit == ProvisioningInit => ProvisioningInv
<1> SUFFICES ASSUME ProvisioningInit PROVE ProvisioningInv
  OBVIOUS
<1>1. 1 \in DOMAIN Releases
  BY ProvisioningAssumption
<1>2. FilesTyped
  BY <1>1, ContentsTyped DEF ProvisioningInit, FilesTyped
<1>3. SourceInv /\ ForceInv /\ WriteInv /\ BehindInv /\ UsersFilesKept /\ CommandsComplete
  BY DEF ProvisioningInit, SourceInv, ForceInv, WriteInv, BehindInv, UsersFilesKept, CommandsComplete
<1> QED BY <1>2, <1>3 DEF ProvisioningInv

------------------------------------------------------------------------------
KnownKeys == {i.key : i \in KnownItems}
KnownParents == {i.parent : i \in KnownItems}

(* Items as they are read: of known keys, alike where their keys are.      *)
ItemsFit(items) ==
  /\ items \in Seq(SprintItem)
  /\ \A n \in DOMAIN items : items[n].key \in KnownKeys /\ items[n].parent \in KnownParents \cup {<<>>}
  /\ \A n, m \in DOMAIN items : items[n].key = items[m].key => items[n] = items[m]

(* Keys there are, and keys made up for parts.                             *)
LEMMA KnownFits ==
  /\ KnownItems \subseteq SprintItem /\ <<>> \notin KnownKeys
  /\ \A k \in KnownKeys, scope \in {"front", "back"} :
       /\ Append(k, scope) \notin KnownKeys /\ Append(k, scope) \notin KnownParents /\ Append(k, scope) # <<>>
       /\ Append(k, scope) \in Seq(STRING)
<1>1. KnownItems \subseteq SprintItem
  <2> SUFFICES ASSUME NEW i \in KnownItems PROVE i \in SprintItem
    OBVIOUS
  <2>1. CASE i \in Visitors
    BY <2>1, IntakeAssumption DEF InputsFit
  <2>2. CASE i \in UNION {Range(b) : b \in Boards}
    <3>1. PICK b \in Boards : i \in Range(b)
      BY <2>2
    <3>2. b \in Seq(SprintItem)
      BY IntakeAssumption DEF InputsFit
    <3> QED BY <3>1, <3>2 DEF Range
  <2> QED BY <2>1, <2>2 DEF KnownItems
<1>2. <<>> \notin KnownKeys
  BY KeysApart DEF KnownKeys, OwnKeys
<1>3. ASSUME NEW k \in KnownKeys, NEW scope \in {"front", "back"}
      PROVE  /\ Append(k, scope) \notin KnownKeys /\ Append(k, scope) \notin KnownParents /\ Append(k, scope) # <<>>
             /\ Append(k, scope) \in Seq(STRING)
  <2>1. PICK i \in KnownItems : k = i.key
    BY DEF KnownKeys
  <2> PICK j : j = Append(k, scope)
    OBVIOUS
  <2>2. j \in MadeUp
    BY <2>1 DEF MadeUp
  <2>3. k \in Seq(STRING)
    BY <1>1, <2>1 DEF SprintItem
  <2>4. j # <<>>
    BY <2>3
  <2>5. j \in Seq(STRING)
    BY <2>2, KeysFresh DEF NewKeys
  <2>6. j \notin KnownKeys /\ j \notin KnownParents
    BY <2>2, KeysFresh DEF NewKeys, KnownKeys, KnownParents
  <2> QED BY <2>4, <2>5, <2>6
<1> QED BY <1>1, <1>2, <1>3

(* Items picked from a list fit as the list does.                          *)
LEMMA PickedFits ==
  ASSUME NEW items, ItemsFit(items), NEW K
  PROVE  ItemsFit(Picked(items, K)) /\ \A j \in DOMAIN Picked(items, K) : Carries(items, Picked(items, K)[j])
<1>1. items \in Seq(SprintItem)
  BY DEF ItemsFit
<1>2. /\ Picked(items, K) \in Seq(SprintItem)
      /\ \A j \in DOMAIN Picked(items, K) : \E n \in DOMAIN items \cap K : Picked(items, K)[j] = items[n]
  BY <1>1, PickedElements
<1> PICK q : q = Picked(items, K)
  OBVIOUS
<1>4. q \in Seq(SprintItem) /\ \A j \in DOMAIN q : \E n \in DOMAIN items : q[j] = items[n]
  BY <1>2
<1>5. \A n \in DOMAIN q : Carries(items, q[n])
  BY <1>4 DEF Carries
<1>6. ItemsFit(q)
  BY <1>4 DEF ItemsFit
<1> QED BY <1>5, <1>6

(* The scope leaves items as they are.                                     *)
LEMMA ScopedFits ==
  ASSUME NEW items, ItemsFit(items)
  PROVE  ItemsFit(Scoped(items)) /\ \A n \in DOMAIN Scoped(items) : Carries(items, Scoped(items)[n])
BY PickedFits DEF Scoped

(* A task that has lost its parent.                                        *)
LEMMA Parentless ==
  ASSUME NEW i \in SprintItem
  PROVE  /\ [i EXCEPT !.parent = <<>>] \in SprintItem
         /\ [i EXCEPT !.parent = <<>>].parent = <<>>
         /\ [i EXCEPT !.parent = <<>>].key = i.key
         /\ [i EXCEPT !.parent = <<>>].type = i.type
<1>1. <<>> \in Seq(STRING)
  OBVIOUS
<1> QED BY <1>1 DEF SprintItem

(* The part of a story for a surface.                                      *)
LEMMA TaskFits ==
  ASSUME NEW i \in SprintItem, i.key \in KnownKeys, NEW scope \in {"front", "back"}
  PROVE  /\ TaskFromStory(i, scope) \in SprintItem
         /\ TaskFromStory(i, scope).key = Append(i.key, scope)
         /\ TaskFromStory(i, scope).parent = i.key
         /\ TaskFromStory(i, scope).type = "Task"
         /\ TaskFromStory(i, scope).labels = i.labels \cup {scope}
<1>2. Append(i.key, scope) \in Seq(STRING)
  BY KnownFits
<1>3. i.labels \cup {scope} \in SUBSET {"front", "back"}
  BY DEF SprintItem
<1> QED BY <1>2, <1>3 DEF SprintItem, TaskFromStory

(* A key that some task has for its parent.                                *)
LEMMA IsParent ==
  ASSUME NEW items, NEW k
  PROVE  k \in ParentKeys(items) <=> k # <<>> /\ \E n \in DOMAIN items : items[n].type = "Task" /\ items[n].parent = k
BY DEF ParentKeys, Range

(* No task of a list stands under what may not be its parent.              *)
Settled(items) == errand.source = "azuredevops" => \A n \in DOMAIN items : ~Misplaced(items[n], items)

(* Normalising takes parents away from tasks, and nothing else.            *)
LEMMA NormalisedFits ==
  ASSUME NEW items, ItemsFit(items)
  PROVE  /\ ItemsFit(Normalised(items)) /\ Settled(Normalised(items))
         /\ DOMAIN Normalised(items) = DOMAIN items
         /\ \A n \in DOMAIN items :
              /\ Normalised(items)[n].key = items[n].key /\ Normalised(items)[n].type = items[n].type
              /\ items[n].type # "Task" => Normalised(items)[n] = items[n]
         /\ ParentKeys(Normalised(items)) \subseteq ParentKeys(items)
<1> PICK normal : normal = Normalised(items)
  OBVIOUS
<1>0. /\ items \in Seq(SprintItem) /\ Len(items) \in Nat /\ DOMAIN items = 1..Len(items)
      /\ \A n \in DOMAIN items : items[n] \in SprintItem
  BY DEF ItemsFit
<1>1. CASE errand.source # "azuredevops"
  <2>1. normal = items
    BY <1>1 DEF Normalised
  <2> QED BY <1>1, <2>1 DEF Settled
<1>2. CASE errand.source = "azuredevops"
  <2> PICK bare : bare = [n \in DOMAIN items |-> [items[n] EXCEPT !.parent = <<>>]]
    OBVIOUS
  <2>1. normal = [n \in 1..Len(items) |-> IF Misplaced(items[n], items) THEN bare[n] ELSE items[n]]
    BY <1>0, <1>2 DEF Normalised
  <2>2. \A n \in DOMAIN items :
          bare[n] \in SprintItem /\ bare[n].parent = <<>> /\ bare[n].key = items[n].key /\ bare[n].type = items[n].type
    BY <1>0, Parentless
  <2>3. \A n \in 1..Len(items) : (IF Misplaced(items[n], items) THEN bare[n] ELSE items[n]) \in SprintItem
    BY <1>0, <2>2
  <2>4. normal \in Seq(SprintItem) /\ DOMAIN normal = DOMAIN items
    BY <1>0, <2>1, <2>3
  <2>5. \A n \in DOMAIN items : (Misplaced(items[n], items) /\ normal[n] = bare[n])
                                  \/ (~Misplaced(items[n], items) /\ normal[n] = items[n])
    BY <1>0, <2>1
  <2>6. \A n \in DOMAIN items : normal[n].key = items[n].key /\ normal[n].type = items[n].type
    BY <2>2, <2>5
  <2>7. \A n \in DOMAIN items : items[n].type # "Task" => normal[n] = items[n]
    BY <2>5 DEF Misplaced
  <2>8. ItemsFit(normal)
    <3>1. \A n \in DOMAIN items : normal[n].key \in KnownKeys /\ normal[n].parent \in KnownParents \cup {<<>>}
      BY <2>2, <2>5 DEF ItemsFit
    <3>2. \A n, m \in DOMAIN items : items[n] = items[m] => bare[n] = bare[m]
      OBVIOUS
    <3>3. \A n, m \in DOMAIN items : items[n] = items[m] => normal[n] = normal[m]
      BY <2>5, <3>2
    <3>4. \A n, m \in DOMAIN items : normal[n].key = normal[m].key => normal[n] = normal[m]
      BY <2>6, <3>3 DEF ItemsFit
    <3> QED BY <2>4, <3>1, <3>4 DEF ItemsFit
  <2>9. \A n \in DOMAIN items : items[n].key # <<>>
    BY KnownFits DEF ItemsFit
  <2>10. Settled(normal)
    <3> SUFFICES ASSUME NEW n \in DOMAIN items, Misplaced(normal[n], normal) PROVE FALSE
      BY <2>4 DEF Settled
    <3>1. PICK p \in Range(normal) : p.key = normal[n].parent /\ p.type \notin {"Story", "Bug"}
      BY DEF Misplaced
    <3>2. PICK m \in DOMAIN items : normal[m] = p
      BY <2>4, <3>1 DEF Range
    <3>3. items[m].key = normal[n].parent /\ items[m].type \notin {"Story", "Bug"} /\ items[n].type = "Task"
      BY <2>6, <3>1, <3>2 DEF Misplaced
    <3>4. normal[n].parent # <<>>
      BY <2>9, <3>3
    <3>5. normal[n] = items[n] /\ ~Misplaced(items[n], items)
      BY <2>2, <2>5, <3>4
    <3>6. items[m] \in Range(items)
      BY DEF Range
    <3> QED BY <3>3, <3>5, <3>6 DEF Misplaced
  <2>11. ASSUME NEW k \in ParentKeys(normal) PROVE k \in ParentKeys(items)
    <3>1. PICK n \in DOMAIN normal : k # <<>> /\ normal[n].type = "Task" /\ normal[n].parent = k
      BY IsParent
    <3>2. normal[n] = items[n] /\ n \in DOMAIN items
      BY <2>2, <2>4, <2>5, <3>1
    <3> QED BY <3>1, <3>2, IsParent
  <2> QED BY <2>4, <2>6, <2>7, <2>8, <2>10, <2>11
<1> QED BY <1>1, <1>2

(* The surfaces a workspace has.                                           *)
LEMMA StoryScopesFit ==
  /\ StoryScopes \in Seq({"front", "back"})
  /\ errand.roles \cap FrontRoles # {} => Carries(StoryScopes, "front")
  /\ errand.roles \cap BackRoles # {} => Carries(StoryScopes, "back")
<1> PICK S : S = {"front", "back"}
  OBVIOUS
<1> PICK a : a = IF errand.roles \cap FrontRoles # {} THEN <<"front">> ELSE <<>>
  OBVIOUS
<1> PICK b : b = IF errand.roles \cap BackRoles # {} THEN <<"back">> ELSE <<>>
  OBVIOUS
<1>1. a \in Seq(S) /\ b \in Seq(S) /\ <<"front", "back">> \in Seq(S)
  <2>1. \A e \in S : <<e>> \in Seq(S)
    OBVIOUS
  <2>2. "front" \in S /\ "back" \in S /\ <<>> \in Seq(S)
    OBVIOUS
  <2>3. a = <<"front">> \/ a = <<>>
    OBVIOUS
  <2>4. b = <<"back">> \/ b = <<>>
    OBVIOUS
  <2>5. <<"front", "back">> \in Seq(S)
    BY <2>2
  <2>6. a \in Seq(S)
    BY <2>1, <2>2, <2>3
  <2>7. b \in Seq(S)
    BY <2>1, <2>2, <2>4
  <2> QED BY <2>5, <2>6, <2>7
<1> PICK found : found = a \o b
  OBVIOUS
<1>2. CarriesBoth(S, a, b, found)
  BY <1>1, Joined2
<1>3. found \in Seq(S) /\ \A e : Carries(found, e) <=> Carries(a, e) \/ Carries(b, e)
  BY <1>2 DEF CarriesBoth
<1>4. /\ errand.roles \cap FrontRoles # {} => Carries(a, "front")
      /\ errand.roles \cap BackRoles # {} => Carries(b, "back")
  BY DEF Carries
<1>5. StoryScopes = IF found = <<>> THEN <<"front", "back">> ELSE found
  BY DEF StoryScopes
<1>6. CASE found = <<>>
  <2>1. \A e : ~Carries(found, e)
    BY <1>6 DEF Carries
  <2> QED BY <1>1, <1>3, <1>4, <1>5, <1>6, <2>1
<1>7. CASE found # <<>>
  BY <1>3, <1>4, <1>5, <1>7
<1> QED BY <1>6, <1>7

(* A story is split into something.                                        *)
LEMMA ScopeThere == \E scope \in {"front", "back"} : Carries(StoryScopes, scope)
<1>1. StoryScopes \in Seq({"front", "back"}) /\ StoryScopes # <<>>
  <2>1. StoryScopes # <<>>
    <3> PICK found : found = (IF errand.roles \cap FrontRoles # {} THEN <<"front">> ELSE <<>>)
                              \o (IF errand.roles \cap BackRoles # {} THEN <<"back">> ELSE <<>>)
      OBVIOUS
    <3>1. StoryScopes = IF found = <<>> THEN <<"front", "back">> ELSE found
      BY DEF StoryScopes
    <3>2. <<"front", "back">> # <<>>
      OBVIOUS
    <3> QED BY <3>1, <3>2
  <2> QED BY <2>1, StoryScopesFit
<1> PICK s : s = StoryScopes
  OBVIOUS
<1>2. s \in Seq({"front", "back"}) /\ s # <<>>
  BY <1>1
<1>3. 1 \in DOMAIN s /\ s[1] \in {"front", "back"}
  BY <1>2
<1> QED BY <1>3 DEF Carries

(* A story whose tasks are not among the items.                            *)
Childless(item, items) == item.type = "Story" /\ item.key \notin ParentKeys(items)

(* The parts of a story, one for each surface of the workspace.            *)
LEMMA TasksFit ==
  ASSUME NEW i \in SprintItem, i.key \in KnownKeys, NEW items
  PROVE  /\ TasksOf(i, items) \in Seq(SprintItem)
         /\ \A e : Carries(TasksOf(i, items), e)
                     <=> Childless(i, items) /\ \E scope \in {"front", "back"} :
                           Carries(StoryScopes, scope) /\ e = TaskFromStory(i, scope)
<1> PICK s : s = StoryScopes
  OBVIOUS
<1>1. s \in Seq({"front", "back"}) /\ Len(s) \in Nat /\ DOMAIN s = 1..Len(s)
  BY StoryScopesFit
<1>2. \A n \in DOMAIN s : s[n] \in {"front", "back"}
  BY <1>1
<1> PICK q : q = TasksOf(i, items)
  OBVIOUS
<1>3. CASE Childless(i, items)
  <2>1. q = [n \in 1..Len(s) |-> TaskFromStory(i, s[n])]
    BY <1>1, <1>3 DEF TasksOf, Childless
  <2>2. \A n \in 1..Len(s) : TaskFromStory(i, s[n]) \in SprintItem
    BY <1>1, <1>2, TaskFits
  <2>3. q \in Seq(SprintItem)
    BY <1>1, <2>1, <2>2
  <2>4. DOMAIN q = DOMAIN s /\ \A n \in DOMAIN s : q[n] = TaskFromStory(i, s[n])
    BY <1>1, <2>1
  <2>5. \A e : Carries(q, e) <=> \E n \in DOMAIN s : e = TaskFromStory(i, s[n])
    BY <2>4 DEF Carries
  <2>6. ASSUME NEW e
        PROVE  Carries(q, e) <=> \E scope \in {"front", "back"} : Carries(s, scope) /\ e = TaskFromStory(i, scope)
    BY <1>2, <2>5 DEF Carries
  <2> QED BY <1>3, <2>3, <2>6
<1>4. CASE ~Childless(i, items)
  <2>1. q = <<>>
    BY <1>4 DEF TasksOf, Childless
  <2>2. q \in Seq(SprintItem) /\ \A e : ~Carries(q, e)
    BY <2>1 DEF Carries
  <2> QED BY <1>4, <2>2
<1> QED BY <1>3, <1>4

(* A part of a story.                                                      *)
PartOf(items, e) ==
  \E n \in DOMAIN items : Childless(items[n], items) /\
    \E scope \in {"front", "back"} : Carries(StoryScopes, scope) /\ e = TaskFromStory(items[n], scope)

(* What planning makes of a list: its items, and parts of its stories.     *)
SplitInto(items, p) ==
  p \in Seq(SprintItem) /\ \A e : Carries(p, e) <=> Carries(items, e) \/ PartOf(items, e)

(* Planning adds the parts, and nothing else.                              *)
LEMMA SplitElements ==
  ASSUME NEW items, ItemsFit(items)
  PROVE  SplitInto(Normalised(items), Split(items))
<1> PICK normal : normal = Normalised(items)
  OBVIOUS
<1>1. ItemsFit(normal)
  BY NormalisedFits
<1>2. /\ normal \in Seq(SprintItem) /\ Len(normal) \in Nat /\ DOMAIN normal = 1..Len(normal)
      /\ \A n \in DOMAIN normal : normal[n] \in SprintItem /\ normal[n].key \in KnownKeys
  BY <1>1 DEF ItemsFit
<1> PICK s : s = [n \in DOMAIN normal |-> <<normal[n]>> \o TasksOf(normal[n], normal)]
  OBVIOUS
<1>3. ASSUME NEW n \in DOMAIN normal
      PROVE  /\ s[n] \in Seq(SprintItem)
             /\ \A e : Carries(s[n], e) <=> e = normal[n] \/ Carries(TasksOf(normal[n], normal), e)
  <2> PICK a : a = <<normal[n]>>
    OBVIOUS
  <2> PICK b : b = TasksOf(normal[n], normal)
    OBVIOUS
  <2>1. b \in Seq(SprintItem)
    BY <1>2, TasksFit
  <2>2. a \in Seq(SprintItem) /\ \A e : Carries(a, e) <=> e = normal[n]
    BY <1>2 DEF Carries
  <2>3. CarriesBoth(SprintItem, a, b, a \o b)
    BY <2>1, <2>2, Joined2
  <2>4. s[n] = a \o b
    OBVIOUS
  <2> QED BY <2>2, <2>3, <2>4 DEF CarriesBoth
<1>4. s \in Seq(Seq(SprintItem)) /\ DOMAIN s = DOMAIN normal
  <2>1. s = [n \in 1..Len(normal) |-> s[n]]
    BY <1>2
  <2>2. \A n \in 1..Len(normal) : s[n] \in Seq(SprintItem)
    BY <1>2, <1>3
  <2>3. s \in [1..Len(normal) -> Seq(SprintItem)]
    BY <2>1, <2>2
  <2> QED BY <1>2, <2>3
<1> PICK p : p = FlattenSeq(s)
  OBVIOUS
<1>5. p \in Seq(SprintItem) /\ \A e : Carries(p, e) <=> \E k \in DOMAIN s : Carries(s[k], e)
  BY <1>4, FlattenedElements
<1>6. \A e : Carries(p, e) <=> \E n \in DOMAIN normal : e = normal[n] \/ Carries(TasksOf(normal[n], normal), e)
  <2> SUFFICES ASSUME NEW e
               PROVE  Carries(p, e) <=> \E n \in DOMAIN normal : e = normal[n] \/ Carries(TasksOf(normal[n], normal), e)
    OBVIOUS
  <2>1. Carries(p, e) <=> \E k \in DOMAIN normal : Carries(s[k], e)
    BY <1>4, <1>5
  <2>2. \A n \in DOMAIN normal : Carries(s[n], e) <=> e = normal[n] \/ Carries(TasksOf(normal[n], normal), e)
    BY <1>3
  <2> QED BY <2>1, <2>2
<1>7. ASSUME NEW e
      PROVE  (\E n \in DOMAIN normal : Carries(TasksOf(normal[n], normal), e)) <=> PartOf(normal, e)
  <2>1. \A n \in DOMAIN normal :
          Carries(TasksOf(normal[n], normal), e)
            <=> Childless(normal[n], normal) /\ \E scope \in {"front", "back"} :
                  Carries(StoryScopes, scope) /\ e = TaskFromStory(normal[n], scope)
    BY <1>2, TasksFit
  <2> QED BY <2>1 DEF PartOf
<1>8. \A e : (\E n \in DOMAIN normal : e = normal[n]) <=> Carries(normal, e)
  BY DEF Carries
<1>9. SplitInto(normal, p)
  BY <1>5, <1>6, <1>7, <1>8 DEF SplitInto
<1> QED BY <1>9 DEF Split

(* A part has a key of its own, and a story for its parent.                *)
LEMMA PartFits ==
  ASSUME NEW items, ItemsFit(items), NEW e, PartOf(items, e)
  PROVE  /\ e.type = "Task" /\ e.key \notin KnownKeys /\ e.key \notin KnownParents /\ e.key # <<>>
         /\ \E n \in DOMAIN items : e.parent = items[n].key /\ Childless(items[n], items)
<1>1. PICK n \in DOMAIN items, scope \in {"front", "back"} :
        Childless(items[n], items) /\ e = TaskFromStory(items[n], scope)
  BY DEF PartOf
<1>2. items[n] \in SprintItem /\ items[n].key \in KnownKeys
  BY DEF ItemsFit
<1>3. e.type = "Task" /\ e.key = Append(items[n].key, scope) /\ e.parent = items[n].key
  BY <1>1, <1>2, TaskFits
<1>4. /\ Append(items[n].key, scope) \notin KnownKeys /\ Append(items[n].key, scope) \notin KnownParents
      /\ Append(items[n].key, scope) # <<>>
  BY <1>2, KnownFits
<1> QED BY <1>1, <1>3, <1>4

(* Planning what is planned adds nothing.                                  *)
LEMMA SplitSettles ==
  ASSUME NEW items, ItemsFit(items), Settled(items), NEW p, SplitInto(items, p)
  PROVE  Settled(p) /\ Split(p) = p
<1>0. /\ p \in Seq(SprintItem) /\ Len(p) \in Nat /\ DOMAIN p = 1..Len(p)
      /\ \A e : Carries(p, e) <=> Carries(items, e) \/ PartOf(items, e)
  BY DEF SplitInto
<1>1. \A n \in DOMAIN p : Carries(items, p[n]) \/ PartOf(items, p[n])
  BY <1>0 DEF Carries
<1>2. ASSUME NEW e, Carries(items, e)
      PROVE  e.key \in KnownKeys /\ e.parent \in KnownParents \cup {<<>>}
  BY <1>2 DEF ItemsFit, Carries
<1>3. \A d, e : Carries(items, d) /\ Carries(items, e) /\ d.key = e.key => d = e
  BY DEF ItemsFit, Carries
<1>4. ASSUME NEW n \in DOMAIN p, NEW m \in DOMAIN p, errand.source = "azuredevops",
             p[n].type = "Task", p[m].key = p[n].parent, p[m].type \notin {"Story", "Bug"}
      PROVE  FALSE
  <2>1. CASE Carries(items, p[n]) /\ Carries(items, p[m])
    <3>1. PICK k \in DOMAIN items : items[k] = p[n]
      BY <2>1 DEF Carries
    <3>2. PICK j \in DOMAIN items : items[j] = p[m]
      BY <2>1 DEF Carries
    <3>3. Misplaced(items[k], items)
      BY <1>4, <3>1, <3>2 DEF Misplaced, Range
    <3> QED BY <1>4, <3>3 DEF Settled
  <2>2. CASE Carries(items, p[n]) /\ PartOf(items, p[m])
    <3>1. p[m].key \notin KnownParents /\ p[m].key # <<>>
      BY <2>2, PartFits
    <3> QED BY <1>2, <1>4, <2>2, <3>1
  <2>3. CASE PartOf(items, p[n])
    <3>1. PICK j \in DOMAIN items : p[n].parent = items[j].key /\ Childless(items[j], items)
      BY <2>3, PartFits
    <3>2. items[j].key \in KnownKeys /\ Carries(items, items[j])
      BY DEF ItemsFit, Carries
    <3>3. ~PartOf(items, p[m])
      BY <1>4, <3>1, <3>2, PartFits
    <3>4. p[m] = items[j]
      BY <1>1, <1>3, <1>4, <3>1, <3>2, <3>3
    <3> QED BY <1>4, <3>1, <3>4 DEF Childless
  <2> QED BY <1>1, <2>1, <2>2, <2>3
<1>5. Settled(p)
  <2> SUFFICES ASSUME errand.source = "azuredevops", NEW n \in DOMAIN p, Misplaced(p[n], p) PROVE FALSE
    BY DEF Settled
  <2>1. PICK m \in DOMAIN p : p[m].key = p[n].parent /\ p[m].type \notin {"Story", "Bug"}
    BY DEF Misplaced, Range
  <2> QED BY <1>4, <2>1 DEF Misplaced
<1>6. ASSUME NEW n \in DOMAIN p PROVE ~Childless(p[n], p)
  <2> SUFFICES ASSUME Childless(p[n], p) PROVE FALSE
    OBVIOUS
  <2>1. Carries(items, p[n])
    BY <1>1, PartFits DEF Childless
  <2>2. PICK k \in DOMAIN items : items[k] = p[n]
    BY <2>1 DEF Carries
  <2>3. p[n].type = "Story" /\ p[n].key # <<>>
    BY <1>2, <2>1, KnownFits DEF Childless
  <2>4. CASE p[n].key \in ParentKeys(items)
    <3>1. PICK j \in DOMAIN items : items[j].type = "Task" /\ items[j].parent = p[n].key
      BY <2>4, IsParent
    <3>2. Carries(p, items[j])
      BY <1>0 DEF Carries
    <3>3. PICK m \in DOMAIN p : p[m] = items[j]
      BY <3>2 DEF Carries
    <3> QED BY <2>3, <3>1, <3>3, IsParent DEF Childless
  <2>5. CASE p[n].key \notin ParentKeys(items)
    <3>1. Childless(items[k], items)
      BY <2>2, <2>3, <2>5 DEF Childless
    <3>2. PICK scope \in {"front", "back"} : Carries(StoryScopes, scope)
      BY ScopeThere
    <3> PICK e : e = TaskFromStory(items[k], scope)
      OBVIOUS
    <3>3. PartOf(items, e)
      BY <3>1, <3>2 DEF PartOf
    <3>4. PICK m \in DOMAIN p : p[m] = e
      BY <1>0, <3>3 DEF Carries
    <3>5. items[k] \in SprintItem /\ items[k].key \in KnownKeys
      BY DEF ItemsFit
    <3>6. e.type = "Task" /\ e.parent = items[k].key
      BY <3>5, TaskFits
    <3> QED BY <2>2, <2>3, <3>4, <3>6, IsParent DEF Childless
  <2> QED BY <2>4, <2>5
<1>7. Normalised(p) = p
  <2>1. CASE errand.source # "azuredevops"
    BY <2>1 DEF Normalised
  <2>2. CASE errand.source = "azuredevops"
    <3>1. \A n \in DOMAIN p : ~Misplaced(p[n], p)
      BY <1>5, <2>2 DEF Settled
    <3>2. Normalised(p) = [n \in DOMAIN p |-> p[n]]
      BY <2>2, <3>1 DEF Normalised
    <3> QED BY <1>0, <3>2
  <2> QED BY <2>1, <2>2
<1>8. Split(p) = p
  <2> PICK q : q = [n \in DOMAIN p |-> <<p[n]>>]
    OBVIOUS
  <2>1. \A n \in DOMAIN p : <<p[n]>> \o TasksOf(p[n], p) = <<p[n]>>
    <3> SUFFICES ASSUME NEW n \in DOMAIN p PROVE <<p[n]>> \o TasksOf(p[n], p) = <<p[n]>>
      OBVIOUS
    <3>1. TasksOf(p[n], p) = <<>>
      BY <1>6 DEF TasksOf, Childless
    <3> QED BY <3>1
  <2>2. q = [n \in DOMAIN p |-> <<p[n]>> \o TasksOf(p[n], p)]
    BY <2>1
  <2>3. FlattenSeq(q) = p
    BY <1>0, FlattenSingles
  <2> QED BY <1>7, <2>2, <2>3 DEF Split
<1> QED BY <1>5, <1>8

(* What planning delivers, or warns of.                                    *)
LEMMA DeliveredOrWarned ==
  ASSUME NEW p, NEW e \in DeliveryItems(p)
  PROVE  (\E d \in Deliveries(p) : d[1] = e) \/ e \in Warnings(p)
<1>1. CASE \E r \in errand.roles : Matches(e, r)
  <2>1. PICK r \in errand.roles : Matches(e, r)
    BY <1>1
  <2> PICK d : d = <<e, r>>
    OBVIOUS
  <2>2. d \in Deliveries(p) /\ d[1] = e
    BY <2>1 DEF Deliveries
  <2> QED BY <2>2
<1>2. CASE \A r \in errand.roles : ~Matches(e, r)
  BY <1>2 DEF Warnings
<1> QED BY <1>1, <1>2

(* The item itself, or a task of a story.                                  *)
Speaks(e, i) == e.key = i.key \/ (i.type = "Story" /\ e.parent = i.key)

(* Each item in the scope has a delivery item that speaks for it.          *)
LEMMA SpokenFor ==
  ASSUME NEW items, ItemsFit(items), NEW i \in Range(items)
  PROVE  \E e \in DeliveryItems(Split(items)) : Speaks(e, i)
<1> PICK p : p = Split(items)
  OBVIOUS
<1> PICK normal : normal = Normalised(items)
  OBVIOUS
<1>1. \A e : Carries(p, e) <=> Carries(normal, e) \/ PartOf(normal, e)
  BY SplitElements DEF SplitInto
<1>2. PICK n \in DOMAIN items : items[n] = i
  BY DEF Range
<1>3. n \in DOMAIN normal /\ normal[n].key = i.key /\ normal[n].type = i.type
  BY <1>2, NormalisedFits
<1>4. PICK m \in DOMAIN p : p[m] = normal[n]
  BY <1>1, <1>3 DEF Carries
<1>5. CASE i.type = "Story" /\ i.key \in ParentKeys(p)
  <2>1. PICK j \in DOMAIN p : p[j].type = "Task" /\ p[j].parent = i.key
    BY <1>5, IsParent
  <2>2. p[j] \in DeliveryItems(p)
    BY <2>1 DEF DeliveryItems, Range
  <2> QED BY <1>5, <2>1, <2>2 DEF Speaks
<1>6. CASE ~(i.type = "Story" /\ i.key \in ParentKeys(p))
  <2>1. p[m] \in DeliveryItems(p)
    BY <1>3, <1>4, <1>6 DEF DeliveryItems, Range
  <2> QED BY <1>3, <1>4, <2>1 DEF Speaks
<1> QED BY <1>5, <1>6

(* A story that is split reaches a repository by one task.                 *)
LEMMA OneTaskEach ==
  ASSUME NEW items, ItemsFit(items), NEW i \in Range(items), NEW r \in errand.roles \cap (FrontRoles \cup BackRoles),
         i.type = "Story", i.labels = {}, i.key \notin ParentKeys(items)
  PROVE  Cardinality({d \in Deliveries(Split(items)) : d[1].type = "Task" /\ d[1].parent = i.key /\ d[2] = r}) = 1
<1> PICK p : p = Split(items)
  OBVIOUS
<1> PICK normal : normal = Normalised(items)
  OBVIOUS
<1>1. \A e : Carries(p, e) <=> Carries(normal, e) \/ PartOf(normal, e)
  BY SplitElements DEF SplitInto
<1>2. PICK n \in DOMAIN items : items[n] = i
  BY DEF Range
<1>3. /\ ItemsFit(normal) /\ DOMAIN normal = DOMAIN items /\ normal[n] = i /\ i.key \notin ParentKeys(normal)
  BY <1>2, NormalisedFits
<1>4. i \in SprintItem /\ i.key \in KnownKeys /\ i.key # <<>>
  BY <1>2, KnownFits DEF ItemsFit
<1> PICK side : side = IF r \in FrontRoles THEN "front" ELSE "back"
  OBVIOUS
<1>5. side \in {"front", "back"} /\ Carries(StoryScopes, side)
  BY StoryScopesFit
<1> PICK e : e = TaskFromStory(i, side)
  OBVIOUS
<1>6. e.type = "Task" /\ e.parent = i.key /\ e.labels = {side}
  BY <1>4, <1>5, TaskFits
<1> PICK one : one = <<e, r>>
  OBVIOUS
<1>7. one \in Deliveries(p) /\ one[1] = e /\ one[2] = r
  <2>1. PartOf(normal, e)
    BY <1>2, <1>3, <1>5 DEF PartOf, Childless
  <2>2. e \in Range(p)
    BY <1>1, <2>1 DEF Carries, Range
  <2>3. e \in DeliveryItems(p)
    BY <1>6, <2>2 DEF DeliveryItems
  <2>4. Matches(e, r)
    BY <1>6 DEF Matches, FrontRoles, BackRoles
  <2> QED BY <2>3, <2>4 DEF Deliveries
<1>8. ASSUME NEW d \in Deliveries(p), d[1].type = "Task", d[1].parent = i.key, d[2] = r
      PROVE  d = one
  <2>1. d \in DeliveryItems(p) \X errand.roles /\ Matches(d[1], d[2])
    BY DEF Deliveries
  <2>2. d[1] \in Range(p) /\ d = <<d[1], d[2]>>
    BY <2>1 DEF DeliveryItems
  <2> PICK c : c = d[1]
    OBVIOUS
  <2>3. Carries(normal, c) \/ PartOf(normal, c)
    BY <1>1, <2>2 DEF Carries, Range
  <2>4. ~Carries(normal, c)
    <3> SUFFICES ASSUME NEW m \in DOMAIN normal, normal[m] = c PROVE FALSE
      BY DEF Carries
    <3> QED BY <1>3, <1>4, <1>8, IsParent
  <2>5. PICK m \in DOMAIN normal, scope \in {"front", "back"} : c = TaskFromStory(normal[m], scope)
    BY <2>3, <2>4 DEF PartOf
  <2>6. normal[m] \in SprintItem /\ normal[m].key \in KnownKeys
    BY <1>3 DEF ItemsFit
  <2>7. c.parent = normal[m].key /\ c.labels = normal[m].labels \cup {scope}
    BY <2>5, <2>6, TaskFits
  <2>8. normal[m] = i
    BY <1>2, <1>3, <1>8, <2>7 DEF ItemsFit
  <2>9. c.labels = {scope} /\ Matches(c, r)
    BY <1>8, <2>1, <2>7, <2>8
  <2>10. scope = side
    BY <2>9 DEF Matches, FrontRoles, BackRoles
  <2> QED BY <1>8, <2>2, <2>5, <2>8, <2>10
<1> PICK D : D = {d \in Deliveries(p) : d[1].type = "Task" /\ d[1].parent = i.key /\ d[2] = r}
  OBVIOUS
<1>9. D = {one}
  BY <1>6, <1>7, <1>8
<1>10. Cardinality(D) = 1
  BY <1>9, FS_Singleton
<1> QED BY <1>10

(* The items there are, in the sprint or out of it.                        *)
InWorld(i) == Carries(board, i) \/ i \in elsewhere

BoardFits ==
  /\ board \in Seq(SprintItem) /\ Once(board)
  /\ \A i : InWorld(i) => i \in KnownItems
  /\ \A i, j : InWorld(i) /\ InWorld(j) /\ i.key = j.key => i = j
  /\ \A i \in elsewhere : ~Carries(board, i)

(* Where a run starts, and the types of what it keeps.                     *)
RunFits ==
  /\ errand \in Errand
  /\ leg \in {"off", "query", "reading", "read", "importing", "imported", "import failed", "done", "raised"}
  /\ leg \in {"off", "query"} => at = 0 /\ read = <<>>
  /\ leg = "query" => errand.source = "azuredevops" /\ errand.transport = "api"
  /\ at \in Nat /\ ids \in Seq(Seq(STRING)) /\ planned \in Seq(SprintItem)
  /\ stirred \subseteq Seq(STRING) /\ written \subseteq Seq(STRING) /\ torn \subseteq Seq(STRING)
  /\ moves \in 0..MaxMoves /\ tears \in 0..MaxTears

(* What is read is there, though maybe twice.                              *)
ReadFits ==
  /\ ItemsFit(read)
  /\ errand.transport = "api" => \A n \in DOMAIN read : InWorld(read[n])

(* Jira's pages, when nobody moves an item: the first part of the sprint.  *)
PagesFit ==
  errand.source = "jira" /\ errand.transport = "api" /\ stirred = {} =>
    /\ leg = "reading" => at <= Len(board) /\ read = SubSeq(board, 1, at)
    /\ leg = "read" => read = board

(* Azure's ids: all that have not moved are among them, and each chunk     *)
(* brings the items of the next ones.                                      *)
IdsFit ==
  /\ Once(ids) /\ \A n \in DOMAIN ids : \E i : InWorld(i) /\ i.key = ids[n]
  /\ \A i : Carries(board, i) /\ i.key \notin stirred => Carries(ids, i.key)
  /\ stirred = {} => Len(ids) = Len(board) /\ \A n \in DOMAIN ids : ids[n] = board[n].key

ChunksFit ==
  /\ KeyedBy(read, ids)
  /\ leg = "reading" => Len(read) = at /\ at < Len(ids)
  /\ leg = "read" => Len(read) = Len(ids)

QueryFits ==
  errand.source = "azuredevops" /\ errand.transport = "api" /\ leg \in {"reading", "read"} => IdsFit /\ ChunksFit

(* The plan, and the files of the items that were imported.                *)
PlannedFits ==
  leg \in {"importing", "imported", "import failed", "done"} => planned = Split(Scoped(read))

FilesFit ==
  /\ leg \in {"importing", "imported"} =>
       at <= Len(planned) /\ \A n \in 1..at : SlugOf(planned[n].key) \in written \cup torn
  /\ leg = "imported" => at = Len(planned)

IntakeInv ==
  BoardFits /\ RunFits /\ ReadFits /\ PagesFit /\ QueryFits /\ PlannedFits /\ FilesFit

------------------------------------------------------------------------------
(* Before anything is read.                                                *)
LEMMA NothingRead == ItemsFit(<<>>)
<1> PICK s : s = <<>>
  OBVIOUS
<1>1. s \in Seq(SprintItem) /\ DOMAIN s = {}
  OBVIOUS
<1>2. ItemsFit(s)
  BY <1>1 DEF ItemsFit
<1> QED BY <1>2

(* Items that are there make a list that fits.                             *)
LEMMA ItemsThere ==
  ASSUME BoardFits, NEW s \in Seq(SprintItem), \A n \in DOMAIN s : InWorld(s[n])
  PROVE  ItemsFit(s)
<1>1. \A n \in DOMAIN s : s[n] \in KnownItems
  BY DEF BoardFits
<1>2. \A n \in DOMAIN s : s[n].key \in KnownKeys /\ s[n].parent \in KnownParents
  BY <1>1 DEF KnownKeys, KnownParents
<1> QED BY <1>2 DEF BoardFits, ItemsFit

(* A run starts with the sprint as the tracker has it.                     *)
LEMMA InitIntake == IntakeInit => IntakeInv
<1> SUFFICES ASSUME IntakeInit PROVE IntakeInv
  OBVIOUS
<1>0. board \in Boards /\ elsewhere = Visitors /\ leg = "off" /\ at = 0 /\ read = <<>> /\ ids = <<>> /\ planned = <<>>
      /\ stirred = {} /\ written = {} /\ torn = {} /\ moves = 0 /\ tears = 0 /\ errand \in Errand
  BY DEF IntakeInit
<1>1. BoardFits
  <2> PICK b \in Boards : b = board
    BY <1>0
  <2>1. b \in Seq(SprintItem) /\ \A i : Carries(b, i) <=> i \in Range(b)
    BY IntakeAssumption DEF InputsFit, Carries, Range
  <2>2. \A i : InWorld(i) <=> i \in Range(b) \/ i \in Visitors
    BY <1>0, <2>1 DEF InWorld
  <2>3. ASSUME NEW i, InWorld(i) PROVE i \in KnownItems
    BY <2>2, <2>3 DEF KnownItems
  <2>4. /\ \A i, j \in DOMAIN b : b[i].key = b[j].key => i = j
        /\ \A i \in Range(b), v \in Visitors : i.key # v.key
        /\ \A v, w \in Visitors : v.key = w.key => v = w
    BY KeysApart DEF OwnKeys
  <2>5. \A i, j : InWorld(i) /\ InWorld(j) /\ i.key = j.key => i = j
    BY <2>2, <2>4 DEF Range
  <2>6. Once(b)
    BY <2>4 DEF Once
  <2>7. \A i \in elsewhere : ~Carries(board, i)
    BY <1>0, <2>1, <2>4
  <2> QED BY <2>1, <2>3, <2>5, <2>6, <2>7 DEF BoardFits
<1>2. RunFits
  <2>1. 0 \in 0..MaxMoves /\ 0 \in 0..MaxTears
    BY IntakeAssumption DEF InputsFit
  <2> QED BY <1>0, <2>1 DEF RunFits
<1>3. ReadFits
  BY <1>0, NothingRead DEF ReadFits
<1>4. PagesFit /\ QueryFits /\ PlannedFits /\ FilesFit
  BY <1>0 DEF PagesFit, QueryFits, PlannedFits, FilesFit
<1> QED BY <1>1, <1>2, <1>3, <1>4 DEF IntakeInv

(* The plan depends on nothing that moves.                                 *)
LEMMA SplitSame ==
  ASSUME errand' = errand, read' = read
  PROVE  Split(Scoped(read))' = Split(Scoped(read))
BY DEF Split, Scoped, InScope, Normalised, TasksOf, StoryScopes

(* People move items, and the items there are remain.                      *)
LEMMA WorldSame ==
  ASSUME BoardFits, Leaves \/ Joins
  PROVE  /\ BoardFits' /\ \A i : InWorld(i)' <=> InWorld(i)
         /\ \A i : Carries(board', i) /\ i.key \notin stirred' => Carries(board, i) /\ i.key \notin stirred
         /\ stirred' # {}
<1> PICK b : b = board
  OBVIOUS
<1> PICK e : e = elsewhere
  OBVIOUS
<1>0. /\ b \in Seq(SprintItem) /\ Once(b) /\ Len(b) \in Nat /\ DOMAIN b = 1..Len(b)
      /\ \A i \in e : ~Carries(b, i) /\ i \in SprintItem
      /\ \A i, j : (Carries(b, i) \/ i \in e) /\ (Carries(b, j) \/ j \in e) /\ i.key = j.key => i = j
  BY KnownFits DEF BoardFits, InWorld
<1>1. CASE Leaves
  <2>1. PICK n \in DOMAIN b : board' = RemoveAt(b, n) /\ elsewhere' = e \cup {b[n]} /\ stirred' = stirred \cup {b[n].key}
    BY <1>1 DEF Leaves
  <2> PICK r : r = RemoveAt(b, n)
    OBVIOUS
  <2>2. LessOne(SprintItem, b, n, r)
    BY <1>0, RemovedAt
  <2>3. r \in Seq(SprintItem) /\ Once(r) /\ \A x : Carries(r, x) <=> Carries(b, x) /\ x # b[n]
    BY <2>2 DEF LessOne
  <2>4. Carries(b, b[n])
    BY DEF Carries
  <2>5. board' = r
    BY <2>1
  <2>6. \A i : (Carries(r, i) \/ i \in elsewhere') <=> (Carries(b, i) \/ i \in e)
    BY <2>1, <2>3, <2>4
  <2>7. \A i \in elsewhere' : ~Carries(r, i)
    BY <1>0, <2>1, <2>3
  <2>8. \A i : Carries(r, i) /\ i.key \notin stirred' => Carries(b, i) /\ i.key \notin stirred
    BY <2>1, <2>3
  <2> QED BY <2>1, <2>3, <2>5, <2>6, <2>7, <2>8 DEF BoardFits, InWorld
<1>2. CASE Joins
  <2>1. PICK x \in e, n \in 1..(Len(b) + 1) :
          board' = InsertAt(b, n, x) /\ elsewhere' = e \ {x} /\ stirred' = stirred \cup {x.key}
    BY <1>2 DEF Joins
  <2> PICK r : r = InsertAt(b, n, x)
    OBVIOUS
  <2>2. MoreOne(SprintItem, b, x, r)
    BY <1>0, InsertedAt
  <2>3. r \in Seq(SprintItem) /\ Once(r) /\ \A i : Carries(r, i) <=> Carries(b, i) \/ i = x
    BY <2>2 DEF MoreOne
  <2>5. board' = r
    BY <2>1
  <2>6. \A i : (Carries(r, i) \/ i \in elsewhere') <=> (Carries(b, i) \/ i \in e)
    BY <2>1, <2>3
  <2>7. \A i \in elsewhere' : ~Carries(r, i)
    BY <1>0, <2>1, <2>3
  <2>8. \A i : Carries(r, i) /\ i.key \notin stirred' => Carries(b, i) /\ i.key \notin stirred
    BY <2>1, <2>3
  <2> QED BY <2>1, <2>3, <2>5, <2>6, <2>7, <2>8 DEF BoardFits, InWorld
<1> QED BY <1>1, <1>2

(* An item that comes or goes is stirred, and stays in the world.          *)
LEMMA MovesKept ==
  ASSUME IntakeInv, Leaves \/ Joins
  PROVE  IntakeInv'
<1>0. /\ UNCHANGED <<errand, leg, reading, planned, specs, tears>> /\ leg \in {"off", "query", "reading"}
      /\ moves < MaxMoves /\ moves' = moves + 1
  BY DEF Leaves, Joins
<1>1. /\ errand' = errand /\ leg' = leg /\ at' = at /\ ids' = ids /\ read' = read /\ planned' = planned
      /\ written' = written /\ torn' = torn /\ tears' = tears
  BY <1>0 DEF reading, specs
<1>2. /\ BoardFits' /\ \A i : InWorld(i)' <=> InWorld(i)
      /\ \A i : Carries(board', i) /\ i.key \notin stirred' => Carries(board, i) /\ i.key \notin stirred
      /\ stirred' # {}
  BY WorldSame DEF IntakeInv
<1>3. RunFits'
  <2>1. moves' \in 0..MaxMoves
    <3>1. moves \in 0..MaxMoves
      BY DEF IntakeInv, RunFits
    <3>2. MaxMoves \in Nat
      BY IntakeAssumption DEF InputsFit
    <3> QED BY <1>0, <3>1, <3>2
  <2>2. stirred' \subseteq Seq(STRING)
    <3>1. CASE Leaves
      <4>1. PICK n \in DOMAIN board : stirred' = stirred \cup {board[n].key}
        BY <3>1 DEF Leaves
      <4>2. board[n] \in SprintItem
        BY DEF IntakeInv, BoardFits
      <4> QED BY <4>1, <4>2 DEF IntakeInv, RunFits, SprintItem
    <3>2. CASE Joins
      <4>1. PICK i \in elsewhere : stirred' = stirred \cup {i.key}
        BY <3>2 DEF Joins
      <4>2. i \in SprintItem
        BY KnownFits DEF IntakeInv, BoardFits, InWorld
      <4> QED BY <4>1, <4>2 DEF IntakeInv, RunFits, SprintItem
    <3> QED BY <3>1, <3>2
  <2> QED BY <1>1, <2>1, <2>2 DEF IntakeInv, RunFits
<1>4. ReadFits'
  BY <1>1, <1>2 DEF IntakeInv, ReadFits, ItemsFit
<1>5. PagesFit'
  BY <1>2 DEF PagesFit
<1>6. QueryFits'
  <2>1. ASSUME IdsFit PROVE IdsFit'
    BY <1>1, <1>2, <2>1 DEF IdsFit
  <2>2. ASSUME ChunksFit PROVE ChunksFit'
    BY <1>1, <2>2 DEF ChunksFit
  <2> QED BY <1>1, <2>1, <2>2 DEF IntakeInv, QueryFits
<1>7. PlannedFits' /\ FilesFit'
  BY <1>0, <1>1 DEF PlannedFits, FilesFit
<1> QED BY <1>2, <1>3, <1>4, <1>5, <1>6, <1>7 DEF IntakeInv

(* Nobody moves an item.                                                   *)
LEMMA BoardSame ==
  ASSUME BoardFits, board' = board, elsewhere' = elsewhere
  PROVE  BoardFits' /\ \A i : InWorld(i)' <=> InWorld(i)
BY DEF BoardFits, InWorld

(* A step of other parts.                                                  *)
LEMMA IdleIntake ==
  ASSUME IntakeInv, UNCHANGED intakeVars
  PROVE  IntakeInv'
<1>1. /\ board' = board /\ elsewhere' = elsewhere /\ stirred' = stirred /\ moves' = moves /\ errand' = errand /\ leg' = leg
      /\ at' = at /\ ids' = ids /\ read' = read /\ planned' = planned /\ written' = written /\ torn' = torn /\ tears' = tears
  BY DEF intakeVars, tracker, reading, specs
<1>2. BoardFits' /\ \A i : InWorld(i)' <=> InWorld(i)
  BY <1>1, BoardSame DEF IntakeInv
<1>3. RunFits'
  BY <1>1 DEF IntakeInv, RunFits
<1>4. ReadFits'
  BY <1>1, <1>2 DEF IntakeInv, ReadFits, ItemsFit
<1>5. PagesFit' /\ QueryFits'
  BY <1>1, <1>2 DEF IntakeInv, PagesFit, QueryFits, IdsFit, ChunksFit
<1>6. PlannedFits'
  BY <1>1, SplitSame DEF IntakeInv, PlannedFits
<1>7. FilesFit'
  BY <1>1 DEF IntakeInv, FilesFit
<1> QED BY <1>2, <1>3, <1>4, <1>5, <1>6, <1>7 DEF IntakeInv

(* A read starts from nothing.                                             *)
LEMMA ConnectKept ==
  ASSUME IntakeInv, Connect
  PROVE  IntakeInv'
<1>1. /\ leg = "off" /\ stirred' = {} /\ board' = board /\ elsewhere' = elsewhere /\ moves' = moves
      /\ at' = at /\ ids' = ids /\ read' = read /\ planned' = planned /\ written' = written /\ torn' = torn /\ tears' = tears
      /\ leg' = IF errand.source = "azuredevops" /\ errand.transport = "api" THEN "query" ELSE "reading"
  BY DEF Connect, reading, specs
<1>2. PICK p \in {"preflight", "dry-run", "run"} : errand' = [errand EXCEPT !.purpose = p]
  BY DEF Connect
<1>3. BoardFits' /\ \A i : InWorld(i)' <=> InWorld(i)
  BY <1>1, BoardSame DEF IntakeInv
<1>4. errand' \in Errand /\ errand'.source = errand.source /\ errand'.transport = errand.transport
      /\ errand.source \in {"jira", "azuredevops"}
  BY <1>2 DEF IntakeInv, RunFits, Errand
<1>5. at' = 0 /\ read' = <<>>
  BY <1>1 DEF IntakeInv, RunFits
<1>6. RunFits'
  <2>1. at' \in Nat /\ ids' \in Seq(Seq(STRING)) /\ planned' \in Seq(SprintItem) /\ stirred' \subseteq Seq(STRING)
        /\ written' \subseteq Seq(STRING) /\ torn' \subseteq Seq(STRING) /\ moves' \in 0..MaxMoves /\ tears' \in 0..MaxTears
    BY <1>1 DEF IntakeInv, RunFits
  <2> QED BY <1>1, <1>4, <1>5, <2>1 DEF RunFits
<1>7. ReadFits'
  BY <1>1, <1>3, <1>4 DEF IntakeInv, ReadFits, ItemsFit
<1>8. PagesFit'
  <2>1. board \in Seq(SprintItem)
    BY DEF IntakeInv, BoardFits
  <2>2. SubSeq(board, 1, 0) = <<>> /\ 0 <= Len(board)
    BY <2>1
  <2> QED BY <1>1, <1>5, <2>2 DEF PagesFit
<1>9. QueryFits' /\ PlannedFits' /\ FilesFit'
  BY <1>1, <1>4 DEF QueryFits, PlannedFits, FilesFit
<1> QED BY <1>3, <1>6, <1>7, <1>8, <1>9 DEF IntakeInv

(* A read that fails leaves what it had.                                   *)
LEMMA ReadFailsKept ==
  ASSUME IntakeInv, ReadFails
  PROVE  IntakeInv'
<1>1. /\ board' = board /\ elsewhere' = elsewhere /\ stirred' = stirred /\ moves' = moves /\ errand' = errand /\ leg' = "raised"
      /\ at' = at /\ ids' = ids /\ read' = read /\ planned' = planned /\ written' = written /\ torn' = torn /\ tears' = tears
  BY DEF ReadFails, tracker, reading, specs
<1>2. BoardFits' /\ \A i : InWorld(i)' <=> InWorld(i)
  BY <1>1, BoardSame DEF IntakeInv
<1>3. RunFits'
  BY <1>1 DEF IntakeInv, RunFits
<1>4. ReadFits'
  BY <1>1, <1>2 DEF IntakeInv, ReadFits, ItemsFit
<1>5. PagesFit' /\ QueryFits' /\ PlannedFits' /\ FilesFit'
  BY <1>1 DEF PagesFit, QueryFits, PlannedFits, FilesFit
<1> QED BY <1>2, <1>3, <1>4, <1>5 DEF IntakeInv

(* The next page, or the next chunk.                                       *)
LEMMA NextPage ==
  ASSUME NEW S, NEW s \in Seq(S), at \in Nat, NEW size \in Nat \ {0}
  PROVE  NextPiece(S, s, at, size, UpTo(s, size))
<1> PICK a \in Nat : a = at
  OBVIOUS
<1>1. NextPiece(S, s, a, size, SubSeq(s, a + 1, Min({a + size, Len(s)})))
  BY NextPieceFits
<1> QED BY <1>1 DEF UpTo

(* A list that was read, and the items read next.                          *)
LEMMA ReadOn ==
  ASSUME BoardFits, ItemsFit(read), \A n \in DOMAIN read : InWorld(read[n]),
         NEW c \in Seq(SprintItem), \A x : Carries(c, x) => InWorld(x), NEW r, r = read \o c
  PROVE  ItemsFit(r) /\ \A n \in DOMAIN r : InWorld(r[n])
<1>1. read \in Seq(SprintItem)
  BY DEF ItemsFit
<1> PICK q : q = read
  OBVIOUS
<1>2. CarriesBoth(SprintItem, q, c, q \o c)
  BY <1>1, Joined2
<1>3. r \in Seq(SprintItem) /\ \A x : Carries(r, x) <=> Carries(q, x) \/ Carries(c, x)
  BY <1>2 DEF CarriesBoth
<1>4. \A n \in DOMAIN r : InWorld(r[n])
  <2> SUFFICES ASSUME NEW n \in DOMAIN r PROVE InWorld(r[n])
    OBVIOUS
  <2>1. Carries(q, r[n]) \/ Carries(c, r[n])
    BY <1>3 DEF Carries
  <2>2. CASE Carries(q, r[n])
    BY <2>2 DEF Carries
  <2> QED BY <2>1, <2>2
<1> QED BY <1>3, <1>4, ItemsThere

(* A page is the next part of the sprint, if nobody moved an item.         *)
LEMMA ReadPageKept ==
  ASSUME IntakeInv, ReadPage
  PROVE  IntakeInv'
<1> USE DEF IntakeInv
<1>1. /\ leg = "reading" /\ errand.source = "jira" /\ errand.transport = "api"
      /\ board' = board /\ elsewhere' = elsewhere /\ stirred' = stirred /\ moves' = moves /\ errand' = errand
      /\ ids' = ids /\ planned' = planned /\ written' = written /\ torn' = torn /\ tears' = tears
  BY DEF ReadPage, tracker, specs
<1>2. PICK size \in 1..PageSize :
        /\ read' = read \o UpTo(board, size)
        /\ \/ /\ at + Len(UpTo(board, size)) >= Len(board) \/ UpTo(board, size) = <<>>
              /\ leg' = "read" /\ at' = at
           \/ /\ ~(at + Len(UpTo(board, size)) >= Len(board) \/ UpTo(board, size) = <<>>)
              /\ leg' = leg /\ at' = at + Len(UpTo(board, size))
  BY DEF ReadPage, Advance
<1>3. size \in Nat \ {0}
  <2>1. PageSize \in Nat
    BY IntakeAssumption DEF InputsFit
  <2> QED BY <2>1
<1> PICK u : u = UpTo(board, size)
  OBVIOUS
<1>4. at \in Nat /\ board \in Seq(SprintItem)
  BY DEF RunFits, BoardFits
<1>5. NextPiece(SprintItem, board, at, size, u)
  BY <1>3, <1>4, NextPage
<1>6. u \in Seq(SprintItem) /\ \A x : Carries(u, x) => InWorld(x)
  BY <1>5 DEF NextPiece, InWorld
<1>7. BoardFits' /\ \A i : InWorld(i)' <=> InWorld(i)
  BY <1>1, BoardSame
<1>8. RunFits'
  <2>1. at' \in Nat
    <3>1. Len(u) \in Nat
      BY <1>6
    <3> QED BY <1>2, <1>4, <3>1
  <2>2. leg' \in {"reading", "read"}
    BY <1>1, <1>2
  <2> QED BY <1>1, <2>1, <2>2 DEF RunFits
<1>9. ReadFits'
  <2>1. ItemsFit(read) /\ \A n \in DOMAIN read : InWorld(read[n])
    BY <1>1 DEF ReadFits
  <2>2. ItemsFit(read') /\ \A n \in DOMAIN read' : InWorld(read'[n])
    BY <1>2, <1>6, <2>1, ReadOn
  <2> QED BY <1>7, <2>2 DEF ReadFits
<1>10. PagesFit'
  <2> SUFFICES ASSUME stirred = {}
               PROVE  /\ leg' = "reading" => at' <= Len(board) /\ read' = SubSeq(board, 1, at')
                      /\ leg' = "read" => read' = board
    BY <1>1 DEF PagesFit
  <2> PICK a : a = at
    OBVIOUS
  <2> PICK b : b = board
    OBVIOUS
  <2>1. a <= Len(b) /\ read = SubSeq(b, 1, a) /\ a \in Nat /\ b \in Seq(SprintItem) /\ Len(b) \in Nat
    BY <1>1, <1>4 DEF PagesFit
  <2>2. PICK hi \in Nat :
          /\ a <= hi /\ hi <= Len(b) /\ Len(u) = hi - a
          /\ SubSeq(b, 1, a) \o u = SubSeq(b, 1, hi)
          /\ hi = a => hi = Len(b)
    BY <1>5, <2>1 DEF NextPiece
  <2>3. read' = SubSeq(b, 1, hi)
    BY <1>2, <2>1, <2>2
  <2>4. a + Len(u) = hi
    BY <2>1, <2>2
  <2>5. CASE (hi >= Len(b) \/ u = <<>>) /\ leg' = "read"
    <3>1. hi = Len(b)
      <4>1. CASE u = <<>>
        <5>1. hi = a
          BY <2>1, <2>2, <4>1
        <5> QED BY <2>2, <5>1
      <4>2. CASE hi >= Len(b)
        BY <2>1, <2>2, <4>2
      <4> QED BY <2>5, <4>1, <4>2
    <3>2. SubSeq(b, 1, Len(b)) = b
      BY <2>1
    <3> QED BY <2>3, <2>5, <3>1, <3>2
  <2>6. CASE leg' = "reading" /\ at' = hi
    BY <2>2, <2>3, <2>6
  <2> QED BY <1>1, <1>2, <2>4, <2>5, <2>6
<1>11. QueryFits' /\ PlannedFits' /\ FilesFit'
  BY <1>1, <1>2 DEF QueryFits, PlannedFits, FilesFit
<1> QED BY <1>7, <1>8, <1>9, <1>10, <1>11

(* The ids are those of the sprint as it is.                               *)
LEMMA QueryIdsKept ==
  ASSUME IntakeInv, QueryIds
  PROVE  IntakeInv'
<1> USE DEF IntakeInv
<1>1. /\ leg = "query" /\ board' = board /\ elsewhere' = elsewhere /\ stirred' = stirred /\ moves' = moves /\ errand' = errand
      /\ at' = at /\ read' = read /\ planned' = planned /\ written' = written /\ torn' = torn /\ tears' = tears
      /\ ids' = [n \in DOMAIN board |-> board[n].key] /\ leg' = IF board = <<>> THEN "read" ELSE "reading"
  BY DEF QueryIds, tracker, specs
<1>2. BoardFits' /\ \A i : InWorld(i)' <=> InWorld(i)
  BY <1>1, BoardSame
<1> PICK b : b = board
  OBVIOUS
<1> PICK q : q = ids'
  OBVIOUS
<1>3. b \in Seq(SprintItem) /\ Len(b) \in Nat /\ DOMAIN b = 1..Len(b) /\ \A n \in DOMAIN b : b[n] \in SprintItem
  BY DEF BoardFits
<1>4. \A n \in DOMAIN b : b[n].key \in Seq(STRING)
  BY <1>3 DEF SprintItem
<1>5. q = [n \in 1..Len(b) |-> b[n].key]
  BY <1>1, <1>3
<1>6. q \in Seq(Seq(STRING)) /\ Len(q) = Len(b) /\ DOMAIN q = DOMAIN b /\ \A n \in DOMAIN b : q[n] = b[n].key
  BY <1>3, <1>4, <1>5
<1>7. at = 0 /\ read = <<>> /\ errand.source = "azuredevops"
  BY <1>1 DEF RunFits
<1>8. RunFits'
  <2>1. leg' \in {"reading", "read"}
    BY <1>1
  <2> QED BY <1>1, <1>6, <2>1 DEF RunFits
<1>9. ReadFits'
  BY <1>1, <1>2 DEF ReadFits, ItemsFit
<1>10. QueryFits'
  <2>1. \A n \in DOMAIN b : Carries(b, b[n]) /\ InWorld(b[n])
    BY DEF Carries, InWorld
  <2>2. Once(q)
    <3> SUFFICES ASSUME NEW n \in DOMAIN b, NEW m \in DOMAIN b, q[n] = q[m] PROVE n = m
      BY <1>6 DEF Once
    <3>1. b[n].key = b[m].key
      BY <1>6
    <3>2. b[n] = b[m]
      BY <2>1, <3>1 DEF BoardFits
    <3> QED BY <3>2 DEF BoardFits, Once
  <2>3. \A n \in DOMAIN q : \E i : InWorld(i)' /\ i.key = q[n]
    BY <1>2, <1>6, <2>1
  <2>4. \A i : Carries(b, i) => Carries(q, i.key)
    BY <1>6 DEF Carries
  <2>5. IdsFit'
    BY <1>1, <1>6, <2>2, <2>3, <2>4 DEF IdsFit
  <2>6. DOMAIN read' = {} /\ Len(read') = 0
    BY <1>1, <1>7
  <2>7. KeyedBy(read', q)
    BY <2>6 DEF KeyedBy
  <2>8. b # <<>> => 0 < Len(b)
    BY <1>3
  <2>9. b = <<>> => Len(b) = 0
    OBVIOUS
  <2>10. ChunksFit'
    BY <1>1, <1>6, <1>7, <2>6, <2>7, <2>8, <2>9 DEF ChunksFit
  <2> QED BY <2>5, <2>10 DEF QueryFits
<1>11. PagesFit' /\ PlannedFits' /\ FilesFit'
  BY <1>1, <1>7 DEF PagesFit, PlannedFits, FilesFit
<1> QED BY <1>2, <1>8, <1>9, <1>10, <1>11

(* The items of a chunk of ids.                                            *)
ItemOf(k) == CHOOSE i \in Range(board) \cup elsewhere : i.key = k
ItemsOf(c) == [n \in DOMAIN c |-> ItemOf(c[n])]

(* The items of a chunk of ids.                                            *)
LEMMA ItemsOfFit ==
  ASSUME BoardFits, IdsFit, NEW c \in Seq(Seq(STRING)), \A x : Carries(c, x) => Carries(ids, x)
  PROVE  /\ ItemsOf(c) \in Seq(SprintItem) /\ Len(ItemsOf(c)) = Len(c) /\ KeyedBy(ItemsOf(c), c)
         /\ \A x : Carries(ItemsOf(c), x) => InWorld(x)
<1>1. DOMAIN c = 1..Len(c) /\ Len(c) \in Nat
  OBVIOUS
<1>2. \A i : InWorld(i) <=> i \in Range(board) \cup elsewhere
  BY DEF InWorld, Carries, Range
<1>3. ASSUME NEW n \in DOMAIN c PROVE InWorld(ItemOf(c[n])) /\ ItemOf(c[n]).key = c[n]
  <2>1. Carries(ids, c[n])
    BY DEF Carries
  <2>2. PICK i : InWorld(i) /\ i.key = c[n]
    BY <2>1 DEF Carries, IdsFit
  <2>3. i \in Range(board) \cup elsewhere
    BY <1>2, <2>2
  <2>4. ItemOf(c[n]) \in Range(board) \cup elsewhere /\ ItemOf(c[n]).key = c[n]
    BY <2>2, <2>3 DEF ItemOf
  <2> QED BY <1>2, <2>4
<1> PICK q : q = ItemsOf(c)
  OBVIOUS
<1>4. q = [n \in 1..Len(c) |-> ItemOf(c[n])]
  BY <1>1 DEF ItemsOf
<1>5. \A n \in 1..Len(c) : ItemOf(c[n]) \in SprintItem
  BY <1>1, <1>3, KnownFits DEF BoardFits
<1>6. q \in Seq(SprintItem) /\ Len(q) = Len(c) /\ DOMAIN q = DOMAIN c /\ \A n \in DOMAIN c : q[n] = ItemOf(c[n])
  BY <1>1, <1>4, <1>5
<1>7. KeyedBy(q, c)
  BY <1>3, <1>6 DEF KeyedBy
<1>8. \A x : Carries(q, x) => InWorld(x)
  BY <1>3, <1>6 DEF Carries
<1> QED BY <1>6, <1>7, <1>8

(* A chunk brings the items of the next ids.                               *)
LEMMA ReadChunkKept ==
  ASSUME IntakeInv, ReadChunk
  PROVE  IntakeInv'
<1> USE DEF IntakeInv
<1>1. /\ leg = "reading" /\ errand.source = "azuredevops" /\ errand.transport = "api"
      /\ board' = board /\ elsewhere' = elsewhere /\ stirred' = stirred /\ moves' = moves /\ errand' = errand
      /\ ids' = ids /\ planned' = planned /\ written' = written /\ torn' = torn /\ tears' = tears
      /\ at' = at + PageSize /\ leg' = IF at + PageSize >= Len(ids) THEN "read" ELSE leg
  BY DEF ReadChunk, tracker, specs
<1> PICK u : u = UpTo(ids, PageSize)
  OBVIOUS
<1> PICK c : c = ItemsOf(u)
  OBVIOUS
<1>2. read' = read \o c
  BY DEF ReadChunk, ItemsOf, ItemOf
<1>3. PageSize \in Nat \ {0} /\ at \in Nat /\ ids \in Seq(Seq(STRING)) /\ read \in Seq(SprintItem)
  BY IntakeAssumption DEF InputsFit, RunFits, ReadFits, ItemsFit
<1>4. IdsFit /\ ChunksFit
  BY <1>1 DEF QueryFits
<1>5. KeyedBy(read, ids) /\ Len(read) = at /\ at < Len(ids)
  BY <1>1, <1>4 DEF ChunksFit
<1>6. NextPiece(Seq(STRING), ids, at, PageSize, u)
  BY <1>3, NextPage
<1>7. u \in Seq(Seq(STRING)) /\ \A x : Carries(u, x) => Carries(ids, x)
  BY <1>6 DEF NextPiece
<1>8. c \in Seq(SprintItem) /\ Len(c) = Len(u) /\ KeyedBy(c, u) /\ \A x : Carries(c, x) => InWorld(x)
  BY <1>4, <1>7, ItemsOfFit
<1>9. BoardFits' /\ \A i : InWorld(i)' <=> InWorld(i)
  BY <1>1, BoardSame
<1>10. RunFits'
  <2>1. at' \in Nat
    BY <1>1, <1>3
  <2>2. leg' \in {"reading", "read"}
    BY <1>1
  <2> QED BY <1>1, <2>1, <2>2 DEF RunFits
<1>11. ReadFits'
  <2>1. ItemsFit(read) /\ \A n \in DOMAIN read : InWorld(read[n])
    BY <1>1 DEF ReadFits
  <2>2. ItemsFit(read') /\ \A n \in DOMAIN read' : InWorld(read'[n])
    BY <1>2, <1>8, <2>1, ReadOn
  <2> QED BY <1>9, <2>2 DEF ReadFits
<1>12. QueryFits'
  <2>1. IdsFit'
    BY <1>1, <1>4, <1>9 DEF IdsFit
  <2> PICK a : a = at
    OBVIOUS
  <2> PICK s : s = ids
    OBVIOUS
  <2> PICK q : q = read
    OBVIOUS
  <2>2. a \in Nat /\ s \in Seq(Seq(STRING)) /\ q \in Seq(SprintItem) /\ Len(s) \in Nat /\ a <= Len(s) /\ Len(q) = a
    BY <1>3, <1>5
  <2>3. PICK hi \in Nat :
          /\ a <= hi /\ hi <= Len(s) /\ hi <= a + PageSize /\ (hi = Len(s) \/ hi = a + PageSize)
          /\ u = SubSeq(s, a + 1, hi)
    BY <1>6, <2>2 DEF NextPiece
  <2>4. Len(q) <= hi /\ u = SubSeq(s, Len(q) + 1, hi)
    BY <2>2, <2>3
  <2>5. KeyedBy(q \o c, s) /\ Len(q \o c) = hi
    <3>1. NextKeyed(Seq(STRING), SprintItem, s, q, hi, c, u)
      BY <1>5, <1>8, <2>2, <2>3, <2>4 DEF NextKeyed
    <3> QED BY <3>1, KeyedOn
  <2>6. KeyedBy(read', ids') /\ Len(read') = hi
    BY <1>1, <1>2, <2>5
  <2>7. CASE a + PageSize >= Len(s)
    <3>1. hi = Len(s) /\ leg' = "read"
      BY <1>1, <1>3, <2>2, <2>3, <2>7
    <3> QED BY <1>1, <2>1, <2>6, <3>1 DEF QueryFits, ChunksFit
  <2>8. CASE ~(a + PageSize >= Len(s))
    <3>1. hi = a + PageSize /\ hi < Len(s) /\ leg' = "reading"
      BY <1>1, <1>3, <2>2, <2>3, <2>8
    <3>2. at' = hi
      BY <1>1, <3>1
    <3> QED BY <1>1, <2>1, <2>6, <3>1, <3>2 DEF QueryFits, ChunksFit
  <2> QED BY <2>7, <2>8
<1>13. PagesFit' /\ PlannedFits' /\ FilesFit'
  BY <1>1 DEF PagesFit, PlannedFits, FilesFit
<1> QED BY <1>9, <1>10, <1>11, <1>12, <1>13

(* What the browser sees of an item.                                       *)
Seen(i) == [i EXCEPT !.type = "Story", !.parent = <<>>, !.labels = {}, !.mine = FALSE, !.open = FALSE]

(* What the browser sees of an item.                                       *)
LEMMA SeenFits ==
  ASSUME NEW i \in SprintItem
  PROVE  Seen(i) \in SprintItem /\ Seen(i).key = i.key /\ Seen(i).parent = <<>>
<1>1. <<>> \in Seq(STRING)
  OBVIOUS
<1> QED BY <1>1 DEF SprintItem, Seen

(* The browser reads all at once.                                          *)
LEMMA ScrapeKept ==
  ASSUME IntakeInv, Scrape
  PROVE  IntakeInv'
<1> USE DEF IntakeInv
<1>1. /\ leg = "reading" /\ errand.transport = "playwright" /\ leg' = "read"
      /\ board' = board /\ elsewhere' = elsewhere /\ stirred' = stirred /\ moves' = moves /\ errand' = errand
      /\ at' = at /\ ids' = ids /\ planned' = planned /\ written' = written /\ torn' = torn /\ tears' = tears
      /\ read' = [n \in DOMAIN board |-> Seen(board[n])]
  BY DEF Scrape, tracker, specs, Seen
<1>2. BoardFits' /\ \A i : InWorld(i)' <=> InWorld(i)
  BY <1>1, BoardSame
<1>3. RunFits'
  BY <1>1 DEF RunFits
<1>4. ReadFits'
  <2> PICK b : b = board
    OBVIOUS
  <2> PICK r : r = read'
    OBVIOUS
  <2>1. b \in Seq(SprintItem) /\ Len(b) \in Nat /\ DOMAIN b = 1..Len(b) /\ \A n \in DOMAIN b : b[n] \in SprintItem
    BY DEF BoardFits
  <2>2. \A n \in DOMAIN b : Seen(b[n]) \in SprintItem /\ Seen(b[n]).key = b[n].key /\ Seen(b[n]).parent = <<>>
    BY <2>1, SeenFits
  <2>3. r = [n \in 1..Len(b) |-> Seen(b[n])]
    BY <1>1, <2>1
  <2>4. r \in Seq(SprintItem) /\ DOMAIN r = DOMAIN b /\ \A n \in DOMAIN b : r[n] = Seen(b[n])
    BY <2>1, <2>2, <2>3
  <2>5. \A n \in DOMAIN b : InWorld(b[n]) /\ b[n].key \in KnownKeys
    BY DEF InWorld, Carries, BoardFits, KnownKeys
  <2>6. \A n \in DOMAIN r : r[n].key = b[n].key /\ r[n].parent = <<>>
    BY <2>2, <2>4
  <2>7. \A n \in DOMAIN r : r[n].key \in KnownKeys /\ r[n].parent \in KnownParents \cup {<<>>}
    BY <2>4, <2>5, <2>6
  <2>8. ASSUME NEW n \in DOMAIN r, NEW m \in DOMAIN r, r[n].key = r[m].key PROVE r[n] = r[m]
    <3>1. b[n].key = b[m].key
      BY <2>6, <2>8
    <3>2. b[n] = b[m]
      BY <2>4, <2>5, <3>1 DEF BoardFits
    <3> QED BY <2>4, <3>2
  <2>9. ItemsFit(r)
    BY <2>4, <2>7, <2>8 DEF ItemsFit
  <2> QED BY <1>1, <2>9 DEF ReadFits
<1>5. PagesFit' /\ QueryFits' /\ PlannedFits' /\ FilesFit'
  BY <1>1 DEF PagesFit, QueryFits, PlannedFits, FilesFit
<1> QED BY <1>2, <1>3, <1>4, <1>5

(* Keys become names of files.                                             *)
LEMMA SlugsFit ==
  ASSUME NEW items, ItemsFit(items)
  PROVE  Split(items) \in Seq(SprintItem) /\ \A n \in DOMAIN Split(items) : SlugOf(Split(items)[n].key) \in Seq(STRING)
<1> PICK normal : normal = Normalised(items)
  OBVIOUS
<1> PICK p : p = Split(items)
  OBVIOUS
<1>1. ItemsFit(normal)
  BY NormalisedFits
<1>2. p \in Seq(SprintItem) /\ \A e : Carries(p, e) <=> Carries(normal, e) \/ PartOf(normal, e)
  BY SplitElements DEF SplitInto
<1>3. \A k \in KnownKeys : SlugOf(k) \in Seq(STRING)
  BY KeysFresh DEF NewKeys, KnownKeys
<1>4. ASSUME NEW e, Carries(normal, e) PROVE SlugOf(e.key) \in Seq(STRING)
  BY <1>1, <1>3, <1>4 DEF ItemsFit, Carries
<1>5. ASSUME NEW e, PartOf(normal, e) PROVE SlugOf(e.key) \in Seq(STRING)
  <2>1. PICK n \in DOMAIN normal, scope \in {"front", "back"} : e = TaskFromStory(normal[n], scope)
    BY <1>5 DEF PartOf
  <2>2. normal[n] \in SprintItem /\ normal[n].key \in KnownKeys
    BY <1>1 DEF ItemsFit
  <2>3. e.key = Append(normal[n].key, scope)
    BY <2>1, <2>2, TaskFits
  <2>4. PICK i \in KnownItems : i.key = normal[n].key
    BY <2>2 DEF KnownKeys
  <2>5. e.key \in MadeUp
    BY <2>3, <2>4 DEF MadeUp
  <2> QED BY <2>5, KeysFresh DEF NewKeys
<1>6. \A n \in DOMAIN p : SlugOf(p[n].key) \in Seq(STRING)
  BY <1>2, <1>4, <1>5 DEF Carries
<1> QED BY <1>2, <1>6

(* The plan is of what was read.                                           *)
LEMMA PlanKept ==
  ASSUME IntakeInv, Plan
  PROVE  IntakeInv'
<1> USE DEF IntakeInv
<1>1. /\ leg = "read" /\ leg' \in {"importing", "done"} /\ planned' = Split(Scoped(read)) /\ at' = 0
      /\ board' = board /\ elsewhere' = elsewhere /\ stirred' = stirred /\ moves' = moves /\ errand' = errand
      /\ ids' = ids /\ read' = read /\ written' = written /\ torn' = torn /\ tears' = tears
  BY DEF Plan, tracker, specs
<1>2. BoardFits' /\ \A i : InWorld(i)' <=> InWorld(i)
  BY <1>1, BoardSame
<1> PICK items : items = Scoped(read)
  OBVIOUS
<1>3. ItemsFit(items)
  BY ScopedFits DEF ReadFits
<1>4. planned' \in Seq(SprintItem) /\ Len(planned') \in Nat
  <2>1. Split(items) \in Seq(SprintItem)
    BY <1>3, SlugsFit
  <2> QED BY <1>1, <2>1
<1>5. RunFits'
  BY <1>1, <1>4 DEF RunFits
<1>6. ReadFits'
  BY <1>1, <1>2 DEF ReadFits, ItemsFit
<1>7. PagesFit' /\ QueryFits'
  BY <1>1 DEF PagesFit, QueryFits
<1>8. PlannedFits'
  BY <1>1, SplitSame DEF PlannedFits
<1>9. FilesFit'
  <2>1. at' <= Len(planned') /\ \A n \in 1..at' : FALSE
    BY <1>1, <1>4
  <2> QED BY <1>1, <2>1 DEF FilesFit
<1> QED BY <1>2, <1>5, <1>6, <1>7, <1>8, <1>9

(* A file more is there.                                                   *)
LEMMA ImportItemKept ==
  ASSUME IntakeInv, ImportItem
  PROVE  IntakeInv'
<1> USE DEF IntakeInv
<1> PICK slug : slug = SlugOf(planned[at + 1].key)
  OBVIOUS
<1>1. /\ leg = "importing" /\ leg' = leg /\ at < Len(planned) /\ at' = at + 1
      /\ written' = IF slug \in torn THEN written ELSE written \cup {slug}
      /\ board' = board /\ elsewhere' = elsewhere /\ stirred' = stirred /\ moves' = moves /\ errand' = errand
      /\ ids' = ids /\ read' = read /\ planned' = planned /\ torn' = torn /\ tears' = tears
  BY DEF ImportItem, tracker
<1>2. BoardFits' /\ \A i : InWorld(i)' <=> InWorld(i)
  BY <1>1, BoardSame
<1> PICK a : a = at
  OBVIOUS
<1> PICK p : p = planned
  OBVIOUS
<1>3. p \in Seq(SprintItem) /\ a \in Nat /\ Len(p) \in Nat /\ a + 1 \in DOMAIN p /\ a + 1 <= Len(p)
  <2>1. p \in Seq(SprintItem) /\ a \in Nat /\ a < Len(p)
    BY <1>1 DEF RunFits
  <2> QED BY <2>1
<1>4. slug \in Seq(STRING)
  <2>1. p = Split(Scoped(read)) /\ ItemsFit(Scoped(read))
    BY <1>1, ScopedFits DEF PlannedFits, ReadFits
  <2>2. \A n \in DOMAIN p : SlugOf(p[n].key) \in Seq(STRING)
    BY <2>1, SlugsFit
  <2> QED BY <1>3, <2>2
<1>5. RunFits'
  <2>1. at' \in Nat /\ written' \subseteq Seq(STRING)
    BY <1>1, <1>3, <1>4 DEF RunFits
  <2> QED BY <1>1, <2>1 DEF RunFits
<1>6. ReadFits'
  BY <1>1, <1>2 DEF ReadFits, ItemsFit
<1>7. PagesFit' /\ QueryFits'
  BY <1>1 DEF PagesFit, QueryFits
<1>8. PlannedFits'
  BY <1>1, SplitSame DEF PlannedFits
<1>9. FilesFit'
  <2>1. \A n \in 1..a : SlugOf(p[n].key) \in written \cup torn
    BY <1>1 DEF FilesFit
  <2>2. slug \in written' \cup torn /\ written \subseteq written'
    BY <1>1
  <2>3. \A n \in 1..(a + 1) : n \in 1..a \/ n = a + 1
    BY <1>3
  <2>4. \A n \in 1..(a + 1) : SlugOf(p[n].key) \in written' \cup torn
    BY <2>1, <2>2, <2>3
  <2> QED BY <1>1, <1>3, <2>4 DEF FilesFit
<1> QED BY <1>2, <1>5, <1>6, <1>7, <1>8, <1>9

(* A file that is torn ends the import.                                    *)
LEMMA ImportTearsKept ==
  ASSUME IntakeInv, ImportTears
  PROVE  IntakeInv'
<1> USE DEF IntakeInv
<1> PICK slug : slug = SlugOf(planned[at + 1].key)
  OBVIOUS
<1>1. /\ leg = "importing" /\ leg' \in {"raised", "import failed"} /\ at < Len(planned) /\ at' = at
      /\ torn' = torn \cup {slug} /\ tears < MaxTears /\ tears' = tears + 1
      /\ board' = board /\ elsewhere' = elsewhere /\ stirred' = stirred /\ moves' = moves /\ errand' = errand
      /\ ids' = ids /\ read' = read /\ planned' = planned /\ written' = written
  BY DEF ImportTears, tracker, reading
<1>2. BoardFits' /\ \A i : InWorld(i)' <=> InWorld(i)
  BY <1>1, BoardSame
<1> PICK a : a = at
  OBVIOUS
<1> PICK p : p = planned
  OBVIOUS
<1>3. p \in Seq(SprintItem) /\ a \in Nat /\ a + 1 \in DOMAIN p
  <2>1. p \in Seq(SprintItem) /\ a \in Nat /\ a < Len(p)
    BY <1>1 DEF RunFits
  <2> QED BY <2>1
<1>4. slug \in Seq(STRING)
  <2>1. p = Split(Scoped(read)) /\ ItemsFit(Scoped(read))
    BY <1>1, ScopedFits DEF PlannedFits, ReadFits
  <2>2. \A n \in DOMAIN p : SlugOf(p[n].key) \in Seq(STRING)
    BY <2>1, SlugsFit
  <2> QED BY <1>3, <2>2
<1>5. tears' \in 0..MaxTears
  <2>1. MaxTears \in Nat
    BY IntakeAssumption DEF InputsFit
  <2> PICK t, m : t = tears /\ m = MaxTears
    OBVIOUS
  <2>2. t \in 0..m
    <3>1. RunFits
      OBVIOUS
    <3> QED BY <3>1 DEF RunFits
  <2>3. m \in Nat /\ t < m /\ tears' = t + 1
    BY <1>1, <2>1
  <2>4. t + 1 \in 0..m
    BY <2>2, <2>3
  <2> QED BY <2>3, <2>4
<1>6. RunFits'
  BY <1>1, <1>4, <1>5 DEF RunFits
<1>7. ReadFits'
  BY <1>1, <1>2 DEF ReadFits, ItemsFit
<1>8. PagesFit' /\ QueryFits' /\ FilesFit'
  BY <1>1 DEF PagesFit, QueryFits, FilesFit
<1>9. PlannedFits'
  BY <1>1, SplitSame DEF PlannedFits
<1> QED BY <1>2, <1>6, <1>7, <1>8, <1>9

(* The import ends when all files are there.                               *)
LEMMA ImportEndsKept ==
  ASSUME IntakeInv, ImportEnds
  PROVE  IntakeInv'
<1> USE DEF IntakeInv
<1>1. /\ leg = "importing" /\ leg' = "imported" /\ at = Len(planned) /\ at' = at
      /\ board' = board /\ elsewhere' = elsewhere /\ stirred' = stirred /\ moves' = moves /\ errand' = errand
      /\ ids' = ids /\ read' = read /\ planned' = planned /\ written' = written /\ torn' = torn /\ tears' = tears
  BY DEF ImportEnds, tracker, reading, specs
<1>2. BoardFits' /\ \A i : InWorld(i)' <=> InWorld(i)
  BY <1>1, BoardSame
<1>3. RunFits'
  <2>1. leg' \in {"off", "query", "reading", "read", "importing", "imported", "import failed", "done", "raised"}
    BY <1>1
  <2>2. leg' = "imported"
    BY <1>1
  <2> QED BY <1>1, <2>1, <2>2 DEF RunFits
<1>4. ReadFits'
  BY <1>1, <1>2 DEF ReadFits, ItemsFit
<1>5. PagesFit' /\ QueryFits' /\ FilesFit'
  BY <1>1 DEF PagesFit, QueryFits, FilesFit
<1>6. PlannedFits'
  BY <1>1, SplitSame DEF PlannedFits
<1> QED BY <1>2, <1>3, <1>4, <1>5, <1>6

(* Another run forgets what the last one read.                             *)
LEMMA IntakeAgainKept ==
  ASSUME IntakeInv, IntakeAgain
  PROVE  IntakeInv'
<1> USE DEF IntakeInv
<1>1. /\ leg' = "off" /\ at' = 0 /\ ids' = <<>> /\ read' = <<>> /\ planned' = <<>> /\ stirred' = {}
      /\ board' = board /\ elsewhere' = elsewhere /\ moves' = moves /\ errand' = errand
      /\ written' = written /\ torn' = torn /\ tears' = tears
  BY DEF IntakeAgain, specs
<1>2. BoardFits' /\ \A i : InWorld(i)' <=> InWorld(i)
  BY <1>1, BoardSame
<1>3. RunFits'
  <2> PICK e : e = <<>>
    OBVIOUS
  <2>1. e \in Seq(Seq(STRING)) /\ e \in Seq(SprintItem) /\ {} \subseteq Seq(STRING)
    OBVIOUS
  <2>2. ids' = e /\ planned' = e /\ read' = e /\ at' = 0 /\ stirred' = {}
    BY <1>1
  <2>3. leg' = "off" /\ leg' \in {"off", "query", "reading", "read", "importing", "imported", "import failed", "done", "raised"}
    BY <1>1
  <2>4. at' \in Nat /\ ids' \in Seq(Seq(STRING)) /\ planned' \in Seq(SprintItem) /\ stirred' \subseteq Seq(STRING)
    BY <2>1, <2>2
  <2>5. leg' # "query" /\ read' = <<>>
    BY <1>1
  <2> QED BY <1>1, <2>2, <2>3, <2>4, <2>5 DEF RunFits
<1>4. ReadFits'
  <2>1. DOMAIN read' = {}
    BY <1>1
  <2> QED BY <1>1, <2>1, NothingRead DEF ReadFits
<1>5. PagesFit' /\ QueryFits' /\ PlannedFits' /\ FilesFit'
  BY <1>1 DEF PagesFit, QueryFits, PlannedFits, FilesFit
<1> QED BY <1>2, <1>3, <1>4, <1>5

(* The invariant holds throughout.                                         *)
LEMMA IntakeInvHolds == IntakeSpec => []IntakeInv
<1>1. IntakeInv /\ [IntakeNext]_intakeVars => IntakeInv'
  BY IdleIntake, MovesKept, ConnectKept, ReadFailsKept, ReadPageKept, QueryIdsKept, ReadChunkKept, ScrapeKept,
     PlanKept, ImportItemKept, ImportTearsKept, ImportEndsKept, IntakeAgainKept DEF IntakeNext
<1> QED BY <1>1, InitIntake, PTL DEF IntakeSpec

(* What the invariant says of a finished read.                             *)
LEMMA ReadsOnceFits ==
  ASSUME IntakeInv
  PROVE  ReadsOnce
<1> USE DEF IntakeInv
<1> SUFFICES ASSUME leg = "read", errand.transport = "api"
             PROVE  /\ stirred = {} => read = board
                    /\ errand.source = "azuredevops" =>
                         \A i \in Range(board) : i.key \notin stirred =>
                           Cardinality({n \in DOMAIN read : read[n] = i}) = 1
  BY DEF ReadsOnce
<1>1. errand.source \in {"jira", "azuredevops"}
  BY DEF RunFits, Errand
<1>2. CASE errand.source = "jira"
  BY <1>2 DEF PagesFit
<1>3. CASE errand.source = "azuredevops"
  <2> PICK b : b = board
    OBVIOUS
  <2> PICK q : q = read
    OBVIOUS
  <2> PICK s : s = ids
    OBVIOUS
  <2>1. /\ Once(s) /\ (\A i : Carries(b, i) /\ i.key \notin stirred => Carries(s, i.key))
        /\ stirred = {} => Len(s) = Len(b) /\ \A n \in DOMAIN s : s[n] = b[n].key
        /\ KeyedBy(q, s) /\ Len(q) = Len(s)
    BY <1>3 DEF QueryFits, IdsFit, ChunksFit
  <2>2. /\ b \in Seq(SprintItem) /\ q \in Seq(SprintItem) /\ s \in Seq(Seq(STRING))
    BY DEF BoardFits, ReadFits, ItemsFit, RunFits
  <2>3. \A i, j : InWorld(i) /\ InWorld(j) /\ i.key = j.key => i = j
    BY DEF BoardFits
  <2>4. \A n \in DOMAIN q : InWorld(q[n]) /\ n \in DOMAIN s /\ q[n].key = s[n]
    BY <2>1 DEF ReadFits, KeyedBy
  <2>5. \A n \in DOMAIN b : InWorld(b[n])
    BY DEF InWorld, Carries
  <2>6. DOMAIN q = 1..Len(q) /\ DOMAIN s = 1..Len(s) /\ DOMAIN b = 1..Len(b)
    BY <2>2
  <2>7. ASSUME stirred = {} PROVE q = b
    <3>1. Len(q) = Len(b) /\ \A n \in DOMAIN q : q[n].key = b[n].key
      BY <2>1, <2>4, <2>7
    <3>2. \A n \in DOMAIN q : n \in DOMAIN b /\ q[n] = b[n]
      BY <2>3, <2>4, <2>5, <2>6, <3>1
    <3> QED BY <2>2, <3>1, <3>2
  <2>8. ASSUME NEW i \in Range(b), i.key \notin stirred
        PROVE  Cardinality({n \in DOMAIN q : q[n] = i}) = 1
    <3>1. Carries(b, i) /\ InWorld(i)
      BY <2>5 DEF Range, Carries
    <3>2. PICK n \in DOMAIN s : s[n] = i.key
      BY <2>1, <2>8, <3>1 DEF Carries
    <3>3. n \in DOMAIN q /\ q[n] = i
      BY <2>1, <2>3, <2>4, <2>6, <3>1, <3>2
    <3>4. \A m \in DOMAIN q : q[m] = i => m = n
      BY <2>1, <2>4, <3>2 DEF Once
    <3> PICK N : N = {m \in DOMAIN q : q[m] = i}
      OBVIOUS
    <3>5. N = {n}
      BY <3>3, <3>4
    <3>6. Cardinality(N) = 1
      BY <3>5, FS_Singleton
    <3> QED BY <3>6
  <2> QED BY <2>7, <2>8
<1> QED BY <1>1, <1>2, <1>3

(* What it says of a finished plan.                                        *)
LEMMA NothingLostFits ==
  ASSUME IntakeInv
  PROVE  NothingLost
<1> USE DEF IntakeInv
<1> SUFFICES ASSUME leg \in {"importing", "imported", "done"}
             PROVE  /\ \A i \in Range(Scoped(read)) :
                         \/ \E d \in Deliveries(planned) : d[1].key = i.key \/ (i.type = "Story" /\ d[1].parent = i.key)
                         \/ \E w \in Warnings(planned) : w.key = i.key \/ (i.type = "Story" /\ w.parent = i.key)
                    /\ \A i \in Range(Scoped(read)), r \in errand.roles \cap (FrontRoles \cup BackRoles) :
                         i.type = "Story" /\ i.labels = {} /\ i.key \notin ParentKeys(Scoped(read)) =>
                           Cardinality({d \in Deliveries(planned) : d[1].type = "Task" /\ d[1].parent = i.key /\ d[2] = r}) = 1
                    /\ Split(planned) = planned /\ ~InvalidLinks(planned)
                    /\ leg = "imported" => Slugs(planned) \subseteq written \cup torn
  BY DEF NothingLost
<1> PICK items : items = Scoped(read)
  OBVIOUS
<1> PICK p : p = planned
  OBVIOUS
<1>1. ItemsFit(items) /\ p = Split(items)
  BY ScopedFits DEF ReadFits, PlannedFits
<1>2. ASSUME NEW i \in Range(items)
      PROVE  \/ \E d \in Deliveries(p) : d[1].key = i.key \/ (i.type = "Story" /\ d[1].parent = i.key)
             \/ \E w \in Warnings(p) : w.key = i.key \/ (i.type = "Story" /\ w.parent = i.key)
  <2>1. PICK e \in DeliveryItems(p) : Speaks(e, i)
    BY <1>1, SpokenFor
  <2>2. (\E d \in Deliveries(p) : d[1] = e) \/ e \in Warnings(p)
    BY DeliveredOrWarned
  <2> QED BY <2>1, <2>2 DEF Speaks
<1>3. \A i \in Range(items), r \in errand.roles \cap (FrontRoles \cup BackRoles) :
        i.type = "Story" /\ i.labels = {} /\ i.key \notin ParentKeys(items) =>
          Cardinality({d \in Deliveries(p) : d[1].type = "Task" /\ d[1].parent = i.key /\ d[2] = r}) = 1
  BY <1>1, OneTaskEach
<1>4. Settled(p) /\ Split(p) = p
  <2> PICK normal : normal = Normalised(items)
    OBVIOUS
  <2>1. ItemsFit(normal) /\ Settled(normal) /\ SplitInto(normal, p)
    BY <1>1, NormalisedFits, SplitElements
  <2> QED BY <2>1, SplitSettles
<1>5. ~InvalidLinks(p)
  BY <1>4 DEF InvalidLinks, Settled, Range
<1>6. ASSUME leg = "imported" PROVE Slugs(p) \subseteq written \cup torn
  <2>1. at = Len(p) /\ \A n \in 1..at : SlugOf(p[n].key) \in written \cup torn
    BY <1>6 DEF FilesFit
  <2>2. p \in Seq(SprintItem)
    BY DEF RunFits
  <2>3. DOMAIN p = 1..Len(p)
    BY <2>2
  <2>4. \A n \in DOMAIN p : SlugOf(p[n].key) \in written \cup torn
    BY <2>1, <2>3
  <2> QED BY <2>4 DEF Slugs, Keys, Range
<1> QED BY <1>1, <1>2, <1>3, <1>4, <1>5, <1>6

(* What is read reaches the repositories.                                  *)
THEOREM IntakeKept == IntakeSpec => []Intake
<1>1. IntakeInv => Intake
  BY ReadsOnceFits, NothingLostFits DEF Intake
<1> QED BY <1>1, IntakeInvHolds, PTL

(* Items, keys and names stay what they are.                               *)
THEOREM IntakeTypeOKKept == IntakeSpec => []IntakeTypeOK
<1>1. IntakeInv => IntakeTypeOK
  <2> SUFFICES ASSUME IntakeInv PROVE IntakeTypeOK
    OBVIOUS
  <2>1. \A i \in Range(board) \cup Range(read) \cup Range(planned) : i \in SprintItem
    <3> PICK b, q, p : b = board /\ q = read /\ p = planned
      OBVIOUS
    <3>1. BoardFits /\ ReadFits /\ RunFits
      BY DEF IntakeInv
    <3>2. b \in Seq(SprintItem) /\ q \in Seq(SprintItem) /\ p \in Seq(SprintItem)
      BY <3>1 DEF BoardFits, ReadFits, ItemsFit, RunFits
    <3>3. \A s \in Seq(SprintItem) : \A n \in DOMAIN s : s[n] \in SprintItem
      OBVIOUS
    <3> QED BY <3>2, <3>3 DEF Range
  <2>2. \A i \in elsewhere : i \in SprintItem
    BY KnownFits DEF IntakeInv, BoardFits, InWorld
  <2> QED BY <2>1, <2>2 DEF IntakeInv, RunFits, IntakeTypeOK
<1> QED BY <1>1, IntakeInvHolds, PTL
------------------------------------------------------------------------------
Dossiers ==
  [failing : SUBSET Check, files : SUBSET ChangedFiles, words : SUBSET Word,
   checks : SUBSET DomainChecks, places : [DOMAIN Weight -> DOMAIN Scores],
   sections : SUBSET DOMAIN SectionWeight, facts : SUBSET OssFact, profile : BOOLEAN,
   done : SUBSET {t[1] : t \in Touches}]

(* Something changed, and no test was written for it.                      *)
Untested(d) == d.files # {} /\ \A f \in d.files : f.kind # "test"

PublicationInv ==
  /\ dossier \in Dossiers /\ Untested(dossier)
  /\ opinion = Opinion(dossier)
  /\ asking \in Asking
  /\ defects \in 0..MaxDefects

(* What is known in e is no better than what is known in d.                *)
Worse(d, e) ==
  /\ d.failing \subseteq e.failing /\ d.files \subseteq e.files /\ d.words \subseteq e.words
  /\ d.checks \subseteq e.checks /\ \A c \in DOMAIN Weight : d.places[c] <= e.places[c]
  /\ e.sections \subseteq d.sections /\ e.facts \subseteq d.facts /\ e.profile = d.profile
  /\ d.done \subseteq e.done

NoBetter(kind, v, w) == Place(kind, v) <= Place(kind, w)

(* Verdicts of a ladder with two, three and five rungs.                    *)
LEMMA TwoRungs ==
  ASSUME NEW kind, NEW a, NEW b, a # b, Ladder[kind] = <<a, b>>
  PROVE  Place(kind, a) = 1 /\ Place(kind, b) = 2
<1> DEFINE l == <<a, b>>
<1>1. DOMAIN l = {1, 2} /\ l[1] = a /\ l[2] = b
  OBVIOUS
<1> HIDE DEF l
<1>2. Place(kind, a) = (CHOOSE i \in {1, 2} : l[i] = a) /\ Place(kind, b) = (CHOOSE i \in {1, 2} : l[i] = b)
  BY <1>1 DEF Place, l
<1>3. \A i \in {1, 2} : (l[i] = a <=> i = 1) /\ (l[i] = b <=> i = 2)
  BY <1>1
<1> QED BY <1>2, <1>3

(* With three of them.                                                     *)
LEMMA ThreeRungs ==
  ASSUME NEW kind, NEW a, NEW b, NEW c, a # b, b # c, a # c, Ladder[kind] = <<a, b, c>>
  PROVE  Place(kind, a) = 1 /\ Place(kind, b) = 2 /\ Place(kind, c) = 3
<1> DEFINE l == <<a, b, c>>
<1>1. DOMAIN l = {1, 2, 3} /\ l[1] = a /\ l[2] = b /\ l[3] = c
  OBVIOUS
<1> HIDE DEF l
<1>2. \A v : Place(kind, v) = (CHOOSE i \in {1, 2, 3} : l[i] = v)
  BY <1>1 DEF Place, l
<1>3. \A i \in {1, 2, 3} : (l[i] = a <=> i = 1) /\ (l[i] = b <=> i = 2) /\ (l[i] = c <=> i = 3)
  BY <1>1
<1> QED BY <1>2, <1>3

(* The ladder of risks.                                                    *)
LEMMA RiskPlaces ==
  /\ Place("risk", "docs-only") = 1 /\ Place("risk", "low") = 2 /\ Place("risk", "medium") = 3
  /\ Place("risk", "high") = 4 /\ Place("risk", "critical") = 5
<1> DEFINE l == <<"docs-only", "low", "medium", "high", "critical">>
<1>1. DOMAIN l = {1, 2, 3, 4, 5} /\ l[1] = "docs-only" /\ l[2] = "low" /\ l[3] = "medium" /\ l[4] = "high" /\ l[5] = "critical"
  OBVIOUS
<1>0. Ladder["risk"] = l
  BY DEF Ladder
<1> HIDE DEF l
<1>2. \A v : Place("risk", v) = (CHOOSE i \in {1, 2, 3, 4, 5} : l[i] = v)
  BY <1>0, <1>1 DEF Place
<1>3. \A i \in {1, 2, 3, 4, 5} :
        /\ (l[i] = "docs-only" <=> i = 1) /\ (l[i] = "low" <=> i = 2) /\ (l[i] = "medium" <=> i = 3)
        /\ (l[i] = "high" <=> i = 4) /\ (l[i] = "critical" <=> i = 5)
  BY <1>1
<1> QED BY <1>2, <1>3

(* More severities never make a better gate.                               *)
Severities == {"warning", "error", "blocking"}
(* With more severities a gate does not say anything better.               *)
LEMMA GateGrows ==
  ASSUME NEW kind, Ladder[kind] = <<"pass", "needs_human_approval", "needs_rework">>,
         NEW R, NEW S, R \subseteq S, S \subseteq Severities, NEW a \in BOOLEAN
  PROVE  NoBetter(kind, GateVerdict(R, a), GateVerdict(S, a))
<1>1. Place(kind, "pass") = 1 /\ Place(kind, "needs_human_approval") = 2 /\ Place(kind, "needs_rework") = 3
  BY ThreeRungs
<1>2. CASE R \cap {"blocking", "error"} # {}
  <2>1. S \cap {"blocking", "error"} # {}
    BY <1>2
  <2>2. GateVerdict(R, a) = "needs_rework" /\ GateVerdict(S, a) = "needs_rework"
    BY <1>2, <2>1 DEF GateVerdict
  <2> QED BY <1>1, <2>2 DEF NoBetter
<1>3. CASE R \cap {"blocking", "error"} = {} /\ R = {"warning"} /\ a
  <2>1. S \cap {"blocking", "error"} # {} \/ S = {"warning"}
    BY <1>3 DEF Severities
  <2>2. GateVerdict(R, a) = "needs_human_approval" /\ GateVerdict(S, a) \in {"needs_human_approval", "needs_rework"}
    BY <1>3, <2>1 DEF GateVerdict
  <2> QED BY <1>1, <2>2 DEF NoBetter
<1>4. CASE R \cap {"blocking", "error"} = {} /\ ~(R = {"warning"} /\ a)
  <2>1. GateVerdict(R, a) = "pass"
    BY <1>4 DEF GateVerdict
  <2>2. GateVerdict(S, a) \in {"pass", "needs_human_approval", "needs_rework"}
    BY DEF GateVerdict
  <2> QED BY <1>1, <2>1, <2>2 DEF NoBetter
<1> QED BY <1>2, <1>3, <1>4

------------------------------------------------------------------------------
(* The gate: one more failing check.                                       *)
LEMMA GateNoBetter ==
  ASSUME NEW c, c \subseteq Check, NEW d, d \subseteq c, NEW a \in BOOLEAN
  PROVE  NoBetter("gate", Gate(d, a), Gate(c, a))
<1>1. \A x \in Check : Severity[x] \in Severities
  BY DEF Severity, Check, Severities
<1>2. {Severity[x] : x \in d} \subseteq {Severity[x] : x \in c} /\ {Severity[x] : x \in c} \subseteq Severities
  BY <1>1
<1>3. Ladder["gate"] = <<"pass", "needs_human_approval", "needs_rework">>
  BY DEF Ladder
<1> QED BY <1>2, <1>3, GateGrows DEF Gate

(* The diff: one more file, none of them a test.                           *)
LEMMA DiffNoBetter ==
  ASSUME NEW e, NEW d, d \subseteq e, \A f \in e : f.kind # "test", NEW a \in BOOLEAN
  PROVE  NoBetter("diff", Diff(d, a), Diff(e, a))
<1>1. Place("diff", "pass") = 1 /\ Place("diff", "warn") = 2 /\ Place("diff", "block") = 3
  <2>1. Ladder["diff"] = <<"pass", "warn", "block">>
    BY DEF Ladder
  <2> QED BY <2>1, ThreeRungs
<1>2. MissingTests(d) \subseteq MissingTests(e)
  BY DEF MissingTests
<1>3. DiffWarnings(d, a) \subseteq DiffWarnings(e, a)
  BY DEF DiffWarnings
<1>4. CASE MissingTests(d) # {}
  BY <1>1, <1>2, <1>4 DEF Diff, NoBetter
<1>5. CASE MissingTests(d) = {} /\ DiffWarnings(d, a) # {}
  <2>1. DiffWarnings(e, a) # {}
    BY <1>3, <1>5
  <2>2. Diff(d, a) = "warn" /\ Diff(e, a) \in {"warn", "block"}
    BY <1>5, <2>1 DEF Diff
  <2> QED BY <1>1, <2>2 DEF NoBetter
<1>6. CASE MissingTests(d) = {} /\ DiffWarnings(d, a) = {}
  <2>1. Diff(d, a) = "pass" /\ Diff(e, a) \in {"pass", "warn", "block"}
    BY <1>6 DEF Diff
  <2> QED BY <1>1, <2>1 DEF NoBetter
<1> QED BY <1>4, <1>5, <1>6

(* The domain gate: one more check, satisfied or not.                      *)
LEMMA DomainNoBetter ==
  ASSUME NEW e, NEW d, d \subseteq e, NEW x \in BOOLEAN, NEW a \in BOOLEAN
  PROVE  NoBetter("domain", Domain(d, x, a), Domain(e, x, a))
<1>0. Ladder["domain"] = <<"pass", "needs_human_approval", "needs_rework">>
  BY DEF Ladder
<1>1. /\ Place("domain", "pass") = 1 /\ Place("domain", "needs_human_approval") = 2
      /\ Place("domain", "needs_rework") = 3
  BY <1>0, ThreeRungs
<1> PICK R, S : R = DomainSeverities(d) /\ S = DomainSeverities(e)
  OBVIOUS
<1>2. R \subseteq S /\ S \subseteq {"blocking", "warning"}
  BY DEF DomainSeverities
<1>3. CASE R = {} /\ x /\ a
  <2>1. Domain(d, x, a) = "needs_human_approval"
    BY <1>3 DEF Domain
  <2>2. Domain(e, x, a) \in {"needs_human_approval", "needs_rework"}
    <3>1. CASE S = {}
      BY <1>3, <3>1 DEF Domain
    <3>2. CASE S # {}
      <4>1. S \cap {"blocking", "error"} # {} \/ S = {"warning"}
        BY <1>2, <3>2
      <4>2. GateVerdict(S, TRUE) \in {"needs_human_approval", "needs_rework"}
        BY <4>1 DEF GateVerdict
      <4> QED BY <3>2, <4>2 DEF Domain
    <3> QED BY <3>1, <3>2
  <2> QED BY <1>1, <2>1, <2>2 DEF NoBetter
<1>4. CASE R # {} \/ ~x \/ ~a
  <2>1. Domain(d, x, a) = GateVerdict(R, TRUE) /\ Domain(e, x, a) = GateVerdict(S, TRUE)
    BY <1>2, <1>4 DEF Domain
  <2>2. S \subseteq Severities
    BY <1>2 DEF Severities
  <2> QED BY <1>0, <1>2, <2>1, <2>2, GateGrows
<1> QED BY <1>3, <1>4

(* The risk: one more word, one more file.                                 *)
LEMMA RiskNoBetter ==
  ASSUME NEW v, NEW w, v \subseteq w, w \subseteq Word, NEW d, NEW e, d \subseteq e, d # {}
  PROVE  NoBetter("risk", Risk(v, d), Risk(w, e))
<1>1. DocsOnly(e) => DocsOnly(d)
  BY DEF DocsOnly
<1>2. CASE "sensitive" \in v
  <2>1. Risk(v, d) = "critical" /\ Risk(w, e) = "critical"
    BY <1>2 DEF Risk
  <2> QED BY <2>1, RiskPlaces DEF NoBetter
<1>3. CASE "sensitive" \notin v /\ v \cap {"delivery", "business"} # {}
  <2>1. Risk(v, d) = "high"
    BY <1>3 DEF Risk
  <2>2. w \cap {"delivery", "business"} # {}
    BY <1>3
  <2>3. Risk(w, e) \in {"high", "critical"}
    BY <2>2 DEF Risk
  <2> QED BY <2>1, <2>3, RiskPlaces DEF NoBetter
<1>4. CASE v = {"integration"} /\ ~DocsOnly(d)
  <2>1. Risk(v, d) = "medium"
    BY <1>4 DEF Risk
  <2>2. "sensitive" \in w \/ w \cap {"delivery", "business"} # {} \/ w = {"integration"}
    BY <1>4 DEF Word
  <2>3. Risk(w, e) \in {"medium", "high", "critical"}
    BY <1>1, <1>4, <2>2 DEF Risk
  <2> QED BY <2>1, <2>3, RiskPlaces DEF NoBetter
<1>5. CASE "sensitive" \notin v /\ v \cap {"delivery", "business"} = {} /\ (v # {"integration"} \/ DocsOnly(d))
  <2>1. Risk(v, d) = IF DocsOnly(d) THEN "docs-only" ELSE "low"
    BY <1>5 DEF Risk
  <2>2. /\ Risk(w, e) \in {"docs-only", "low", "medium", "high", "critical"}
        /\ Risk(w, e) = "docs-only" => DocsOnly(e)
    <3>1. CASE "sensitive" \in w
      BY <3>1 DEF Risk
    <3>2. CASE "sensitive" \notin w /\ w \cap {"delivery", "business"} # {}
      BY <3>2 DEF Risk
    <3>3. CASE "sensitive" \notin w /\ w \cap {"delivery", "business"} = {} /\ w = {"integration"} /\ ~DocsOnly(e)
      BY <3>3 DEF Risk
    <3>4. CASE "sensitive" \notin w /\ w \cap {"delivery", "business"} = {} /\ ~(w = {"integration"} /\ ~DocsOnly(e))
      BY <3>4 DEF Risk
    <3> QED BY <3>1, <3>2, <3>3, <3>4
  <2> QED BY <1>1, <2>1, <2>2, RiskPlaces DEF NoBetter
<1> QED BY <1>2, <1>3, <1>4, <1>5

(* What Risk may say.                                                      *)
Risks == {"docs-only", "low", "medium", "high", "critical"}
(* Nothing else is said of a risk.                                         *)
LEMMA RiskIs ==
  ASSUME NEW w, NEW e
  PROVE  Risk(w, e) \in Risks
<1>1. CASE "sensitive" \in w
  BY <1>1 DEF Risk, Risks
<1>2. CASE "sensitive" \notin w /\ w \cap {"delivery", "business"} # {}
  BY <1>2 DEF Risk, Risks
<1>3. CASE "sensitive" \notin w /\ w \cap {"delivery", "business"} = {} /\ w = {"integration"} /\ ~DocsOnly(e)
  BY <1>3 DEF Risk, Risks
<1>4. CASE "sensitive" \notin w /\ w \cap {"delivery", "business"} = {} /\ ~(w = {"integration"} /\ ~DocsOnly(e))
  BY <1>4 DEF Risk, Risks
<1> QED BY <1>1, <1>2, <1>3, <1>4

(* Stages grow with the risk.                                              *)
LEMMA StagesOf ==
  /\ \A r \in {"docs-only", "low"} : Cardinality(Stages(r)) = 1
  /\ Cardinality(Stages("medium")) = 2
  /\ \A r \in {"high", "critical"} : Cardinality(Stages(r)) = 3
<1>1. IsFiniteSet({"focused"}) /\ Cardinality({"focused"}) = 1
  BY FS_Singleton
<1>2. "regression" \notin {"focused"}
  OBVIOUS
<1>3. /\ IsFiniteSet({"focused"} \cup {"regression"})
      /\ Cardinality({"focused"} \cup {"regression"}) = 2
  <2>1. Cardinality({"focused"} \cup {"regression"}) = Cardinality({"focused"}) + 1
    BY <1>1, <1>2, FS_AddElement
  <2>2. IsFiniteSet({"focused"} \cup {"regression"})
    BY <1>1, FS_AddElement
  <2> QED BY <1>1, <2>1, <2>2
<1>4. "evidence" \notin {"focused"} \cup {"regression"}
  OBVIOUS
<1>5. Cardinality(({"focused"} \cup {"regression"}) \cup {"evidence"}) = 3
  <2>1. Cardinality(({"focused"} \cup {"regression"}) \cup {"evidence"}) = Cardinality({"focused"} \cup {"regression"}) + 1
    BY <1>3, <1>4, FS_AddElement
  <2> QED BY <1>3, <2>1
<1>6. \A r \in {"docs-only", "low"} : Stages(r) = {"focused"}
  BY DEF Stages
<1>7. Stages("medium") = {"focused"} \cup {"regression"}
  BY DEF Stages
<1>8. \A r \in {"high", "critical"} : Stages(r) = ({"focused"} \cup {"regression"}) \cup {"evidence"}
  BY DEF Stages
<1> QED BY <1>1, <1>3, <1>5, <1>6, <1>7, <1>8

(* What follows a risk follows a greater one at least as closely.          *)
LEMMA RiskFollows ==
  ASSUME NEW r \in Risks, NEW s \in Risks, NoBetter("risk", r, s), NEW p \in BOOLEAN
  PROVE  /\ NoBetter("retries", Budget(r), Budget(s))
         /\ NoBetter("stages", Cardinality(Stages(r)), Cardinality(Stages(s)))
         /\ NoBetter("authorised", Authorise(p, r), Authorise(p, s))
<1>1. Place("retries", 1) = 1 /\ Place("retries", 2) = 2 /\ Place("retries", 3) = 3
  <2>1. Ladder["retries"] = <<1, 2, 3>>
    BY DEF Ladder
  <2> QED BY <2>1, ThreeRungs
<1>2. Place("stages", 1) = 1 /\ Place("stages", 2) = 2 /\ Place("stages", 3) = 3
  <2>1. Ladder["stages"] = <<1, 2, 3>>
    BY DEF Ladder
  <2> QED BY <2>1, ThreeRungs
<1>3. Place("authorised", "auto") = 1 /\ Place("authorised", "manual") = 2
  <2>1. Ladder["authorised"] = <<"auto", "manual">>
    BY DEF Ladder
  <2> QED BY <2>1, TwoRungs
<1>4. \/ r \in {"docs-only", "low"}
      \/ r = "medium" /\ s \in {"medium", "high", "critical"}
      \/ r \in {"high", "critical"} /\ s \in {"high", "critical"}
  BY RiskPlaces DEF Risks, NoBetter
<1>5. Budget(r) \in {1, 2, 3} /\ Budget(s) \in {1, 2, 3} /\ Budget(r) <= Budget(s)
  BY <1>4 DEF Budget, Risks
<1>6. /\ Cardinality(Stages(r)) \in {1, 2, 3} /\ Cardinality(Stages(s)) \in {1, 2, 3}
      /\ Cardinality(Stages(r)) <= Cardinality(Stages(s))
  BY <1>4, StagesOf DEF Risks
<1>7. Authorise(p, r) = "manual" => Authorise(p, s) = "manual"
  BY <1>4 DEF Authorise
<1>8. Authorise(p, r) \in {"auto", "manual"} /\ Authorise(p, s) \in {"auto", "manual"}
  BY DEF Authorise
<1> QED BY <1>1, <1>2, <1>3, <1>5, <1>6, <1>7, <1>8 DEF NoBetter
(* The places of scores, and the scores there.                             *)
Raw(p) == [c \in DOMAIN Weight |-> Scores[p[c]]]

(* The parts of the readiness score.                                       *)
LEMMA WeightsAre ==
  /\ IsFiniteSet(DOMAIN Weight)
  /\ \A c \in DOMAIN Weight : Weight[c] \in {25, 15, 20, 10}
<1>1. DOMAIN Weight = {"quality_gate", "diff_verifier", "validations", "evidence_completeness", "ci_status",
                       "review_status"}
  BY DEF Weight
<1>2. IsFiniteSet({"quality_gate", "diff_verifier", "validations", "evidence_completeness", "ci_status", "review_status"})
  BY SixFinite
<1>3. /\ Weight["quality_gate"] = 25 /\ Weight["diff_verifier"] = 15 /\ Weight["validations"] = 20
      /\ Weight["evidence_completeness"] = 15 /\ Weight["ci_status"] = 15 /\ Weight["review_status"] = 10
  BY DEF Weight
<1> QED BY <1>1, <1>2, <1>3

(* A score that falls, or stays.                                           *)
LEMMA ScoreFallsWith ==
  ASSUME NEW p \in [DOMAIN Weight -> DOMAIN Scores], NEW q \in [DOMAIN Weight -> DOMAIN Scores],
         \A c \in DOMAIN Weight : p[c] <= q[c]
  PROVE  NoBetter("readiness", Readiness(Raw(p)), Readiness(Raw(q)))
<1> PICK W : W = DOMAIN Weight
  OBVIOUS
<1> PICK f : f = [c \in W |-> Weight[c] * Raw(q)[c]]
  OBVIOUS
<1> PICK e : e = [c \in W |-> Weight[c] * Raw(p)[c]]
  OBVIOUS
<1>1. ASSUME NEW c \in W PROVE f[c] \in Nat /\ e[c] \in Nat /\ f[c] <= e[c]
  <2>1. p[c] \in DOMAIN Scores /\ q[c] \in DOMAIN Scores /\ p[c] <= q[c]
    OBVIOUS
  <2>2. Scores[p[c]] \in 0..100 /\ Scores[q[c]] \in 0..100
    BY <2>1, PublicationAssumption
  <2>3. Scores[q[c]] <= Scores[p[c]]
    <3>1. CASE p[c] = q[c]
      BY <2>2, <3>1
    <3>2. CASE p[c] # q[c]
      <4>1. p[c] \in Nat /\ q[c] \in Nat
        BY <2>1, PublicationAssumption
      <4>2. p[c] < q[c]
        BY <2>1, <3>2, <4>1
      <4> QED BY <2>1, <4>2, ScoresFall
    <3> QED BY <3>1, <3>2
  <2>4. f[c] = Weight[c] * Scores[q[c]] /\ e[c] = Weight[c] * Scores[p[c]]
    BY DEF Raw
  <2>5. PICK x, y : x = Scores[q[c]] /\ y = Scores[p[c]]
    OBVIOUS
  <2>6. x \in Nat /\ y \in Nat /\ x <= y
    BY <2>2, <2>3, <2>5
  <2>7. Weight[c] \in {25, 15, 20, 10}
    BY WeightsAre
  <2>8. \A w \in {25, 15, 20, 10} : w * x \in Nat /\ w * y \in Nat /\ w * x <= w * y
    BY <2>6
  <2> QED BY <2>4, <2>5, <2>7, <2>8
<1>2. PICK s, t : s = Score(Raw(p)) /\ t = Score(Raw(q))
  OBVIOUS
<1>3. s = SumFunctionOnSet(e, W) /\ t = SumFunctionOnSet(f, W)
  <2>1. DOMAIN e = W /\ DOMAIN f = W
    OBVIOUS
  <2>2. s = SumFunction(e) /\ t = SumFunction(f)
    BY <1>2 DEF Score
  <2> QED BY <2>1, <2>2 DEF SumFunction
<1>4. s \in Nat /\ t \in Nat /\ t <= s
  <2>1. SumFunctionOnSet(f, W) \in Nat /\ SumFunctionOnSet(e, W) \in Nat /\ SumFunctionOnSet(f, W) <= SumFunctionOnSet(e, W)
    BY <1>1, SumLess, WeightsAre
  <2> QED BY <1>3, <2>1
<1>5. PICK A, H : A = 100 * AutoPublish /\ H = 100 * HumanApproval
  OBVIOUS
<1>6. A \in Nat /\ H \in Nat /\ H < A
  BY <1>5, GatesAssumption
<1>7. ASSUME NEW r, NEW n \in Nat, n = Score(r)
      PROVE  Readiness(r) = IF n >= A THEN "auto_publish" ELSE IF n >= H THEN "needs_human_approval" ELSE "blocked"
  <2>1. CASE n >= A
    <3>1. n \notin H..(A - 1)
      BY <1>6, <2>1
    <3> QED BY <1>5, <1>7, <2>1, <3>1 DEF Readiness
  <2>2. CASE ~(n >= A) /\ n >= H
    <3>1. n \in H..(A - 1)
      BY <1>6, <2>2
    <3> QED BY <1>5, <1>6, <1>7, <2>2, <3>1 DEF Readiness
  <2>3. CASE ~(n >= A) /\ ~(n >= H)
    <3>1. n \notin H..(A - 1)
      BY <1>6, <2>3
    <3> QED BY <1>5, <1>6, <1>7, <2>3, <3>1 DEF Readiness
  <2> QED BY <2>1, <2>2, <2>3
<1>8. /\ Place("readiness", "auto_publish") = 1 /\ Place("readiness", "needs_human_approval") = 2
      /\ Place("readiness", "blocked") = 3
  <2>1. Ladder["readiness"] = <<"auto_publish", "needs_human_approval", "blocked">>
    BY DEF Ladder
  <2> QED BY <2>1, ThreeRungs
<1>9. /\ Readiness(Raw(p)) = IF s >= A THEN "auto_publish" ELSE IF s >= H THEN "needs_human_approval" ELSE "blocked"
      /\ Readiness(Raw(q)) = IF t >= A THEN "auto_publish" ELSE IF t >= H THEN "needs_human_approval" ELSE "blocked"
  BY <1>2, <1>4, <1>7
<1> QED BY <1>4, <1>6, <1>8, <1>9 DEF NoBetter

(* An issue that says less.                                                *)
LEMMA IssueNoBetter ==
  ASSUME NEW d, d \subseteq DOMAIN SectionWeight, NEW e, e \subseteq d
  PROVE  NoBetter("issue", IssueQuality(d), IssueQuality(e))
<1>1. Place("issue", "passes") = 1 /\ Place("issue", "planning") = 2
  <2>1. Ladder["issue"] = <<"passes", "planning">>
    BY DEF Ladder
  <2> QED BY <2>1, TwoRungs
<1>2. DOMAIN SectionWeight = {"objective", "scope", "acceptance_criteria", "test_plan", "constraints", "evidence",
                              "reproduction_steps"}
  BY DEF SectionWeight
<1>3. IsFiniteSet(DOMAIN SectionWeight)
  <2>1. IsFiniteSet({"objective", "scope", "acceptance_criteria", "test_plan", "constraints", "evidence"})
    BY SixFinite
  <2>2. IsFiniteSet({"objective", "scope", "acceptance_criteria", "test_plan", "constraints", "evidence"}
                      \cup {"reproduction_steps"})
    BY <2>1, FS_AddElement
  <2> QED BY <1>2, <2>2
<1>4. \A x \in DOMAIN SectionWeight : SectionWeight[x] \in Nat
  <2>1. /\ SectionWeight["objective"] = 15 /\ SectionWeight["scope"] = 15 /\ SectionWeight["acceptance_criteria"] = 20
        /\ SectionWeight["test_plan"] = 15 /\ SectionWeight["constraints"] = 10 /\ SectionWeight["evidence"] = 15
        /\ SectionWeight["reproduction_steps"] = 10
    BY DEF SectionWeight
  <2> QED BY <1>2, <2>1
<1>5. Sections(e) \subseteq Sections(d) /\ Sections(d) \subseteq DOMAIN SectionWeight
  BY <1>2 DEF Sections
<1>6. IsFiniteSet(Sections(d))
  BY <1>3, <1>5, FS_Subset
<1>7. PICK s, t : s = SumFunctionOnSet(SectionWeight, Sections(d)) /\ t = SumFunctionOnSet(SectionWeight, Sections(e))
  OBVIOUS
<1>8. s \in Nat /\ t \in Nat /\ t <= s
  <2>1. /\ \A x \in Sections(d) : SectionWeight[x] \in Nat
        /\ \A x \in Sections(e) : SectionWeight[x] \in Nat /\ SectionWeight[x] <= SectionWeight[x]
    BY <1>4, <1>5
  <2>2. /\ SumFunctionOnSet(SectionWeight, Sections(e)) \in Nat
        /\ SumFunctionOnSet(SectionWeight, Sections(d)) \in Nat
        /\ SumFunctionOnSet(SectionWeight, Sections(e)) <= SumFunctionOnSet(SectionWeight, Sections(d))
    BY <1>5, <1>6, <2>1, SumLess
  <2> QED BY <1>7, <2>2
<1>9. /\ IssueQuality(d) = IF s >= 70 THEN "passes" ELSE "planning"
      /\ IssueQuality(e) = IF t >= 70 THEN "passes" ELSE "planning"
  BY <1>7 DEF IssueQuality
<1> QED BY <1>1, <1>8, <1>9 DEF NoBetter

(* The facts of a contribution, and the work that was done before.         *)
LEMMA FactsNoBetter ==
  ASSUME NEW d, NEW e, e \subseteq d
  PROVE  NoBetter("dedupe", OssDedupe(d), OssDedupe(e)) /\ NoBetter("oss", OssPublish(d), OssPublish(e))
<1>1. Place("dedupe", "passed") = 1 /\ Place("dedupe", "blocked") = 2
  <2>1. Ladder["dedupe"] = <<"passed", "blocked">>
    BY DEF Ladder
  <2> QED BY <2>1, TwoRungs
<1>2. Place("oss", "ready") = 1 /\ Place("oss", "blocked") = 2
  <2>1. Ladder["oss"] = <<"ready", "blocked">>
    BY DEF Ladder
  <2> QED BY <2>1, TwoRungs
<1>3. NoBetter("dedupe", OssDedupe(d), OssDedupe(e))
  BY <1>1 DEF OssDedupe, NoBetter
<1>4. NoBetter("oss", OssPublish(d), OssPublish(e))
  BY <1>2 DEF OssPublish, NoBetter
<1> QED BY <1>3, <1>4

Refusal(b) == IF b THEN "refused" ELSE "new"
(* More work was done before.                                              *)
LEMMA WorkNoBetter ==
  ASSUME NEW d, NEW e, d \subseteq e, NEW f, NEW t
  PROVE  NoBetter("work", Refusal(DuplicateWork(d, f, t)), Refusal(DuplicateWork(e, f, t)))
<1>1. Place("work", "new") = 1 /\ Place("work", "refused") = 2
  <2>1. Ladder["work"] = <<"new", "refused">>
    BY DEF Ladder
  <2> QED BY <2>1, TwoRungs
<1>2. DuplicateWork(d, f, t) => DuplicateWork(e, f, t)
  BY DEF DuplicateWork, Overlap
<1> QED BY <1>1, <1>2 DEF NoBetter, Refusal
------------------------------------------------------------------------------
(* The opinion on a dossier that got worse.                                *)
OpinionOn(d, a) ==
  [gate |-> Gate(d.failing, a.human),
   diff |-> Diff(d.files, a.targets),
   domain |-> Domain(d.checks, a.external, a.explicit),
   risk |-> Risk(d.words, d.files),
   readiness |-> Readiness(Raw(d.places)),
   retries |-> Budget(Risk(d.words, d.files)),
   stages |-> Cardinality(Stages(Risk(d.words, d.files))),
   work |-> Refusal(DuplicateWork(d.done, {t[2] : t \in Touches}, Touches)),
   authorised |-> Authorise(d.profile, Risk(d.words, d.files)),
   issue |-> IssueQuality(d.sections),
   dedupe |-> OssDedupe(d.facts),
   oss |-> OssPublish(d.facts)]

Verdicts == {"gate", "diff", "domain", "risk", "readiness", "retries", "stages", "work", "authorised", "issue",
             "dedupe", "oss"}
(* The kinds of verdicts.                                                  *)
LEMMA Kinds == DOMAIN Ladder = Verdicts
  BY DEF Ladder, Verdicts

OpinionNoBetter(o, n) == \A kind \in Verdicts : NoBetter(kind, o[kind], n[kind])

(* All verdicts on a dossier that got worse.                               *)
LEMMA WorseOpinion ==
  ASSUME NEW d \in Dossiers, NEW e \in Dossiers, Untested(d), Untested(e), Worse(d, e), NEW a \in Asking
  PROVE  OpinionNoBetter(OpinionOn(d, a), OpinionOn(e, a))
<1> PICK o, n : o = OpinionOn(d, a) /\ n = OpinionOn(e, a)
  OBVIOUS
<1>0. a.human \in BOOLEAN /\ a.targets \in BOOLEAN /\ a.external \in BOOLEAN /\ a.explicit \in BOOLEAN
  BY PublicationAssumption
<1>1. NoBetter("gate", o["gate"], n["gate"])
  <2>1. NoBetter("gate", Gate(d.failing, a.human), Gate(e.failing, a.human))
    <3>1. d.failing \subseteq e.failing /\ e.failing \subseteq Check
      BY DEF Worse, Dossiers
    <3> QED BY <1>0, <3>1, GateNoBetter
  <2> QED BY <2>1 DEF OpinionOn
<1>2. NoBetter("diff", o["diff"], n["diff"])
  <2>1. NoBetter("diff", Diff(d.files, a.targets), Diff(e.files, a.targets))
    <3>1. d.files \subseteq e.files /\ \A f \in e.files : f.kind # "test"
      BY DEF Worse, Untested
    <3> QED BY <1>0, <3>1, DiffNoBetter
  <2> QED BY <2>1 DEF OpinionOn
<1>3. NoBetter("domain", o["domain"], n["domain"])
  <2>1. NoBetter("domain", Domain(d.checks, a.external, a.explicit), Domain(e.checks, a.external, a.explicit))
    <3>1. d.checks \subseteq e.checks
      BY DEF Worse
    <3> QED BY <1>0, <3>1, DomainNoBetter
  <2> QED BY <2>1 DEF OpinionOn
<1> PICK r, s : r = Risk(d.words, d.files) /\ s = Risk(e.words, e.files)
  OBVIOUS
<1>4. NoBetter("risk", r, s) /\ r \in Risks /\ s \in Risks
  <2>1. d.words \subseteq e.words /\ e.words \subseteq Word /\ d.files \subseteq e.files /\ d.files # {}
    BY DEF Worse, Dossiers, Untested
  <2>2. NoBetter("risk", r, s)
    BY <2>1, RiskNoBetter
  <2> QED BY <2>2, RiskIs
<1>5. NoBetter("risk", o["risk"], n["risk"])
  <2>1. o["risk"] = r /\ n["risk"] = s
    BY DEF OpinionOn
  <2> QED BY <1>4, <2>1
<1>6. NoBetter("readiness", o["readiness"], n["readiness"])
  <2>1. NoBetter("readiness", Readiness(Raw(d.places)), Readiness(Raw(e.places)))
    <3>1. /\ d.places \in [DOMAIN Weight -> DOMAIN Scores] /\ e.places \in [DOMAIN Weight -> DOMAIN Scores]
          /\ \A c \in DOMAIN Weight : d.places[c] <= e.places[c]
      BY DEF Worse, Dossiers
    <3> QED BY <3>1, ScoreFallsWith
  <2> QED BY <2>1 DEF OpinionOn
<1>7. /\ NoBetter("retries", o["retries"], n["retries"]) /\ NoBetter("stages", o["stages"], n["stages"])
      /\ NoBetter("authorised", o["authorised"], n["authorised"])
  <2>1. d.profile \in BOOLEAN /\ e.profile = d.profile
    BY DEF Worse, Dossiers
  <2>2. /\ NoBetter("retries", Budget(r), Budget(s))
        /\ NoBetter("stages", Cardinality(Stages(r)), Cardinality(Stages(s)))
        /\ NoBetter("authorised", Authorise(d.profile, r), Authorise(e.profile, s))
    BY <1>4, <2>1, RiskFollows
  <2>3. /\ o["retries"] = Budget(r) /\ n["retries"] = Budget(s)
        /\ o["stages"] = Cardinality(Stages(r)) /\ n["stages"] = Cardinality(Stages(s))
        /\ o["authorised"] = Authorise(d.profile, r) /\ n["authorised"] = Authorise(e.profile, s)
    BY DEF OpinionOn
  <2> QED BY <2>2, <2>3
<1>8. NoBetter("work", o["work"], n["work"])
  <2>1. d.done \subseteq e.done
    BY DEF Worse
  <2>2. NoBetter("work", Refusal(DuplicateWork(d.done, {t[2] : t \in Touches}, Touches)),
                         Refusal(DuplicateWork(e.done, {t[2] : t \in Touches}, Touches)))
    BY <2>1, WorkNoBetter
  <2> QED BY <2>2 DEF OpinionOn
<1>9. NoBetter("issue", o["issue"], n["issue"])
  <2>1. d.sections \subseteq DOMAIN SectionWeight /\ e.sections \subseteq d.sections
    BY DEF Worse, Dossiers
  <2>2. NoBetter("issue", IssueQuality(d.sections), IssueQuality(e.sections))
    BY <2>1, IssueNoBetter
  <2> QED BY <2>2 DEF OpinionOn
<1>10. NoBetter("dedupe", o["dedupe"], n["dedupe"]) /\ NoBetter("oss", o["oss"], n["oss"])
  <2>1. e.facts \subseteq d.facts
    BY DEF Worse
  <2>2. /\ NoBetter("dedupe", OssDedupe(d.facts), OssDedupe(e.facts))
        /\ NoBetter("oss", OssPublish(d.facts), OssPublish(e.facts))
    BY <2>1, FactsNoBetter
  <2>3. /\ o["dedupe"] = OssDedupe(d.facts) /\ n["dedupe"] = OssDedupe(e.facts)
        /\ o["oss"] = OssPublish(d.facts) /\ n["oss"] = OssPublish(e.facts)
    BY DEF OpinionOn
  <2> QED BY <2>2, <2>3
<1> QED BY <1>1, <1>2, <1>3, <1>5, <1>6, <1>7, <1>8, <1>9, <1>10 DEF OpinionNoBetter, Verdicts

(* Whatever the dossier, a verdict is on its ladder.                       *)
OnLadders(o) == \A kind \in Verdicts : o[kind] \in Range(Ladder[kind])

(* Either verdict is on its ladder.                                        *)
LEMMA OnTwo ==
  ASSUME NEW kind, NEW a, NEW b, Ladder[kind] = <<a, b>>, NEW v \in {a, b}
  PROVE  v \in Range(Ladder[kind])
<1>1. DOMAIN <<a, b>> = {1, 2} /\ <<a, b>>[1] = a /\ <<a, b>>[2] = b
  OBVIOUS
<1> QED BY <1>1 DEF Range

(* Each of three is.                                                       *)
LEMMA OnThree ==
  ASSUME NEW kind, NEW a, NEW b, NEW c, Ladder[kind] = <<a, b, c>>, NEW v \in {a, b, c}
  PROVE  v \in Range(Ladder[kind])
<1>1. DOMAIN <<a, b, c>> = {1, 2, 3} /\ <<a, b, c>>[1] = a /\ <<a, b, c>>[2] = b /\ <<a, b, c>>[3] = c
  OBVIOUS
<1> QED BY <1>1 DEF Range

(* Those of an opinion are.                                                *)
LEMMA OpinionFits ==
  ASSUME NEW d, NEW a
  PROVE  OnLadders(OpinionOn(d, a))
<1> PICK o : o = OpinionOn(d, a)
  OBVIOUS
<1>0. \A R, b : GateVerdict(R, b) \in {"pass", "needs_human_approval", "needs_rework"}
  <2> SUFFICES ASSUME NEW R, NEW b PROVE GateVerdict(R, b) \in {"pass", "needs_human_approval", "needs_rework"}
    OBVIOUS
  <2>1. CASE R \cap {"blocking", "error"} # {}
    BY <2>1 DEF GateVerdict
  <2>2. CASE R \cap {"blocking", "error"} = {} /\ R = {"warning"} /\ b
    BY <2>2 DEF GateVerdict
  <2>3. CASE R \cap {"blocking", "error"} = {} /\ ~(R = {"warning"} /\ b)
    BY <2>3 DEF GateVerdict
  <2> QED BY <2>1, <2>2, <2>3
<1>1. o["gate"] \in Range(Ladder["gate"])
  <2>1. Ladder["gate"] = <<"pass", "needs_human_approval", "needs_rework">>
    BY DEF Ladder
  <2>2. o["gate"] \in {"pass", "needs_human_approval", "needs_rework"}
    BY <1>0 DEF OpinionOn, Gate
  <2> QED BY <2>1, <2>2, OnThree
<1>2. o["diff"] \in Range(Ladder["diff"])
  <2>1. Ladder["diff"] = <<"pass", "warn", "block">>
    BY DEF Ladder
  <2>2. \A f, t : Diff(f, t) \in {"pass", "warn", "block"}
    <3> SUFFICES ASSUME NEW f, NEW t PROVE Diff(f, t) \in {"pass", "warn", "block"}
      OBVIOUS
    <3>1. CASE MissingTests(f) # {}
      BY <3>1 DEF Diff
    <3>2. CASE MissingTests(f) = {} /\ DiffWarnings(f, t) # {}
      BY <3>2 DEF Diff
    <3>3. CASE MissingTests(f) = {} /\ DiffWarnings(f, t) = {}
      BY <3>3 DEF Diff
    <3> QED BY <3>1, <3>2, <3>3
  <2>3. o["diff"] \in {"pass", "warn", "block"}
    BY <2>2 DEF OpinionOn
  <2> QED BY <2>1, <2>3, OnThree
<1>3. o["domain"] \in Range(Ladder["domain"])
  <2>1. Ladder["domain"] = <<"pass", "needs_human_approval", "needs_rework">>
    BY DEF Ladder
  <2>2. o["domain"] \in {"pass", "needs_human_approval", "needs_rework"}
    BY <1>0 DEF OpinionOn, Domain
  <2> QED BY <2>1, <2>2, OnThree
<1>4. o["risk"] \in Range(Ladder["risk"])
  <2>0. PICK l : l = <<"docs-only", "low", "medium", "high", "critical">>
    OBVIOUS
  <2>1. Ladder["risk"] = l
    BY <2>0 DEF Ladder
  <2>2. DOMAIN l = {1, 2, 3, 4, 5} /\ l[1] = "docs-only" /\ l[2] = "low" /\ l[3] = "medium" /\ l[4] = "high" /\ l[5] = "critical"
    BY <2>0
  <2>3. o["risk"] \in Risks
    BY RiskIs DEF OpinionOn
  <2> QED BY <2>1, <2>2, <2>3 DEF Range, Risks
<1>5. o["readiness"] \in Range(Ladder["readiness"])
  <2>1. Ladder["readiness"] = <<"auto_publish", "needs_human_approval", "blocked">>
    BY DEF Ladder
  <2>2. \A r : Readiness(r) \in {"auto_publish", "needs_human_approval", "blocked"}
    <3> SUFFICES ASSUME NEW r PROVE Readiness(r) \in {"auto_publish", "needs_human_approval", "blocked"}
      OBVIOUS
    <3> DEFINE P == Score(r) >= 100 * AutoPublish
               Q == Score(r) \in (100 * HumanApproval)..(100 * AutoPublish - 1)
    <3>0. Readiness(r) = CASE P -> "auto_publish" [] Q -> "needs_human_approval" [] OTHER -> "blocked"
      BY Zenon DEF Readiness
    <3> HIDE DEF P, Q
    <3>1. CASE P /\ ~Q
      BY <3>0, <3>1
    <3>2. CASE ~P /\ Q
      BY <3>0, <3>2
    <3>3. CASE ~P /\ ~Q
      BY <3>0, <3>3
    <3>4. CASE P /\ Q
      BY <3>0, <3>4
    <3> QED BY <3>1, <3>2, <3>3, <3>4
  <2>3. o["readiness"] \in {"auto_publish", "needs_human_approval", "blocked"}
    BY <2>2 DEF OpinionOn
  <2> QED BY <2>1, <2>3, OnThree
<1> PICK r \in Risks : r = Risk(d.words, d.files)
  BY RiskIs
<1>6. o["retries"] \in Range(Ladder["retries"])
  <2>1. Ladder["retries"] = <<1, 2, 3>>
    BY DEF Ladder
  <2>2. o["retries"] \in {1, 2, 3}
    BY DEF OpinionOn, Budget, Risks
  <2> QED BY <2>1, <2>2, OnThree
<1>7. o["stages"] \in Range(Ladder["stages"])
  <2>1. Ladder["stages"] = <<1, 2, 3>>
    BY DEF Ladder
  <2>2. Cardinality(Stages(r)) \in {1, 2, 3}
    BY StagesOf DEF Risks
  <2>3. o["stages"] \in {1, 2, 3}
    BY <2>2 DEF OpinionOn
  <2> QED BY <2>1, <2>3, OnThree
<1>8. o["work"] \in Range(Ladder["work"])
  <2>1. Ladder["work"] = <<"new", "refused">>
    BY DEF Ladder
  <2>2. o["work"] \in {"new", "refused"}
    BY DEF OpinionOn, Refusal
  <2> QED BY <2>1, <2>2, OnTwo
<1>9. o["authorised"] \in Range(Ladder["authorised"])
  <2>1. Ladder["authorised"] = <<"auto", "manual">>
    BY DEF Ladder
  <2>2. o["authorised"] \in {"auto", "manual"}
    BY DEF OpinionOn, Authorise
  <2> QED BY <2>1, <2>2, OnTwo
<1>10. o["issue"] \in Range(Ladder["issue"])
  <2>1. Ladder["issue"] = <<"passes", "planning">>
    BY DEF Ladder
  <2>2. o["issue"] \in {"passes", "planning"}
    BY DEF OpinionOn, IssueQuality
  <2> QED BY <2>1, <2>2, OnTwo
<1>11. o["dedupe"] \in Range(Ladder["dedupe"]) /\ o["oss"] \in Range(Ladder["oss"])
  <2>1. Ladder["dedupe"] = <<"passed", "blocked">> /\ Ladder["oss"] = <<"ready", "blocked">>
    BY DEF Ladder
  <2>2. o["dedupe"] \in {"passed", "blocked"} /\ o["oss"] \in {"ready", "blocked"}
    BY DEF OpinionOn, OssDedupe, OssPublish
  <2> QED BY <2>1, <2>2, OnTwo
<1> QED BY <1>1, <1>2, <1>3, <1>4, <1>5, <1>6, <1>7, <1>8, <1>9, <1>10, <1>11 DEF OnLadders, Verdicts
------------------------------------------------------------------------------
(* Whichever defect turns up, the dossier stays one, and got worse.        *)
GotWorse(d, e) == e \in Dossiers /\ Untested(e) /\ Worse(d, e)

(* Scores that were left alone.                                            *)
LEMMA PlacesSame ==
  ASSUME NEW d \in Dossiers, NEW e, e.places = d.places
  PROVE  \A c \in DOMAIN Weight : d.places[c] <= e.places[c]
<1> SUFFICES ASSUME NEW c \in DOMAIN Weight PROVE d.places[c] <= d.places[c]
  OBVIOUS
<1>1. d.places[c] \in Nat
  <2>1. d.places \in [DOMAIN Weight -> DOMAIN Scores]
    BY DEF Dossiers
  <2>2. d.places[c] \in DOMAIN Scores
    BY <2>1
  <2> QED BY <2>2, PublicationAssumption
<1> QED BY <1>1

(* Each defect makes the dossier worse.                                    *)
LEMMA DefectGotWorse ==
  ASSUME NEW d, d = dossier, d \in Dossiers, Untested(d), PublicationNext, NEW e, e = dossier'
  PROVE  GotWorse(d, e)
<1>0. ASSUME e.places = d.places PROVE \A c \in DOMAIN Weight : d.places[c] <= e.places[c]
  BY <1>0, PlacesSame
<1>1. CASE CheckFails
  <2>1. PICK c \in Check : e = [d EXCEPT !.failing = @ \cup {c}]
    BY <1>1 DEF CheckFails
  <2>2. e \in Dossiers
    BY <2>1 DEF Dossiers
  <2>3. e.places = d.places /\ e.files = d.files
    BY <2>1 DEF Dossiers
  <2> QED BY <1>0, <2>1, <2>2, <2>3 DEF GotWorse, Worse, Untested, Dossiers
<1>2. CASE FileTurnsUp
  <2>1. PICK f \in ChangedFiles : f.kind # "test" /\ e = [d EXCEPT !.files = @ \cup {f}]
    BY <1>2 DEF FileTurnsUp
  <2>2. e \in Dossiers
    BY <2>1 DEF Dossiers
  <2>3. e.places = d.places /\ e.files = d.files \cup {f}
    BY <2>1 DEF Dossiers
  <2>4. Untested(e)
    BY <2>1, <2>3 DEF Untested
  <2> QED BY <1>0, <2>1, <2>2, <2>3, <2>4 DEF GotWorse, Worse, Dossiers
<1>3. CASE WordFound
  <2>1. PICK w \in Word : e = [d EXCEPT !.words = @ \cup {w}]
    BY <1>3 DEF WordFound
  <2>2. e \in Dossiers
    BY <2>1 DEF Dossiers
  <2>3. e.places = d.places /\ e.files = d.files
    BY <2>1 DEF Dossiers
  <2> QED BY <1>0, <2>1, <2>2, <2>3 DEF GotWorse, Worse, Untested, Dossiers
<1>4. CASE CheckRegistered
  <2>1. PICK c \in DomainChecks : e = [d EXCEPT !.checks = @ \cup {c}]
    BY <1>4 DEF CheckRegistered
  <2>2. e \in Dossiers
    BY <2>1 DEF Dossiers
  <2>3. e.places = d.places /\ e.files = d.files
    BY <2>1 DEF Dossiers
  <2> QED BY <1>0, <2>1, <2>2, <2>3 DEF GotWorse, Worse, Untested, Dossiers
<1>5. CASE ScoreFalls
  <2>1. PICK c \in DOMAIN Weight : d.places[c] < Len(Scores) /\ e = [d EXCEPT !.places[c] = @ + 1]
    BY <1>5 DEF ScoreFalls
  <2> PICK p, q : p = d.places /\ q = e.places
    OBVIOUS
  <2>2. p \in [DOMAIN Weight -> DOMAIN Scores]
    BY DEF Dossiers
  <2>3. q = [p EXCEPT ![c] = @ + 1] /\ e = [d EXCEPT !.places = q]
    BY <2>1 DEF Dossiers
  <2>4. DOMAIN Scores = 1..Len(Scores) /\ Len(Scores) \in Nat
    BY PublicationAssumption
  <2>5. p[c] + 1 \in DOMAIN Scores
    <3>1. p[c] \in DOMAIN Scores
      BY <2>2
    <3> QED BY <2>1, <2>4, <3>1
  <2>6. q \in [DOMAIN Weight -> DOMAIN Scores]
    BY <2>2, <2>3, <2>5
  <2>7. \A x \in DOMAIN Weight : p[x] <= q[x]
    <3> SUFFICES ASSUME NEW x \in DOMAIN Weight PROVE p[x] <= q[x]
      OBVIOUS
    <3>1. p[x] \in Nat /\ (q[x] = p[x] \/ q[x] = p[x] + 1)
      BY <2>2, <2>3, <2>4
    <3> QED BY <3>1
  <2>8. e \in Dossiers
    BY <2>3, <2>6 DEF Dossiers
  <2>9. e.files = d.files /\ e.failing = d.failing /\ e.words = d.words /\ e.checks = d.checks /\ e.sections = d.sections
        /\ e.facts = d.facts /\ e.profile = d.profile /\ e.done = d.done
    BY <2>3 DEF Dossiers
  <2> QED BY <2>7, <2>8, <2>9 DEF GotWorse, Worse, Untested
<1>6. CASE SectionMissing
  <2>1. PICK s \in d.sections : e = [d EXCEPT !.sections = @ \ {s}]
    BY <1>6 DEF SectionMissing
  <2>2. e \in Dossiers
    BY <2>1 DEF Dossiers
  <2>3. e.places = d.places /\ e.files = d.files
    BY <2>1 DEF Dossiers
  <2> QED BY <1>0, <2>1, <2>2, <2>3 DEF GotWorse, Worse, Untested, Dossiers
<1>7. CASE FactFalls
  <2>1. PICK f \in d.facts : e = [d EXCEPT !.facts = @ \ {f}]
    BY <1>7 DEF FactFalls
  <2>2. e \in Dossiers
    BY <2>1 DEF Dossiers
  <2>3. e.places = d.places /\ e.files = d.files
    BY <2>1 DEF Dossiers
  <2> QED BY <1>0, <2>1, <2>2, <2>3 DEF GotWorse, Worse, Untested, Dossiers
<1>8. CASE WorkDone
  <2>1. PICK k \in {t[1] : t \in Touches} : e = [d EXCEPT !.done = @ \cup {k}]
    BY <1>8 DEF WorkDone
  <2>2. e \in Dossiers
    BY <2>1 DEF Dossiers
  <2>3. e.places = d.places /\ e.files = d.files
    BY <2>1 DEF Dossiers
  <2> QED BY <1>0, <2>1, <2>2, <2>3 DEF GotWorse, Worse, Untested, Dossiers
<1> QED BY <1>1, <1>2, <1>3, <1>4, <1>5, <1>6, <1>7, <1>8 DEF PublicationNext

(* The opinion before and after, on what was known and asked then.         *)
LEMMA OpinionIs ==
  /\ Opinion(dossier) = OpinionOn(dossier, asking)
  /\ Opinion(dossier') = OpinionOn(dossier', asking)
<1>1. \A d : Opinion(d) = OpinionOn(d, asking)
  BY DEF Opinion, OpinionOn, Raw, Refusal
<1> QED BY <1>1

(* The first dossier has one document in it.                               *)
LEMMA PublicationStarts == PublicationInit => PublicationInv
<1> SUFFICES ASSUME PublicationInit PROVE PublicationInv
  OBVIOUS
<1>1. PICK f \in ChangedFiles : f.kind = "doc" /\
        dossier = [failing |-> {}, files |-> {f}, words |-> {}, checks |-> {},
                   places |-> [c \in DOMAIN Weight |-> 1],
                   sections |-> DOMAIN SectionWeight, facts |-> OssFact, profile |-> TRUE, done |-> {}]
  BY DEF PublicationInit
<1>2. 1 \in DOMAIN Scores
  BY PublicationAssumption
<1>3. [c \in DOMAIN Weight |-> 1] \in [DOMAIN Weight -> DOMAIN Scores]
  BY <1>2
<1>4. dossier \in Dossiers
  BY <1>1, <1>3 DEF Dossiers
<1>5. Untested(dossier)
  BY <1>1 DEF Untested
<1>6. 0 \in 0..MaxDefects
  BY PublicationAssumption
<1> QED BY <1>4, <1>5, <1>6 DEF PublicationInit, PublicationInv

(* What a step does to what is known and to the opinion.                   *)
Downhill == opinion' # opinion => OpinionNoBetter(opinion, opinion')

(* A step keeps the invariant and makes no verdict better.                 *)
LEMMA PublicationStep ==
  ASSUME PublicationInv, [PublicationNext]_publicationVars
  PROVE  PublicationInv' /\ Downhill
<1>1. CASE UNCHANGED publicationVars
  <2>1. dossier' = dossier /\ opinion' = opinion /\ asking' = asking /\ defects' = defects
    BY <1>1 DEF publicationVars
  <2>2. Opinion(dossier)' = Opinion(dossier)
    BY <2>1 DEF Opinion
  <2> QED BY <2>1, <2>2 DEF PublicationInv, Downhill
<1>2. CASE PublicationNext
  <2>1. Judge
    BY <1>2 DEF PublicationNext, WorkDone, CheckFails, FileTurnsUp, WordFound, CheckRegistered, ScoreFalls,
                SectionMissing, FactFalls
  <2> PICK d, e, a : d = dossier /\ e = dossier' /\ a = asking
    OBVIOUS
  <2>2. d \in Dossiers /\ Untested(d) /\ a \in Asking
    BY DEF PublicationInv
  <2>3. GotWorse(d, e)
    BY <1>2, <2>2, DefectGotWorse
  <2>4. opinion = OpinionOn(d, a) /\ opinion' = OpinionOn(e, a) /\ asking' = a
    BY <2>1, OpinionIs DEF PublicationInv, Judge
  <2>5. OpinionNoBetter(opinion, opinion')
    <3>1. OpinionNoBetter(OpinionOn(d, a), OpinionOn(e, a))
      BY <2>2, <2>3, WorseOpinion DEF GotWorse
    <3> QED BY <2>4, <3>1
  <2>6. opinion' = Opinion(dossier)'
    BY <2>1 DEF Judge, Opinion
  <2>7. defects' \in 0..MaxDefects
    <3>1. defects \in 0..MaxDefects /\ defects < MaxDefects /\ defects' = defects + 1 /\ MaxDefects \in Nat
      BY <2>1, PublicationAssumption DEF PublicationInv, Judge
    <3> QED BY <3>1
  <2>8. dossier' \in Dossiers /\ Untested(dossier') /\ asking' \in Asking
    BY <2>2, <2>3, <2>4 DEF GotWorse
  <2>9. PublicationInv'
    BY <2>6, <2>7, <2>8 DEF PublicationInv, Dossiers, Untested
  <2> QED BY <2>5, <2>9 DEF Downhill
<1> QED BY <1>1, <1>2

(* Another defect never improves a verdict, for any files, checks, scores  *)
(* and policies: quality_gate.py:276-296, risk_policy.py:41-60.            *)
THEOREM WorseNeverBetterKept == PublicationSpec => WorseNeverBetter
<1>1. ASSUME PublicationInv, [PublicationNext]_publicationVars
      PROVE  PublicationInv'
  BY <1>1, PublicationStep
<1>2. ASSUME PublicationInv, [PublicationNext]_publicationVars
      PROVE  [opinion' # opinion =>
                \A kind \in DOMAIN Ladder : Place(kind, opinion[kind]) <= Place(kind, opinion'[kind])]_publicationVars
  <2>1. Downhill
    BY <1>2, PublicationStep
  <2> QED BY <2>1, Kinds DEF Downhill, OpinionNoBetter, NoBetter
<1> QED BY <1>1, <1>2, PublicationStarts, PTL DEF PublicationSpec, WorseNeverBetter

(* The invariant types the state.                                          *)
LEMMA PublicationTyped == PublicationInv => PublicationTypeOK
<1> SUFFICES ASSUME PublicationInv PROVE PublicationTypeOK
  OBVIOUS
<1>1. OnLadders(opinion)
  <2>1. opinion = OpinionOn(dossier, asking)
    BY OpinionIs DEF PublicationInv
  <2> QED BY <2>1, OpinionFits
<1>2. \A kind \in DOMAIN Ladder : opinion[kind] \in Range(Ladder[kind])
  BY <1>1, Kinds DEF OnLadders
<1> QED BY <1>2 DEF PublicationInv, PublicationTypeOK, Dossiers

(* The verdicts are those of their gates (the typing of Publication).      *)
THEOREM PublicationTypeOKKept == PublicationSpec => []PublicationTypeOK
<1>1. ASSUME PublicationInv, [PublicationNext]_publicationVars
      PROVE  PublicationInv'
  BY <1>1, PublicationStep
<1> QED BY <1>1, PublicationStarts, PublicationTyped, PTL DEF PublicationSpec

------------------------------------------------------------------------------
LinesOf == Seq(Lines)

(* The list ends in a section of ours.                                     *)
InTail(s) == InOurs(s, Len(s))

ForeignIn(s) == {i \in DOMAIN s : ~InOurs(s, i) /\ s[i] # "blank"}

(* One more line: whether it is in a section of ours, and what others have.*)
LEMMA InOursMore ==
  ASSUME NEW s \in LinesOf, NEW x \in Lines
  PROVE  /\ \A i \in 1..Len(s) : InOurs(Append(s, x), i) <=> InOurs(s, i)
         /\ InTail(Append(s, x)) <=> x = "ours" \/ (x \notin Headers /\ InTail(s))
<1> PICK n \in Nat : n = Len(s)
  BY DEF LinesOf
<1> PICK t : t = Append(s, x)
  OBVIOUS
<1>1. Len(t) = n + 1 /\ t[n + 1] = x /\ \A i \in 1..n : t[i] = s[i]
  BY DEF LinesOf
<1>2. ASSUME NEW i \in 1..n PROVE InOurs(t, i) <=> InOurs(s, i)
  <2>1. \A j \in 1..i : j \in 1..n /\ t[j] = s[j]
    BY <1>1
  <2>2. \A j \in 1..i : \A k \in j + 1..i : k \in 1..n /\ t[k] = s[k]
    BY <1>1
  <2> QED BY <2>1, <2>2 DEF InOurs
<1>3. InOurs(t, n + 1) <=> x = "ours" \/ (x \notin Headers /\ InOurs(s, n))
  <2>1. ASSUME x = "ours" PROVE InOurs(t, n + 1)
    <3>1. n + 1 \in 1..n + 1 /\ t[n + 1] = "ours" /\ (n + 1) + 1..n + 1 = {}
      BY <1>1, <2>1
    <3> QED BY <3>1 DEF InOurs
  <2>2. ASSUME x \notin Headers, InOurs(s, n) PROVE InOurs(t, n + 1)
    <3>1. PICK j \in 1..n : s[j] = "ours" /\ \A k \in j + 1..n : s[k] \notin Headers
      BY <2>2 DEF InOurs
    <3>2. j \in 1..n + 1 /\ t[j] = "ours"
      BY <1>1, <3>1
    <3>3. ASSUME NEW k \in j + 1..n + 1 PROVE t[k] \notin Headers
      <4>1. CASE k = n + 1
        BY <1>1, <2>2, <4>1
      <4>2. CASE k # n + 1
        <5>1. k \in j + 1..n /\ k \in 1..n
          BY <4>2
        <5> QED BY <1>1, <3>1, <5>1
      <4> QED BY <4>1, <4>2
    <3> QED BY <3>2, <3>3 DEF InOurs
  <2>3. ASSUME InOurs(t, n + 1), x # "ours" PROVE x \notin Headers /\ InOurs(s, n)
    <3>1. PICK j \in 1..n + 1 : t[j] = "ours" /\ \A k \in j + 1..n + 1 : t[k] \notin Headers
      BY <2>3 DEF InOurs
    <3>2. j # n + 1
      BY <1>1, <2>3, <3>1
    <3>3. j \in 1..n /\ n + 1 \in j + 1..n + 1 /\ \A k \in j + 1..n : k \in j + 1..n + 1 /\ k \in 1..n
      BY <3>2
    <3>4. x \notin Headers
      BY <1>1, <3>1, <3>3
    <3>5. s[j] = "ours" /\ \A k \in j + 1..n : s[k] \notin Headers
      BY <1>1, <3>1, <3>3
    <3> QED BY <3>3, <3>4, <3>5 DEF InOurs
  <2> QED BY <2>1, <2>2, <2>3
<1> QED BY <1>1, <1>2, <1>3 DEF InTail

(* The lines of others, with one more line.                                *)
LEMMA ForeignMore ==
  ASSUME NEW s \in LinesOf, NEW x \in Lines
  PROVE  Foreign(Append(s, x)) =
           IF x = "blank" \/ InTail(Append(s, x)) THEN Foreign(s) ELSE Append(Foreign(s), x)
<1> PICK n \in Nat : n = Len(s)
  BY DEF LinesOf
<1> PICK t : t = Append(s, x)
  OBVIOUS
<1>1. /\ Len(t) = n + 1 /\ t[n + 1] = x /\ \A i \in 1..n : t[i] = s[i]
      /\ DOMAIN s = 1..n /\ DOMAIN t = 1..n + 1
  BY DEF LinesOf
<1>2. \A i \in 1..n : i \in ForeignIn(s) <=> i \in ForeignIn(t)
  <2> SUFFICES ASSUME NEW i \in 1..n PROVE i \in ForeignIn(s) <=> i \in ForeignIn(t)
    OBVIOUS
  <2>1. InOurs(t, i) <=> InOurs(s, i)
    BY InOursMore
  <2> QED BY <1>1, <2>1 DEF ForeignIn
<1>3. Picked(t, ForeignIn(t)) = IF n + 1 \in ForeignIn(t) THEN Append(Picked(s, ForeignIn(s)), x)
                                ELSE Picked(s, ForeignIn(s))
  BY <1>2, PickedMore DEF LinesOf
<1>4. n + 1 \in ForeignIn(t) <=> ~(x = "blank" \/ InTail(t))
  BY <1>1 DEF ForeignIn, InTail
<1> QED BY <1>3, <1>4 DEF Foreign, ForeignIn

(* The sections of ours, with one more line.                               *)
LEMMA SectionsMore ==
  ASSUME NEW s \in LinesOf, NEW x \in Lines
  PROVE  SectionsIn(Append(s, x)) = IF x = "ours" THEN SectionsIn(s) \cup {Len(s) + 1} ELSE SectionsIn(s)
<1> PICK n \in Nat : n = Len(s)
  BY DEF LinesOf
<1> PICK t : t = Append(s, x)
  OBVIOUS
<1>1. /\ t[n + 1] = x /\ \A i \in 1..n : t[i] = s[i]
      /\ DOMAIN s = 1..n /\ DOMAIN t = 1..n + 1
  BY DEF LinesOf
<1>2. \A i : i \in 1..n + 1 <=> i \in 1..n \/ i = n + 1
  OBVIOUS
<1> QED BY <1>1, <1>2 DEF SectionsIn

(* How many sections of ours there are.                                    *)
Count(s) == Cardinality(SectionsIn(s))

(* There is one more only if the line opens it.                            *)
LEMMA CountMore ==
  ASSUME NEW s \in LinesOf, NEW x \in Lines
  PROVE  /\ IsFiniteSet(SectionsIn(s)) /\ Count(s) \in Nat
         /\ Count(Append(s, x)) = IF x = "ours" THEN Count(s) + 1 ELSE Count(s)
<1> PICK n \in Nat : n = Len(s)
  BY DEF LinesOf
<1>1. SectionsIn(s) \subseteq 1..n /\ IsFiniteSet(1..n) /\ n + 1 \notin SectionsIn(s)
  <2>1. DOMAIN s = 1..n /\ n + 1 \notin 1..n
    BY DEF LinesOf
  <2>2. IsFiniteSet(1..n)
    BY FS_Interval
  <2> QED BY <2>1, <2>2 DEF SectionsIn
<1>2. IsFiniteSet(SectionsIn(s))
  BY <1>1, FS_Subset
<1>3. Cardinality(SectionsIn(s) \cup {n + 1}) = Cardinality(SectionsIn(s)) + 1 /\ Cardinality(SectionsIn(s)) \in Nat
  BY <1>1, <1>2, FS_AddElement, FS_CardinalityType
<1> QED BY <1>2, <1>3, SectionsMore DEF Count

(* An empty configuration.                                                 *)
LEMMA NoLines ==
  ~InTail(<<>>) /\ Foreign(<<>>) = <<>> /\ Count(<<>>) = 0 /\ SectionsIn(<<>>) = {}
<1>1. ~InTail(<<>>)
  BY DEF InTail, InOurs
<1>2. SectionsIn(<<>>) = {}
  BY DEF SectionsIn
<1>3. Count(<<>>) = 0
  BY <1>2, FS_EmptySet DEF Count
<1>4. Foreign(<<>>) = <<>>
  <2>1. Picking(<<>>, {i \in DOMAIN <<>> : ~InOurs(<<>>, i) /\ <<>>[i] # "blank"})[0] = <<>>
    BY PickingRec
  <2> QED BY <2>1 DEF Foreign, Picked
<1> QED BY <1>1, <1>2, <1>3, <1>4
------------------------------------------------------------------------------
(* Copying line by line.                                                   *)
Base == [out |-> <<>>, ours |-> FALSE, replaced |-> FALSE]
CopyAt(g, s, sec, n) == Copy(g[n - 1], s[n], sec)
CopyUpto(g, s, sec, m) == [n \in 0..m |-> IF n = 0 THEN Base ELSE CopyAt(g, s, sec, n)]

(* There is such a copy up to every line.                                  *)
LEMMA CopyExists ==
  ASSUME NEW s, NEW sec, NEW m \in Nat
  PROVE  \E g : g = CopyUpto(g, s, sec, m)
<1> PICK T : T = {i \in Nat : \E g : g = CopyUpto(g, s, sec, i)}
  OBVIOUS
<1>1. 0 \in T
  <2> PICK g : g = [n \in 0..0 |-> Base]
    OBVIOUS
  <2>1. g = CopyUpto(g, s, sec, 0)
    BY DEF CopyUpto
  <2> QED BY <2>1
<1>2. ASSUME NEW i \in T PROVE i + 1 \in T
  <2>1. PICK h : h = CopyUpto(h, s, sec, i)
    OBVIOUS
  <2> PICK g : g = [n \in 0..(i + 1) |-> IF n <= i THEN h[n] ELSE CopyAt(h, s, sec, n)]
    OBVIOUS
  <2>2. i \in Nat /\ 0..i \subseteq 0..(i + 1) /\ \A n \in 0..(i + 1) : n <= i => n \in 0..i
    OBVIOUS
  <2>3. \A n \in 0..i : g[n] = h[n]
    BY <2>2
  <2>4. \A n \in 0..(i + 1) : n # 0 => CopyAt(g, s, sec, n) = CopyAt(h, s, sec, n)
    <3> SUFFICES ASSUME NEW n \in 0..(i + 1), n # 0 PROVE g[n - 1] = h[n - 1]
      BY DEF CopyAt
    <3>1. n - 1 \in 0..i
      BY <2>2
    <3> QED BY <2>3, <3>1
  <2>5. \A n \in 0..i : h[n] = IF n = 0 THEN Base ELSE CopyAt(h, s, sec, n)
    BY <2>1 DEF CopyUpto
  <2>6. \A n \in 0..(i + 1) : g[n] = IF n = 0 THEN Base ELSE CopyAt(g, s, sec, n)
    <3> SUFFICES ASSUME NEW n \in 0..(i + 1)
                 PROVE  g[n] = IF n = 0 THEN Base ELSE CopyAt(g, s, sec, n)
      OBVIOUS
    <3>1. CASE n = 0
      BY <2>2, <2>3, <2>5, <3>1
    <3>2. CASE n # 0 /\ n <= i
      BY <2>2, <2>3, <2>4, <2>5, <3>2
    <3>3. CASE n > i
      BY <2>2, <2>4, <3>3
    <3> QED BY <2>2, <3>1, <3>2, <3>3
  <2>7. g = CopyUpto(g, s, sec, i + 1)
    BY <2>6 DEF CopyUpto
  <2> QED BY <2>2, <2>7
<1>3. T = Nat
  BY <1>1, <1>2, Induction
<1> QED BY <1>3

(* So there is one that Copied takes its value from.                       *)
Steps(g, s, sec, m) == g[0] = Base /\ \A n \in 1..m : g[n] = Copy(g[n - 1], s[n], sec)

(* So Copied is the last step of one.                                      *)
LEMMA CopiedIs ==
  ASSUME NEW s, NEW sec, Len(s) \in Nat
  PROVE  \E g : Steps(g, s, sec, Len(s)) /\ Copied(s, sec) = g[Len(s)]
<1>1. PICK m \in Nat : m = Len(s)
  OBVIOUS
<1>2. PICK g : g = CHOOSE h : h = CopyUpto(h, s, sec, m)
  OBVIOUS
<1>3. g = CopyUpto(g, s, sec, m)
  BY <1>2, CopyExists
<1>4. Copied(s, sec) = g[m]
  BY <1>1, <1>2 DEF Copied, CopyUpto, CopyAt, Base
<1>5. Steps(g, s, sec, m)
  <2>1. g = [n \in 0..m |-> IF n = 0 THEN Base ELSE Copy(g[n - 1], s[n], sec)]
    BY <1>3 DEF CopyUpto, CopyAt
  <2>2. 0 \in 0..m /\ \A n \in 1..m : n \in 0..m /\ n # 0
    OBVIOUS
  <2> QED BY <2>1, <2>2 DEF Steps
<1> QED BY <1>1, <1>4, <1>5

(* Nothing is copied of nothing.                                           *)
LEMMA CopiedNone ==
  ASSUME NEW sec PROVE Copied(<<>>, sec) = Base
<1>1. Len(<<>>) = 0
  OBVIOUS
<1>2. \E g : Steps(g, <<>>, sec, Len(<<>>)) /\ Copied(<<>>, sec) = g[Len(<<>>)]
  BY <1>1, CopiedIs
<1> QED BY <1>1, <1>2 DEF Steps

(* One more line is copied after those before it.                          *)
LEMMA CopiedMore ==
  ASSUME NEW s \in LinesOf, NEW x \in Lines, NEW sec
  PROVE  Copied(Append(s, x), sec) = Copy(Copied(s, sec), x, sec)
<1> PICK m \in Nat : m = Len(s)
  BY DEF LinesOf
<1> PICK t : t = Append(s, x)
  OBVIOUS
<1>1. Len(t) = m + 1 /\ t[m + 1] = x /\ \A n \in 1..m : t[n] = s[n]
  BY DEF LinesOf
<1>2. PICK p : Steps(p, s, sec, m) /\ Copied(s, sec) = p[m]
  BY CopiedIs
<1>3. PICK q : Steps(q, t, sec, m + 1) /\ Copied(t, sec) = q[m + 1]
  <2>1. m + 1 \in Nat
    OBVIOUS
  <2> QED BY <1>1, <2>1, CopiedIs
<1>4. PICK T : T = {n \in Nat : n <= m => q[n] = p[n]}
  OBVIOUS
<1>5. T = Nat
  <2>1. 0 \in T
    BY <1>2, <1>3, <1>4 DEF Steps
  <2>2. ASSUME NEW n \in T PROVE n + 1 \in T
    <3>1. n \in Nat /\ n + 1 \in Nat
      BY <1>4, <2>2
    <3>2. CASE n + 1 <= m
      <4>1. n + 1 \in 1..m /\ n + 1 \in 1..(m + 1) /\ (n + 1) - 1 = n /\ q[n] = p[n]
        BY <1>4, <2>2, <3>1, <3>2
      <4>2. p[n + 1] = Copy(p[n], s[n + 1], sec)
        BY <1>2, <4>1 DEF Steps
      <4>3. q[n + 1] = Copy(q[n], t[n + 1], sec)
        BY <1>3, <4>1 DEF Steps
      <4>4. t[n + 1] = s[n + 1]
        BY <1>1, <4>1
      <4> QED BY <1>4, <3>1, <4>1, <4>2, <4>3, <4>4
    <3>3. CASE ~(n + 1 <= m)
      BY <1>4, <3>1, <3>3
    <3> QED BY <3>2, <3>3
  <2> QED BY <1>4, <2>1, <2>2, Induction
<1>6. q[m] = p[m]
  BY <1>4, <1>5
<1>7. q[m + 1] = Copy(q[m], x, sec)
  <2>1. m + 1 \in 1..(m + 1) /\ (m + 1) - 1 = m
    OBVIOUS
  <2> QED BY <1>1, <1>3, <2>1 DEF Steps
<1> QED BY <1>2, <1>3, <1>6, <1>7

------------------------------------------------------------------------------
(* Sections of ours are what an installation writes, and a header follows  *)
(* them or nothing.                                                        *)
Whole(s, p) ==
  \A i \in DOMAIN s : s[i] = "ours" =>
    i < Len(s) /\ s[i + 1] = p /\ (i + 2 <= Len(s) => s[i + 2] \in Headers)

(* A section was just written.                                             *)
Open(s) == Len(s) >= 2 /\ s[Len(s) - 1] = "ours"

(* What names a project is a line of its own kind.                         *)
LEMMA ProjectsAre ==
  ASSUME NEW p \in Projects
  PROVE  p \in Lines /\ p \notin Headers /\ p # "ours" /\ p # "blank" /\ "ours" \in Lines /\ "blank" \in Lines
BY ProjectsApart DEF Lines, Headers

(* A line that is no header of ours, after whole sections.                 *)
LEMMA WholeMore ==
  ASSUME NEW s \in LinesOf, NEW p \in Projects, Whole(s, p), NEW x \in Lines, x # "ours", Open(s) => x \in Headers
  PROVE  Whole(Append(s, x), p) /\ ~Open(Append(s, x))
<1> PICK n \in Nat : n = Len(s)
  BY DEF LinesOf
<1> PICK t : t = Append(s, x)
  OBVIOUS
<1>1. /\ Len(t) = n + 1 /\ t[n + 1] = x /\ \A i \in 1..n : t[i] = s[i]
      /\ DOMAIN s = 1..n /\ DOMAIN t = 1..n + 1
  BY DEF LinesOf
<1>2. ASSUME NEW i \in 1..n + 1, t[i] = "ours"
      PROVE  i < n + 1 /\ t[i + 1] = p /\ (i + 2 <= n + 1 => t[i + 2] \in Headers)
  <2>1. i \in 1..n /\ s[i] = "ours"
    <3>1. i # n + 1
      BY <1>1, <1>2
    <3> QED BY <1>1, <1>2, <3>1
  <2>2. i < n /\ s[i + 1] = p /\ (i + 2 <= n => s[i + 2] \in Headers)
    BY <1>1, <2>1 DEF Whole
  <2>3. i + 1 \in 1..n /\ t[i + 1] = p
    BY <1>1, <2>1, <2>2
  <2>4. ASSUME i + 2 <= n + 1 PROVE t[i + 2] \in Headers
    <3>1. CASE i + 2 = n + 1
      <4>1. n >= 2 /\ s[n - 1] = "ours"
        <5>1. i = n - 1 /\ n >= 2
          BY <3>1
        <5> QED BY <2>1, <5>1
      <4>2. Open(s)
        BY <4>1 DEF Open
      <4> QED BY <1>1, <3>1, <4>2
    <3>2. CASE i + 2 # n + 1
      <4>1. i + 2 \in 1..n /\ i + 2 <= n
        BY <2>4, <3>2
      <4> QED BY <1>1, <2>2, <4>1
    <3> QED BY <3>1, <3>2
  <2> QED BY <2>2, <2>3, <2>4
<1>3. Whole(t, p)
  BY <1>1, <1>2 DEF Whole
<1>4. ~Open(t)
  <2> SUFFICES ASSUME n + 1 >= 2, t[(n + 1) - 1] = "ours" PROVE FALSE
    BY <1>1 DEF Open
  <2>1. n \in 1..n /\ s[n] = "ours"
    BY <1>1
  <2>2. n < n
    BY <1>1, <2>1 DEF Whole
  <2> QED BY <2>2
<1> QED BY <1>3, <1>4

(* A new section, after whole ones.                                        *)
LEMMA WholeSection ==
  ASSUME NEW s \in LinesOf, NEW p \in Projects, Whole(s, p)
  PROVE  Whole(Append(Append(s, "ours"), p), p) /\ Open(Append(Append(s, "ours"), p))
<1> PICK n \in Nat : n = Len(s)
  BY DEF LinesOf
<1> PICK t : t = Append(Append(s, "ours"), p)
  OBVIOUS
<1>0. "ours" \in Lines /\ p \in Lines /\ p # "ours"
  BY ProjectsAre
<1>1. /\ Len(t) = n + 2 /\ t[n + 1] = "ours" /\ t[n + 2] = p /\ \A i \in 1..n : t[i] = s[i]
      /\ DOMAIN s = 1..n /\ DOMAIN t = 1..n + 2
  BY <1>0 DEF LinesOf
<1>2. ASSUME NEW i \in 1..n + 2, t[i] = "ours"
      PROVE  i < n + 2 /\ t[i + 1] = p /\ (i + 2 <= n + 2 => t[i + 2] \in Headers)
  <2>1. i # n + 2
    BY <1>0, <1>1, <1>2
  <2>2. CASE i = n + 1
    <3>1. i + 1 = n + 2 /\ i < n + 2 /\ ~(i + 2 <= n + 2)
      BY <2>2
    <3> QED BY <1>1, <3>1
  <2>3. CASE i # n + 1
    <3>1. i \in 1..n /\ s[i] = "ours"
      BY <1>1, <1>2, <2>1, <2>3
    <3>2. i < n /\ s[i + 1] = p /\ (i + 2 <= n => s[i + 2] \in Headers)
      BY <1>1, <3>1 DEF Whole
    <3>3. i + 1 \in 1..n /\ t[i + 1] = p
      BY <1>1, <3>1, <3>2
    <3>4. i + 2 = n + 1 \/ i + 2 \in 1..n
      BY <3>1, <3>2
    <3>5. t[i + 2] \in Headers
      <4>1. CASE i + 2 = n + 1
        BY <1>1, <4>1 DEF Headers
      <4>2. CASE i + 2 \in 1..n
        BY <1>1, <3>2, <4>2
      <4> QED BY <3>4, <4>1, <4>2
    <3> QED BY <3>2, <3>3, <3>5
  <2> QED BY <2>1, <2>2, <2>3
<1>3. Whole(t, p)
  BY <1>1, <1>2 DEF Whole
<1>4. Open(t)
  <2>1. (n + 2) - 1 = n + 1 /\ n + 2 >= 2
    OBVIOUS
  <2> QED BY <1>1, <2>1 DEF Open
<1> QED BY <1>3, <1>4

(* A list and the same with a section of ours at its end.                  *)
LEMMA SectionMore ==
  ASSUME NEW s \in LinesOf, NEW p \in Projects, NEW t, t = Append(Append(s, "ours"), p)
  PROVE  /\ t \in LinesOf /\ s \o Section(p) = t
         /\ InTail(t) /\ Foreign(t) = Foreign(s) /\ Count(t) = Count(s) + 1 /\ SectionsIn(t) # {}
<1>0. "ours" \in Lines /\ p \in Lines /\ p # "ours" /\ p \notin Headers
  BY ProjectsAre
<1> PICK u : u = Append(s, "ours")
  OBVIOUS
<1>1. u \in LinesOf /\ t \in LinesOf /\ t = Append(u, p)
  BY <1>0 DEF LinesOf
<1>2. s \o Section(p) = t
  BY <1>0 DEF LinesOf, Section
<1>3. InTail(u) /\ InTail(t)
  <2>1. InTail(u)
    BY <1>0, InOursMore
  <2> QED BY <1>0, <1>1, <2>1, InOursMore
<1>4. Foreign(t) = Foreign(s)
  <2>1. Foreign(u) = Foreign(s)
    BY <1>0, <1>3, ForeignMore
  <2>2. Foreign(t) = Foreign(u)
    BY <1>0, <1>1, <1>3, ForeignMore
  <2> QED BY <2>1, <2>2
<1>5. Count(t) = Count(s) + 1
  <2>1. Count(u) = Count(s) + 1
    BY <1>0, CountMore
  <2>2. Count(t) = Count(u)
    BY <1>0, <1>1, CountMore
  <2> QED BY <2>1, <2>2
<1>6. SectionsIn(t) # {}
  <2>1. SectionsIn(u) # {}
    BY <1>0, SectionsMore
  <2>2. SectionsIn(t) = SectionsIn(u)
    BY <1>0, <1>1, SectionsMore
  <2> QED BY <2>1, <2>2
<1> QED BY <1>1, <1>2, <1>3, <1>4, <1>5, <1>6

(* What the copy of a list is, wherever it stands.                         *)
Walked(w, s, p) ==
  /\ w \in [out : LinesOf, ours : BOOLEAN, replaced : BOOLEAN]
  /\ w.ours <=> InTail(s)
  /\ w.ours <=> InTail(w.out)
  /\ w.ours <=> Open(w.out)
  /\ Foreign(w.out) = Foreign(s) /\ Count(w.out) = Count(s)
  /\ w.replaced <=> SectionsIn(s) # {}
  /\ Whole(w.out, p)

(* Copying a line keeps what is known of the copy.                         *)
LEMMA WalkedMore ==
  ASSUME NEW p \in Projects, NEW s \in LinesOf, NEW w, Walked(w, s, p), NEW x \in Lines
  PROVE  Walked(Copy(w, x, Section(p)), Append(s, x), p)
<1> PICK t : t = Append(s, x)
  OBVIOUS
<1> PICK o, c : o = w.out /\ c = Copy(w, x, Section(p))
  OBVIOUS
<1>0. o \in LinesOf /\ w.ours \in BOOLEAN /\ w.replaced \in BOOLEAN /\ t \in LinesOf
  BY DEF Walked, LinesOf
<1>1. InTail(t) <=> x = "ours" \/ (x \notin Headers /\ InTail(s))
  BY InOursMore
<1>2. Foreign(t) = IF x = "blank" \/ InTail(t) THEN Foreign(s) ELSE Append(Foreign(s), x)
  BY ForeignMore
<1>3. Count(t) = IF x = "ours" THEN Count(s) + 1 ELSE Count(s)
  BY CountMore
<1>4. SectionsIn(t) # {} <=> x = "ours" \/ SectionsIn(s) # {}
  BY SectionsMore
<1>5. CASE x = "ours"
  <2>1. c = [out |-> o \o Section(p), ours |-> TRUE, replaced |-> TRUE]
    BY <1>5 DEF Copy
  <2>2. PICK u : u = Append(Append(o, "ours"), p)
    OBVIOUS
  <2>3. /\ u \in LinesOf /\ o \o Section(p) = u
        /\ InTail(u) /\ Foreign(u) = Foreign(o) /\ Count(u) = Count(o) + 1
    BY <1>0, <2>2, SectionMore
  <2>4. Whole(u, p) /\ Open(u)
    BY <1>0, <2>2, WholeSection DEF Walked
  <2>5. c.out = u /\ c.ours = TRUE /\ c.replaced = TRUE /\ c \in [out : LinesOf, ours : BOOLEAN, replaced : BOOLEAN]
    BY <2>1, <2>3
  <2>6. Foreign(c.out) = Foreign(t) /\ Count(c.out) = Count(t)
    BY <1>1, <1>2, <1>3, <1>5, <2>3, <2>5 DEF Walked
  <2> QED BY <1>1, <1>4, <1>5, <2>3, <2>4, <2>5, <2>6 DEF Walked
<1>6. CASE x # "ours" /\ w.ours /\ x \notin Headers
  <2>1. c = w
    BY <1>6 DEF Copy
  <2>2. Foreign(t) = Foreign(s) /\ Count(t) = Count(s) /\ InTail(t)
    BY <1>1, <1>2, <1>3, <1>6 DEF Walked
  <2> QED BY <1>4, <1>6, <2>1, <2>2 DEF Walked
<1>7. CASE x # "ours" /\ ~(w.ours /\ x \notin Headers)
  <2>1. c = [w EXCEPT !.out = Append(@, x), !.ours = FALSE]
    BY <1>7 DEF Copy
  <2>2. PICK u : u = Append(o, x)
    OBVIOUS
  <2>3. u \in LinesOf
    BY <1>0, <2>2 DEF LinesOf
  <2>4. c.out = u /\ c.ours = FALSE /\ c.replaced = w.replaced /\ c \in [out : LinesOf, ours : BOOLEAN, replaced : BOOLEAN]
    BY <2>1, <2>2, <2>3 DEF Walked
  <2>5. ~InTail(t) /\ ~InTail(u)
    <3>1. InTail(u) <=> x = "ours" \/ (x \notin Headers /\ InTail(o))
      BY <1>0, <2>2, InOursMore
    <3> QED BY <1>1, <1>7, <3>1 DEF Walked
  <2>6. Foreign(u) = IF x = "blank" \/ InTail(u) THEN Foreign(o) ELSE Append(Foreign(o), x)
    BY <1>0, <2>2, ForeignMore
  <2>7. Foreign(u) = Foreign(t)
    BY <1>2, <2>5, <2>6 DEF Walked
  <2>8. Count(u) = Count(t)
    <3>1. Count(u) = IF x = "ours" THEN Count(o) + 1 ELSE Count(o)
      BY <1>0, <2>2, CountMore
    <3> QED BY <1>3, <1>7, <3>1 DEF Walked
  <2>9. Whole(u, p) /\ ~Open(u)
    BY <1>0, <1>7, <2>2, WholeMore DEF Walked
  <2> QED BY <1>4, <1>7, <2>4, <2>5, <2>7, <2>8, <2>9 DEF Walked
<1>8. x = "ours" \/ (x # "ours" /\ w.ours /\ x \notin Headers) \/ (x # "ours" /\ ~(w.ours /\ x \notin Headers))
  OBVIOUS
<1> QED BY <1>5, <1>6, <1>7, <1>8

(* So it is known of every copy.                                           *)
LEMMA WalkedAll ==
  ASSUME NEW p \in Projects, NEW s \in LinesOf
  PROVE  Walked(Copied(s, Section(p)), s, p)
<1> PICK T : T = {n \in Nat : \A l \in LinesOf : Len(l) = n => Walked(Copied(l, Section(p)), l, p)}
  OBVIOUS
<1>1. 0 \in T
  <2> SUFFICES ASSUME NEW l \in LinesOf, Len(l) = 0 PROVE Walked(Copied(l, Section(p)), l, p)
    OBVIOUS
  <2>1. l = <<>>
    BY DEF LinesOf
  <2>2. Copied(l, Section(p)) = Base
    BY <2>1, CopiedNone
  <2>3. Base.out = <<>> /\ Base.ours = FALSE /\ Base.replaced = FALSE
        /\ Base \in [out : LinesOf, ours : BOOLEAN, replaced : BOOLEAN]
    BY DEF Base, LinesOf
  <2>4. ~Open(<<>>) /\ Whole(<<>>, p)
    BY DEF Open, Whole
  <2> QED BY <2>1, <2>2, <2>3, <2>4, NoLines DEF Walked
<1>2. ASSUME NEW n \in T PROVE n + 1 \in T
  <2>0. n \in Nat
    OBVIOUS
  <2> SUFFICES ASSUME NEW l \in LinesOf, Len(l) = n + 1 PROVE Walked(Copied(l, Section(p)), l, p)
    BY <2>0
  <2> PICK r, x : r = SubSeq(l, 1, n) /\ x = l[n + 1]
    OBVIOUS
  <2>1. r \in LinesOf /\ Len(r) = n /\ x \in Lines /\ l = Append(r, x)
    BY <2>0, LastLine DEF LinesOf
  <2>2. Walked(Copied(r, Section(p)), r, p)
    BY <2>1
  <2>3. Copied(l, Section(p)) = Copy(Copied(r, Section(p)), x, Section(p))
    <3>1. PICK sec : sec = Section(p)
      OBVIOUS
    <3>2. Copied(Append(r, x), sec) = Copy(Copied(r, sec), x, sec)
      BY <2>1, CopiedMore
    <3> QED BY <2>1, <3>1, <3>2
  <2> QED BY <2>1, <2>2, <2>3, WalkedMore
<1>3. T = Nat
  BY <1>1, <1>2, Induction
<1>4. Len(s) \in Nat
  BY DEF LinesOf
<1> QED BY <1>3, <1>4
------------------------------------------------------------------------------
(* What is cut off at the end are blank lines.                             *)
TrimmedTo(s, t, m) ==
  /\ m \in 1..Len(s) /\ t = SubSeq(s, 1, m) /\ s[m] # "blank"
  /\ \A k \in m + 1..Len(s) : s[k] = "blank"

(* With a section there is text, and so a last line of it.                 *)
LEMMA TrimmedIs ==
  ASSUME NEW s \in LinesOf, SectionsIn(s) # {}
  PROVE  \E m : TrimmedTo(s, Trimmed(s), m)
<1> PICK n \in Nat : n = Len(s)
  BY DEF LinesOf
<1> PICK text : text = {i \in DOMAIN s : s[i] # "blank"}
  OBVIOUS
<1>1. DOMAIN s = 1..n /\ text \subseteq 0..n /\ text # {}
  BY DEF LinesOf, SectionsIn
<1>2. \E i \in text : \A j \in text : i >= j
  BY <1>1, MaxOfNats
<1>3. \E i \in text : \A j \in text : j <= i
  <2>1. PICK i \in text : \A j \in text : i >= j
    BY <1>2
  <2>2. \A j \in text : j <= i
    BY <1>1, <2>1
  <2> QED BY <2>2
<1>4. PICK m : m = CHOOSE i \in text : \A j \in text : j <= i
  OBVIOUS
<1>5. m \in text /\ \A j \in text : j <= m
  BY <1>3, <1>4
<1>6. Trimmed(s) = SubSeq(s, 1, m)
  BY <1>4 DEF Trimmed
<1>7. m \in 1..n /\ s[m] # "blank"
  BY <1>1, <1>5
<1>8. ASSUME NEW k \in m + 1..n PROVE s[k] = "blank"
  <2>1. k \in 1..n /\ ~(k <= m)
    BY <1>7
  <2>2. k \notin text
    BY <1>5, <2>1
  <2> QED BY <1>1, <2>1, <2>2
<1> QED BY <1>6, <1>7, <1>8 DEF TrimmedTo

(* Cutting them changes nothing anybody reads.                             *)
Alike(s, t) == Foreign(t) = Foreign(s) /\ Count(t) = Count(s)

(* Blank lines at the end are read by nobody.                              *)
LEMMA BlanksNothing ==
  ASSUME NEW s \in LinesOf, NEW m \in 1..Len(s), \A k \in m + 1..Len(s) : s[k] = "blank"
  PROVE  Alike(SubSeq(s, 1, m), s)
<1> PICK n \in Nat : n = Len(s)
  BY DEF LinesOf
<1> PICK T : T = {d \in Nat : m + d <= n => Alike(SubSeq(s, 1, m), SubSeq(s, 1, m + d))}
  OBVIOUS
<1>1. 0 \in T
  <2>1. m + 0 = m
    OBVIOUS
  <2> QED BY <2>1 DEF Alike
<1>2. ASSUME NEW d \in T PROVE d + 1 \in T
  <2>0. d \in Nat
    OBVIOUS
  <2> SUFFICES ASSUME m + (d + 1) <= n PROVE Alike(SubSeq(s, 1, m), SubSeq(s, 1, m + (d + 1)))
    BY <2>0
  <2> PICK k, r, u : k = m + d /\ r = SubSeq(s, 1, k) /\ u = SubSeq(s, 1, k + 1)
    OBVIOUS
  <2>1. k \in Nat /\ k + 1 = m + (d + 1) /\ k + 1 \in 0..n /\ k + 1 \in m + 1..n /\ k <= n /\ m + d <= n
    BY <2>0
  <2>2. Alike(SubSeq(s, 1, m), r)
    BY <2>1
  <2>3. s[k + 1] = "blank" /\ "blank" \in Lines
    BY <2>1 DEF Lines
  <2>4. u \in LinesOf /\ Len(u) = k + 1 /\ \A j \in 1..k + 1 : u[j] = s[j]
    BY <2>1, Prefix DEF LinesOf
  <2>5. r \in LinesOf /\ Len(r) = k /\ \A j \in 1..k : r[j] = s[j]
    <3>1. k \in 0..n
      BY <2>1
    <3> QED BY <3>1, Prefix DEF LinesOf
  <2>6. SubSeq(u, 1, k) \in LinesOf /\ Len(SubSeq(u, 1, k)) = k /\ u = Append(SubSeq(u, 1, k), u[k + 1])
    BY <2>1, <2>4, LastLine DEF LinesOf
  <2>7. SubSeq(u, 1, k) = r
    <3>1. PICK v : v = SubSeq(u, 1, k)
      OBVIOUS
    <3>2. k \in 0..Len(u)
      BY <2>1, <2>4
    <3>3. Len(v) = k /\ \A j \in 1..k : v[j] = u[j]
      BY <2>4, <3>1, <3>2, Prefix DEF LinesOf
    <3>4. \A j \in 1..k : u[j] = s[j]
      BY <2>1, <2>4
    <3>5. v \in [1..k -> Lines] /\ r \in [1..k -> Lines] /\ \A j \in 1..k : v[j] = r[j]
      <4>1. v \in [1..Len(v) -> Lines] /\ r \in [1..Len(r) -> Lines]
        BY <2>5, <2>6, <3>1, Lists DEF LinesOf
      <4> QED BY <2>5, <3>3, <3>4, <4>1
    <3>6. v = r
      BY <3>5
    <3> QED BY <3>1, <3>6
  <2>8. u = Append(r, "blank")
    <3>1. u[k + 1] = "blank"
      BY <2>1, <2>3, <2>4
    <3> QED BY <2>6, <2>7, <3>1
  <2>9. Foreign(u) = Foreign(r) /\ Count(u) = Count(r)
    <3>1. PICK b \in Lines : b = "blank"
      BY <2>3
    <3>2. /\ Foreign(Append(r, b)) = IF b = "blank" \/ InTail(Append(r, b)) THEN Foreign(r) ELSE Append(Foreign(r), b)
          /\ Count(Append(r, b)) = IF b = "ours" THEN Count(r) + 1 ELSE Count(r)
      BY <2>5, ForeignMore, CountMore
    <3>3. b # "ours" /\ u = Append(r, b)
      BY <2>8, <3>1
    <3> QED BY <3>1, <3>2, <3>3
  <2> QED BY <2>1, <2>2, <2>9 DEF Alike
<1>3. T = Nat
  BY <1>1, <1>2, Induction
<1>4. n - m \in Nat /\ m + (n - m) = n /\ n <= n
  OBVIOUS
<1>5. Alike(SubSeq(s, 1, m), SubSeq(s, 1, n))
  <2>1. PICK d \in Nat : d = n - m
    BY <1>4
  <2>2. d \in T /\ m + d = n
    BY <1>3, <1>4, <2>1
  <2> QED BY <2>2
<1>6. SubSeq(s, 1, n) = s
  BY DEF LinesOf
<1> QED BY <1>5, <1>6

(* A list that ends well: sections of ours are whole, and text is last.    *)
Neat(s, p) == Whole(s, p) /\ SectionsIn(s) # {} /\ s[Len(s)] # "blank"

(* What is left is neat.                                                   *)
LEMMA TrimFits ==
  ASSUME NEW p \in Projects, NEW s \in LinesOf, Whole(s, p), SectionsIn(s) # {}
  PROVE  Trimmed(s) \in LinesOf /\ Alike(s, Trimmed(s)) /\ Neat(Trimmed(s), p)
<1> PICK t : t = Trimmed(s)
  OBVIOUS
<1>1. PICK m : TrimmedTo(s, t, m)
  BY TrimmedIs
<1> PICK n \in Nat : n = Len(s)
  BY DEF LinesOf
<1>2. m \in 1..n /\ t = SubSeq(s, 1, m) /\ s[m] # "blank" /\ \A k \in m + 1..n : s[k] = "blank"
  BY <1>1 DEF TrimmedTo
<1>3. t \in LinesOf /\ Len(t) = m /\ DOMAIN t = 1..m /\ \A k \in 1..m : t[k] = s[k]
  <2>1. m \in 0..n
    BY <1>2
  <2>2. t \in LinesOf /\ Len(t) = m /\ \A k \in 1..m : t[k] = s[k]
    BY <1>2, <2>1, Prefix DEF LinesOf
  <2> QED BY <2>2 DEF LinesOf
<1>4. Alike(s, t)
  <2>1. Alike(t, s)
    BY <1>2, BlanksNothing
  <2> QED BY <2>1 DEF Alike
<1>5. ASSUME NEW i \in 1..n, s[i] # "blank" PROVE i \in 1..m
  <2>1. i \notin m + 1..n
    BY <1>2, <1>5
  <2> QED BY <1>2, <2>1
<1>6. DOMAIN s = 1..n
  BY DEF LinesOf
<1>7. Whole(t, p)
  <2> SUFFICES ASSUME NEW i \in 1..m, t[i] = "ours"
               PROVE  i < m /\ t[i + 1] = p /\ (i + 2 <= m => t[i + 2] \in Headers)
    BY <1>3 DEF Whole
  <2>1. i \in 1..n /\ s[i] = "ours"
    BY <1>2, <1>3
  <2>2. i < n /\ s[i + 1] = p /\ (i + 2 <= n => s[i + 2] \in Headers)
    BY <1>6, <2>1 DEF Whole
  <2>3. i + 1 \in 1..n /\ s[i + 1] # "blank"
    <3>1. p # "blank"
      BY ProjectsAre
    <3> QED BY <2>1, <2>2, <3>1
  <2>4. i + 1 \in 1..m
    BY <1>5, <2>3
  <2>5. i + 2 <= m => i + 2 <= n /\ i + 2 \in 1..m
    BY <1>2
  <2> QED BY <1>2, <1>3, <2>2, <2>4, <2>5
<1>8. SectionsIn(t) # {}
  <2>1. PICK i \in 1..n : s[i] = "ours"
    BY <1>6 DEF SectionsIn
  <2>2. i \in 1..m
    BY <1>5, <2>1
  <2>3. i \in SectionsIn(t)
    BY <1>3, <2>1, <2>2 DEF SectionsIn
  <2> QED BY <2>3
<1>9. t[Len(t)] # "blank"
  BY <1>2, <1>3
<1> QED BY <1>3, <1>4, <1>7, <1>8, <1>9 DEF Neat
------------------------------------------------------------------------------
(* A list whose sections are whole is copied as it is.                     *)
Reached(s, n) == IF n > 0 /\ s[n] = "ours" THEN n + 1 ELSE n
Within(s, n) == n > 0 /\ (s[n] = "ours" \/ (n > 1 /\ s[n - 1] = "ours"))
CopiedUpto(s, p, n) ==
  LET w == Copied(SubSeq(s, 1, n), Section(p))
  IN w.out = SubSeq(s, 1, Reached(s, n)) /\ (w.ours <=> Within(s, n))

(* The beginning of a list with one more line of it.                       *)
LEMMA LineMore ==
  ASSUME NEW s \in LinesOf, NEW n \in Nat, n + 1 <= Len(s)
  PROVE  /\ SubSeq(s, 1, n) \in LinesOf /\ s[n + 1] \in Lines
         /\ SubSeq(s, 1, n + 1) = Append(SubSeq(s, 1, n), s[n + 1])
<1> PICK u, k : u = SubSeq(s, 1, n + 1) /\ k = n + 1
  OBVIOUS
<1>0. Len(s) \in Nat /\ k \in 0..Len(s) /\ n \in 0..Len(s) /\ k \in 1..Len(s)
  BY DEF LinesOf
<1>1. u \in LinesOf /\ Len(u) = n + 1 /\ \A j \in 1..n + 1 : u[j] = s[j]
  BY <1>0, Prefix DEF LinesOf
<1>2. SubSeq(s, 1, n) \in LinesOf /\ Len(SubSeq(s, 1, n)) = n /\ \A j \in 1..n : SubSeq(s, 1, n)[j] = s[j]
  BY <1>0, Prefix DEF LinesOf
<1>3. SubSeq(u, 1, n) \in LinesOf /\ Len(SubSeq(u, 1, n)) = n /\ u = Append(SubSeq(u, 1, n), u[n + 1])
  BY <1>1, LastLine DEF LinesOf
<1>4. PICK v, r : v = SubSeq(u, 1, n) /\ r = SubSeq(s, 1, n)
  OBVIOUS
<1>5. \A j \in 1..n : v[j] = u[j]
  <2>1. n \in 0..Len(u)
    BY <1>1
  <2> QED BY <1>1, <1>4, <2>1, Prefix DEF LinesOf
<1>6. \A j \in 1..n : u[j] = s[j]
  BY <1>1
<1>7. v \in [1..n -> Lines] /\ r \in [1..n -> Lines]
  <2>1. v \in [1..Len(v) -> Lines] /\ r \in [1..Len(r) -> Lines]
    BY <1>2, <1>3, <1>4, Lists DEF LinesOf
  <2> QED BY <1>2, <1>3, <1>4, <2>1
<1>8. \A j \in 1..n : v[j] = r[j]
  BY <1>2, <1>4, <1>5, <1>6
<1>9. v = r
  BY <1>7, <1>8
<1>10. u[n + 1] = s[n + 1] /\ s[n + 1] \in Lines
  <2>1. s[k] \in Lines
    BY <1>0, Lists DEF LinesOf
  <2>2. n + 1 \in 1..n + 1
    OBVIOUS
  <2> QED BY <1>1, <2>1, <2>2
<1> QED BY <1>2, <1>3, <1>4, <1>9, <1>10

(* Line by line, two at a time where a section begins.                     *)
LEMMA CopiedOn ==
  ASSUME NEW p \in Projects, NEW s \in LinesOf, Whole(s, p), NEW n \in Nat, n + 1 <= Len(s), CopiedUpto(s, p, n)
  PROVE  CopiedUpto(s, p, n + 1)
<1> PICK l \in Nat : l = Len(s)
  BY DEF LinesOf
<1> PICK r, x, sec : r = SubSeq(s, 1, n) /\ x = s[n + 1] /\ sec = Section(p)
  OBVIOUS
<1>1. r \in LinesOf /\ x \in Lines /\ SubSeq(s, 1, n + 1) = Append(r, x)
  BY LineMore
<1> PICK w, c : w = Copied(r, sec) /\ c = Copied(Append(r, x), sec)
  OBVIOUS
<1>2. c = Copy(w, x, sec)
  BY <1>1, CopiedMore
<1>3. w.out = SubSeq(s, 1, Reached(s, n)) /\ (w.ours <=> Within(s, n))
  BY DEF CopiedUpto
<1>4. w \in [out : LinesOf, ours : BOOLEAN, replaced : BOOLEAN]
  <2>1. Walked(Copied(r, Section(p)), r, p)
    BY <1>1, WalkedAll
  <2> QED BY <2>1 DEF Walked
<1>5. DOMAIN s = 1..l /\ n + 1 <= l
  BY DEF LinesOf
<1>6. \A i \in 1..l : s[i] = "ours" => i < l /\ s[i + 1] = p /\ (i + 2 <= l => s[i + 2] \in Headers)
  BY <1>5 DEF Whole
<1>7. p \in Lines /\ p \notin Headers /\ p # "ours"
  BY ProjectsAre
<1>8. (n + 1) - 1 = n /\ n + 1 > 0 /\ n + 1 \in 1..l /\ (n + 1 > 1 <=> n > 0) /\ (n > 0 => n \in 1..l)
  BY <1>5
<1>9. c.out = SubSeq(s, 1, Reached(s, n + 1)) /\ (c.ours <=> Within(s, n + 1))
  <2>1. CASE x = "ours"
    <3>1. ~(n > 0 /\ s[n] = "ours")
      BY <1>6, <1>7, <1>8, <2>1
    <3>2. w.out = r
      BY <1>3, <3>1 DEF Reached
    <3>3. c.out = r \o sec /\ c.ours = TRUE
      <4>1. c = [out |-> w.out \o sec, ours |-> TRUE, replaced |-> TRUE]
        <5>1. Copy(w, "ours", sec) = [out |-> w.out \o sec, ours |-> TRUE, replaced |-> TRUE]
          BY Zenon DEF Copy
        <5>2. Copy(w, x, sec) = Copy(w, "ours", sec)
          BY <2>1
        <5> QED BY <1>2, <5>1, <5>2, Zenon
      <4>2. c.out = w.out \o sec /\ c.ours = TRUE
        BY <4>1
      <4> QED BY <3>2, <4>2
    <3>4. n + 2 <= l /\ s[n + 2] = p
      <4>1. n + 1 < l /\ s[(n + 1) + 1] = p
        BY <1>6, <1>8, <2>1
      <4>2. (n + 1) + 1 = n + 2
        OBVIOUS
      <4> QED BY <4>1, <4>2
    <3>5. SubSeq(s, 1, n + 2) = Append(Append(r, "ours"), p)
      <4>1. n + 1 \in Nat /\ (n + 1) + 1 = n + 2
        OBVIOUS
      <4>2. SubSeq(s, 1, (n + 1) + 1) = Append(SubSeq(s, 1, n + 1), s[(n + 1) + 1])
        BY <3>4, <4>1, LineMore
      <4> QED BY <1>1, <2>1, <3>4, <4>1, <4>2
    <3>6. r \o sec = Append(Append(r, "ours"), p)
      <4>1. r \o Section(p) = Append(Append(r, "ours"), p)
        BY <1>1, SectionMore
      <4> QED BY <4>1
    <3>7. Reached(s, n + 1) = n + 2
      <4>1. Reached(s, n + 1) = (n + 1) + 1
        BY <1>8, <2>1 DEF Reached
      <4> QED BY <4>1
    <3>8. Within(s, n + 1)
      BY <1>8, <2>1 DEF Within
    <3> QED BY <3>3, <3>5, <3>6, <3>7, <3>8
  <2>2. CASE x # "ours" /\ n > 0 /\ s[n] = "ours"
    <3>1. x = p
      BY <1>6, <1>8, <2>2
    <3>2. w.ours
      BY <1>3, <2>2 DEF Within
    <3>3. c = w
      BY <1>2, <1>7, <2>2, <3>1, <3>2 DEF Copy
    <3>4. Reached(s, n) = n + 1 /\ Reached(s, n + 1) = n + 1
      BY <1>8, <2>2 DEF Reached
    <3>5. Within(s, n + 1)
      BY <1>8, <2>2 DEF Within
    <3> QED BY <1>3, <3>2, <3>3, <3>4, <3>5
  <2>3. CASE x # "ours" /\ ~(n > 0 /\ s[n] = "ours")
    <3>1. w.ours => x \in Headers
      <4> SUFFICES ASSUME w.ours PROVE x \in Headers
        OBVIOUS
      <4>1. n > 1 /\ s[n - 1] = "ours"
        BY <1>3, <2>3 DEF Within
      <4>2. n - 1 \in 1..l /\ (n - 1) + 2 = n + 1 /\ (n - 1) + 2 <= l
        BY <1>5, <4>1
      <4>3. s[(n - 1) + 2] \in Headers
        BY <1>6, <4>1, <4>2
      <4> QED BY <4>2, <4>3
    <3>2. c = [w EXCEPT !.out = Append(@, x), !.ours = FALSE]
      BY <1>2, <2>3, <3>1 DEF Copy
    <3>3. w.out = r /\ c.out = Append(r, x) /\ c.ours = FALSE
      <4>1. Reached(s, n) = n
        BY <2>3 DEF Reached
      <4>2. w.out = r
        BY <1>3, <4>1
      <4> QED BY <1>4, <3>2, <4>2
    <3>4. Reached(s, n + 1) = n + 1
      BY <1>8, <2>3 DEF Reached
    <3>5. ~Within(s, n + 1)
      BY <1>8, <2>3 DEF Within
    <3> QED BY <1>1, <3>3, <3>4, <3>5
  <2> QED BY <2>1, <2>2, <2>3
<1> QED BY <1>1, <1>9 DEF CopiedUpto

(* So its copy is the list.                                                *)
LEMMA WholeCopied ==
  ASSUME NEW p \in Projects, NEW s \in LinesOf, Whole(s, p)
  PROVE  Copied(s, Section(p)).out = s
<1> PICK l \in Nat : l = Len(s)
  BY DEF LinesOf
<1> PICK T : T = {n \in Nat : n <= l => CopiedUpto(s, p, n)}
  OBVIOUS
<1>1. 0 \in T
  <2>1. SubSeq(s, 1, 0) = <<>>
    BY DEF LinesOf
  <2>2. Copied(<<>>, Section(p)) = Base
    BY CopiedNone
  <2>3. Reached(s, 0) = 0 /\ ~Within(s, 0)
    BY DEF Reached, Within
  <2>4. Base.out = <<>> /\ Base.ours = FALSE
    BY DEF Base
  <2>5. CopiedUpto(s, p, 0)
    BY <2>1, <2>2, <2>3, <2>4 DEF CopiedUpto
  <2> QED BY <2>5
<1>2. ASSUME NEW n \in T PROVE n + 1 \in T
  <2>1. n \in Nat /\ (n + 1 <= l => n <= l)
    OBVIOUS
  <2>2. n + 1 <= l => CopiedUpto(s, p, n + 1)
    BY <2>1, CopiedOn
  <2> QED BY <2>1, <2>2
<1>3. T = Nat
  BY <1>1, <1>2, Induction
<1>4. CopiedUpto(s, p, l)
  <2>1. l <= l /\ l \in T
    BY <1>3
  <2> QED BY <2>1
<1>5. Reached(s, l) = l
  <2>1. l > 0 => s[l] # "ours"
    <3> SUFFICES ASSUME l > 0, s[l] = "ours" PROVE FALSE
      OBVIOUS
    <3>1. l \in DOMAIN s
      BY DEF LinesOf
    <3>2. l < l
      BY <3>1 DEF Whole
    <3> QED BY <3>2
  <2> QED BY <2>1 DEF Reached
<1>6. SubSeq(s, 1, l) = s
  BY DEF LinesOf
<1> QED BY <1>4, <1>5, <1>6 DEF CopiedUpto
------------------------------------------------------------------------------
(* What an installation makes of a configuration.                          *)
Upserted(s, t, p) ==
  /\ t \in LinesOf /\ Foreign(t) = Foreign(s) /\ Neat(t, p)
  /\ Count(t) = IF Count(s) = 0 THEN 1 ELSE Count(s)

(* Where there is no section, nothing is in one.                           *)
LEMMA NoSections ==
  ASSUME NEW s \in LinesOf
  PROVE  (SectionsIn(s) = {} <=> Count(s) = 0) /\ (InTail(s) => SectionsIn(s) # {})
<1>1. IsFiniteSet(SectionsIn(s))
  <2>1. "ours" \in Lines
    BY DEF Lines, Headers
  <2> QED BY <2>1, CountMore
<1>2. SectionsIn(s) = {} <=> Count(s) = 0
  BY <1>1, FS_EmptySet DEF Count
<1>3. ASSUME InTail(s) PROVE SectionsIn(s) # {}
  <2>1. PICK j \in 1..Len(s) : s[j] = "ours"
    BY <1>3 DEF InTail, InOurs
  <2>2. j \in DOMAIN s
    BY DEF LinesOf
  <2> QED BY <2>1, <2>2 DEF SectionsIn
<1> QED BY <1>2, <1>3

(* Sections are replaced, or one is added at the end.                      *)
LEMMA UpsertFits ==
  ASSUME NEW p \in Projects, NEW s \in LinesOf
  PROVE  Upserted(s, UpsertSection(s, Section(p)), p)
<1> PICK w, o : w = Copied(s, Section(p)) /\ o = w.out
  OBVIOUS
<1>1. Walked(w, s, p)
  BY WalkedAll
<1>2. o \in LinesOf /\ Foreign(o) = Foreign(s) /\ Count(o) = Count(s) /\ Whole(o, p)
  BY <1>1 DEF Walked
<1> PICK gap : gap = IF o # <<>> /\ Last(o) # "blank" THEN <<"blank">> ELSE <<>>
  OBVIOUS
<1> PICK all : all = IF w.replaced THEN o ELSE o \o gap \o Section(p)
  OBVIOUS
<1>3. UpsertSection(s, Section(p)) = Trimmed(all)
  BY DEF UpsertSection
<1>4. /\ all \in LinesOf /\ Whole(all, p) /\ Foreign(all) = Foreign(s) /\ SectionsIn(all) # {}
      /\ Count(all) = IF Count(s) = 0 THEN 1 ELSE Count(s)
  <2>1. CASE w.replaced
    <3>1. all = o /\ SectionsIn(s) # {} /\ Count(s) # 0
      BY <1>1, <2>1, NoSections DEF Walked
    <3>2. SectionsIn(o) # {}
      <4>1. Count(o) # 0
        BY <1>2, <3>1
      <4> QED BY <1>2, <4>1, NoSections
    <3> QED BY <1>2, <3>1, <3>2
  <2>2. CASE ~w.replaced
    <3>1. SectionsIn(s) = {} /\ Count(s) = 0
      BY <1>1, <2>2, NoSections DEF Walked
    <3>2. ~Open(o)
      <4>1. ~InTail(s)
        BY <3>1, NoSections
      <4> QED BY <1>1, <4>1 DEF Walked
    <3>3. PICK u : u = o \o gap
      OBVIOUS
    <3>4. u \in LinesOf /\ Whole(u, p) /\ Foreign(u) = Foreign(o) /\ Count(u) = Count(o)
      <4>1. CASE gap = <<>>
        <5>1. u = o
          BY <1>2, <3>3, <4>1, WithGap DEF LinesOf
        <5> QED BY <1>2, <5>1
      <4>2. CASE gap = <<"blank">>
        <5>1. PICK b \in Lines : b = "blank"
          BY DEF Lines
        <5>2. u = Append(o, b)
          BY <1>2, <3>3, <4>2, <5>1, WithGap DEF LinesOf
        <5>3. /\ Foreign(Append(o, b)) = IF b = "blank" \/ InTail(Append(o, b)) THEN Foreign(o) ELSE Append(Foreign(o), b)
              /\ Count(Append(o, b)) = IF b = "ours" THEN Count(o) + 1 ELSE Count(o)
          BY <1>2, ForeignMore, CountMore
        <5>4. b # "ours"
          BY <5>1
        <5>5. Whole(u, p)
          BY <1>2, <3>2, <5>2, <5>4, WholeMore
        <5>6. u \in LinesOf
          BY <1>2, <5>2 DEF LinesOf
        <5> QED BY <5>1, <5>2, <5>3, <5>4, <5>5, <5>6
      <4>3. gap = <<>> \/ gap = <<"blank">>
        OBVIOUS
      <4> QED BY <4>1, <4>2, <4>3
    <3>5. PICK t : t = Append(Append(u, "ours"), p)
      OBVIOUS
    <3>6. /\ t \in LinesOf /\ u \o Section(p) = t
          /\ Foreign(t) = Foreign(u) /\ Count(t) = Count(u) + 1 /\ SectionsIn(t) # {}
      BY <3>4, <3>5, SectionMore
    <3>7. Whole(t, p)
      BY <3>4, <3>5, WholeSection
    <3>8. all = t
      BY <2>2, <3>3, <3>6
    <3>9. Count(t) = 1
      BY <1>2, <3>1, <3>4, <3>6
    <3> QED BY <1>2, <3>1, <3>4, <3>6, <3>7, <3>8, <3>9
  <2> QED BY <2>1, <2>2
<1>5. Trimmed(all) \in LinesOf /\ Alike(all, Trimmed(all)) /\ Neat(Trimmed(all), p)
  BY <1>4, TrimFits
<1> QED BY <1>3, <1>4, <1>5 DEF Upserted, Alike

(* Installing again changes nothing.                                       *)
LEMMA UpsertStable ==
  ASSUME NEW p \in Projects, NEW s \in LinesOf, Neat(s, p)
  PROVE  UpsertSection(s, Section(p)) = s
<1> PICK w : w = Copied(s, Section(p))
  OBVIOUS
<1>1. w.out = s /\ w.replaced
  <2>1. w.out = s
    BY WholeCopied DEF Neat
  <2>2. Walked(w, s, p)
    BY WalkedAll
  <2> QED BY <2>1, <2>2 DEF Walked, Neat
<1>2. UpsertSection(s, Section(p)) = Trimmed(s)
  BY <1>1 DEF UpsertSection
<1>3. PICK m : TrimmedTo(s, Trimmed(s), m)
  BY TrimmedIs DEF Neat
<1>4. m = Len(s)
  <2>1. m \in 1..Len(s) /\ Len(s) \in Nat /\ \A k \in m + 1..Len(s) : s[k] = "blank"
    BY <1>3 DEF TrimmedTo, LinesOf
  <2>2. Len(s) \notin m + 1..Len(s)
    BY <2>1 DEF Neat
  <2> QED BY <2>1, <2>2
<1>5. SubSeq(s, 1, Len(s)) = s
  BY DEF LinesOf
<1> QED BY <1>2, <1>3, <1>4, <1>5 DEF TrimmedTo

(* So whatever the configuration holds, an installation is stable, leaves  *)
(* the lines of others, and makes no second section.                       *)
Installed(s, p) ==
  LET put == UpsertSection(s, Section(p))
      before == Cardinality(SectionsIn(s))
  IN /\ UpsertSection(put, Section(p)) = put /\ Foreign(put) = Foreign(s)
     /\ Cardinality(SectionsIn(put)) = IF before = 0 THEN 1 ELSE before
     /\ \A i \in SectionsIn(put) : i < Len(put) /\ put[i + 1] = p

(* For every configuration and every project.                              *)
LEMMA InstalledWell ==
  ASSUME NEW p \in Projects, NEW s \in LinesOf
  PROVE  Installed(s, p)
<1> PICK t : t = UpsertSection(s, Section(p))
  OBVIOUS
<1>1. /\ t \in LinesOf /\ Foreign(t) = Foreign(s) /\ Neat(t, p)
      /\ Count(t) = IF Count(s) = 0 THEN 1 ELSE Count(s)
  <2>1. Upserted(s, t, p)
    BY UpsertFits
  <2> QED BY <2>1 DEF Upserted
<1>2. UpsertSection(t, Section(p)) = t
  BY <1>1, UpsertStable
<1>3. \A i \in SectionsIn(t) : i < Len(t) /\ t[i + 1] = p
  BY <1>1 DEF Neat, Whole, SectionsIn
<1> QED BY <1>1, <1>2, <1>3 DEF Installed, Count

(* The configuration holds the lines of others unless an edit or a death   *)
(* fell into an installation, and an installation writes what it has read. *)
ConfigTyped ==
  /\ config \in LinesOf /\ theirs \in LinesOf /\ apart \in BOOLEAN /\ edited \subseteq Paths
  /\ apart => Foreign(config) = theirs
ConfigRun ==
  run # NoRun /\ run.step \in {"npx", "read", "put"} =>
    /\ run.ref \in Projects
    /\ run.step = "put" => run.read \in LinesOf /\ (apart => run.read = config)
ConfigInv == ConfigTyped /\ ConfigRun

(* The lines of others are lines.                                          *)
LEMMA ForeignTyped ==
  ASSUME NEW s \in LinesOf
  PROVE  Foreign(s) \in LinesOf
<1>1. ForeignIn(s) \subseteq DOMAIN s
  BY DEF ForeignIn
<1>2. Foreign(s) = Picked(s, ForeignIn(s))
  BY DEF Foreign, ForeignIn
<1> QED BY <1>1, <1>2, PickedElements DEF LinesOf

(* A command that is not about the configuration, or is no more.           *)
LeftAlone == run' = NoRun \/ run'.step \notin {"npx", "read", "put"}

(* Such a command leaves the configuration as it is.                       *)
LEMMA LeavesConfig ==
  ASSUME ConfigInv, UNCHANGED <<config, theirs, apart>>, edited' \subseteq Paths, LeftAlone
  PROVE  ConfigInv'
  BY DEF ConfigInv, ConfigTyped, ConfigRun, LeftAlone

(* The commands that write documents and starters are of that kind.        *)
LEMMA FilesLeave ==
  ASSUME ProvisioningInv, ConfigInv,
         InitCommand \/ SyncCommand \/ Generate \/ Fetch \/ Look \/ Write \/ Drafted \/ LookLock \/ WriteLock
  PROVE  ConfigInv'
<1>0. run # NoRun => run \in RunOf(run.read)
  BY DEF ProvisioningInv, FilesTyped
<1>1. CASE InitCommand \/ SyncCommand
  <2>1. \E command, mode, source, ref : \E step \in {"generate", "fetch"} : Begin(command, mode, source, ref, step)
    <3>1. CASE InitCommand
      <4>1. PICK mode, source, ref : Begin("init", mode, source, ref, "generate")
        BY <3>1 DEF InitCommand
      <4> QED BY <4>1
    <3>2. CASE SyncCommand
      <4>1. PICK mode, source, ref : Begin("sync", mode, source, ref, "fetch")
        BY <3>2 DEF SyncCommand
      <4> QED BY <4>1
    <3> QED BY <1>1, <3>1, <3>2
  <2>3. PICK command, mode, source, ref : \E step \in {"generate", "fetch"} : Begin(command, mode, source, ref, step)
    BY <2>1
  <2>4. PICK step \in {"generate", "fetch"} : Begin(command, mode, source, ref, step)
    BY <2>3
  <2>2. run'.step = step /\ edited' = {} /\ UNCHANGED <<config, theirs, apart>>
    BY <2>4 DEF Begin, disk
  <2> QED BY <2>2, LeavesConfig DEF LeftAlone
<1>2. CASE Generate \/ Fetch \/ Look \/ Write \/ Drafted \/ LookLock \/ WriteLock
  <2>1. run # NoRun /\ UNCHANGED <<config, theirs, apart, edited>>
    BY <1>2 DEF Generate, Fetch, Look, Write, Drafted, LookLock, WriteLock, At, disk, history
  <2>2. run \in RunOf(run.read)
    BY <1>0, <2>1
  <2>3. LeftAlone
    <3>1. CASE Generate \/ Fetch
      BY <2>2, <3>1 DEF Generate, Fetch, GoesOn, Stops, RunOf, LeftAlone
    <3>2. CASE Look \/ Write
      BY <2>2, <3>2 DEF Look, Write, GoesOn, At, RunOf, LeftAlone
    <3>3. CASE Drafted
      BY <2>2, <3>3 DEF Drafted, GoesOn, Stops, RunOf, LeftAlone
    <3>4. CASE LookLock \/ WriteLock
      BY <2>2, <3>4 DEF LookLock, WriteLock, GoesOn, Stops, RunOf, LeftAlone
    <3> QED BY <1>2, <3>1, <3>2, <3>3, <3>4
  <2>4. edited' \subseteq Paths
    BY <2>1 DEF ConfigInv, ConfigTyped
  <2> QED BY <2>1, <2>3, <2>4, LeavesConfig
<1> QED BY <1>1, <1>2

(* An installation reads the configuration and puts its section there.     *)
LEMMA InstallConfig ==
  ASSUME ProvisioningInv, ConfigInv, InstallCommand \/ FindNpx \/ ReadConfig \/ WriteConfig
  PROVE  ConfigInv'
<1>0. (run # NoRun => run \in RunOf(run.read)) /\ ConfigTyped /\ ConfigRun
  BY DEF ProvisioningInv, FilesTyped, ConfigInv
<1>1. CASE InstallCommand
  <2>1. PICK mode \in {"missing", "dry"}, p \in Projects : Begin("install", mode, "none", p, "npx")
    BY <1>1 DEF InstallCommand
  <2>2. run'.step = "npx" /\ run'.ref = p /\ edited' = {} /\ UNCHANGED <<config, theirs, apart>>
    BY <2>1 DEF Begin, disk
  <2> QED BY <1>0, <2>2 DEF ConfigInv, ConfigTyped, ConfigRun
<1>2. CASE FindNpx
  <2>1. run # NoRun /\ run.step = "npx" /\ UNCHANGED <<config, theirs, apart, edited>>
    BY <1>2 DEF FindNpx, At, disk, history
  <2>2. CASE Stops
    <3>1. edited' \subseteq Paths
      BY <1>0, <2>1 DEF ConfigTyped
    <3> QED BY <2>1, <2>2, <3>1, LeavesConfig DEF LeftAlone, Stops
  <2>3. CASE GoesOn([run EXCEPT !.step = "read"])
    <3>1. run'.step = "read" /\ run'.ref = run.ref
      BY <1>0, <2>1, <2>3 DEF GoesOn, RunOf
    <3> QED BY <1>0, <2>1, <3>1 DEF ConfigInv, ConfigTyped, ConfigRun
  <2> QED BY <1>2, <2>2, <2>3 DEF FindNpx
<1>3. CASE ReadConfig
  <2>1. /\ run # NoRun /\ run.step = "read" /\ UNCHANGED <<config, theirs, apart, edited>>
        /\ run' = [run EXCEPT !.step = "put", !.read = config]
    BY <1>3 DEF ReadConfig, At, disk, history, GoesOn
  <2>2. run'.step = "put" /\ run'.ref = run.ref /\ run'.read = config
    BY <1>0, <2>1 DEF RunOf
  <2> QED BY <1>0, <2>1, <2>2 DEF ConfigInv, ConfigTyped, ConfigRun
<1>4. CASE WriteConfig
  <2>1. /\ run # NoRun /\ run.step = "put" /\ run' = NoRun /\ UNCHANGED <<theirs, apart, edited>>
        /\ config' = UpsertSection(run.read, Section(run.ref))
    BY <1>4 DEF WriteConfig, At, history, Stops
  <2>2. PICK s, p, t : s = run.read /\ p = run.ref /\ t = UpsertSection(s, Section(p))
    OBVIOUS
  <2>3. s \in LinesOf /\ p \in Projects /\ (apart => s = config)
    BY <1>0, <2>1, <2>2 DEF ConfigRun
  <2>4. Upserted(s, t, p)
    BY <2>2, <2>3, UpsertFits
  <2>5. t \in LinesOf /\ Foreign(t) = Foreign(s) /\ config' = t
    BY <2>1, <2>2, <2>4 DEF Upserted
  <2>6. apart => Foreign(config') = theirs
    BY <1>0, <2>3, <2>5 DEF ConfigTyped
  <2> QED BY <1>0, <2>1, <2>5, <2>6 DEF ConfigInv, ConfigTyped, ConfigRun
<1> QED BY <1>1, <1>2, <1>3, <1>4

(* Deaths and edits, and what touches other things.                        *)
LEMMA OthersConfig ==
  ASSUME ProvisioningInv, ConfigInv,
         \/ Dies \/ EditConfig \/ Publish \/ UNCHANGED provisioningVars
         \/ \E p \in Paths : UserWrites(p) \/ UserDeletes(p)
  PROVE  ConfigInv'
<1>0. ConfigTyped /\ ConfigRun
  BY DEF ConfigInv
<1>1. CASE Dies
  <2>1. run' = NoRun /\ UNCHANGED <<theirs, edited>> /\ apart' = (apart /\ ~At("put"))
    BY <1>1 DEF Dies, Stops
  <2>2. config' = IF At("put") THEN <<>> ELSE config
    BY <1>1 DEF Dies
  <2>3. <<>> \in LinesOf
    BY DEF LinesOf
  <2>4. config' \in LinesOf /\ (apart' => config' = config /\ apart)
    BY <1>0, <2>1, <2>2, <2>3 DEF ConfigTyped
  <2>5. apart' => Foreign(config') = theirs'
    BY <1>0, <2>1, <2>4 DEF ConfigTyped
  <2>6. apart' \in BOOLEAN
    BY <2>1
  <2> QED BY <1>0, <2>1, <2>4, <2>5, <2>6 DEF ConfigInv, ConfigTyped, ConfigRun
<1>2. CASE EditConfig
  <2>1. PICK more \in Additions : config' = config \o more
    BY <1>2 DEF EditConfig
  <2>2. config' \in LinesOf
    BY <1>0, <2>1, ProvisioningAssumption DEF ConfigTyped, LinesOf
  <2>3. PICK s : s = config'
    OBVIOUS
  <2>4. theirs' = Foreign(s) /\ apart' = (apart /\ ~At("put")) /\ UNCHANGED <<run, edited>>
    BY <1>2, <2>3 DEF EditConfig
  <2>5. Foreign(s) \in LinesOf
    BY <2>2, <2>3, ForeignTyped
  <2>6. ConfigTyped'
    BY <1>0, <2>2, <2>3, <2>4, <2>5 DEF ConfigTyped
  <2>7. ConfigRun'
    BY <1>0, <2>4 DEF ConfigRun, At
  <2> QED BY <2>6, <2>7 DEF ConfigInv
<1>3. CASE Publish \/ UNCHANGED provisioningVars
  <2>1. UNCHANGED <<config, theirs, apart, edited, run>>
    BY <1>3 DEF Publish, provisioningVars, disk, history
  <2> QED BY <1>0, <2>1 DEF ConfigInv, ConfigTyped, ConfigRun
<1>4. CASE \E p \in Paths : UserWrites(p) \/ UserDeletes(p)
  <2>1. PICK p \in Paths : UserWrites(p) \/ UserDeletes(p)
    BY <1>4
  <2>2. UNCHANGED <<config, theirs, apart, run>> /\ edited' = edited \cup {p}
    BY <2>1 DEF UserWrites, UserDeletes
  <2> QED BY <1>0, <2>2 DEF ConfigInv, ConfigTyped, ConfigRun
<1> QED BY <1>1, <1>2, <1>3, <1>4

(* At first there is no configuration.                                     *)
LEMMA ConfigInvInit == ProvisioningInit => ConfigInv
<1> SUFFICES ASSUME ProvisioningInit PROVE ConfigInv
  OBVIOUS
<1>0. PICK s : s = <<>>
  OBVIOUS
<1>1. s = <<>> /\ s \in LinesOf
  BY <1>0 DEF LinesOf
<1>2. config = s /\ theirs = s /\ apart /\ run = NoRun /\ edited = {}
  BY <1>1 DEF ProvisioningInit
<1>3. Foreign(s) = <<>>
  BY <1>1, NoLines
<1> QED BY <1>1, <1>2, <1>3 DEF ConfigInv, ConfigTyped, ConfigRun, ProvisioningInit

(* Both invariants of the commands are kept together.                      *)
CommandsInv == ProvisioningInv /\ ConfigInv

(* Before the first command.                                               *)
LEMMA CommandsInvInit == ProvisioningInit => CommandsInv
  BY ProvisioningInvInit, ConfigInvInit DEF CommandsInv
(* By the steps of commands, people, and other programs.                   *)
LEMMA CommandsInvNext == CommandsInv /\ [ProvisioningNext]_provisioningVars => CommandsInv'
<1> SUFFICES ASSUME CommandsInv, [ProvisioningNext]_provisioningVars PROVE CommandsInv'
  OBVIOUS
<1>1. ProvisioningInv /\ ConfigInv
  BY DEF CommandsInv
<1>2. ProvisioningInv'
  BY <1>1, ProvisioningInvNext
<1>3. ConfigInv'
  <2>1. CASE InitCommand \/ SyncCommand \/ Generate \/ Fetch \/ Look \/ Write \/ Drafted \/ LookLock \/ WriteLock
    BY <1>1, <2>1, FilesLeave
  <2>2. CASE InstallCommand \/ FindNpx \/ ReadConfig \/ WriteConfig
    BY <1>1, <2>2, InstallConfig
  <2>3. CASE \/ Dies \/ EditConfig \/ Publish \/ UNCHANGED provisioningVars
             \/ \E p \in Paths : UserWrites(p) \/ UserDeletes(p)
    BY <1>1, <2>3, OthersConfig
  <2> QED BY <2>1, <2>2, <2>3 DEF ProvisioningNext
<1> QED BY <1>2, <1>3 DEF CommandsInv

(* The lines of others are where they were, and an installation is stable. *)
LEMMA LinesKept ==
  ASSUME ConfigInv
  PROVE  OthersLinesKept
<1>1. config \in LinesOf /\ (apart => Foreign(config) = theirs)
  BY DEF ConfigInv, ConfigTyped
<1>2. \A p \in Projects : Installed(config, p)
  BY <1>1, InstalledWell
<1> QED BY <1>1, <1>2 DEF OthersLinesKept, Installed

(* What users write into a repository, and other programs into the         *)
(* configuration of an editor, survives the commands that write beside     *)
(* them: whatever releases, lines, edits and deaths there are              *)
(* (scaffolder.py, agentic_starter.py, azure_devops.py:134-155).           *)
THEOREM ProvisionedKept == ProvisioningSpec => []Provisioned
<1>1. CommandsInv => Provisioned
  BY LinesKept DEF CommandsInv, ProvisioningInv, Provisioned
<1> QED BY <1>1, CommandsInvInit, CommandsInvNext, PTL DEF ProvisioningSpec

(* What the commands write is typed.                                       *)
LEMMA CommandsTyped == CommandsInv => ProvisioningTypeOK
<1> SUFFICES ASSUME CommandsInv PROVE ProvisioningTypeOK
  OBVIOUS
<1>1. FilesTyped /\ ConfigTyped
  BY DEF CommandsInv, ProvisioningInv, ConfigInv
<1>2. run # NoRun => Range(run.todo) \subseteq Paths /\ run.content \in Contents
  BY <1>1 DEF FilesTyped, RunOf, Range
<1>3. exact \in Contents
  BY <1>1, ContentsTyped DEF FilesTyped
<1> QED BY <1>1, <1>2, <1>3 DEF ProvisioningTypeOK, FilesTyped, ConfigTyped, LinesOf

(* The files, the configuration and the command in hand are what the       *)
(* module says they are (scaffolder.py, agentic_starter.py).               *)
THEOREM ProvisioningTypeOKKept == ProvisioningSpec => []ProvisioningTypeOK
  BY CommandsTyped, CommandsInvInit, CommandsInvNext, PTL DEF ProvisioningSpec
------------------------------------------------------------------------------
(* Each part goes its way in the composition, while the others rest.       *)
LEMMA EachGoesItsWay ==
  Spec => PublicationSpec /\ ReworkSpec /\ IntakeSpec /\ BoardSpec /\ OnboardingSpec /\ ProvisioningSpec
<1>1. Init => PublicationInit /\ ReworkInit /\ IntakeInit /\ BoardInit /\ OnboardingInit /\ ProvisioningInit
  BY DEF Init
<1>2. ASSUME [Next]_services
      PROVE  /\ [PublicationNext]_publicationVars /\ [ReworkNext]_reworkVars /\ [IntakeNext]_intakeVars
             /\ [BoardNext]_boardVars /\ [OnboardingNext]_onboardingVars /\ [ProvisioningNext]_provisioningVars
  BY <1>2 DEF Next, services
<1> QED BY <1>1, <1>2, PTL DEF Spec, PublicationSpec, ReworkSpec, IntakeSpec, BoardSpec, OnboardingSpec,
          ProvisioningSpec

(* Whatever service moves, its state is well typed: verdicts, reports,     *)
(* items, issues, credentials, files and lines (quality_gate.py, rework.py,*)
(* planning.py, planning_publish.py, credentials.py, azure_devops.py).      *)
THEOREM ServicesTypeOKKept == Spec => []TypeOK
<1>1. /\ PublicationTypeOK /\ ReworkTypeOK /\ IntakeTypeOK /\ BoardTypeOK /\ OnboardingTypeOK /\ ProvisioningTypeOK
      => TypeOK
  BY DEF TypeOK
<1> QED BY <1>1, EachGoesItsWay, PublicationTypeOKKept, ReworkTypeOKKept, IntakeTypeOKKept, BoardTypeOKKept,
          OnboardingTypeOKKept, ProvisioningTypeOKKept, PTL
==================================================================================
