------------------------------- MODULE Flow_proofs -------------------------------
(***************************************************************************)
(* A delivery and the loop that starts deliveries. For any configurations  *)
(* and any findings of the scanners: the lanes keep the contract of a      *)
(* delivery, and a report without a failed step can be believed. For any   *)
(* sprint, any edits of it, any crashes and any limits: the watcher        *)
(* handles an item as it was polled once.                                  *)
(***************************************************************************)
EXTENDS Lanes, Watcher, FiniteSetTheorems, TLAPS

------------------------------------------------------------------------------
(* What a step of the pr lane may take for granted: the level was asked on *)
(* the way to it, an address belongs to a pull request, and the tracker is *)
(* told only of a deploy that was taken.                                   *)
OutsideInv ==
  /\ level \in Level
  /\ tree \subseteq Content /\ head \subseteq Content
  /\ created.known => pull
  /\ at \in {"fire", "notify"} => Allows("deploy-callback") /\ pull
  /\ at = "notify" => accepted

(* A check that fails and a marker leave their step in the report, or will *)
(* when the lane of the fix loop returns.                                  *)
ReportInv ==
  /\ gates # {} => failed \/ (at = "fix" /\ bad)
  /\ "markers" \in tree \cup head => failed
  /\ remote # None /\ "markers" \in remote => failed

(* The levels of policy.py:35-44 in their order.                           *)
LEMMA Ranks ==
  /\ \A l \in Level : LevelRank(l) \in Nat
  /\ LevelRank("push") = 5 /\ LevelRank("pr") = 6 /\ LevelRank("deploy-callback") = 8
<1>1. DOMAIN LevelOrder = 1..8
  BY DEF LevelOrder
<1>2. \A l \in Level : LevelRank(l) \in 1..8 /\ LevelOrder[LevelRank(l)] = l
  BY <1>1 DEF Level, LevelRank
<1>3. {"push", "pr", "deploy-callback"} \subseteq Level
  <2>1. LevelOrder[5] = "push" /\ LevelOrder[6] = "pr" /\ LevelOrder[8] = "deploy-callback"
    BY DEF LevelOrder
  <2> QED
    BY <1>1, <2>1 DEF Level
<1>4. \A n \in 1..8 :
        /\ LevelOrder[n] = "push" => n = 5
        /\ LevelOrder[n] = "pr" => n = 6
        /\ LevelOrder[n] = "deploy-callback" => n = 8
  BY DEF LevelOrder
<1> QED
  BY <1>2, <1>3, <1>4

(* What the steps of the pr lane ask the policy for.                       *)
LEMMA Asked ==
  /\ at = "push" /\ Allowed => LevelRank(level) >= 5
  /\ at = "create" /\ Allowed => LevelRank(level) >= 6
  /\ at = "deploy" /\ Allowed /\ conf.deploy => Allows("deploy-callback")
  /\ level \in Level /\ Allows("deploy-callback") => LevelRank(level) >= 8
<1>1. DOMAIN Required = {"codegen", "commit", "push", "create", "deploy"}
  BY DEF Required
<1>2. Required["push"] = "push" /\ Required["create"] = "create-pr" /\ Required["deploy"] = "deploy-callback"
  BY DEF Required
<1>3. /\ ActionRequirements["push"] = "push" /\ ActionRequirements["create-pr"] = "pr"
      /\ ActionRequirements["deploy-callback"] = "deploy-callback"
  BY DEF ActionRequirements
<1>4. at = "push" /\ Allowed => LevelRank("push") <= LevelRank(level)
  BY <1>1, <1>2, <1>3 DEF Allowed, Asks, Allows
<1>5. at = "create" /\ Allowed => LevelRank("pr") <= LevelRank(level)
  BY <1>1, <1>2, <1>3 DEF Allowed, Asks, Allows
<1>6. at = "deploy" /\ Allowed /\ conf.deploy => Allows("deploy-callback")
  BY <1>1, <1>2 DEF Allowed, Asks
<1>7. Allows("deploy-callback") => LevelRank("deploy-callback") <= LevelRank(level)
  BY <1>3 DEF Allows
<1> QED
  BY <1>4, <1>5, <1>6, <1>7, Ranks

(* An empty tree, no branch, no pull request (sprint_flow.py:606-637).     *)
LEMMA OutsideInvInit == Init => OutsideInv
<1> SUFFICES ASSUME Init PROVE OutsideInv
  OBVIOUS
<1>1. level \in Level
  BY LanesAssumption DEF Init, Conf
<1> QED
  BY <1>1 DEF Init, OutsideInv, Content, Unknown

(* The steps before the pr lane touch nothing outside.                     *)
LEMMA OutsideInvInside ==
  ASSUME OutsideInv,
         Bootstrap \/ Raise \/ Dev \/ Codegen \/ Lint \/ Test \/ Security \/ Fix \/ FixEnds
  PROVE  OutsideInv'
<1>1. UNCHANGED <<level, head, created, pull, accepted>>
  BY DEF Bootstrap, Raise, Dev, Codegen, Lint, Test, Security, Fix, FixEnds, git, outside
<1>2. at' \notin {"fire", "notify"}
  BY DEF Bootstrap, Raise, Dev, Codegen, Generated, Lint, Test, Security, Fix, FixEnds, Return, Stay
<1>3. tree' \subseteq Content
  <2>1. \A result \in ApplyResults : result.leaves \subseteq Content
    BY DEF ApplyResults, Content
  <2>2. CASE Codegen
    BY <2>1, <2>2 DEF Codegen, Generated, OutsideInv
  <2>3. CASE Dev \/ Test \/ Fix
    BY <2>3 DEF Dev, Test, Fix, Leaves, OutsideInv, Content
  <2>4. CASE Bootstrap \/ Raise \/ Lint \/ Security \/ FixEnds
    BY <2>4 DEF Bootstrap, Raise, Lint, Security, FixEnds, git, OutsideInv
  <2> QED
    BY <2>2, <2>3, <2>4
<1> QED
  BY <1>1, <1>2, <1>3 DEF OutsideInv

(* The steps of the pr lane, and the end of a run.                         *)
LEMMA OutsideInvPr ==
  ASSUME OutsideInv,
         Commit \/ Push \/ Create \/ Review \/ Deploy \/ Fire \/ Notify \/ Report
  PROVE  OutsideInv'
<1>1. CASE Commit
  BY <1>1 DEF Commit, Stay, outside, OutsideInv
<1>2. CASE Push
  BY <1>2 DEF Push, Stay, outside, OutsideInv
<1>3. CASE Create
  <2>1. UNCHANGED <<level, tree, head, accepted>> /\ at' = "review"
    BY <1>3 DEF Create, Stay, git
  <2>2. created'.known => pull'
    <3>1. PICK answer \in Answers :
            /\ pull' = (pull \/ answer # "refused")
            /\ created' = [known |-> answer \in {"opened", "opened-blank"}, address |-> answer = "opened"]
      BY <1>3 DEF Create
    <3>2. created'.known = (answer \in {"opened", "opened-blank"})
      BY <3>1
    <3> QED
      BY <3>1, <3>2
  <2> QED
    BY <2>1, <2>2 DEF OutsideInv
<1>4. CASE Review
  BY <1>4 DEF Review, Stay, git, outside, OutsideInv
<1>5. CASE Deploy
  <2>1. UNCHANGED <<level, tree, head, created, pull, accepted>> /\ at' \in {"fire", "returned"}
    BY <1>5 DEF Deploy, Stay, Return, git, outside
  <2>2. at' = "fire" => conf.deploy /\ created.known
    BY <1>5 DEF Deploy, Stay, Return
  <2>3. conf.deploy => Allows("deploy-callback")
    BY <1>5, Asked DEF Deploy
  <2>4. Allows("deploy-callback")' <=> Allows("deploy-callback")
    BY <2>1 DEF Allows
  <2> QED
    BY <2>1, <2>2, <2>3, <2>4 DEF OutsideInv
<1>6. CASE Fire
  <2>1. UNCHANGED <<level, tree, head, created, pull>> /\ at = "fire"
    BY <1>6 DEF Fire, git
  <2>2. at' = "notify" => accepted'
    BY <1>6 DEF Fire, Stay, Return
  <2>3. Allows("deploy-callback")' <=> Allows("deploy-callback")
    BY <2>1 DEF Allows
  <2> QED
    BY <2>1, <2>2, <2>3 DEF OutsideInv
<1>7. CASE Notify
  BY <1>7 DEF Notify, Return, git, OutsideInv
<1>8. CASE Report
  BY <1>8 DEF Report, Unknown, git, outside, OutsideInv
<1> QED
  BY <1>1, <1>2, <1>3, <1>4, <1>5, <1>6, <1>7, <1>8

(* A run may come with another level; it starts with a lane.               *)
LEMMA OutsideInvAgain ==
  ASSUME OutsideInv, Resume \/ Again
  PROVE  OutsideInv'
<1>1. UNCHANGED <<tree, head, created, pull>> /\ at' \in {"commit", "dev"}
  BY DEF Resume, Again, Restart, git, outside
<1>2. level' \in Level
  BY LanesAssumption DEF Resume, Again, Restart, Conf
<1> QED
  BY <1>1, <1>2 DEF OutsideInv

(* Every step keeps what the pr lane takes for granted.                    *)
LEMMA OutsideInvNext == OutsideInv /\ [Next]_vars => OutsideInv'
<1>1. ASSUME OutsideInv, UNCHANGED vars PROVE OutsideInv'
  BY <1>1 DEF vars, git, outside, OutsideInv, Allows
<1> QED
  BY <1>1, OutsideInvInside, OutsideInvPr, OutsideInvAgain DEF Next, Flow

------------------------------------------------------------------------------
(* The run begins with nothing done outside.                               *)
LEMMA ContractInit == Init => Promise!ContractInit
<1> SUFFICES ASSUME Init PROVE Promise!ContractInit
  OBVIOUS
<1>1. LevelRank(level) \in Nat
  BY Ranks, OutsideInvInit DEF OutsideInv
<1>2. Done = {}
  BY DEF Init, Done
<1> QED
  BY <1>1, <1>2 DEF Promise!ContractInit

(* An effect the contract allows: its level is granted and what it builds  *)
(* on has happened.                                                        *)
LEMMA Advances ==
  ASSUME NEW e \in {"published", "proposed", "released", "announced"}, UNCHANGED level, Done' = Done \cup {e},
         [published |-> 5, proposed |-> 6, released |-> 8, announced |-> 8][e] <= LevelRank(level),
         [published |-> {}, proposed |-> {"published"}, released |-> {"proposed"}, announced |-> {"released"}][e]
           \subseteq Done
  PROVE  Promise!ContractNext
<1>1. LevelRank(level)' = LevelRank(level)
  BY DEF LevelRank
<1>2. Promise!Advance(e)
  BY <1>1 DEF Promise!Advance
<1> QED
  BY <1>2 DEF Promise!ContractNext

(* No step but these five changes what is seen outside, or the level.      *)
LEMMA NothingOutside ==
  ASSUME UNCHANGED <<level, remote, pull, accepted, ticket>>
  PROVE  UNCHANGED <<LevelRank(level), Done>>
BY DEF LevelRank, Done

(* Every step is one of the contract, or one it does not see.              *)
LEMMA StepOfContract ==
  ASSUME OutsideInv, [Next]_vars
  PROVE  [Promise!ContractNext]_<<LevelRank(level), Done>>
<1>1. CASE Push
  <2>1. UNCHANGED <<level, pull, accepted, ticket>> /\ remote' \in {head, remote}
    BY <1>1 DEF Push, outside
  <2>2. CASE remote' = remote
    BY <2>1, <2>2, NothingOutside
  <2>3. CASE remote' = head
    <3>1. head # None
      BY LanesAssumption DEF OutsideInv
    <3>2. Done' = Done \cup {"published"}
      BY <2>1, <2>3, <3>1 DEF Done
    <3>3. 5 <= LevelRank(level)
      BY <1>1, Asked DEF Push
    <3> QED
      BY <2>1, <3>2, <3>3, Advances
  <2> QED
    BY <2>1, <2>2, <2>3
<1>2. CASE Create
  <2>1. UNCHANGED <<level, remote, accepted, ticket>>
    BY <1>2 DEF Create, git
  <2>2. PICK answer \in Answers : pull' = (pull \/ answer # "refused")
    BY <1>2 DEF Create
  <2>3. CASE pull \/ answer = "refused"
    <3>1. Done' = Done
      BY <2>1, <2>2, <2>3 DEF Done
    <3> QED
      BY <2>1, <3>1 DEF LevelRank
  <2>4. CASE ~pull /\ answer # "refused"
    <3>1. remote # None
      BY <2>4 DEF Answers
    <3>2. Done' = Done \cup {"proposed"}
      BY <2>1, <2>2, <2>4 DEF Done
    <3>3. 6 <= LevelRank(level)
      BY <1>2, Asked DEF Create
    <3>4. {"published"} \subseteq Done
      BY <3>1 DEF Done
    <3> QED
      BY <2>1, <3>2, <3>3, <3>4, Advances
  <2> QED
    BY <2>3, <2>4
<1>3. CASE Fire
  <2>1. UNCHANGED <<level, remote, pull, ticket>> /\ accepted' \in {accepted, TRUE}
    BY <1>3 DEF Fire, git
  <2>2. pull /\ 8 <= LevelRank(level)
    BY <1>3, Asked DEF Fire, OutsideInv
  <2>3. CASE accepted' = accepted
    BY <2>1, <2>3, NothingOutside
  <2>4. CASE accepted' = TRUE
    <3>1. Done' = Done \cup {"released"}
      BY <2>1, <2>4 DEF Done
    <3>2. {"proposed"} \subseteq Done
      BY <2>2 DEF Done
    <3> QED
      BY <2>1, <2>2, <3>1, <3>2, Advances
  <2> QED
    BY <2>1, <2>3, <2>4
<1>4. CASE Notify
  <2>1. UNCHANGED <<level, remote, pull, accepted>> /\ ticket' \in {ticket, TRUE}
    BY <1>4 DEF Notify, git
  <2>2. accepted /\ 8 <= LevelRank(level)
    BY <1>4, Asked DEF Notify, OutsideInv
  <2>3. CASE ticket' = ticket
    BY <2>1, <2>3, NothingOutside
  <2>4. CASE ticket' = TRUE
    <3>1. Done' = Done \cup {"announced"}
      BY <2>1, <2>4 DEF Done
    <3>2. {"released"} \subseteq Done
      BY <2>2 DEF Done
    <3> QED
      BY <2>1, <2>2, <3>1, <3>2, Advances
  <2> QED
    BY <2>1, <2>3, <2>4
<1>5. CASE Resume \/ Again
  <2>1. UNCHANGED <<remote, pull, accepted, ticket>>
    BY <1>5 DEF Resume, Again, Restart, git, outside
  <2>2. LevelRank(level)' \in Nat
    <3>1. level' \in Level
      BY <1>5, LanesAssumption DEF Resume, Again, Restart, Conf
    <3>2. LevelRank(level)' = LevelRank(level')
      BY DEF LevelRank
    <3> QED
      BY <3>1, <3>2, Ranks
  <2>3. UNCHANGED Done
    BY <2>1 DEF Done
  <2>4. Promise!Grant
    BY <2>2, <2>3 DEF Promise!Grant
  <2> QED
    BY <2>4 DEF Promise!ContractNext
<1>6. CASE Bootstrap \/ Raise \/ Dev \/ Codegen \/ Lint \/ Test \/ Security \/ Fix \/ FixEnds
  <2>1. UNCHANGED <<level, remote, pull, accepted, ticket>>
    BY <1>6 DEF Bootstrap, Raise, Dev, Codegen, Lint, Test, Security, Fix, FixEnds, git, outside
  <2> QED
    BY <2>1, NothingOutside
<1>7. CASE Commit \/ Review \/ Deploy \/ Report \/ UNCHANGED vars
  <2>1. UNCHANGED <<level, remote, pull, accepted, ticket>>
    BY <1>7 DEF Commit, Review, Deploy, Report, vars, git, outside
  <2> QED
    BY <2>1, NothingOutside
<1> QED
  BY <1>1, <1>2, <1>3, <1>4, <1>5, <1>6, <1>7 DEF Next, Flow

(* Pushes, pull requests, deploys and ticket updates happen only at a      *)
(* level that allows them and after what they build on, over denied,       *)
(* failed, resumed and repeated runs (policy.py:46-59,                     *)
(* sprint_flow.py:606-660): for any configurations, findings and runs.     *)
THEOREM ContractKept == Spec => Contract
<1>1. Init => OutsideInv
  BY OutsideInvInit
<1>2. OutsideInv /\ [Next]_vars => OutsideInv'
  BY OutsideInvNext
<1>3. Init => Promise!ContractInit
  BY ContractInit
<1>4. OutsideInv /\ [Next]_vars => [Promise!ContractNext]_<<LevelRank(level), Done>>
  BY StepOfContract
<1> QED
  BY <1>1, <1>2, <1>3, <1>4, PTL DEF Spec, Contract, Promise!Contract

------------------------------------------------------------------------------
(* Without a run nothing has failed.                                       *)
LEMMA ReportInvInit == Init => ReportInv
  BY DEF Init, ReportInv

(* Each check that fails leaves a failed step behind; a diff that does not *)
(* apply does too.                                                         *)
LEMMA ReportInvNext == ReportInv /\ [Next]_vars => ReportInv'
<1> SUFFICES ASSUME ReportInv, [Next]_vars PROVE ReportInv'
  OBVIOUS
<1>1. CASE Codegen
  <2>1. UNCHANGED <<gates, head, remote>> /\ at = "codegen"
    BY <1>1 DEF Codegen, tools
  <2>2. failed => failed'
    BY <1>1 DEF Codegen, Generated, Return
  <2>3. "markers" \in tree' => "markers" \in tree \/ failed'
    <3>1. \A result \in ApplyResults : "markers" \in result.leaves => ~result.applied
      BY DEF ApplyResults
    <3> QED
      BY <1>1, <3>1 DEF Codegen, Generated, Return
  <2> QED
    BY <2>1, <2>2, <2>3 DEF ReportInv
<1>2. CASE Lint
  BY <1>2 DEF Lint, Checked, Return, git, ReportInv
<1>3. CASE Test
  BY <1>3 DEF Test, Checked, Return, Leaves, ReportInv
<1>4. CASE Security
  BY <1>4 DEF Security, Checked, Stay, git, ReportInv
<1>5. CASE Fix
  BY <1>5 DEF Fix, Stay, Leaves, ReportInv
<1>6. CASE FixEnds
  BY <1>6 DEF FixEnds, Return, tools, git, ReportInv
<1>7. CASE Dev
  BY <1>7 DEF Dev, Stay, Leaves, tools, ReportInv
<1>8. CASE Raise
  <2>1. at # "fix"
    BY <1>8 DEF Raise, Allowed, Asks, Required
  <2> QED
    BY <1>8, <2>1 DEF Raise, tools, git, ReportInv
<1>9. CASE Commit
  BY <1>9 DEF Commit, Stay, tools, ReportInv
<1>10. CASE Push
  BY <1>10 DEF Push, Stay, tools, ReportInv
<1>11. CASE Create
  BY <1>11 DEF Create, Stay, tools, git, ReportInv
<1>12. CASE Review
  BY <1>12 DEF Review, Stay, tools, git, ReportInv
<1>13. CASE Deploy
  BY <1>13 DEF Deploy, Stay, Return, tools, git, ReportInv
<1>14. CASE Fire
  <2>1. UNCHANGED <<gates, tree, head, remote>> /\ at = "fire"
    BY <1>14 DEF Fire, tools, git
  <2>2. failed => failed'
    BY <1>14 DEF Fire, Stay, Return
  <2> QED
    BY <2>1, <2>2 DEF ReportInv
<1>15. CASE Notify
  BY <1>15 DEF Notify, Return, tools, git, ReportInv
<1>16. CASE Report
  BY <1>16 DEF Report, git, ReportInv
<1>17. CASE Bootstrap \/ Resume \/ Again
  BY <1>17 DEF Bootstrap, Resume, Again, Restart, tools, git, ReportInv
<1>18. CASE UNCHANGED vars
  BY <1>18 DEF vars, tools, git, ReportInv
<1> QED
  BY <1>1, <1>2, <1>3, <1>4, <1>5, <1>6, <1>7, <1>8, <1>9, <1>10, <1>11, <1>12, <1>13, <1>14, <1>15, <1>16,
     <1>17, <1>18 DEF Next, Flow

(* A report without a failed step is true of the code: no check failed     *)
(* when it was last run, and no conflict marker is in the tree, the        *)
(* commits or on the remote (sprint_flow.py:842-847, 866-914).             *)
THEOREM GreenReportKept == Spec => []GreenReport
<1>1. ReportInv => GreenReport
  BY DEF ReportInv, GreenReport
<1> QED
  BY <1>1, ReportInvInit, ReportInvNext, PTL DEF Spec

------------------------------------------------------------------------------
(* Where a flow of the first candidate is under way.                       *)
Flowing == phase \in {"flow", "opened", "done", "raised"}
InCycle == Flowing \/ phase \in {"task", "saving"}

Recs == IF InCycle THEN loaded ELSE records

(* The candidates: snapshots of the tracker, one of an item, no later flow *)
TodoFits ==
  /\ \A n \in DOMAIN todo :
       /\ todo[n].edits <= tracker[todo[n].item].edits
       /\ todo[n].edits = tracker[todo[n].item].edits => todo[n] = tracker[todo[n].item]
       /\ \A e \in Edits : e > todo[n].edits => attempts[<<todo[n].item, e>>] = 0
  /\ \A m, n \in DOMAIN todo : m # n => todo[m].item # todo[n].item
  /\ Flowing => todo # <<>>
  /\ phase \in {"off", "poll", "saving"} => todo = <<>>

TrackerFits ==
  /\ \A i \in Items : tracker[i].item = i /\ tracker[i].edits <= edited /\ seen[i] <= tracker[i].edits
  /\ \A i \in Items, e \in Edits : e > tracker[i].edits => attempts[<<i, e>>] = 0

(* What has its flow in this cycle or an earlier one is remembered.        *)
Remembered ==
  \A i \in Items :
    attempts[<<i, tracker[i].edits>>] > faults + forced =>
      \/ ~ShouldProcess(Recs, tracker[i])
      \/ Flowing /\ Head(todo).item = i

Unspent ==
  \A n \in DOMAIN todo : n > 1 \/ phase = "task" => attempts[<<todo[n].item, todo[n].edits>>] <= faults + forced

NotAhead(recs) ==
  \A i \in Versioned : recs[i] # NoRecord /\ recs[i].final # "blocked" => recs[i].revision <= seen[i]

HeadSeen == Flowing => todo[1].edits <= seen[todo[1].item]

PrInv ==
  /\ phase \in {"flow", "opened"} => reading \in Contents
  /\ phase = "opened" => reading \notin receipts
  /\ \A c \in Contents :
       /\ opened[c] <= 1 + lost[c]
       /\ c \notin receipts /\ ~(phase = "opened" /\ reading = c) => opened[c] <= lost[c]

(* What the constants are.                                                 *)
LEMMA Constants ==
  /\ Items \subseteq Nat /\ Versioned \subseteq Items /\ IsFiniteSet(Items)
  /\ Statuses \subseteq Nat /\ MaxTasks \in Nat \ {0} /\ MaxEdits \in Nat /\ MaxForced \in Nat /\ MaxFaults \in Nat
  /\ Edits = 0..MaxEdits /\ Edits \subseteq Nat
  BY WatcherAssumption DEF Edits

(* The revision and the content of what was polled.                        *)
LEMMA Revisions ==
  ASSUME NEW snap \in Snapshot
  PROVE  Revision(snap) \in Edits \cup {-1} /\ ContentOf(snap) \in Contents
  <1>1. Revision(snap) \in Edits \cup {-1}
    BY DEF Revision, Snapshot
  <1> QED BY <1>1 DEF ContentOf, Contents, Snapshot

(* A function from 1 up is a list.                                         *)
LEMMA Lists ==
  ASSUME NEW S, NEW c \in Nat, NEW f \in [1..c -> S]
  PROVE  f \in Seq(S) /\ Len(f) = c /\ DOMAIN f = 1..c
  OBVIOUS

(* A list of at most k of the first elements.                              *)
LEMMA Prefix ==
  ASSUME NEW S, NEW s \in Seq(S), NEW k \in Nat, k <= Len(s)
  PROVE  /\ SubSeq(s, 1, k) \in Seq(S) /\ Len(SubSeq(s, 1, k)) = k
         /\ \A n \in 1..k : SubSeq(s, 1, k)[n] = s[n]
  OBVIOUS

(* What is left of a list.                                                 *)
LEMMA Tails ==
  ASSUME NEW S, NEW s \in Seq(S), s # <<>>
  PROVE  /\ Tail(s) \in Seq(S) /\ Len(s) \in Nat \ {0} /\ Len(Tail(s)) = Len(s) - 1
         /\ DOMAIN s = 1..Len(s) /\ DOMAIN Tail(s) = 1..(Len(s) - 1)
         /\ \A n \in DOMAIN Tail(s) : n + 1 \in DOMAIN s /\ Tail(s)[n] = s[n + 1]
         /\ Head(s) = s[1] /\ s[1] \in S /\ 1 \in DOMAIN s
  OBVIOUS

(* The candidates of a poll: different items that are wanted, as they are. *)
LEMMA CandidatesFit ==
  ASSUME WatcherTypeOK, \A i \in Items : tracker[i].item = i, NEW list \in Candidates
  PROVE  /\ list \in Seq(Snapshot) /\ Len(list) <= MaxTasks
         /\ \A n \in DOMAIN list : Wanted(list[n]) /\ list[n] = tracker[list[n].item]
         /\ \A m, n \in DOMAIN list : m # n => list[m].item # list[n].item
  <1> PICK S : S = {s \in Polled : Wanted(s)}
    OBVIOUS
  <1>1. PICK f \in Sorted(S) : list = Cut(f)
    BY DEF Candidates
  <1>2. IsFiniteSet(S)
    <2>1. IsFiniteSet(Polled)
      <3>1. tracker \in Surjection(Items, Polled)
      BY DEF Surjection, Polled, WatcherTypeOK
    <3> QED BY <3>1, Constants, FS_Surjection
    <2> QED BY <2>1, FS_Subset
  <1>3. Cardinality(S) \in Nat
    BY <1>2, FS_CardinalityType
  <1>4. f \in [1..Cardinality(S) -> S] /\ \A m, n \in DOMAIN f : m < n => Before(f[m], f[n])
    BY <1>1 DEF Sorted
  <1>5. S \subseteq Snapshot /\ \A s \in S : Wanted(s) /\ s = tracker[s.item]
    BY DEF WatcherTypeOK, Polled
  <1>6. f \in Seq(Snapshot) /\ Len(f) = Cardinality(S) /\ DOMAIN f = 1..Len(f)
    <2> PICK c \in Nat : c = Cardinality(S)
      BY <1>3
    <2>1. f \in [1..c -> Snapshot]
      BY <1>4, <1>5
    <2>2. f \in Seq(Snapshot) /\ Len(f) = c /\ DOMAIN f = 1..c
      BY <2>1, Lists
    <2> QED BY <2>2
  <1> PICK k \in Nat : k = IF Len(f) < MaxTasks THEN Len(f) ELSE MaxTasks
    BY <1>3, <1>6, Constants
  <1>7. k <= Len(f) /\ k <= MaxTasks
    BY <1>3, <1>6, Constants
  <1>8. list = SubSeq(f, 1, k)
    BY <1>1 DEF Cut
  <1>9. list \in Seq(Snapshot) /\ Len(list) = k /\ DOMAIN list = 1..k /\ \A n \in 1..k : list[n] = f[n] /\ n \in DOMAIN f
    <2>1. /\ list \in Seq(Snapshot) /\ Len(list) = k
          /\ \A n \in 1..k : list[n] = f[n]
      BY <1>6, <1>7, <1>8, Prefix
    <2>2. \A n \in 1..k : n \in 1..Len(f)
      BY <1>3, <1>6, <1>7
    <2> QED BY <1>6, <2>1, <2>2
  <1>10. \A n \in DOMAIN list : Wanted(list[n]) /\ list[n] = tracker[list[n].item]
    BY <1>4, <1>5, <1>9
  <1>11. ASSUME NEW m \in DOMAIN list, NEW n \in DOMAIN list, m < n
         PROVE  list[m].item # list[n].item
    <2>1. Before(list[m], list[n])
      BY <1>4, <1>9, <1>11
    <2>2. list[m] = tracker[list[m].item] /\ list[n] = tracker[list[n].item]
      BY <1>10
    <2>3. list[m] \in Snapshot /\ list[n] \in Snapshot
      BY <1>9
    <2>4. list[m].status \in Nat /\ list[m].item \in Nat
      BY <2>3, Constants DEF Snapshot
    <2>5. list[m] # list[n]
      BY <2>1, <2>4 DEF Before
    <2> QED BY <2>2, <2>5
  <1>12. \A m, n \in DOMAIN list : m # n => list[m].item # list[n].item
    BY <1>9, <1>11
  <1> QED BY <1>7, <1>9, <1>10, <1>12

(* What a mark makes of the state.                                         *)
LEMMA MarkedFits ==
  ASSUME WatcherTypeOK, NEW snap \in Snapshot, NEW final \in {"ok", "failed", "blocked"}
  PROVE  /\ Marked(snap, final) \in [Items -> Record \cup {NoRecord}]
         /\ Marked(snap, final)[snap.item] \in Record
         /\ Marked(snap, final)[snap.item].revision = Revision(snap)
         /\ Marked(snap, final)[snap.item].final = final
         /\ ~ShouldProcess(Marked(snap, final), snap)
         /\ \A j \in Items \ {snap.item} : Marked(snap, final)[j] = loaded[j]
  <1> PICK r : r = [revision |-> Revision(snap), status |-> snap.status, final |-> final]
    OBVIOUS
  <1>1. r \in Record /\ r # NoRecord /\ snap.item \in Items
    BY Revisions, RecordAssumption DEF Record, Snapshot
  <1>2. Marked(snap, final) = [loaded EXCEPT ![snap.item] = r]
    BY DEF Marked
  <1> PICK st : st = Marked(snap, final)
    OBVIOUS
  <1>3. st \in [Items -> Record \cup {NoRecord}] /\ st[snap.item] = r /\ \A j \in Items \ {snap.item} : st[j] = loaded[j]
    BY <1>1, <1>2 DEF WatcherTypeOK
  <1>4. ~ShouldProcess(st, snap)
    BY <1>1, <1>3 DEF ShouldProcess
  <1> QED BY <1>1, <1>3, <1>4

(* What is read of the first candidate.                                    *)
LEMMA HeadFits ==
  ASSUME WatcherTypeOK, todo # <<>>
  PROVE  /\ Head(todo) = todo[1] /\ Head(todo) \in Snapshot /\ 1 \in DOMAIN todo
         /\ Head(todo).item \in Items /\ Head(todo).edits \in Edits
         /\ Tail(todo) \in Seq(Snapshot) /\ Len(Tail(todo)) <= MaxTasks
         /\ \A n \in DOMAIN Tail(todo) : n + 1 \in DOMAIN todo /\ n + 1 # 1 /\ n + 1 > 1 /\ Tail(todo)[n] = todo[n + 1]
  <1>1. todo \in Seq(Snapshot) /\ Len(todo) <= MaxTasks /\ MaxTasks \in Nat
    BY Constants DEF WatcherTypeOK
  <1>2. /\ Tail(todo) \in Seq(Snapshot) /\ Len(todo) \in Nat \ {0} /\ Len(Tail(todo)) = Len(todo) - 1
        /\ DOMAIN todo = 1..Len(todo) /\ DOMAIN Tail(todo) = 1..(Len(todo) - 1)
        /\ \A n \in DOMAIN Tail(todo) : n + 1 \in DOMAIN todo /\ Tail(todo)[n] = todo[n + 1]
        /\ Head(todo) = todo[1] /\ todo[1] \in Snapshot /\ 1 \in DOMAIN todo
    BY <1>1, Tails
  <1>3. Len(Tail(todo)) <= MaxTasks
    BY <1>1, <1>2
  <1>4. \A n \in DOMAIN Tail(todo) : n + 1 # 1 /\ n + 1 > 1
    BY <1>2
  <1> QED BY <1>2, <1>3, <1>4 DEF Snapshot

(* A file that is not there.                                               *)
LEMMA NothingTyped == Nothing \in [Items -> Record \cup {NoRecord}]
  BY DEF Nothing

(* Types, action by action: an edit.                                       *)
LEMMA EditTypes == ASSUME WatcherTypeOK, NEW i \in Items, tracker[i].edits <= edited, Edit(i) PROVE WatcherTypeOK'
  <1>1. tracker[i] \in Snapshot /\ tracker[i].edits \in Nat /\ edited \in Nat /\ edited < MaxEdits
    BY Constants DEF WatcherTypeOK, Snapshot, Edit
  <1>2. tracker[i].edits + 1 \in Edits /\ edited + 1 \in Edits
    BY <1>1, Constants
  <1>3. PICK s \in Statuses : tracker' = [tracker EXCEPT ![i] = [item |-> i, status |-> s, edits |-> tracker[i].edits + 1]]
    BY DEF Edit
  <1>4. [item |-> i, status |-> s, edits |-> tracker[i].edits + 1] \in Snapshot
    BY <1>2 DEF Snapshot
  <1>5. tracker' \in [Items -> Snapshot] /\ edited' \in Edits
    BY <1>2, <1>3, <1>4 DEF WatcherTypeOK, Edit
  <1> QED BY <1>5 DEF WatcherTypeOK, Edit, durable, flags, history

(* The head of run_once (watch.py:110-119).                                *)
LEMMA PollTypes == ASSUME WatcherTypeOK, \A i \in Items : tracker[i].item = i, Poll PROVE WatcherTypeOK'
  <1>1. todo' \in Seq(Snapshot) /\ Len(todo') <= MaxTasks
    BY CandidatesFit DEF Poll
  <1>2. forced' \in 0..MaxForced
    <2>1. CASE force
      BY <2>1, Constants DEF Poll, WatcherTypeOK
    <2>2. CASE ~force
      BY <2>2 DEF Poll, WatcherTypeOK
    <2> QED BY <2>1, <2>2
  <1> QED BY <1>1, <1>2 DEF Poll, WatcherTypeOK, durable, flags, sprint

(* The tracker raises.                                                     *)
LEMMA FaultTypes == ASSUME WatcherTypeOK, TrackerFails PROVE WatcherTypeOK'
  <1>1. faults' \in 0..MaxFaults
    BY Constants DEF TrackerFails, WatcherTypeOK
  <1> QED BY <1>1, NothingTyped DEF TrackerFails, WatcherTypeOK, durable, flags, sprint

(* Steps that only change where the process is.                            *)
LEMMA IdleTypes == ASSUME WatcherTypeOK, Start \/ TornFile \/ BeginSave \/ Save \/ FlowReturns PROVE WatcherTypeOK'
  <1>1. CASE Start
    BY <1>1 DEF Start, WatcherTypeOK, durable, flags, sprint, history
  <1>2. CASE TornFile
    BY <1>2, NothingTyped DEF TornFile, WatcherTypeOK, durable, flags, sprint, history
  <1>3. CASE BeginSave
    BY <1>3 DEF BeginSave, WatcherTypeOK, durable, flags, sprint, history
  <1>4. CASE Save
    BY <1>4, NothingTyped DEF Save, WatcherTypeOK, flags, sprint, history
  <1>5. CASE FlowReturns
    BY <1>5 DEF FlowReturns, WatcherTypeOK, durable, flags, sprint, history
  <1> QED BY <1>1, <1>2, <1>3, <1>4, <1>5

(* What becomes of the first candidate (watch.py:120-229).                 *)
LEMMA TaskTypes == ASSUME WatcherTypeOK, TodoFits, Observe \/ DirtyWorktree \/ StartFlow \/ MarkItem PROVE WatcherTypeOK'
  <1>0. todo # <<>>
    BY DEF TodoFits, Flowing, Observe, DirtyWorktree, StartFlow, MarkItem
  <1>1. CASE Observe
    BY <1>0, <1>1, HeadFits DEF Observe, WatcherTypeOK, durable, flags, sprint, history
  <1>2. CASE DirtyWorktree
    <2>1. loaded' \in [Items -> Record \cup {NoRecord}]
      BY <1>0, <1>2, HeadFits, MarkedFits DEF DirtyWorktree
    <2> QED BY <1>0, <1>2, <2>1, HeadFits DEF DirtyWorktree, WatcherTypeOK, durable, flags, sprint, history
  <1>3. CASE StartFlow
    <2>1. Head(todo) \in Snapshot /\ Head(todo).item \in Items /\ Head(todo).edits \in Edits
      BY <1>0, HeadFits
    <2>2. tracker[Head(todo).item] \in Snapshot
      BY <2>1 DEF WatcherTypeOK
    <2>3. reading' \in Contents
      BY <1>3, <2>2, Revisions DEF StartFlow
    <2>4. seen' \in [Items -> Edits \cup {-1}]
      BY <1>3, <2>1, <2>2 DEF StartFlow, WatcherTypeOK, Snapshot
    <2>5. attempts' \in [Items \X Edits -> Nat]
      BY <1>3, <2>1 DEF StartFlow, WatcherTypeOK
    <2> QED BY <1>3, <2>3, <2>4, <2>5 DEF StartFlow, WatcherTypeOK, durable, flags, sprint
  <1>4. CASE MarkItem
    <2> PICK final \in {"ok", "failed", "blocked"} : final = IF phase = "done" THEN "ok" ELSE "failed"
      OBVIOUS
    <2>1. loaded' \in [Items -> Record \cup {NoRecord}]
      BY <1>0, <1>4, HeadFits, MarkedFits DEF MarkItem
    <2> QED BY <1>0, <1>4, <2>1, HeadFits DEF MarkItem, WatcherTypeOK, durable, flags, sprint, history
  <1> QED BY <1>1, <1>2, <1>3, <1>4

(* A receipt that was not written.                                         *)
LEMMA LossTyped ==
  ASSUME WatcherTypeOK, PrInv, lost' = IF phase = "opened" THEN [lost EXCEPT ![reading] = @ + 1] ELSE lost
  PROVE  lost' \in [Contents -> Nat]
  <1>1. CASE phase = "opened"
    <2>1. reading \in Contents
      BY <1>1 DEF PrInv
    <2> QED BY <1>1, <2>1 DEF WatcherTypeOK
  <1>2. CASE phase # "opened"
    BY <1>2 DEF WatcherTypeOK
  <1> QED BY <1>1, <1>2

(* The steps of a delivery.                                                *)
LEMMA PrTypes == ASSUME WatcherTypeOK, PrInv, OpenPr \/ WriteReceipt \/ FlowRaises PROVE WatcherTypeOK'
  <1>1. CASE OpenPr
    <2>1. reading \in Contents
      BY <1>1 DEF OpenPr, Delivers, PrInv
    <2>2. opened' \in [Contents -> Nat]
      BY <1>1, <2>1 DEF OpenPr, WatcherTypeOK
    <2> QED BY <1>1, <2>2 DEF OpenPr, WatcherTypeOK, flags, sprint, history
  <1>2. CASE WriteReceipt
    BY <1>2 DEF WriteReceipt, WatcherTypeOK, flags, sprint, history, PrInv
  <1>3. CASE FlowRaises
    <2>1. lost' \in [Contents -> Nat]
      BY <1>3, LossTyped DEF FlowRaises
    <2> QED BY <1>3, <2>1 DEF FlowRaises, WatcherTypeOK, flags, sprint, history
  <1> QED BY <1>1, <1>2, <1>3

(* The process dies.                                                       *)
LEMMA CrashTypes == ASSUME WatcherTypeOK, PrInv, Crash PROVE WatcherTypeOK'
  <1>1. lost' \in [Contents -> Nat]
    BY LossTyped DEF Crash
  <1>2. faults' \in 0..MaxFaults
    BY Constants DEF Crash, WatcherTypeOK
  <1>3. todo' \in Seq(Snapshot) /\ Len(todo') <= MaxTasks
    BY Constants DEF Crash
  <1>4. torn' \in BOOLEAN
    BY DEF Crash, WatcherTypeOK
  <1> QED BY <1>1, <1>2, <1>3, <1>4, NothingTyped DEF Crash, WatcherTypeOK, flags, sprint

------------------------------------------------------------------------------
(* The pull requests: at most one for a content, and one more for each     *)
(* receipt that was lost.                                                  *)
LEMMA PrKept == ASSUME WatcherTypeOK, TodoFits, PrInv, [WatcherNext]_watcherVars PROVE PrInv'
  <1>0. opened \in [Contents -> Nat] /\ lost \in [Contents -> Nat]
    BY DEF WatcherTypeOK
  <1>1. CASE OpenPr
    <2>1. /\ reading \in Contents /\ reading \notin receipts /\ phase = "flow" /\ phase' = "opened"
          /\ opened' = [opened EXCEPT ![reading] = @ + 1] /\ UNCHANGED <<receipts, lost, reading>>
      BY <1>1 DEF OpenPr, Delivers, PrInv
    <2>2. ASSUME NEW c \in Contents
          PROVE  /\ opened'[c] <= 1 + lost'[c]
                 /\ c \notin receipts' /\ ~(phase' = "opened" /\ reading' = c) => opened'[c] <= lost'[c]
      <3>1. opened[c] \in Nat /\ lost[c] \in Nat
        BY <1>0
      <3>2. CASE c = reading
        <4>1. opened[c] <= lost[c] /\ opened'[c] = opened[c] + 1
          BY <1>0, <2>1, <3>2 DEF PrInv
        <4> QED BY <2>1, <3>1, <3>2, <4>1
      <3>3. CASE c # reading
        <4>1. opened'[c] = opened[c]
          BY <1>0, <2>1, <3>3
        <4> QED BY <2>1, <3>1, <3>3, <4>1 DEF PrInv
      <3> QED BY <3>2, <3>3
    <2> QED BY <2>1, <2>2 DEF PrInv
  <1>2. CASE WriteReceipt
    BY <1>2 DEF WriteReceipt, PrInv
  <1>3. CASE FlowRaises \/ Crash
    <2>1. /\ lost' = IF phase = "opened" THEN [lost EXCEPT ![reading] = @ + 1] ELSE lost
          /\ phase' \notin {"flow", "opened"} /\ UNCHANGED <<opened, receipts>>
      BY <1>3 DEF FlowRaises, Crash
    <2>2. ASSUME NEW c \in Contents
          PROVE  opened[c] <= 1 + lost'[c] /\ (c \notin receipts => opened[c] <= lost'[c])
      <3>1. opened[c] \in Nat /\ lost[c] \in Nat /\ opened[c] <= 1 + lost[c]
        BY <1>0 DEF PrInv
      <3>2. CASE phase = "opened" /\ c = reading
        <4>1. lost'[c] = lost[c] + 1
          BY <1>0, <2>1, <3>2
        <4> QED BY <3>1, <4>1
      <3>3. CASE ~(phase = "opened" /\ c = reading)
        <4>1. lost'[c] = lost[c]
          BY <1>0, <2>1, <3>3
        <4> QED BY <3>1, <3>3, <4>1 DEF PrInv
      <3> QED BY <3>2, <3>3
    <2> QED BY <2>1, <2>2 DEF PrInv
  <1>4. CASE StartFlow
    <2>1. Head(todo).item \in Items
      BY <1>4, HeadFits DEF StartFlow
    <2>2. tracker[Head(todo).item] \in Snapshot
      BY <2>1 DEF WatcherTypeOK
    <2>3. reading' \in Contents
      BY <1>4, <2>2, Revisions DEF StartFlow
    <2>4. phase = "task" /\ phase' = "flow" /\ UNCHANGED <<opened, lost, receipts>>
      BY <1>4 DEF StartFlow, durable
    <2> QED BY <2>3, <2>4 DEF PrInv
  <1>5. CASE FlowReturns
    BY <1>5 DEF FlowReturns, PrInv, durable
  <1>6. CASE MarkItem \/ Start \/ Poll \/ TornFile \/ BeginSave \/ Save \/ TrackerFails
    <2>1. phase' \notin {"flow", "opened"} /\ phase # "opened" /\ UNCHANGED <<opened, lost, receipts>>
      BY <1>6 DEF MarkItem, Start, Poll, TornFile, BeginSave, Save, TrackerFails, durable
    <2> QED BY <2>1 DEF PrInv
  <1>7. CASE UNCHANGED <<phase, reading, opened, lost, receipts>>
    BY <1>7 DEF PrInv
  <1>8. CASE UNCHANGED watcherVars \/ Observe \/ DirtyWorktree \/ \E i \in Items : Edit(i)
    BY <1>7, <1>8 DEF watcherVars, durable, Observe, DirtyWorktree, Edit
  <1> QED BY <1>1, <1>2, <1>3, <1>4, <1>5, <1>6, <1>8 DEF WatcherNext, Cycle

------------------------------------------------------------------------------
(* The record does not run ahead of what a flow has read.                  *)
AheadInv == NotAhead(records) /\ NotAhead(loaded) /\ HeadSeen

(* No record, none ahead.                                                  *)
LEMMA NothingAhead == NotAhead(Nothing)
  BY Constants DEF NotAhead, Nothing

(* What flows have read only grows.                                        *)
LEMMA SeenGrows ==
  ASSUME NEW recs \in [Items -> Record \cup {NoRecord}], NotAhead(recs), WatcherTypeOK,
         NEW later \in [Items -> Edits \cup {-1}], \A i \in Items : seen[i] <= later[i], NEW i \in Versioned,
         recs[i] # NoRecord, recs[i].final # "blocked"
  PROVE  recs[i].revision <= later[i]
  <1>1. i \in Items /\ recs[i] \in Record /\ recs[i].revision <= seen[i] /\ seen[i] <= later[i]
    BY Constants DEF NotAhead
  <1>2. recs[i].revision \in Int /\ seen[i] \in Int /\ later[i] \in Int
    BY <1>1, Constants DEF Record, WatcherTypeOK
  <1> QED BY <1>1, <1>2

(* The record that is made has the revision of the poll, and the flow read *)
(* the tracker after it (watch.py:183-229).                                *)
LEMMA MarkAhead ==
  ASSUME WatcherTypeOK, TodoFits, AheadInv, MarkItem
  PROVE  AheadInv'
  <1>1. todo # <<>> /\ Head(todo) = todo[1] /\ Head(todo) \in Snapshot /\ todo[1].edits <= seen[todo[1].item]
    BY HeadFits DEF MarkItem, TodoFits, Flowing, AheadInv, HeadSeen
  <1> PICK snap \in Snapshot : snap = Head(todo)
    BY <1>1
  <1> PICK final \in {"ok", "failed", "blocked"} : final = IF phase = "done" THEN "ok" ELSE "failed"
    OBVIOUS
  <1>2. loaded' = Marked(snap, final) /\ UNCHANGED <<records, seen>> /\ phase' = "task"
    BY DEF MarkItem, durable, history
  <1>3. loaded'[snap.item].revision = Revision(snap) /\ \A j \in Items \ {snap.item} : loaded'[j] = loaded[j]
    BY <1>2, MarkedFits
  <1>4. ASSUME NEW i \in Versioned, loaded'[i] # NoRecord, loaded'[i].final # "blocked"
        PROVE  loaded'[i].revision <= seen[i]
    <2>1. CASE i = snap.item
      <3>1. Revision(snap) = snap.edits
        BY <2>1 DEF Revision
      <3> QED BY <1>1, <1>3, <2>1, <3>1
    <2>2. CASE i # snap.item
      BY <1>3, <1>4, <2>2, Constants DEF AheadInv, NotAhead
    <2> QED BY <2>1, <2>2
  <1> QED BY <1>2, <1>4 DEF AheadInv, NotAhead, HeadSeen, Flowing

(* A blocked item is recorded as such (watch.py:151-178).                  *)
LEMMA DirtyAhead ==
  ASSUME WatcherTypeOK, TodoFits, AheadInv, DirtyWorktree
  PROVE  AheadInv'
  <1>1. Head(todo) \in Snapshot
    BY HeadFits DEF DirtyWorktree
  <1> PICK snap \in Snapshot : snap = Head(todo)
    BY <1>1
  <1>2. loaded' = Marked(snap, "blocked") /\ UNCHANGED <<records, seen>> /\ phase = "task" /\ phase' = "task"
    BY DEF DirtyWorktree, durable, history
  <1>3. loaded'[snap.item].final = "blocked" /\ \A j \in Items \ {snap.item} : loaded'[j] = loaded[j]
    BY <1>2, MarkedFits
  <1>4. ASSUME NEW i \in Versioned, loaded'[i] # NoRecord, loaded'[i].final # "blocked"
        PROVE  loaded'[i].revision <= seen[i]
    BY <1>3, <1>4, Constants DEF AheadInv, NotAhead
  <1> QED BY <1>2, <1>4 DEF AheadInv, NotAhead, HeadSeen, Flowing

(* A flow reads the item as the tracker has it now (watch.py:339-367).     *)
LEMMA StartAhead ==
  ASSUME WatcherTypeOK, TrackerFits, TodoFits, AheadInv, StartFlow
  PROVE  AheadInv'
  <1>1. todo # <<>> /\ Head(todo) = todo[1] /\ 1 \in DOMAIN todo /\ Head(todo) \in Snapshot /\ Head(todo).item \in Items
    BY HeadFits DEF StartFlow
  <1> PICK i \in Items : i = todo[1].item
    BY <1>1
  <1>2. seen' = [seen EXCEPT ![i] = tracker[i].edits] /\ UNCHANGED <<records, loaded, todo>> /\ phase' = "flow"
    BY <1>1 DEF StartFlow, durable
  <1>3. tracker[i].edits \in Edits
    BY DEF WatcherTypeOK, Snapshot
  <1>4. seen' \in [Items -> Edits \cup {-1}] /\ seen'[i] = tracker[i].edits /\ \A j \in Items \ {i} : seen'[j] = seen[j]
    BY <1>2, <1>3 DEF WatcherTypeOK
  <1>5. \A j \in Items : seen[j] <= seen'[j]
    <2> SUFFICES ASSUME NEW j \in Items PROVE seen[j] <= seen'[j]
      OBVIOUS
    <2>1. seen[j] \in Int
      BY Constants DEF WatcherTypeOK
    <2>2. CASE j = i
      BY <1>4, <2>2 DEF TrackerFits
    <2>3. CASE j # i
      BY <1>4, <2>1, <2>3
    <2> QED BY <2>2, <2>3
  <1>6. \A j \in Versioned : records[j] # NoRecord /\ records[j].final # "blocked" => records[j].revision <= seen'[j]
    BY <1>4, <1>5, SeenGrows DEF WatcherTypeOK, AheadInv
  <1>7. \A j \in Versioned : loaded[j] # NoRecord /\ loaded[j].final # "blocked" => loaded[j].revision <= seen'[j]
    BY <1>4, <1>5, SeenGrows DEF WatcherTypeOK, AheadInv
  <1>8. todo[1].edits <= seen'[todo[1].item]
    BY <1>1, <1>4 DEF TodoFits
  <1> QED BY <1>2, <1>6, <1>7, <1>8 DEF AheadInv, NotAhead, HeadSeen

(* Every step keeps it.                                                    *)
LEMMA AheadKept == ASSUME WatcherTypeOK, TrackerFits, TodoFits, AheadInv, [WatcherNext]_watcherVars PROVE AheadInv'
  <1>1. CASE Poll \/ TornFile \/ TrackerFails \/ Save \/ Crash
    <2>1. /\ phase' \in {"off", "poll", "task"} /\ UNCHANGED seen
          /\ records' \in {records, loaded} /\ loaded' \in {records, Nothing}
      BY <1>1 DEF Poll, TornFile, TrackerFails, Save, Crash, durable, history
    <2> QED BY <2>1, NothingAhead DEF AheadInv, NotAhead, HeadSeen, Flowing
  <1>2. CASE UNCHANGED <<records, loaded, seen, todo>> /\ (Flowing' => Flowing)
    BY <1>2 DEF AheadInv, NotAhead, HeadSeen
  <1>3. CASE Observe
    BY <1>3 DEF Observe, AheadInv, NotAhead, HeadSeen, Flowing, durable, history
  <1>4. CASE Start \/ OpenPr \/ WriteReceipt \/ FlowReturns \/ FlowRaises \/ BeginSave \/ UNCHANGED watcherVars \/ \E i \in Items : Edit(i)
    <2>1. CASE UNCHANGED watcherVars \/ \E i \in Items : Edit(i)
      BY <1>2, <2>1 DEF watcherVars, durable, history, Edit, Flowing
    <2>2. CASE Start \/ OpenPr \/ WriteReceipt \/ FlowReturns \/ FlowRaises \/ BeginSave
      BY <1>2, <2>2 DEF Start, OpenPr, Delivers, WriteReceipt, FlowReturns, FlowRaises, BeginSave, durable, history, Flowing
    <2> QED BY <1>4, <2>1, <2>2
  <1> QED BY <1>1, <1>3, <1>4, MarkAhead, DirtyAhead, StartAhead DEF WatcherNext, Cycle

------------------------------------------------------------------------------
(* How often an item had its flow.                                         *)
Budget == faults + forced

(* The numbers in it.                                                      *)
LEMMA Amounts ==
  ASSUME WatcherTypeOK
  PROVE  /\ faults \in Nat /\ forced \in Nat /\ Budget \in Nat
         /\ \A i \in Items : tracker[i] \in Snapshot /\ tracker[i].edits \in Edits
         /\ \A i \in Items : seen[i] \in Int
         /\ \A i \in Items, e \in Edits : attempts[<<i, e>>] \in Nat
         /\ \A n \in DOMAIN todo : todo[n] \in Snapshot /\ todo[n].item \in Items /\ todo[n].edits \in Edits
  <1>1. faults \in Nat /\ forced \in Nat
    BY Constants DEF WatcherTypeOK
  <1>2. \A i \in Items : tracker[i] \in Snapshot /\ tracker[i].edits \in Edits
    BY DEF WatcherTypeOK, Snapshot
  <1>3. \A i \in Items, e \in Edits : attempts[<<i, e>>] \in Nat
    BY DEF WatcherTypeOK
  <1>4. \A i \in Items : seen[i] \in Int
    BY Constants DEF WatcherTypeOK
  <1>5. \A n \in DOMAIN todo : todo[n] \in Snapshot
    BY DEF WatcherTypeOK
  <1> QED BY <1>1, <1>2, <1>3, <1>4, <1>5 DEF Budget, Snapshot

FlowInv == TrackerFits /\ TodoFits /\ OncePerRevision /\ Remembered /\ Unspent

(* Steps inside a flow.                                                    *)
LEMMA InsideKeeps ==
  ASSUME FlowInv, Flowing, Flowing', UNCHANGED <<tracker, edited, attempts, seen, todo, loaded, faults, forced>>
  PROVE  FlowInv'
  <1>1. Recs' = Recs
    BY DEF Recs, InCycle
  <1>2. TrackerFits' /\ OncePerRevision'
    BY DEF FlowInv, TrackerFits, OncePerRevision
  <1>3. TodoFits' /\ Unspent'
    BY DEF FlowInv, TodoFits, Unspent, Flowing
  <1>4. Remembered'
    BY <1>1 DEF FlowInv, Remembered, ShouldProcess
  <1> QED BY <1>2, <1>3, <1>4 DEF FlowInv

(* Steps between the flows of a cycle, and into and out of it.             *)
LEMMA OutsideKeeps ==
  ASSUME FlowInv, ~Flowing, ~Flowing', todo = <<>>, todo' = <<>>, Recs' = Recs,
         UNCHANGED <<tracker, edited, attempts, seen, faults, forced>>
  PROVE  FlowInv'
  <1>1. TrackerFits' /\ OncePerRevision'
    BY DEF FlowInv, TrackerFits, OncePerRevision
  <1>2. TodoFits' /\ Unspent'
    BY DEF TodoFits, Unspent, Flowing
  <1>3. Remembered'
    BY DEF FlowInv, Remembered, ShouldProcess
  <1> QED BY <1>1, <1>2, <1>3 DEF FlowInv

(* A fault allows one more flow.                                           *)
LEMMA FaultKeeps ==
  ASSUME WatcherTypeOK, FlowInv, ~Flowing', todo' = <<>>, faults' = faults + 1,
         UNCHANGED <<tracker, edited, attempts, seen, forced>>
  PROVE  FlowInv'
  <1>1. \A i \in Items, e \in Edits : attempts[<<i, e>>] \in Nat /\ attempts[<<i, e>>] <= 1 + faults + forced
    BY Amounts DEF FlowInv, OncePerRevision
  <1>2. faults \in Nat /\ forced \in Nat /\ \A i \in Items : tracker[i].edits \in Edits
    BY Amounts
  <1>3. TrackerFits'
    BY DEF FlowInv, TrackerFits
  <1>4. TodoFits' /\ Unspent'
    BY DEF TodoFits, Unspent, Flowing
  <1>5. OncePerRevision'
    <2> SUFFICES ASSUME NEW i \in Items, NEW e \in Edits PROVE attempts[<<i, e>>] <= 1 + (faults + 1) + forced
      BY DEF OncePerRevision
    <2>1. attempts[<<i, e>>] \in Nat /\ attempts[<<i, e>>] <= 1 + faults + forced
      BY <1>1
    <2> QED BY <1>2, <2>1
  <1>6. Remembered'
    BY <1>1, <1>2 DEF Remembered
  <1> QED BY <1>3, <1>4, <1>5, <1>6 DEF FlowInv

(* An edit is one no flow has seen.                                        *)
LEMMA EditKeeps ==
  ASSUME WatcherTypeOK, FlowInv, NEW i \in Items, Edit(i)
  PROVE  FlowInv'
  <1> PICK s \in Statuses : tracker' = [tracker EXCEPT ![i] = [item |-> i, status |-> s, edits |-> @.edits + 1]]
    BY DEF Edit
  <1> PICK k \in Nat : k = tracker[i].edits
    BY Amounts, Constants
  <1>1. /\ tracker'[i].edits = k + 1 /\ tracker'[i].item = i
        /\ \A j \in Items \ {i} : tracker'[j] = tracker[j]
    BY DEF WatcherTypeOK
  <1>2. edited' = edited + 1 /\ edited \in Nat /\ k < MaxEdits /\ k + 1 \in Edits
    BY Constants DEF Edit, WatcherTypeOK, FlowInv, TrackerFits
  <1>3. UNCHANGED <<attempts, seen, todo, loaded, records, phase, faults, forced>>
    BY DEF Edit, history, durable
  <1>4. TrackerFits'
    <2>1. ASSUME NEW j \in Items PROVE tracker'[j].item = j /\ tracker'[j].edits <= edited' /\ seen'[j] <= tracker'[j].edits
      <3>1. tracker[j].item = j /\ tracker[j].edits <= edited /\ seen[j] <= tracker[j].edits
        BY DEF FlowInv, TrackerFits
      <3>2. tracker[j].edits \in Nat /\ seen[j] \in Int
        BY Amounts, Constants
      <3>3. CASE j = i
        BY <1>1, <1>2, <1>3, <3>1, <3>2, <3>3
      <3>4. CASE j # i
        BY <1>1, <1>2, <1>3, <3>1, <3>2, <3>4
      <3> QED BY <3>3, <3>4
    <2>2. ASSUME NEW j \in Items, NEW e \in Edits, e > tracker'[j].edits PROVE attempts'[<<j, e>>] = 0
      <3>1. e > tracker[j].edits
        <4>1. CASE j = i
          BY <1>1, <2>2, <4>1, Constants
        <4>2. CASE j # i
          BY <1>1, <2>2, <4>2
        <4> QED BY <4>1, <4>2
      <3> QED BY <1>3, <3>1 DEF FlowInv, TrackerFits
    <2> QED BY <2>1, <2>2 DEF TrackerFits
  <1>5. TodoFits'
    <2>1. ASSUME NEW n \in DOMAIN todo
          PROVE  /\ todo[n].edits <= tracker'[todo[n].item].edits
                 /\ todo[n].edits = tracker'[todo[n].item].edits => todo[n] = tracker'[todo[n].item]
      <3>1. todo[n].edits <= tracker[todo[n].item].edits /\ todo[n].edits \in Nat /\ todo[n].item \in Items
        BY Amounts, Constants DEF FlowInv, TodoFits
      <3>2. CASE todo[n].item = i
        BY <1>1, <3>1, <3>2
      <3>3. CASE todo[n].item # i
        BY <1>1, <3>1, <3>3 DEF FlowInv, TodoFits
      <3> QED BY <3>2, <3>3
    <2> QED BY <1>3, <2>1 DEF FlowInv, TodoFits, Flowing
  <1>6. Remembered'
    <2> SUFFICES ASSUME NEW j \in Items, attempts[<<j, tracker'[j].edits>>] > faults + forced
                 PROVE  \/ ~ShouldProcess(Recs', tracker'[j])
                        \/ Flowing /\ Head(todo).item = j
      BY <1>3 DEF Remembered, Flowing
    <2>1. Recs' = Recs
      BY <1>3 DEF Recs, InCycle, Flowing
    <2>2. CASE j = i
      <3>1. attempts[<<j, tracker'[j].edits>>] = 0
        BY <1>1, <1>2, <2>2 DEF FlowInv, TrackerFits
      <3> QED BY <3>1, Amounts
    <2>3. CASE j # i
      BY <1>1, <2>1, <2>3 DEF FlowInv, Remembered
    <2> QED BY <2>2, <2>3
  <1>7. OncePerRevision' /\ Unspent'
    BY <1>3 DEF FlowInv, OncePerRevision, Unspent
  <1> QED BY <1>4, <1>5, <1>6, <1>7 DEF FlowInv

(* What is polled has not had its flow, or is forced.                      *)
LEMMA PollKeeps ==
  ASSUME WatcherTypeOK, FlowInv, Poll
  PROVE  FlowInv'
  <1>1. /\ todo' \in Seq(Snapshot)
        /\ \A n \in DOMAIN todo' : Wanted(todo'[n]) /\ todo'[n] = tracker[todo'[n].item]
        /\ \A m, n \in DOMAIN todo' : m # n => todo'[m].item # todo'[n].item
    BY CandidatesFit DEF Poll, FlowInv, TrackerFits
  <1>2. UNCHANGED <<tracker, edited, attempts, seen, faults>> /\ loaded' = records /\ phase = "poll" /\ phase' = "task"
    BY DEF Poll, sprint
  <1>3. (force /\ forced' = forced + 1) \/ (~force /\ forced' = forced)
    BY DEF Poll
  <1>4. faults \in Nat /\ forced \in Nat /\ \A i \in Items : tracker[i].edits \in Edits
    BY Amounts
  <1>5. TrackerFits'
    BY <1>2 DEF FlowInv, TrackerFits
  <1>6. \A n \in DOMAIN todo' : todo'[n].item \in Items /\ todo'[n] \in Snapshot
    <2> SUFFICES ASSUME NEW n \in DOMAIN todo' PROVE todo'[n].item \in Items /\ todo'[n] \in Snapshot
      OBVIOUS
    <2>1. todo'[n] \in Snapshot
      BY <1>1
    <2> QED BY <2>1 DEF Snapshot
  <1>7. TodoFits'
    <2>1. ASSUME NEW n \in DOMAIN todo'
          PROVE  /\ todo'[n].edits <= tracker[todo'[n].item].edits
                 /\ todo'[n].edits = tracker[todo'[n].item].edits => todo'[n] = tracker[todo'[n].item]
                 /\ \A e \in Edits : e > todo'[n].edits => attempts[<<todo'[n].item, e>>] = 0
      <3>1. todo'[n].edits = tracker[todo'[n].item].edits /\ todo'[n].item \in Items /\ todo'[n].edits \in Nat
        BY <1>1, <1>4, <1>6, Constants
      <3> QED BY <1>1, <3>1 DEF FlowInv, TrackerFits
    <2> QED BY <1>1, <1>2, <2>1 DEF TodoFits, Flowing
  <1>8. \A i \in Items, e \in Edits : attempts[<<i, e>>] \in Nat /\ attempts[<<i, e>>] <= 1 + faults + forced
    BY Amounts DEF FlowInv, OncePerRevision
  <1>9. OncePerRevision'
    <2> SUFFICES ASSUME NEW i \in Items, NEW e \in Edits PROVE attempts[<<i, e>>] <= 1 + faults + forced'
      BY <1>2 DEF OncePerRevision
    <2>1. attempts[<<i, e>>] \in Nat /\ attempts[<<i, e>>] <= 1 + faults + forced
      BY <1>8
    <2> QED BY <1>3, <1>4, <2>1
  <1>10. \A i \in Items : attempts[<<i, tracker[i].edits>>] > faults + forced => ~ShouldProcess(records, tracker[i])
    BY <1>2 DEF FlowInv, Remembered, Recs, InCycle, Flowing
  <1>11. Remembered'
    <2> SUFFICES ASSUME NEW i \in Items, attempts[<<i, tracker[i].edits>>] > faults + forced'
                 PROVE  ~ShouldProcess(Recs', tracker[i])
      BY <1>2 DEF Remembered
    <2>1. Recs' = records
      BY <1>2 DEF Recs, InCycle
    <2>2. attempts[<<i, tracker[i].edits>>] > faults + forced
      BY <1>3, <1>4, <1>8
    <2> QED BY <1>10, <2>1, <2>2
  <1>12. Unspent'
    <2> SUFFICES ASSUME NEW n \in DOMAIN todo' PROVE attempts[<<todo'[n].item, todo'[n].edits>>] <= faults + forced'
      BY <1>2 DEF Unspent
    <2> PICK i \in Items : i = todo'[n].item
      BY <1>6
    <2>1. todo'[n] = tracker[i] /\ Wanted(todo'[n])
      BY <1>1
    <2>2. CASE force
      BY <1>3, <1>4, <1>8, <2>1, <2>2
    <2>3. CASE ~force
      <3>1. ShouldProcess(records, tracker[i])
        BY <2>1, <2>3 DEF Wanted
      <3>2. ~(attempts[<<i, tracker[i].edits>>] > faults + forced)
        BY <1>10, <3>1
      <3> QED BY <1>3, <1>4, <1>8, <2>1, <2>3, <3>2
    <2> QED BY <2>2, <2>3
  <1> QED BY <1>5, <1>7, <1>9, <1>11, <1>12 DEF FlowInv

(* The flow of the first candidate is counted; the others are other items. *)
LEMMA StartKeeps ==
  ASSUME WatcherTypeOK, FlowInv, StartFlow
  PROVE  FlowInv'
  <1>1. /\ todo # <<>> /\ Head(todo) = todo[1] /\ 1 \in DOMAIN todo
        /\ Head(todo).item \in Items /\ Head(todo).edits \in Edits
    BY HeadFits DEF StartFlow
  <1> PICK i \in Items, k \in Edits : i = todo[1].item /\ k = todo[1].edits
    BY <1>1
  <1>2. /\ attempts' = [attempts EXCEPT ![<<i, k>>] = @ + 1] /\ seen' = [seen EXCEPT ![i] = tracker[i].edits]
        /\ phase = "task" /\ phase' = "flow" /\ UNCHANGED <<tracker, edited, loaded, todo, faults, forced>>
    BY <1>1 DEF StartFlow, sprint
  <1>3. /\ attempts'[<<i, k>>] = attempts[<<i, k>>] + 1
        /\ \A j \in Items, e \in Edits : <<j, e>> # <<i, k>> => attempts'[<<j, e>>] = attempts[<<j, e>>]
    BY <1>2 DEF WatcherTypeOK
  <1>4. attempts[<<i, k>>] <= faults + forced /\ attempts[<<i, k>>] \in Nat /\ faults \in Nat /\ forced \in Nat
    BY <1>1, <1>2, Amounts DEF FlowInv, Unspent
  <1>5. k <= tracker[i].edits /\ tracker[i].edits \in Nat /\ k \in Nat
    BY <1>1, Amounts, Constants DEF FlowInv, TodoFits
  <1>6. seen' = [seen EXCEPT ![i] = tracker[i].edits] /\ seen \in [Items -> Edits \cup {-1}]
    BY <1>2 DEF WatcherTypeOK
  <1>7. TrackerFits'
    <2>1. \A j \in Items : tracker[j].item = j /\ tracker[j].edits <= edited /\ seen'[j] <= tracker[j].edits
      <3> SUFFICES ASSUME NEW j \in Items PROVE tracker[j].item = j /\ tracker[j].edits <= edited /\ seen'[j] <= tracker[j].edits
        OBVIOUS
      <3>1. tracker[j].item = j /\ tracker[j].edits <= edited /\ seen[j] <= tracker[j].edits
        BY DEF FlowInv, TrackerFits
      <3>2. CASE j = i
        BY <1>5, <1>6, <3>1, <3>2
      <3>3. CASE j # i
        BY <1>6, <3>1, <3>3
      <3> QED BY <3>2, <3>3
    <2>2. ASSUME NEW j \in Items, NEW e \in Edits, e > tracker[j].edits PROVE attempts'[<<j, e>>] = 0
      <3>1. <<j, e>> # <<i, k>>
        BY <1>5, <2>2, Constants
      <3> QED BY <1>3, <2>2, <3>1 DEF FlowInv, TrackerFits
    <2> QED BY <1>2, <2>1, <2>2 DEF TrackerFits
  <1>8. TodoFits'
    <2>1. ASSUME NEW n \in DOMAIN todo, NEW e \in Edits, e > todo[n].edits
          PROVE  attempts'[<<todo[n].item, e>>] = 0
      <3>1. attempts[<<todo[n].item, e>>] = 0 /\ todo[n].item \in Items
        BY <2>1, Amounts DEF FlowInv, TodoFits
      <3>2. <<todo[n].item, e>> # <<i, k>>
        <4>1. CASE n = 1
          BY <2>1, <4>1, Constants
        <4>2. CASE n # 1
          BY <1>1, <4>2 DEF FlowInv, TodoFits
        <4> QED BY <4>1, <4>2
      <3> QED BY <1>3, <3>1, <3>2
    <2> QED BY <1>1, <1>2, <2>1 DEF FlowInv, TodoFits
  <1>9. OncePerRevision'
    <2> SUFFICES ASSUME NEW j \in Items, NEW e \in Edits PROVE attempts'[<<j, e>>] <= 1 + faults + forced
      BY <1>2 DEF OncePerRevision
    <2>1. CASE <<j, e>> = <<i, k>>
      BY <1>3, <1>4, <2>1
    <2>2. CASE <<j, e>> # <<i, k>>
      BY <1>3, <2>2 DEF FlowInv, OncePerRevision
    <2> QED BY <2>1, <2>2
  <1>10. Remembered'
    <2> SUFFICES ASSUME NEW j \in Items, attempts'[<<j, tracker[j].edits>>] > faults + forced
                 PROVE  ~ShouldProcess(Recs', tracker[j]) \/ todo[1].item = j
      BY <1>1, <1>2 DEF Remembered, Flowing
    <2>1. Recs' = Recs
      BY <1>2 DEF Recs, InCycle, Flowing
    <2>2. CASE j # i
      <3>1. attempts'[<<j, tracker[j].edits>>] = attempts[<<j, tracker[j].edits>>]
        BY <1>3, <2>2, Amounts
      <3> QED BY <1>2, <2>1, <3>1 DEF FlowInv, Remembered, Flowing
    <2> QED BY <2>2
  <1>11. Unspent'
    <2> SUFFICES ASSUME NEW n \in DOMAIN todo, n > 1 PROVE attempts'[<<todo[n].item, todo[n].edits>>] <= faults + forced
      BY <1>2 DEF Unspent
    <2>1. todo[n].item # i /\ todo[n].item \in Items /\ todo[n].edits \in Edits
      BY <1>1, Amounts DEF FlowInv, TodoFits
    <2> QED BY <1>3, <2>1 DEF FlowInv, Unspent
  <1> QED BY <1>7, <1>8, <1>9, <1>10, <1>11 DEF FlowInv

(* The first candidate is done with, and remembered, or had no flow.       *)
LEMMA NextCandidate ==
  ASSUME WatcherTypeOK, FlowInv, todo # <<>>, todo' = Tail(todo), phase \in {"task", "done", "raised"}, phase' = "task",
         UNCHANGED <<tracker, edited, attempts, seen, faults, forced>>,
         \A j \in Items \ {todo[1].item} : loaded'[j] = loaded[j],
         \/ phase = "task" /\ loaded' = loaded
         \/ ~ShouldProcess(loaded', todo[1])
  PROVE  FlowInv'
  <1>1. /\ 1 \in DOMAIN todo /\ Head(todo) = todo[1] /\ todo' \in Seq(Snapshot)
        /\ \A n \in DOMAIN todo' : n + 1 \in DOMAIN todo /\ n + 1 # 1 /\ n + 1 > 1 /\ todo'[n] = todo[n + 1]
    BY HeadFits
  <1>2. TrackerFits' /\ OncePerRevision'
    BY DEF FlowInv, TrackerFits, OncePerRevision
  <1>3. TodoFits'
    <2>1. ASSUME NEW n \in DOMAIN todo'
          PROVE  /\ todo'[n].edits <= tracker[todo'[n].item].edits
                 /\ todo'[n].edits = tracker[todo'[n].item].edits => todo'[n] = tracker[todo'[n].item]
                 /\ \A e \in Edits : e > todo'[n].edits => attempts[<<todo'[n].item, e>>] = 0
      <3>1. n + 1 \in DOMAIN todo /\ todo'[n] = todo[n + 1]
        BY <1>1
      <3> QED BY <3>1 DEF FlowInv, TodoFits
    <2>2. ASSUME NEW m \in DOMAIN todo', NEW n \in DOMAIN todo', m # n PROVE todo'[m].item # todo'[n].item
      <3>1. m \in Nat /\ n \in Nat
        BY <1>1
      <3>2. m + 1 # n + 1
        BY <2>2, <3>1
      <3> QED BY <1>1, <3>2 DEF FlowInv, TodoFits
    <2> QED BY <2>1, <2>2 DEF TodoFits, Flowing
  <1>4. Unspent'
    BY <1>1 DEF FlowInv, Unspent
  <1>5. Remembered'
    <2> SUFFICES ASSUME NEW j \in Items, attempts[<<j, tracker[j].edits>>] > faults + forced
                 PROVE  ~ShouldProcess(loaded', tracker[j])
      BY DEF Remembered, Recs, InCycle
    <2>1. \/ ~ShouldProcess(loaded, tracker[j])
          \/ Flowing /\ Head(todo).item = j
      BY DEF FlowInv, Remembered, Recs, InCycle, Flowing
    <2>2. tracker[j].item = j /\ tracker[j].edits \in Edits
      BY Amounts DEF FlowInv, TrackerFits
    <2>3. CASE todo[1].item # j
      BY <1>1, <2>1, <2>2, <2>3 DEF ShouldProcess
    <2>4. CASE todo[1].item = j /\ ~ShouldProcess(loaded', todo[1])
      <3>1. todo[1].edits = tracker[j].edits
        <4>1. todo[1].edits <= tracker[j].edits /\ todo[1].edits \in Nat /\ tracker[j].edits \in Nat
          BY <1>1, <2>2, <2>4, Amounts, Constants DEF FlowInv, TodoFits
        <4>2. tracker[j].edits > todo[1].edits => attempts[<<j, tracker[j].edits>>] = 0
          BY <1>1, <2>2, <2>4 DEF FlowInv, TodoFits
        <4> QED BY <4>1, <4>2, Amounts
      <3>2. todo[1] = tracker[j]
        BY <1>1, <2>4, <3>1 DEF FlowInv, TodoFits
      <3> QED BY <2>4, <3>2
    <2>5. CASE phase = "task" /\ loaded' = loaded
      BY <2>1, <2>5 DEF Flowing
    <2> QED BY <2>3, <2>4, <2>5
  <1> QED BY <1>2, <1>3, <1>4, <1>5 DEF FlowInv

(* Every step keeps the count.                                             *)
LEMMA FlowKept == ASSUME WatcherTypeOK, FlowInv, [WatcherNext]_watcherVars PROVE FlowInv'
  <1>0. /\ Flowing => todo # <<>>
        /\ phase \in {"off", "poll", "saving"} => todo = <<>>
    BY DEF FlowInv, TodoFits
  <1>1. CASE OpenPr \/ WriteReceipt \/ FlowReturns \/ FlowRaises
    BY <1>1, InsideKeeps DEF OpenPr, Delivers, WriteReceipt, FlowReturns, FlowRaises, Flowing, sprint, history, durable
  <1>2. CASE Start \/ TornFile \/ BeginSave \/ Save
    <2>1. CASE Start
      BY <1>0, <2>1, OutsideKeeps DEF Start, Flowing, Recs, InCycle, sprint, history, durable
    <2>2. CASE TornFile
      BY <1>0, <2>2, OutsideKeeps DEF TornFile, Flowing, Recs, InCycle, sprint, history, durable
    <2>3. CASE BeginSave
      BY <2>3, OutsideKeeps DEF BeginSave, Flowing, Recs, InCycle, sprint, history, durable
    <2>4. CASE Save
      BY <1>0, <2>4, OutsideKeeps DEF Save, Flowing, Recs, InCycle, sprint, history
    <2> QED BY <1>2, <2>1, <2>2, <2>3, <2>4
  <1>3. CASE TrackerFails \/ Crash
    BY <1>0, <1>3, FaultKeeps DEF TrackerFails, Crash, Flowing, sprint, history
  <1>4. CASE Observe
    BY <1>4, NextCandidate DEF Observe, sprint, history
  <1>5. CASE DirtyWorktree
    <2>1. todo # <<>> /\ Head(todo) = todo[1] /\ Head(todo) \in Snapshot /\ loaded' = Marked(Head(todo), "blocked")
      BY <1>5, HeadFits DEF DirtyWorktree
    <2>2. ~ShouldProcess(loaded', todo[1]) /\ \A j \in Items \ {todo[1].item} : loaded'[j] = loaded[j]
      BY <2>1, MarkedFits
    <2> QED BY <1>5, <2>1, <2>2, NextCandidate DEF DirtyWorktree, sprint, history
  <1>6. CASE MarkItem
    <2> PICK final \in {"ok", "failed", "blocked"} : final = IF phase = "done" THEN "ok" ELSE "failed"
      OBVIOUS
    <2>1. todo # <<>>
      BY <1>0, <1>6 DEF MarkItem, Flowing
    <2>2. Head(todo) = todo[1] /\ Head(todo) \in Snapshot /\ loaded' = Marked(Head(todo), final)
      BY <1>6, <2>1, HeadFits DEF MarkItem
    <2>3. ~ShouldProcess(loaded', todo[1]) /\ \A j \in Items \ {todo[1].item} : loaded'[j] = loaded[j]
      BY <2>2, MarkedFits
    <2> QED BY <1>6, <2>1, <2>3, NextCandidate DEF MarkItem, sprint, history
  <1>7. CASE UNCHANGED watcherVars
    <2>1. UNCHANGED <<tracker, edited, attempts, seen, todo, loaded, records, phase, faults, forced>>
      BY <1>7 DEF watcherVars, sprint, history, durable
    <2>2. Recs' = Recs /\ Flowing' = Flowing
      BY <2>1 DEF Recs, InCycle, Flowing
    <2> QED BY <2>1, <2>2 DEF FlowInv, TrackerFits, TodoFits, OncePerRevision, Remembered, Unspent, ShouldProcess
  <1> QED BY <1>1, <1>2, <1>3, <1>4, <1>5, <1>6, <1>7, EditKeeps, PollKeeps, StartKeeps DEF WatcherNext, Cycle

------------------------------------------------------------------------------
(* The invariant: HandledOnce alone says nothing of what is remembered and *)
(* of the candidates that have yet to have their flow.                     *)
WatcherInv == WatcherTypeOK /\ FlowInv /\ AheadInv /\ PrInv

(* The first start.                                                        *)
LEMMA WatcherInvInit == WatcherInit => WatcherInv
  <1> SUFFICES ASSUME WatcherInit PROVE WatcherInv
    OBVIOUS
  <1>1. /\ 0 \in Edits /\ 0 \in Nat /\ MaxTasks \in Nat /\ MaxForced \in Nat /\ MaxFaults \in Nat
    BY Constants
  <1>2. tracker \in [Items -> Snapshot] /\ \A i \in Items : tracker[i].edits = 0 /\ tracker[i].item = i
    BY DEF WatcherInit
  <1>3. WatcherTypeOK
    <2>1. records = Nothing /\ loaded = Nothing
      BY DEF WatcherInit, Nothing
    <2>2. /\ lost = opened /\ opened = [c \in Contents |-> 0]
          /\ attempts = [e \in Items \X Edits |-> 0] /\ seen = [i \in Items |-> -1]
      BY DEF WatcherInit
    <2>3. opened \in [Contents -> Nat] /\ lost \in [Contents -> Nat]
      BY <2>2
    <2>4. attempts \in [Items \X Edits -> Nat] /\ seen \in [Items -> Edits \cup {-1}]
      BY <2>2
    <2>5. edited \in Edits /\ forced \in 0..MaxForced /\ faults \in 0..MaxFaults
      BY <1>1 DEF WatcherInit
    <2>6. todo \in Seq(Snapshot) /\ Len(todo) <= MaxTasks
      BY <1>1 DEF WatcherInit
    <2>7. /\ torn \in BOOLEAN /\ receipts \subseteq Contents /\ phase = "off" /\ force \in BOOLEAN /\ autonomy \in Levels
          /\ reading = <<>>
      BY DEF WatcherInit
    <2> QED BY <1>2, <2>1, <2>3, <2>4, <2>5, <2>6, <2>7, NothingTyped DEF WatcherTypeOK
  <1>4. TrackerFits
    BY <1>1, <1>2, Constants DEF WatcherInit, TrackerFits
  <1>5. TodoFits /\ Unspent
    BY DEF WatcherInit, TodoFits, Unspent, Flowing
  <1>6. \A i \in Items, e \in Edits : attempts[<<i, e>>] = 0
    BY DEF WatcherInit
  <1>7. OncePerRevision
    <2> SUFFICES ASSUME NEW i \in Items, NEW e \in Edits PROVE attempts[<<i, e>>] <= 1 + faults + forced
      BY DEF OncePerRevision
    <2>1. attempts[<<i, e>>] = 0 /\ faults = 0 /\ forced = 0
      BY <1>6 DEF WatcherInit
    <2> QED BY <2>1
  <1>8. Remembered
    BY <1>1, <1>2, <1>6 DEF WatcherInit, Remembered
  <1>9. AheadInv
    BY Constants, NothingAhead DEF WatcherInit, AheadInv, NotAhead, HeadSeen, Flowing, Nothing
  <1>10. PrInv
    BY DEF WatcherInit, PrInv
  <1> QED BY <1>3, <1>4, <1>5, <1>7, <1>8, <1>9, <1>10 DEF WatcherInv, FlowInv

(* The types hold throughout.                                              *)
LEMMA TypesKept == ASSUME WatcherInv, [WatcherNext]_watcherVars PROVE WatcherTypeOK'
  <1>1. WatcherTypeOK /\ TodoFits /\ PrInv /\ \A i \in Items : tracker[i].item = i /\ tracker[i].edits <= edited
    BY DEF WatcherInv, FlowInv, TrackerFits
  <1>2. CASE UNCHANGED watcherVars
    BY <1>1, <1>2 DEF watcherVars, sprint, durable, flags, history, WatcherTypeOK
  <1> QED BY <1>1, <1>2, EditTypes, PollTypes, FaultTypes, IdleTypes, TaskTypes, PrTypes, CrashTypes DEF WatcherNext, Cycle

(* Every step keeps the invariant.                                         *)
LEMMA WatcherInvNext == WatcherInv /\ [WatcherNext]_watcherVars => WatcherInv'
  BY TypesKept, FlowKept, AheadKept, PrKept DEF WatcherInv, FlowInv

(* And it is what is promised.                                             *)
LEMMA WatcherInvHandled == WatcherInv => HandledOnce
  BY DEF WatcherInv, FlowInv, AheadInv, NotAhead, RecordNotAhead, PrInv, OnePrPerContent, HandledOnce

(* For any items, states, edits, faults and forced cycles: an item as it   *)
(* was polled has one flow, and one more for each cycle that died or was   *)
(* forced, no edit is recorded as handled that no flow has read, and there *)
(* is one pull request for a content unless its receipt was lost           *)
(* (watch.py:110-230, watch_state.py:58-108).                              *)
THEOREM HandledOnceKept == WatcherSpec => []HandledOnce
  BY WatcherInvInit, WatcherInvNext, WatcherInvHandled, PTL DEF WatcherSpec
==================================================================================
