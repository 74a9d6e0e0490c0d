--------------------------------- MODULE Lanes ---------------------------------
(***************************************************************************)
(* The delivery of one work item in one repository, lane by lane: what     *)
(* the executors of the five lanes of src/sendsprint/flow/sprint_flow.py   *)
(* and the agents they call do to the working tree, the remote branch, the *)
(* pull request, the deploy webhook and the ticket, and what they write    *)
(* into the report.  DeliveryRun has the tuple runtime around them.        *)
(***************************************************************************)
EXTENDS SecurityScan

CONSTANTS
  Confs,     \* configurations of workspace and repository
  WorkTrees, \* what the scanners may find
  None,      \* no lane, no state, no branch
  MaxRuns    \* bound on runs of the same delivery

(* LEVEL_ORDER and ACTION_REQUIREMENTS of policy.py.                       *)
LevelOrder == <<"observe", "plan", "execute", "commit", "push", "pr", "release", "deploy-callback">>
Level == {LevelOrder[n] : n \in DOMAIN LevelOrder}

ActionRequirements ==
  [action \in {"write-files", "run-validation", "llm-codegen", "commit", "push", "create-pr", "deploy-callback"} |->
     CASE action \in {"write-files", "run-validation", "llm-codegen"} -> "execute"
       [] action = "create-pr" -> "pr"
       [] OTHER -> action]

LevelRank(l) == CHOOSE n \in DOMAIN LevelOrder : LevelOrder[n] = l

Conf ==
  [level : Level, stack : {"known", "bun", "none"}, codegen : BOOLEAN, deploy : BOOLEAN,
   url : BOOLEAN, checkedOut : BOOLEAN]

Content == {"files", "diff", "markers"}

ASSUME LanesAssumption == Confs \subseteq Conf /\ MaxRuns \in Nat /\ \A c \in SUBSET Content : c # None

VARIABLES
  conf, level,
  at,        \* the step of the flow
  lane,      \* lane of that step, or the one that raised
  bad,       \* some step of this lane failed
  failed,    \* report.failed: some output has a failed step
  gates,     \* of lint, tests and scan, those whose last report failed
  round,     \* rounds of the fix loop
  tree,      \* what the working tree holds, uncommitted
  head,      \* what the commits hold
  remote,    \* what the remote branch holds, or None
  pull,      \* the provider has a pull request of the branch
  created,   \* the create-pr step: its pull request is known, has an address
  fired,     \* attempts at the webhook
  accepted,  \* the webhook took one
  ticket,    \* the ticket has its final status
  state,     \* state_update of the pr lane
  runs

tools == <<gates, round>>
git == <<tree, head, remote>>
outside == <<pull, accepted, ticket>>
vars == <<conf, level, at, lane, bad, failed, tools, git, outside, created, fired, state, runs>>

LaneNames == {"dev", "lint", "test", "security", "pr"}
Steps == {"off", "denied", "dev", "codegen", "lint", "test", "security", "fix", "commit", "push",
          "create", "review", "deploy", "fire", "notify", "returned", "raised", "reported"}
MaxFixLoops == 3
MaxAttempts == 4

TypeOK ==
  /\ conf \in Confs /\ level \in Level
  /\ at \in Steps /\ lane \in LaneNames \cup {None}
  /\ bad \in BOOLEAN /\ failed \in BOOLEAN
  /\ gates \subseteq {"lint", "tests", "scan"}
  /\ round \in 0..MaxFixLoops
  /\ tree \subseteq Content /\ head \subseteq Content
  /\ remote = None \/ remote \subseteq Content
  /\ pull \in BOOLEAN /\ accepted \in BOOLEAN /\ ticket \in BOOLEAN
  /\ created \in [known : BOOLEAN, address : BOOLEAN]
  /\ fired \in 0..MaxAttempts
  /\ state \in {None, "completed", "failed"}
  /\ runs \in 0..MaxRuns

Unknown == [known |-> FALSE, address |-> FALSE]

Init ==
  /\ conf \in Confs /\ level = conf.level
  /\ at = "off" /\ lane = None
  /\ bad = FALSE /\ failed = FALSE
  /\ gates = {} /\ round = 0
  /\ tree \in {{}, {"files"}} /\ head = {} /\ remote = None
  /\ pull = FALSE /\ accepted = FALSE /\ ticket = FALSE
  /\ created = Unknown /\ fired = 0 /\ state = None /\ runs = 0

------------------------------------------------------------------------------
(* AutonomyPolicy.                                                         *)
Allows(action) == LevelRank(ActionRequirements[action]) <= LevelRank(level)

(* What each step requires before it acts.                                 *)
Required ==
  [step \in {"codegen", "commit", "push", "create", "deploy"} |->
     CASE step = "codegen" -> "llm-codegen"
       [] step = "create" -> "create-pr"
       [] step = "deploy" -> "deploy-callback"
       [] OTHER -> step]

Asks == at \in DOMAIN Required /\ (at = "deploy" => conf.deploy) /\ (at = "codegen" => conf.codegen)
Allowed == Asks => Allows(Required[at])

(* Past the dry run; below the level nothing is done at all.               *)
Bootstrap ==
  /\ at = "off" /\ runs < MaxRuns
  /\ runs' = runs + 1
  /\ IF Allows("write-files") THEN at' = "dev" /\ lane' = "dev" ELSE at' = "denied" /\ lane' = lane
  /\ UNCHANGED <<conf, level, bad, failed, tools, git, outside, created, fired, state>>

(* An exception in an executor: an err receipt, without the steps so far.  *)
Raise ==
  /\ ~Allowed
  /\ at' = "raised" /\ bad' = FALSE
  /\ UNCHANGED <<conf, level, lane, failed, tools, git, outside, created, fired, state, runs>>

(* The output of a lane reaches the report; the next lane, whatever it is. *)
Return(next, nextLane, isBad) ==
  /\ at' = next /\ lane' = nextLane
  /\ failed' = (failed \/ isBad)
  /\ bad' = FALSE

Stay(next, isBad) == at' = next /\ bad' = isBad /\ UNCHANGED <<lane, failed>>

------------------------------------------------------------------------------
(* The dev lane.                                                           *)

(* How a command ends.                                                     *)
Ends == {"zero", "nonzero", "missing", "timeout"}

(* Without an entry for the stack there is no command; a bun project may   *)
(* have no build script, and no e2e tests.                                 *)
Commands(kind) ==
  CASE conf.stack = "none" -> {FALSE}
    [] conf.stack = "bun" /\ kind = "e2e" -> {FALSE}
    [] conf.stack = "bun" /\ kind = "build" -> BOOLEAN
    [] OTHER -> {TRUE}

StatusOf(kind, end) ==
  CASE end = "zero" -> "ok"
    [] end = "missing" /\ (kind = "lint" \/ conf.stack = "bun") -> "skipped"
    [] OTHER -> "failed"

(* What _exec of the agents may report.                                    *)
Reports(kind) ==
  {IF has THEN StatusOf(kind, end) ELSE "skipped" : has \in Commands(kind), end \in Ends}

(* Commands may leave files in the working tree, as tests do with their    *)
(* screenshots.                                                            *)
Leaves == tree' \in {tree, tree \cup {"files"}}

(* Installing and building may leave files behind, also when they fail.    *)
Dev ==
  /\ at = "dev"
  /\ \E install \in Reports("install"), build \in Reports("build") :
       Stay("codegen", "failed" \in {install, build})
  /\ Leaves
  /\ UNCHANGED <<conf, level, tools, head, remote, outside, created, fired, state, runs>>

(* CodeGenerator.generate: the cost is known only after the call.          *)
GenerateStatus(answer) ==
  CASE answer = "no-client" -> "skipped"
    [] answer \in {"raises", "no-diff", "over-budget"} -> "failed"
    [] answer = "diff" -> "ok"

(* _apply_generated_diff: plainly, else three-way, which may stop half way *)
(* with conflict markers in the files.                                     *)
ApplyResults == {[applied |-> TRUE, leaves |-> {"diff"}], [applied |-> FALSE, leaves |-> {}],
                 [applied |-> FALSE, leaves |-> {"diff", "markers"}]}

(* Mutant of Generated: the status of the step is that of the model.       *)
GeneratedUnapplied(status, result) ==
  /\ tree' = IF status = "ok" THEN tree \cup result.leaves ELSE tree
  /\ Return("lint", "lint", bad \/ status = "failed")

Generated(status, result) ==
  /\ tree' = IF status = "ok" THEN tree \cup result.leaves ELSE tree
  /\ Return("lint", "lint", bad \/ status = "failed" \/ (status = "ok" /\ ~result.applied))

Codegen ==
  /\ at = "codegen" /\ Allowed
  /\ IF conf.codegen
       THEN \E answer \in {"no-client", "raises", "no-diff", "over-budget", "diff"},
               result \in ApplyResults : Generated(GenerateStatus(answer), result)
       ELSE Return("lint", "lint", bad) /\ UNCHANGED tree
  /\ UNCHANGED <<conf, level, tools, head, remote, outside, created, fired, state, runs>>

------------------------------------------------------------------------------
(* Lint, tests and scan, and the loop that runs them again.                *)

(* Results of a check, unit and e2e tests taken together.                  *)
Fails(check) ==
  CASE check = "lint" -> {(report = "failed") : report \in Reports("lint")}
    [] check = "tests" -> {("failed" \in {u, e}) : u \in Reports("unit"), e \in Reports("e2e")}
    [] check = "scan" -> {(ScanStatus(found) = "failed") : found \in WorkTrees}

Checked(check, isBad) == gates' = IF isBad THEN gates \cup {check} ELSE gates \ {check}

Lint ==
  /\ at = "lint"
  /\ \E isBad \in Fails("lint") : Checked("lint", isBad) /\ Return("test", "test", isBad)
  /\ UNCHANGED <<conf, level, round, git, outside, created, fired, state, runs>>

Test ==
  /\ at = "test"
  /\ \E isBad \in Fails("tests") : Checked("tests", isBad) /\ Return("security", "security", isBad)
  /\ Leaves
  /\ UNCHANGED <<conf, level, round, head, remote, outside, created, fired, state, runs>>

Security ==
  /\ at = "security"
  /\ \E isBad \in Fails("scan") : Checked("scan", isBad) /\ Stay("fix", isBad)
  /\ round' = 0
  /\ UNCHANGED <<conf, level, git, outside, created, fired, state, runs>>

CheckAgain ==
  gates' \in {g \in SUBSET {"lint", "tests", "scan"} :
                \A check \in {"lint", "tests", "scan"} : (check \in g) \in Fails(check)}

(* Mutant of Fix: a loop until all is well.                                *)
FixForever ==
  /\ at = "fix" /\ gates # {}
  /\ CheckAgain
  /\ Stay("fix", bad \/ gates' # {})
  /\ Leaves
  /\ UNCHANGED <<conf, level, round, head, remote, outside, created, fired, state, runs>>

(* One round: build, whose report is dropped, and the three checks.  The   *)
(* steps of a failed round stay in the report.                             *)
Fix ==
  /\ at = "fix" /\ gates # {} /\ round < MaxFixLoops
  /\ round' = round + 1
  /\ CheckAgain
  /\ Stay("fix", bad \/ gates' # {})
  /\ Leaves
  /\ UNCHANGED <<conf, level, head, remote, outside, created, fired, state, runs>>

FixEnds ==
  /\ at = "fix" /\ (gates # {} => round = MaxFixLoops)
  /\ Return("commit", "pr", bad)
  /\ UNCHANGED <<conf, level, tools, git, outside, created, fired, state, runs>>

------------------------------------------------------------------------------
(* The pr lane.                                                            *)

(* git add -A and git commit, which a hook may refuse.                     *)
Commit ==
  /\ at = "commit" /\ Allowed
  /\ \/ tree = {} /\ Stay("push", bad) /\ UNCHANGED <<tree, head>>
     \/ tree # {} /\ head' = head \cup tree /\ tree' = {} /\ Stay("push", bad)
     \/ tree # {} /\ Stay("push", TRUE) /\ UNCHANGED <<tree, head>>
  /\ UNCHANGED <<conf, level, tools, remote, outside, created, fired, state, runs>>

(* _push_branch: a failure is only logged.  The branch of the delivery     *)
(* exists only where someone has checked it out.                           *)
Push ==
  /\ at = "push" /\ Allowed
  /\ \/ conf.checkedOut /\ remote' = head
     \/ UNCHANGED remote
  /\ Stay("create", bad)
  /\ UNCHANGED <<conf, level, tools, tree, head, outside, created, fired, state, runs>>

(* The provider refuses a branch it does not have or that has a pull       *)
(* request; its answer may be lost, or name no address.                    *)
Answers ==
  IF remote = None \/ pull THEN {"refused"} ELSE {"opened", "opened-blank", "lost", "refused"}

(* PrCreator.create and validate_pr_step.                                  *)
Create ==
  /\ at = "create" /\ Allowed
  /\ \E answer \in Answers :
       /\ pull' = (pull \/ answer # "refused")
       /\ created' = [known |-> answer \in {"opened", "opened-blank"}, address |-> answer = "opened"]
       /\ Stay("review", bad \/ answer # "opened")
  /\ UNCHANGED <<conf, level, tools, git, accepted, ticket, fired, state, runs>>

(* PrReviewer.review of target...source: without the branch there is no    *)
(* diff, and no diff is fine.                                              *)
Review ==
  /\ at = "review"
  /\ \E issues \in BOOLEAN :
       /\ issues => conf.checkedOut /\ head # {}
       /\ conf.checkedOut /\ "markers" \in head => issues
       /\ Stay("deploy", bad \/ issues)
  /\ fired' = 0
  /\ UNCHANGED <<conf, level, tools, git, outside, created, state, runs>>

StateUpdate == IF created.known /\ created.address THEN "completed" ELSE "failed"

(* _step11_deploy: the check of the level comes after the pull request.    *)
Deploy ==
  /\ at = "deploy" /\ Allowed
  /\ IF conf.deploy /\ created.known /\ conf.url
       THEN Stay("fire", bad) /\ UNCHANGED state
       ELSE Return("returned", lane, bad) /\ state' = StateUpdate
  /\ UNCHANGED <<conf, level, tools, git, outside, created, fired, runs>>

(* One attempt of _fire: "lost" is a transport error, after which the      *)
(* webhook may have taken the call.                                        *)
Fire ==
  /\ at = "fire"
  /\ fired' = fired + 1
  /\ \E response \in {"2xx", "4xx", "5xx", "lost"} :
       /\ accepted' \in IF response = "2xx" THEN {TRUE}
                        ELSE IF response = "lost" THEN {accepted, TRUE} ELSE {accepted}
       /\ CASE response = "2xx" -> Stay("notify", bad) /\ UNCHANGED state
            [] response = "4xx" \/ fired + 1 = MaxAttempts ->
                 response # "2xx" /\ Return("returned", lane, TRUE) /\ state' = StateUpdate
            [] OTHER -> Stay("fire", bad) /\ UNCHANGED state
  /\ UNCHANGED <<conf, level, tools, git, pull, ticket, created, runs>>

(* Mutant of Notify: the ticket is told of every attempt.                  *)
NotifyEarly ==
  /\ at \in {"notify", "fire"}
  /\ ticket' \in {ticket, TRUE}
  /\ Return("returned", lane, bad) /\ state' = StateUpdate
  /\ UNCHANGED <<conf, level, tools, git, pull, accepted, created, fired, runs>>

(* _notify_ticket swallows the exception of the tracker.                   *)
Notify ==
  /\ at = "notify"
  /\ ticket' \in {ticket, TRUE}
  /\ Return("returned", lane, bad) /\ state' = StateUpdate
  /\ UNCHANGED <<conf, level, tools, git, pull, accepted, created, fired, runs>>

------------------------------------------------------------------------------
(* The end of the run: report.failed is set if any step failed.            *)
Report ==
  /\ at \in {"returned", "raised"}
  /\ at' = "reported"
  /\ round' = 0 /\ fired' = 0 /\ created' = Unknown
  /\ UNCHANGED <<conf, level, lane, bad, failed, gates, git, outside, state, runs>>

(* The outputs of all earlier runs are in the report of the next one.      *)
Restart(step, l) ==
  /\ runs' = runs + 1
  /\ level' \in {c.level : c \in Confs} /\ LevelRank(level') >= LevelRank("execute")
  /\ at' = step /\ lane' = l
  /\ UNCHANGED <<conf, bad, failed, tools, git, outside, created, fired, state>>

(* Resuming after a lane raised: the earlier ones are served from their    *)
(* receipts.                                                               *)
Resume ==
  /\ at = "reported" /\ state = None /\ runs < MaxRuns
  /\ Restart(IF lane = "pr" THEN "commit" ELSE "dev", lane)

(* With --no-cache all lanes run again, unless the delivery is completed.  *)
Again ==
  /\ at = "reported" /\ state # "completed" /\ runs < MaxRuns
  /\ Restart("dev", "dev")

Flow ==
  \/ Raise \/ Dev \/ Codegen \/ Lint \/ Test \/ Security \/ Fix \/ FixEnds
  \/ Commit \/ Push \/ Create \/ Review \/ Deploy \/ Fire \/ Notify \/ Report

Next == Bootstrap \/ Resume \/ Again \/ Flow

Spec == Init /\ [][Next]_vars

(* Every command and call of a lane has a timeout.                         *)
FairSpec == Spec /\ WF_vars(Flow)

------------------------------------------------------------------------------
(* Nothing but the autonomy level, the order of the steps and the guards   *)
(* of the deploy step stands between a work item and the outside: pushes,  *)
(* pull requests, deploys and ticket updates happen as the contract says,  *)
(* over denied, failed, resumed and repeated runs.                         *)
Done ==
  {e \in {"published", "proposed", "released", "announced"} :
     \/ e = "published" /\ remote # None
     \/ e = "proposed" /\ pull
     \/ e = "released" /\ accepted
     \/ e = "announced" /\ ticket}

Promise == INSTANCE DeliveryContract WITH
  Effects <- {"published", "proposed", "released", "announced"},
  Rank <- [published |-> 5, proposed |-> 6, released |-> 8, announced |-> 8],
  Needs <- [published |-> {}, proposed |-> {"published"}, released |-> {"proposed"}, announced |-> {"released"}],
  granted <- LevelRank(level),
  done <- Done

Contract == Promise!Contract

(* A report without a failed step can be believed about the code: the last *)
(* lint, tests and scan did not fail, and no conflict marker of a diff     *)
(* that did not apply is in the tree, the commits or the pull request      *)
(* (sprint_flow.py:842-847, 866-914).                                      *)
GreenReport ==
  at = "reported" /\ ~failed =>
    /\ gates = {}
    /\ "markers" \notin tree \cup head
    /\ remote # None => "markers" \notin remote

(* Every run that starts its lanes ends with a report, through failing     *)
(* commands, fix rounds and webhook retries.                               *)
LaneEnds == lane # None ~> at = "reported"

(* "STATUS: COMPLETE" and "EXIT_SIGNAL: true" of the summary are for a     *)
(* delivery that was delivered.                                            *)
GreenMeansDelivered == at = "reported" /\ ~failed => state = "completed"
===============================================================================
