------------------------------- MODULE MCServices -------------------------------
(* The services around a delivery share no variable: one of them is chosen *)
(* at the start and the others rest.                                       *)
EXTENDS TLC, Publication, Rework, SprintIntake, IssueBoard, Onboarding, Provisioning

VARIABLE part

------------------------------------------------------------------------------
File(kind, inPlan, big, built) ==
  [kind |-> kind, planned |-> inPlan, large |-> big, generated |-> built]
MCFiles ==
  {File("doc", TRUE, FALSE, FALSE), File("source", TRUE, FALSE, FALSE), File("source", FALSE, FALSE, FALSE),
   File("test", TRUE, FALSE, FALSE), File("doc", FALSE, TRUE, TRUE)}
DomainItem(type, required, has, amount) ==
  [type |-> type, required |-> required, given |-> has, amount |-> amount]
MCDomainChecks ==
  {DomainItem("checklist", TRUE, TRUE, 0), DomainItem("checklist", TRUE, TRUE, 1),
   DomainItem("review", FALSE, TRUE, 1), DomainItem("risk", FALSE, TRUE, 9), DomainItem("source", TRUE, FALSE, 0)}
Asks(person, targets, external, explicit) ==
  [human |-> person, targets |-> targets, external |-> external, explicit |-> explicit]
MCAsking ==
  {Asks(TRUE, TRUE, TRUE, TRUE), Asks(FALSE, FALSE, FALSE, FALSE), Asks(TRUE, TRUE, FALSE, FALSE)}
MCScores == <<100, 80, 0>>
MCTouches == {<<"k1", "f1">>, <<"k1", "f2">>, <<"k2", "f2">>}

------------------------------------------------------------------------------
Work(k, parent, type, labels, text, mine, open) ==
  [key |-> <<k>>, parent |-> parent, type |-> type, labels |-> labels, text |-> text, mine |-> mine, open |-> open]
Story == Work("S", <<>>, "Story", {}, {}, TRUE, TRUE)
MCVisitors == {Work("V", <<>>, "Bug", {}, {"front"}, TRUE, TRUE)}
MCBoards == {
  <<Story, Work("T", <<"S">>, "Task", {}, {"back"}, FALSE, TRUE), Work("B", <<>>, "Bug", {}, {}, TRUE, TRUE)>>,
  <<Work("F", <<>>, "Feature", {"back"}, {}, TRUE, TRUE), Work("T", <<"F">>, "Task", {}, {}, TRUE, TRUE),
    [Story EXCEPT !.labels = {"front"}]>>,
  <<Work("B", <<>>, "Bug", {}, {"back"}, FALSE, TRUE), Work("T", <<"B">>, "Task", {"front"}, {}, TRUE, FALSE), Story>>}
Filter(mode, whitelist, keys) == [mode |-> mode, whitelist |-> whitelist, keys |-> keys]
MCFilters == {Filter("all", TRUE, {}), Filter("mine", FALSE, {}), Filter("all", TRUE, {<<"S">>, <<"B">>})}
MCWorkspaces == {{"front", "api"}, {"lib", "none"}, {"infra"}}
(* Two keys may become one slug, and so one branch.                        *)
MCSlug(k) == IF Head(k) = "B" THEN <<"T">> ELSE k

DraftIssue(title, marker) == [title |-> title, marker |-> marker]
MCDrafts == <<DraftIssue("sprint", "u"), DraftIssue("K1 -> front", "K1"), DraftIssue("K1 -> back", "K1")>>

------------------------------------------------------------------------------
(* Terminals are alike.                                                    *)
TerminalsAlike == Permutations(Terminals)
MCEnvironments ==
  {[account |-> "ana", secret |-> "s"], [account |-> "ana", secret |-> Absent], [account |-> Absent, secret |-> Absent]}

------------------------------------------------------------------------------
MCSpecs == <<"VISION">>
MCReleases == <<"main", "v1">>
MCStarter == [v \in {"main", "v1"} |-> IF v = "main" THEN <<"AGENTS", "bin">> ELSE <<"bin">>]
MCAdditions == {<<"key">>, <<"other", "key", "blank", "ours", "p1", "key", "sub", "key">>}

------------------------------------------------------------------------------
services ==
  <<publicationVars, reworkVars, intakeVars, boardVars, onboardingVars,
    provisioningVars, part>>

(* A part that rests does so in one of its initial states.                 *)
Init ==
  /\ part \in {"publication", "rework", "intake", "board", "onboarding", "provisioning"}
  /\ PublicationInit /\ (part # "publication" => dossier.files = {File("doc", TRUE, FALSE, FALSE)} /\ ~asking.human)
  /\ ReworkInit /\ (part # "rework" => human /\ flaws = {})
  /\ IntakeInit
  /\ part # "intake" =>
       /\ board = CHOOSE b \in Boards : TRUE
       /\ errand = CHOOSE e \in Errand : TRUE
  /\ BoardInit /\ OnboardingInit /\ ProvisioningInit

Next ==
  /\ UNCHANGED part
  /\ \/ /\ part = "publication" /\ PublicationNext
        /\ UNCHANGED <<reworkVars, intakeVars, boardVars, onboardingVars, provisioningVars>>
     \/ /\ part = "rework" /\ ReworkNext
        /\ UNCHANGED <<publicationVars, intakeVars, boardVars, onboardingVars, provisioningVars>>
     \/ /\ part = "intake" /\ IntakeNext
        /\ UNCHANGED <<publicationVars, reworkVars, boardVars, onboardingVars, provisioningVars>>
     \/ /\ part = "board" /\ BoardNext
        /\ UNCHANGED <<publicationVars, reworkVars, intakeVars, onboardingVars, provisioningVars>>
     \/ /\ part = "onboarding" /\ OnboardingNext
        /\ UNCHANGED <<publicationVars, reworkVars, intakeVars, boardVars, provisioningVars>>
     \/ /\ part = "provisioning" /\ ProvisioningNext
        /\ UNCHANGED <<publicationVars, reworkVars, intakeVars, boardVars, onboardingVars>>

(* The part that moves; the others are as it finds them at its start.      *)
TypeOK ==
  /\ part = "publication" => PublicationTypeOK
  /\ part = "rework" => ReworkTypeOK
  /\ part = "intake" => IntakeTypeOK
  /\ part = "board" => BoardTypeOK
  /\ part = "onboarding" => OnboardingTypeOK
  /\ part = "provisioning" => ProvisioningTypeOK

Spec == Init /\ [][Next]_services
================================================================================
