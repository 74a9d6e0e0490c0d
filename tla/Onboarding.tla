------------------------------- MODULE Onboarding -------------------------------
(***************************************************************************)
(* Who a run works as.  Accounts and secrets come from the environment,    *)
(* the keyring (credentials.py), the profile (profile.py) and prompts, to  *)
(* login, logout, run and sprint (cli.py), to the operators and to the API *)
(* (api/routes/auth.py).  Commands run in terminals of their own; the      *)
(* profile is loaded, changed and written back without a lock.             *)
(***************************************************************************)
EXTENDS Integers, FiniteSets

CONSTANTS
  Accounts,     \* e-mail addresses and organizations
  Secrets,
  Environments, \* what a terminal may have set: an account and a secret
  Terminals,
  MaxCommands,  \* bound on commands
  Broken,       \* a profile that does not parse
  NoCommand     \* no command, no flow

Absent == "none"
Provider == {"jira", "azuredevops"}

(* The API keeps what it was given for azuredevops under another name.     *)
Places == Accounts \cup {"organization/project", "default"}

ASSUME OnboardingAssumption ==
  /\ MaxCommands \in Nat /\ Absent \notin Accounts \cup Secrets
  /\ Environments \subseteq [account : Accounts \cup {Absent}, secret : Secrets \cup {Absent}]

VARIABLES
  keyring,   \* the secret stored for a provider and an account, or Absent
  profile,   \* profile.yaml: default_provider, jira.email, azuredevops.organization
  terminal,  \* the command in each terminal, or NoCommand
  flow,      \* the flow that was started last, or NoCommand
  given,     \* <<provider, account, secret>> that were typed or set together
  forgotten, \* <<provider, account>> that a logout removed, or an API login went by
  expected,  \* what the logins that ended add up to
  separate,  \* so far no two of them overlapped and none died while it wrote
  issued     \* commands so far

onboardingVars == <<keyring, profile, terminal, flow, given, forgotten, expected, separate, issued>>

Profile ==
  [default : Provider \cup {Absent}, jira : Accounts \cup {Absent}, azuredevops : Accounts \cup {Absent}]
Nobody == [default |-> Absent, jira |-> Absent, azuredevops |-> Absent]

Command ==
  [what : {"login", "sprint"}, provider : Provider, env : Environments, typed : Accounts \cup {Absent},
   copy : Profile, account : Accounts \cup {Absent}, secret : Secrets \cup {Absent},
   at : {"resolve", "load", "save", "write", "start"}]

ASSUME NoCommandApart == NoCommand \notin Command

OnboardingTypeOK ==
  /\ keyring \in [Provider -> [Places -> Secrets \cup {Absent}]]
  /\ profile \in Profile \cup {Broken}
  /\ terminal \in [Terminals -> Command \cup {NoCommand}]
  /\ flow # NoCommand => flow.provider \in Provider /\ flow.account \in Places \cup {Absent}
  /\ given \subseteq Provider \X Places \X Secrets
  /\ forgotten \subseteq Provider \X Places
  /\ expected \in Profile /\ separate \in BOOLEAN /\ issued \in 0..MaxCommands

OnboardingInit ==
  /\ keyring = [p \in Provider |-> [a \in Places |-> Absent]]
  /\ profile = Nobody /\ expected = Nobody /\ separate = TRUE
  /\ terminal = [t \in Terminals |-> NoCommand] /\ flow = NoCommand
  /\ given = {} /\ forgotten = {} /\ issued = 0

------------------------------------------------------------------------------
Together(p, a, s) == IF Absent \in {a, s} THEN given ELSE given \cup {<<p, a, s>>}

(* set_secret, which may raise.                                            *)
SetSecret(p, a, s) ==
  /\ keyring' = [keyring EXCEPT ![p][a] = s]
  /\ forgotten' = forgotten \ {<<p, a>>}

Leave(t) == terminal' = [terminal EXCEPT ![t] = NoCommand]

(* login asks for an organization before it looks for credentials; sprint  *)
(* has loaded the profile, whose provider an argument or a prompt replaces.*)
BeginCommand(t, p, env) ==
  /\ terminal[t] = NoCommand /\ issued < MaxCommands /\ profile # Broken
  /\ issued' = issued + 1
  /\ \E what \in {"login", "sprint"}, typed \in Accounts \cup {Absent} :
       /\ typed # Absent <=> what = "login" /\ p = "azuredevops"
       /\ terminal' = [terminal EXCEPT ![t] =
         [what |-> what, provider |-> p, env |-> env, typed |-> typed,
          copy |-> IF what = "login" THEN Nobody ELSE profile,
          account |-> Absent, secret |-> Absent, at |-> "resolve"]]
  /\ UNCHANGED <<keyring, profile, flow, given, forgotten, expected, separate>>

Holding(t, a, s) ==
  terminal' = [terminal EXCEPT ![t].account = a, ![t].secret = s,
                               ![t].at = IF terminal[t].what = "login" THEN "load" ELSE "start"]

(* Mutant of Stored: any entry of the provider will do.                    *)
StoredByAnyone(p, a) ==
  IF keyring[p][a] # Absent \/ \A b \in Places : keyring[p][b] = Absent THEN keyring[p][a]
  ELSE keyring[p][CHOOSE b \in Places : keyring[p][b] # Absent]

(* get_secret.                                                             *)
Stored(p, a) == keyring[p][a]

(* get_or_prompt: both in the environment; else the account in the         *)
(* environment and its secret in the keyring; else the prompts.  A keyring *)
(* that cannot be read counts as empty, one that cannot be written raises. *)
FromEnvironment(t) ==
  LET c == terminal[t]
  IN /\ c # NoCommand /\ c.at = "resolve" /\ Absent \notin {c.env.account, c.env.secret}
     /\ given' = Together(c.provider, c.env.account, c.env.secret)
     /\ \/ SetSecret(c.provider, c.env.account, c.env.secret) /\ Holding(t, c.env.account, c.env.secret)
        \/ Leave(t) /\ UNCHANGED <<keyring, forgotten>>
     /\ UNCHANGED <<profile, flow, expected, separate, issued>>

FromKeyring(t) ==
  LET c == terminal[t]
  IN /\ c # NoCommand /\ c.at = "resolve" /\ c.env.account # Absent /\ c.env.secret = Absent
     /\ Stored(c.provider, c.env.account) # Absent
     /\ Holding(t, c.env.account, Stored(c.provider, c.env.account))
     /\ UNCHANGED <<keyring, profile, flow, given, forgotten, expected, separate, issued>>

Prompted(t) ==
  LET c == terminal[t]
  IN /\ c # NoCommand /\ c.at = "resolve" /\ Absent \in {c.env.account, c.env.secret}
     /\ \E a \in IF c.env.account = Absent THEN Accounts ELSE {c.env.account}, s \in Secrets :
          /\ given' = Together(c.provider, a, s)
          /\ \/ SetSecret(c.provider, a, s) /\ Holding(t, a, s)
             \/ Leave(t) /\ UNCHANGED <<keyring, forgotten>>
     /\ UNCHANGED <<profile, flow, expected, separate, issued>>

(* profile.update: what login writes is the account for jira and what was  *)
(* typed as the organization for azuredevops.                              *)
Patched(old, c) ==
  [old EXCEPT !.default = c.provider, ![c.provider] = IF c.provider = "jira" THEN c.account ELSE c.typed]

LoadProfile(t) ==
  /\ terminal[t] # NoCommand /\ terminal[t].at = "load" /\ profile # Broken
  /\ terminal' = [terminal EXCEPT ![t].copy = profile, ![t].at = "save"]
  /\ separate' = (separate /\ \A u \in Terminals \ {t} : terminal[u] # NoCommand => terminal[u].at \notin {"save", "write"})
  /\ UNCHANGED <<keyring, profile, flow, given, forgotten, expected, issued>>

(* The first lines of the file are a profile with defaults for the rest.   *)
FirstLines(p) == {Nobody, [Nobody EXCEPT !.default = p.default], [p EXCEPT !.azuredevops = Absent]}

TruncateProfile(t) ==
  /\ terminal[t] # NoCommand /\ terminal[t].at = "save"
  /\ profile' \in FirstLines(Patched(terminal[t].copy, terminal[t])) \cup {Broken}
  /\ terminal' = [terminal EXCEPT ![t].at = "write"]
  /\ UNCHANGED <<keyring, flow, given, forgotten, expected, separate, issued>>

SaveProfile(t) ==
  /\ terminal[t] # NoCommand /\ terminal[t].at = "write"
  /\ profile' = Patched(terminal[t].copy, terminal[t])
  /\ expected' = Patched(expected, terminal[t])
  /\ Leave(t)
  /\ UNCHANGED <<keyring, flow, given, forgotten, separate, issued>>

(* A prompt that is aborted, a profile that does not parse, a kill.        *)
CommandDies(t) ==
  /\ terminal[t] # NoCommand
  /\ Leave(t)
  /\ separate' = (separate /\ terminal[t].at # "write")
  /\ UNCHANGED <<keyring, profile, flow, given, forgotten, expected, issued>>

(* sprint hands account and secret to the operator; an organization in the *)
(* profile goes before the account.                                        *)
StartSprint(t) ==
  LET c == terminal[t]
      account == IF c.provider = "azuredevops" /\ c.copy.azuredevops # Absent THEN c.copy.azuredevops ELSE c.account
  IN /\ c # NoCommand /\ c.at = "start"
     /\ flow' = [provider |-> c.provider, account |-> account, secret |-> c.secret,
                 mixed |-> account # c.account]
     /\ Leave(t)
     /\ UNCHANGED <<keyring, profile, given, forgotten, expected, separate, issued>>

(* run and preflight hand nothing over: the operator takes the account     *)
(* from the environment or the profile, the secret from the environment or *)
(* the keyring, and does without what it does not find.                    *)
StartRun(p, env) ==
  LET named == IF env.account = Absent /\ profile # Broken THEN profile[p] ELSE env.account
      secret == IF env.secret = Absent /\ named # Absent THEN Stored(p, named) ELSE env.secret
  IN /\ issued < MaxCommands /\ issued' = issued + 1
     /\ flow' = [provider |-> p, account |-> named, secret |-> secret,
                 mixed |-> env.account = Absent /\ env.secret # Absent]
     /\ given' = Together(p, env.account, env.secret)
     /\ UNCHANGED <<keyring, profile, terminal, forgotten, expected, separate>>

(* Without an argument logout takes the account of the profile; a keyring  *)
(* that cannot delete is ignored.                                          *)
Logout(p) ==
  /\ issued < MaxCommands /\ issued' = issued + 1 /\ profile # Broken
  /\ \E a \in (Accounts \cup {profile[p]}) \ {Absent} :
       /\ keyring' \in {keyring, [keyring EXCEPT ![p][a] = Absent]}
       /\ forgotten' = forgotten \cup {<<p, a>>}
  /\ UNCHANGED <<profile, terminal, flow, given, expected, separate>>

(* POST /auth/...: the provider has accepted the secret; a keyring that    *)
(* cannot be written is ignored.                                           *)
ApiLogin(p, a, s) ==
  LET place == IF p = "jira" THEN a ELSE "organization/project"
  IN /\ issued < MaxCommands /\ issued' = issued + 1
     /\ given' = Together(p, place, s)
     /\ SetSecret(p, place, s) \/ UNCHANGED <<keyring, forgotten>>
     /\ UNCHANGED <<profile, terminal, flow, expected, separate>>

(* GET /auth/status asks for an account nobody stores a secret under.      *)
Configured(p) == Stored(p, "default") # Absent

OnboardingNext ==
  \/ \E t \in Terminals :
       \/ \E p \in Provider, env \in Environments : BeginCommand(t, p, env)
       \/ FromEnvironment(t) \/ FromKeyring(t) \/ Prompted(t)
       \/ LoadProfile(t) \/ TruncateProfile(t) \/ SaveProfile(t) \/ StartSprint(t) \/ CommandDies(t)
  \/ \E p \in Provider, env \in Environments : StartRun(p, env)
  \/ \E p \in Provider : Logout(p)
  \/ \E p \in Provider, a \in Accounts, s \in Secrets : ApiLogin(p, a, s)

OnboardingSpec == OnboardingInit /\ [][OnboardingNext]_onboardingVars

------------------------------------------------------------------------------
(* A flow never uses a secret with an account it was not given for: not    *)
(* after other logins, logouts and torn profiles, except for a secret in   *)
(* the environment without its account, and for a sprint whose profile     *)
(* names another organization.  The keyring holds only such pairs; the     *)
(* jira account of the profile has its secret there until somebody logs    *)
(* out; and logins that kept apart have all left their mark in the profile *)
(* (credentials.py:71-113, profile.py:93-109, cli.py:813-882).             *)
RightSecret ==
  /\ flow # NoCommand /\ ~flow.mixed /\ Absent \notin {flow.account, flow.secret} =>
       <<flow.provider, flow.account, flow.secret>> \in given
  /\ \A p \in Provider, a \in Places : Stored(p, a) # Absent => <<p, a, Stored(p, a)>> \in given
  /\ profile # Broken /\ profile.jira # Absent =>
       Stored("jira", profile.jira) # Absent \/ <<"jira", profile.jira>> \in forgotten
  /\ separate /\ (\A t \in Terminals : terminal[t] # NoCommand => terminal[t].at # "write") => profile = expected
================================================================================
