------------------------------ MODULE Provisioning ------------------------------
(***************************************************************************)
(* Commands that write into a repository, or into the configuration of an  *)
(* editor, what people write there too: init drafts the documents of       *)
(* .specs (scaffolder.py), sync-agentic-starter copies the files of a      *)
(* release (agentic_starter.py), install-ado-mcp puts its section into a   *)
(* TOML file (mcp/azure_devops.py).  A command goes file by file and may   *)
(* die anywhere; people edit and releases come out meanwhile.              *)
(***************************************************************************)
EXTENDS Integers, FiniteSets, SequencesExt, Subsequences

CONSTANTS
  Specs,      \* the documents init drafts, in its order
  Releases,   \* main, for a repository without a release, then the releases
  Starter,    \* per release: its files, in the order they are copied
  Projects,   \* Azure projects the section may name
  Additions,  \* lines people append to the configuration
  MaxRuns, MaxEdits, MaxFaults, \* bounds on commands, edits, and deaths
  NoRun       \* no command runs

Paths == Range(Specs) \cup UNION {Range(Starter[v]) : v \in Range(Releases)}
Headers == {"ours", "other", "sub"}
Lines == Headers \cup {"key", "blank"} \cup Projects

ASSUME ProvisioningAssumption ==
  /\ Specs \in Seq(STRING) /\ Releases \in Seq(STRING) \ {<<>>}
  /\ Starter \in [Range(Releases) -> Seq(STRING)]
  /\ \A v \in Range(Releases) : Range(Specs) \cap Range(Starter[v]) = {}
  /\ Additions \subseteq Seq(Lines)
  /\ {MaxRuns, MaxEdits, MaxFaults} \subseteq Nat

(* No release has the name of another content or of a request.             *)
ASSUME ReleasesApart ==
  Range(Releases) \cap {"missing", "user", "torn", "draft", "template", "none", "latest"} = {}

(* What names a project is no header, and not blank.                       *)
ASSUME ProjectsApart == Projects \cap (Headers \cup {"blank"}) = {}

VARIABLES
  files,    \* what is at a path: missing, user, torn, draft, template or a release
  release,  \* position in Releases of the latest one
  lock,     \* what .agentic-starter.json says
  config,   \* the lines of the editor's configuration
  run,      \* the command that runs, or NoRun
  kept,     \* history: files of the user the command has no leave to change
  promised, \* history: paths the last command ended with
  edited,   \* history: paths people wrote or deleted since it began
  exact,    \* history: the release its --force put there, or missing
  theirs,   \* history: the lines others have in the configuration
  apart,    \* history: no edit or death fell between its read and its write
  spent     \* runs, edits and faults so far

disk == <<files, release, lock, config>>
history == <<kept, promised, edited, exact, theirs, apart>>
provisioningVars == <<disk, run, history, spent>>

NoLock == [source |-> "none", ref |-> "none", mode |-> "none"]
TornLock == [NoLock EXCEPT !.ref = "torn"]
Contents == {"missing", "user", "torn", "draft", "template"} \cup Range(Releases)

ProvisioningTypeOK ==
  /\ files \in [Paths -> Contents] /\ release \in DOMAIN Releases /\ exact \in Contents
  /\ kept \subseteq Paths /\ promised \cup edited \subseteq Paths /\ apart \in BOOLEAN
  /\ config \in Seq(Lines) /\ theirs \in Seq(Lines)
  /\ run # NoRun => Range(run.todo) \subseteq Paths /\ run.content \in Contents

(* The lines of others: those under no header of ours, without the blank   *)
(* ones.                                                                   *)
InOurs(lines, i) ==
  \E j \in 1..i : lines[j] = "ours" /\ \A k \in j + 1..i : lines[k] \notin Headers
Foreign(lines) == Picked(lines, {i \in DOMAIN lines : ~InOurs(lines, i) /\ lines[i] # "blank"})

SectionsIn(lines) == {i \in DOMAIN lines : lines[i] = "ours"}

ProvisioningInit ==
  /\ files = [p \in Paths |-> "missing"] /\ release = 1 /\ lock = NoLock
  /\ config = <<>> /\ theirs = <<>> /\ apart = TRUE
  /\ run = NoRun /\ kept = {} /\ promised = {} /\ edited = {} /\ exact = "missing"
  /\ spent = [runs |-> 0, edits |-> 0, faults |-> 0]

------------------------------------------------------------------------------
Begin(command, mode, source, ref, step) ==
  /\ run = NoRun /\ spent.runs < MaxRuns
  /\ spent' = [spent EXCEPT !.runs = @ + 1]
  /\ run' = [command |-> command, mode |-> mode, source |-> source, ref |-> ref, step |-> step,
             content |-> "missing", todo |-> <<>>, read |-> <<>>]
  /\ kept' = {p \in Paths : files[p] = "user" /\
                            (mode = "force" => command = "init" /\ p \notin Range(Specs))}
  /\ promised' = {} /\ edited' = {} /\ exact' = "missing"
  /\ UNCHANGED <<disk, theirs, apart>>

InitCommand ==
  \E mode \in {"missing", "force"}, source \in {"model", "offline"}, ref \in {"none", "latest"} :
    Begin("init", mode, source, ref, "generate")
SyncCommand ==
  \E mode \in {"missing", "force", "dry"}, source \in {"github", "local"},
     ref \in {"latest"} \cup {Releases[i] : i \in 1..release} : Begin("sync", mode, source, ref, "fetch")
InstallCommand ==
  \E mode \in {"missing", "dry"}, p \in Projects : Begin("install", mode, "none", p, "npx")

At(step) == run # NoRun /\ run.step = step
Stops == run' = NoRun
GoesOn(r) == run' = r

(* All documents are drafted before the first is written.                  *)
Generate ==
  /\ At("generate")
  /\ \/ GoesOn([run EXCEPT !.step = "look", !.todo = Specs,
                           !.content = IF run.source = "offline" THEN "template" ELSE "draft"])
     \/ run.source = "model" /\ Stops
  /\ UNCHANGED <<disk, history, spent>>

Resolve(ref) == IF ref = "latest" THEN Releases[release] ELSE ref

(* A tag does not move, so the archive is the one of the resolved ref; a   *)
(* directory holds any release, and the lock says what was asked for.      *)
Fetch ==
  /\ At("fetch")
  /\ \/ \E v \in Range(Releases) :
          /\ run.source = "github" => v = Resolve(run.ref)
          /\ GoesOn([run EXCEPT !.step = "look", !.content = v, !.todo = Starter[v],
                                !.ref = IF run.source = "github" THEN v ELSE @])
     \/ run.source = "github" /\ Stops
  /\ UNCHANGED <<disk, history, spent>>

(* Mutant of Skips: as if --force were given always.                       *)
SkipsDryOnly(exists) == run.mode = "dry"

Skips(exists) == run.mode = "dry" \/ (exists /\ run.mode # "force")

Look ==
  /\ At("look") /\ run.todo # <<>>
  /\ GoesOn(IF Skips(files[Head(run.todo)] # "missing")
            THEN [run EXCEPT !.todo = Tail(@)]
            ELSE [run EXCEPT !.step = "write"])
  /\ UNCHANGED <<disk, history, spent>>

Write ==
  /\ At("write")
  /\ files' = [files EXCEPT ![Head(run.todo)] = run.content]
  /\ GoesOn([run EXCEPT !.todo = Tail(@), !.step = "look"])
  /\ UNCHANGED <<release, lock, config, history, spent>>

(* After its documents init syncs the starter, best effort and never with  *)
(* --force.                                                                *)
Drafted ==
  /\ At("look") /\ run.todo = <<>> /\ run.content \in {"draft", "template"}
  /\ promised' = Range(Specs)
  /\ IF run.ref = "none" THEN Stops
     ELSE GoesOn([run EXCEPT !.step = "fetch", !.mode = "missing", !.source = "github"])
  /\ UNCHANGED <<disk, kept, edited, exact, theirs, apart, spent>>

Promise ==
  IF run.mode = "dry" THEN UNCHANGED <<promised, exact>>
  ELSE /\ promised' = promised \cup Range(Starter[run.content])
       /\ exact' = IF run.mode = "force" THEN run.content ELSE "missing"

LookLock ==
  /\ At("look") /\ run.todo = <<>> /\ run.content \in Range(Releases)
  /\ IF Skips(lock # NoLock) THEN Stops /\ Promise
     ELSE GoesOn([run EXCEPT !.step = "lock"]) /\ UNCHANGED <<promised, exact>>
  /\ UNCHANGED <<disk, kept, edited, theirs, apart, spent>>

WriteLock ==
  /\ At("lock") /\ Stops /\ Promise
  /\ lock' = [source |-> run.source, ref |-> run.ref, mode |-> run.mode]
  /\ UNCHANGED <<files, release, config, kept, edited, theirs, apart, spent>>

------------------------------------------------------------------------------
Section(project) == <<"ours", project>>

(* Each section of ours gives way to the new one, up to the next header.   *)
Copy(acc, line, section) ==
  CASE line = "ours" -> [out |-> acc.out \o section, ours |-> TRUE, replaced |-> TRUE]
    [] line # "ours" /\ acc.ours /\ line \notin Headers -> acc
    [] OTHER -> [acc EXCEPT !.out = Append(@, line), !.ours = FALSE]

Copied(existing, section) ==
  LET after[n \in 0..Len(existing)] ==
        IF n = 0 THEN [out |-> <<>>, ours |-> FALSE, replaced |-> FALSE]
        ELSE Copy(after[n - 1], existing[n], section)
  IN after[Len(existing)]

(* Up to the last line that is not blank.                                  *)
Trimmed(lines) ==
  LET text == {i \in DOMAIN lines : lines[i] # "blank"}
  IN SubSeq(lines, 1, CHOOSE i \in text : \A j \in text : j <= i)

(* Without a section of ours the new one goes to the end.                  *)
UpsertSection(existing, section) ==
  LET copied == Copied(existing, section)
      gap == IF copied.out # <<>> /\ Last(copied.out) # "blank" THEN <<"blank">> ELSE <<>>
  IN Trimmed(IF copied.replaced THEN copied.out ELSE copied.out \o gap \o section)

FindNpx ==
  /\ At("npx")
  /\ \/ Stops
     \/ run.mode # "dry" /\ GoesOn([run EXCEPT !.step = "read"])
  /\ UNCHANGED <<disk, history, spent>>

ReadConfig ==
  /\ At("read") /\ GoesOn([run EXCEPT !.step = "put", !.read = config])
  /\ UNCHANGED <<disk, history, spent>>

WriteConfig ==
  /\ At("put") /\ Stops
  /\ config' = UpsertSection(run.read, Section(run.ref))
  /\ UNCHANGED <<files, release, lock, history, spent>>

------------------------------------------------------------------------------
(* A death, or an error of the file system: what is being written is torn, *)
(* a configuration left empty.                                             *)
Dies ==
  /\ run # NoRun /\ spent.faults < MaxFaults /\ Stops
  /\ spent' = [spent EXCEPT !.faults = @ + 1]
  /\ files' = IF At("write") THEN [files EXCEPT ![Head(run.todo)] = "torn"] ELSE files
  /\ lock' = IF At("lock") THEN TornLock ELSE lock
  /\ config' = IF At("put") THEN <<>> ELSE config
  /\ apart' = (apart /\ ~At("put"))
  /\ UNCHANGED <<release, kept, promised, edited, exact, theirs>>

Edits == spent.edits < MaxEdits /\ spent' = [spent EXCEPT !.edits = @ + 1]

(* The user writes a file; the command must let it be unless it has just   *)
(* found none there, or may overwrite.                                     *)
UserWrites(p) ==
  /\ Edits
  /\ files' = [files EXCEPT ![p] = "user"]
  /\ LET found == At("write") /\ Head(run.todo) = p
         leave == run # NoRun /\ run.mode = "force" /\ (run.command = "init" => p \in Range(Specs))
     IN kept' = IF found \/ leave THEN kept ELSE kept \cup {p}
  /\ edited' = edited \cup {p}
  /\ UNCHANGED <<release, lock, config, run, promised, exact, theirs, apart>>

UserDeletes(p) ==
  /\ Edits /\ files[p] # "missing"
  /\ files' = [files EXCEPT ![p] = "missing"]
  /\ kept' = kept \ {p} /\ edited' = edited \cup {p}
  /\ UNCHANGED <<release, lock, config, run, promised, exact, theirs, apart>>

(* The editor and its user append to the configuration.                    *)
EditConfig ==
  /\ Edits /\ \E more \in Additions : config' = config \o more
  /\ theirs' = Foreign(config') /\ apart' = (apart /\ ~At("put"))
  /\ UNCHANGED <<files, release, lock, run, kept, promised, edited, exact>>

Publish ==
  /\ release < Len(Releases) /\ release' = release + 1
  /\ UNCHANGED <<files, lock, config, run, history, spent>>

ProvisioningNext ==
  \/ InitCommand \/ SyncCommand \/ InstallCommand
  \/ Generate \/ Fetch \/ Look \/ Write \/ Drafted \/ LookLock \/ WriteLock
  \/ FindNpx \/ ReadConfig \/ WriteConfig
  \/ Dies \/ EditConfig \/ Publish
  \/ \E p \in Paths : UserWrites(p) \/ UserDeletes(p)

ProvisioningSpec == ProvisioningInit /\ [][ProvisioningNext]_provisioningVars

------------------------------------------------------------------------------
(* Without --force no file of the user changes, those of the documents or  *)
(* the starter which he writes while the command runs included, but for    *)
(* one that appears between its look and its write (agentic_starter.py:4,  *)
(* scaffolder.py:9).                                                       *)
UsersFilesKept == \A p \in kept : files[p] = "user"

(* A command that ended well left every file it is for, whatever commands  *)
(* that died had left before; a forced one left its own release, and a     *)
(* lock that names it if it came from GitHub (agentic_starter.py:104-125). *)
CommandsComplete ==
  /\ \A p \in promised \ edited :
       /\ files[p] # "missing"
       /\ exact # "missing" => files[p] = exact
  /\ promised \ Range(Specs) # {} => lock # NoLock
  /\ exact # "missing" /\ run = NoRun /\ lock.source = "github" => lock.ref = exact

(* The lines of others stay, and stay where they are, and what was         *)
(* installed is stable (azure_devops.py:134-155).                          *)
OthersLinesKept ==
  /\ apart => Foreign(config) = theirs
  /\ \A p \in Projects :
       LET put == UpsertSection(config, Section(p))
           before == Cardinality(SectionsIn(config))
       IN /\ UpsertSection(put, Section(p)) = put /\ Foreign(put) = Foreign(config)
          /\ Cardinality(SectionsIn(put)) = IF before = 0 THEN 1 ELSE before
          /\ \A i \in SectionsIn(put) : i < Len(put) /\ put[i + 1] = p

(* What users and other programs write survives the commands that write    *)
(* beside them, and a command that ended well is complete.                 *)
Provisioned == UsersFilesKept /\ CommandsComplete /\ OthersLinesKept
================================================================================
