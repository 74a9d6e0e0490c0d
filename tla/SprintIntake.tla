------------------------------ MODULE SprintIntake ------------------------------
(***************************************************************************)
(* From the tracker to the deliveries of a run: an operator reads the      *)
(* sprint (operators/), while people move items in and out of it; the      *)
(* scope filters it (scope.py), stories without tasks are split            *)
(* (agents/story_task_planner.py), each item becomes a file                *)
(* (agents/sprint_importer.py) and is routed to repositories (planning.py).*)
(***************************************************************************)
EXTENDS Integers, Sequences, SequencesExt, FiniteSets, FiniteSetsExt, Functions, Subsequences

CONSTANTS
  Boards,      \* sprints the tracker may hold, in its order
  Visitors,    \* items that may join the sprint
  Filters,     \* scopes a run is started with
  Workspaces,  \* sets of repository roles, "none" for a repository without one
  SlugOf(_),   \* _slugify on a key: the name of its file
  PageSize,    \* maxResults of a page, or the length of a chunk of ids
  MaxMoves,    \* bound on items that leave or join
  MaxTears     \* bound on imports that die within a file

(* An item; its key is a sequence, <<>> for no parent.                     *)
SprintItem ==
  [key : Seq(STRING), parent : Seq(STRING), type : {"Story", "Task", "Bug", "Feature"},
   labels : SUBSET {"front", "back"}, text : SUBSET {"front", "back"}, mine : BOOLEAN, open : BOOLEAN]

InputsFit ==
  /\ \A b \in Boards : b \in Seq(SprintItem)
  /\ \A v \in Visitors : v \in SprintItem
  /\ PageSize \in Nat \ {0} /\ MaxMoves \in Nat /\ MaxTears \in Nat
  /\ \A f \in Filters : f.mode \in {"all", "mine"} /\ f.whitelist \in BOOLEAN

ASSUME IntakeAssumption == InputsFit

KnownItems == (UNION {Range(b) : b \in Boards}) \cup Visitors

(* The tracker gives an item a key of its own.                             *)
OwnKeys ==
  /\ \A i \in KnownItems : i.key # <<>>
  /\ \A b \in Boards : \A i, j \in DOMAIN b : b[i].key = b[j].key => i = j
  /\ \A b \in Boards : \A i \in Range(b), v \in Visitors : i.key # v.key
  /\ \A v, w \in Visitors : v.key = w.key => v = w

ASSUME KeysApart == OwnKeys

(* No item has the key the planner makes up for a part of a story, or has  *)
(* it for its parent; keys become names of files.                          *)
MadeUp == {Append(i.key, scope) : i \in KnownItems, scope \in {"front", "back"}}

NewKeys ==
  /\ MadeUp \cap {i.key : i \in KnownItems} = {} /\ MadeUp \cap {i.parent : i \in KnownItems} = {}
  /\ MadeUp \subseteq Seq(STRING)
  /\ \A k \in MadeUp \cup {i.key : i \in KnownItems} : SlugOf(k) \in Seq(STRING)

ASSUME KeysFresh == NewKeys

VARIABLES
  board,      \* the sprint as the tracker has it
  elsewhere,  \* items that are not in it
  errand,     \* source, transport, purpose, filter, roles of the run
  leg,        \* where the run is
  at,         \* startAt, the ids done, or the files done
  ids,        \* what the WIQL query returned
  read,       \* items read
  planned,    \* items after scope and planning
  stirred,    \* items that moved since the read began
  written,    \* names of complete files
  torn,       \* names of files an import died in
  moves, tears

tracker == <<board, elsewhere, stirred, moves>>
reading == <<at, ids, read>>
specs == <<written, torn>>
intakeVars == <<tracker, errand, leg, reading, planned, specs, tears>>

Errand ==
  [source : {"jira", "azuredevops"}, transport : {"api", "mcp", "playwright"},
   purpose : {"preflight", "dry-run", "run"}, filter : Filters, roles : Workspaces]

Keys(items) == {i.key : i \in Range(items)}
Slugs(items) == {SlugOf(k) : k \in Keys(items)}

IntakeTypeOK ==
  /\ \A i \in Range(board) \cup Range(read) \cup Range(planned) \cup elsewhere : i \in SprintItem
  /\ errand \in Errand
  /\ leg \in {"off", "query", "reading", "read", "importing", "imported", "import failed", "done", "raised"}
  /\ at \in Nat /\ ids \in Seq(Seq(STRING))
  /\ stirred \in SUBSET Seq(STRING)
  /\ torn \subseteq Seq(STRING) /\ written \subseteq Seq(STRING)
  /\ moves \in 0..MaxMoves /\ tears \in 0..MaxTears

IntakeInit ==
  /\ board \in Boards /\ elsewhere = Visitors
  /\ errand \in Errand
  /\ leg = "off" /\ at = 0 /\ ids = <<>> /\ read = <<>> /\ planned = <<>>
  /\ stirred = {} /\ written = {} /\ torn = {}
  /\ moves = 0 /\ tears = 0

------------------------------------------------------------------------------
(* People move an item out of the sprint, or into it at any place.         *)
Leaves ==
  /\ leg \in {"off", "query", "reading"} /\ moves < MaxMoves
  /\ \E n \in DOMAIN board :
       /\ board' = RemoveAt(board, n)
       /\ elsewhere' = elsewhere \cup {board[n]}
       /\ stirred' = stirred \cup {board[n].key}
  /\ moves' = moves + 1
  /\ UNCHANGED <<errand, leg, reading, planned, specs, tears>>

Joins ==
  /\ leg \in {"off", "query", "reading"} /\ moves < MaxMoves
  /\ \E i \in elsewhere, n \in 1..Len(board) + 1 :
       /\ board' = InsertAt(board, n, i)
       /\ elsewhere' = elsewhere \ {i}
       /\ stirred' = stirred \cup {i.key}
  /\ moves' = moves + 1
  /\ UNCHANGED <<errand, leg, reading, planned, specs, tears>>

------------------------------------------------------------------------------
(* The preflight, a dry run and a run read the sprint the same way; auto   *)
(* has resolved to one transport, and there is no other when it fails.     *)
Connect ==
  /\ leg = "off"
  /\ errand' \in {[errand EXCEPT !.purpose = p] : p \in {"preflight", "dry-run", "run"}}
  /\ leg' = IF errand.source = "azuredevops" /\ errand.transport = "api" THEN "query" ELSE "reading"
  /\ stirred' = {}
  /\ UNCHANGED <<board, elsewhere, moves, reading, planned, specs, tears>>

(* The module that would speak to an MCP server is not there, a request    *)
(* fails, or the page of the browser does not load.                        *)
ReadFails ==
  /\ leg \in {"query", "reading"}
  /\ leg' = "raised"
  /\ UNCHANGED <<tracker, errand, reading, planned, specs, tears>>

UpTo(items, size) == SubSeq(items, at + 1, Min({at + size, Len(items)}))

Advance(batch) == at + Len(batch)

(* Jira: the server may return fewer items than it is asked for.           *)
ReadPage ==
  /\ leg = "reading" /\ errand.source = "jira" /\ errand.transport = "api"
  /\ \E size \in 1..PageSize :
       LET batch == UpTo(board, size)
       IN /\ read' = read \o batch
          /\ IF at + Len(batch) >= Len(board) \/ batch = <<>>
             THEN leg' = "read" /\ UNCHANGED at
             ELSE at' = Advance(batch) /\ UNCHANGED leg
  /\ UNCHANGED <<tracker, errand, ids, planned, specs, tears>>

(* Azure: the ids of the iteration, then the items in chunks, wherever     *)
(* they are by then.                                                       *)
QueryIds ==
  /\ leg = "query"
  /\ ids' = [n \in DOMAIN board |-> board[n].key]
  /\ leg' = IF board = <<>> THEN "read" ELSE "reading"
  /\ UNCHANGED <<tracker, errand, at, read, planned, specs, tears>>

ReadChunk ==
  /\ leg = "reading" /\ errand.source = "azuredevops" /\ errand.transport = "api"
  /\ LET chunk == UpTo(ids, PageSize)
         item(k) == CHOOSE i \in Range(board) \cup elsewhere : i.key = k
     IN read' = read \o [n \in DOMAIN chunk |-> item(chunk[n])]
  /\ at' = at + PageSize
  /\ leg' = IF at + PageSize >= Len(ids) THEN "read" ELSE leg
  /\ UNCHANGED <<tracker, errand, ids, planned, specs, tears>>

(* The browser sees keys and titles: a story of status "unknown" each.     *)
Scrape ==
  /\ leg = "reading" /\ errand.transport = "playwright"
  /\ read' = [n \in DOMAIN board |->
                [board[n] EXCEPT !.type = "Story", !.parent = <<>>, !.labels = {}, !.mine = FALSE, !.open = FALSE]]
  /\ leg' = "read"
  /\ UNCHANGED <<tracker, errand, at, ids, planned, specs, tears>>

------------------------------------------------------------------------------
(* apply_scope: explicit keys override the mode and the statuses.          *)
InScope(item) ==
  IF errand.filter.keys # {} THEN item.key \in errand.filter.keys
  ELSE /\ errand.filter.mode = "mine" => item.mine
       /\ errand.filter.whitelist => item.open

Scoped(items) == Picked(items, {n \in DOMAIN items : InScope(items[n])})

(* Azure: a task under what may not be its parent stays, as no child.      *)
Misplaced(item, items) ==
  /\ item.type = "Task"
  /\ \E p \in Range(items) : p.key = item.parent /\ p.type \notin {"Story", "Bug"}

Normalised(items) ==
  IF errand.source # "azuredevops" THEN items
  ELSE [n \in DOMAIN items |->
          IF Misplaced(items[n], items) THEN [items[n] EXCEPT !.parent = <<>>] ELSE items[n]]

ParentKeys(items) == {i.parent : i \in {x \in Range(items) : x.type = "Task"}} \ {<<>>}

FrontRoles == {"front", "mobile"}
BackRoles == {"api", "back", "lib"}

StoryScopes ==
  LET found == (IF errand.roles \cap FrontRoles # {} THEN <<"front">> ELSE <<>>)
                 \o (IF errand.roles \cap BackRoles # {} THEN <<"back">> ELSE <<>>)
  IN IF found = <<>> THEN <<"front", "back">> ELSE found

(* Mutant of TaskFromStory: the type Jira has for a part of a story.       *)
TaskFromStorySubtask(story, scope) ==
  [story EXCEPT !.key = Append(@, scope), !.parent = story.key, !.type = "Sub-task", !.labels = @ \cup {scope}]

(* The labels of the story go to both of its tasks.                        *)
TaskFromStory(story, scope) ==
  [story EXCEPT !.key = Append(@, scope), !.parent = story.key, !.type = "Task", !.labels = @ \cup {scope}]

(* plan_story_tasks: a story whose tasks are not among the items is split. *)
TasksOf(item, items) ==
  IF item.type = "Story" /\ item.key \notin ParentKeys(items)
  THEN [n \in DOMAIN StoryScopes |-> TaskFromStory(item, StoryScopes[n])] ELSE <<>>

Split(items) ==
  LET normal == Normalised(items)
  IN FlattenSeq([n \in DOMAIN normal |-> <<normal[n]>> \o TasksOf(normal[n], normal)])

Matches(item, role) ==
  LET scopes == IF item.labels # {} THEN item.labels ELSE item.text
  IN \/ role = "none" \/ scopes = {}
     \/ role \in FrontRoles /\ "front" \in scopes
     \/ role \in BackRoles /\ "back" \in scopes

(* Mutant of DeliveryItems: whatever has a task is left to it.             *)
DeliveryItemsChildless(items) == {i \in Range(items) : i.key \notin ParentKeys(items)}

DeliveryItems(items) == {i \in Range(items) : ~(i.type = "Story" /\ i.key \in ParentKeys(items))}

(* build_delivery_plan, and the loop of bootstrap over the same pairs.     *)
Deliveries(items) == {d \in DeliveryItems(items) \X errand.roles : Matches(d[1], d[2])}
Warnings(items) == {i \in DeliveryItems(items) : \A r \in errand.roles : ~Matches(i, r)}

(* validate_sprint_links.                                                  *)
InvalidLinks(items) == errand.source = "azuredevops" /\ \E i \in Range(items) : Misplaced(i, items)

Plan ==
  /\ leg = "read" /\ planned = <<>>
  /\ planned' = Split(Scoped(read))
  /\ at' = 0
  /\ leg' = IF errand.purpose = "run" THEN "importing" ELSE "done"
  /\ UNCHANGED <<tracker, errand, ids, read, specs, tears>>

------------------------------------------------------------------------------
(* import_sprint: a file that exists is left alone, whatever is in it.     *)
ImportItem ==
  /\ leg = "importing" /\ at < Len(planned)
  /\ LET slug == SlugOf(planned[at + 1].key)
     IN written' = IF slug \in torn THEN written ELSE written \cup {slug}
  /\ at' = at + 1
  /\ UNCHANGED <<tracker, errand, leg, ids, read, planned, torn, tears>>

(* write_text dies within the file: with the process, or with an exception *)
(* the importer reports and the run ignores.                               *)
ImportTears ==
  /\ leg = "importing" /\ at < Len(planned) /\ tears < MaxTears
  /\ LET slug == SlugOf(planned[at + 1].key)
     IN slug \notin written \cup torn /\ torn' = torn \cup {slug}
  /\ leg' \in {"raised", "import failed"}
  /\ tears' = tears + 1
  /\ UNCHANGED <<tracker, errand, reading, planned, written>>

ImportEnds ==
  /\ leg = "importing" /\ at = Len(planned)
  /\ leg' = "imported"
  /\ UNCHANGED <<tracker, errand, reading, planned, specs, tears>>

(* Another run over the same tree.                                         *)
IntakeAgain ==
  /\ leg \in {"imported", "import failed", "done", "raised"}
  /\ leg' = "off" /\ at' = 0 /\ ids' = <<>> /\ read' = <<>> /\ planned' = <<>> /\ stirred' = {}
  /\ UNCHANGED <<board, elsewhere, moves, errand, specs, tears>>

IntakeNext ==
  \/ Leaves \/ Joins
  \/ Connect \/ ReadFails \/ ReadPage \/ QueryIds \/ ReadChunk \/ Scrape
  \/ Plan \/ ImportItem \/ ImportTears \/ ImportEnds \/ IntakeAgain

IntakeSpec == IntakeInit /\ [][IntakeNext]_intakeVars

------------------------------------------------------------------------------
(* A read that nobody disturbs is the sprint, in its order, however few    *)
(* items the server returns at a time (jira_operator.py:164-182).  Under   *)
(* Azure DevOps an item that stays is read even when others come and go;   *)
(* Jira's pages shift under the reader (azure_devops_operator.py:161-179). *)
ReadsOnce ==
  leg = "read" /\ errand.transport = "api" =>
    /\ stirred = {} => read = board
    /\ errand.source = "azuredevops" =>
         \A i \in Range(board) : i.key \notin stirred =>
           Cardinality({n \in DOMAIN read : read[n] = i}) = 1

(* Nothing in the scope is lost between the board and the repositories: an *)
(* item is delivered, or its tasks are, or the plan warns of it; a story   *)
(* that is split and names no surface reaches each front and each back     *)
(* repository by one task; planning what is planned adds nothing; and an   *)
(* import without a mishap leaves a file of each item                      *)
(* (story_task_planner.py:46-91,171-185, planning.py:95-131).              *)
NothingLost ==
  leg \in {"importing", "imported", "done"} =>
    /\ \A i \in Range(Scoped(read)) :
         \/ \E d \in Deliveries(planned) : d[1].key = i.key \/ (i.type = "Story" /\ d[1].parent = i.key)
         \/ \E w \in Warnings(planned) : w.key = i.key \/ (i.type = "Story" /\ w.parent = i.key)
    /\ \A i \in Range(Scoped(read)), r \in errand.roles \cap (FrontRoles \cup BackRoles) :
         i.type = "Story" /\ i.labels = {} /\ i.key \notin ParentKeys(Scoped(read)) =>
           Cardinality({d \in Deliveries(planned) : d[1].type = "Task" /\ d[1].parent = i.key /\ d[2] = r}) = 1
    /\ Split(planned) = planned /\ ~InvalidLinks(planned)
    /\ leg = "imported" => Slugs(planned) \subseteq written \cup torn

(* What is read reaches the repositories (jira_operator.py:164-182,        *)
(* sprint_flow.py:181-187, planning.py:95-131).                            *)
Intake == ReadsOnce /\ NothingLost

(* A story is split when it has no tasks: one whose tasks stand on the     *)
(* board, outside the scope of the run, is not (story_task_planner.py:1,   *)
(* 50; sprint_flow.py:181-187 filters before it plans).                    *)
OnlyChildlessSplit ==
  leg \in {"importing", "done"} /\ moves = 0 /\ errand.transport = "api" =>
    \A t \in Range(planned) : t.key \notin Keys(read) =>
      ~\E c \in Range(board) : c.type = "Task" /\ c.parent = t.parent
================================================================================
