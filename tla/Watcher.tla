-------------------------------- MODULE Watcher --------------------------------
(***************************************************************************)
(* sendsprint watch: the polling loop of src/sendsprint/watch.py over the  *)
(* dedupe file of watch_state.py, while people edit the tracker, processes *)
(* die and start again, and every flow run has a run id of its own.        *)
(***************************************************************************)
EXTENDS Integers, Sequences, FiniteSets

CONSTANTS
  Items,        \* work items of the sprint; their order is that of the keys
  Versioned,    \* of those, the items whose tracker counts revisions
  Statuses,     \* workflow states, their order that of the names
  Eligible,     \* states a candidate may be in: allowed and not ignored
  New,          \* the state called "new"
  Levels,       \* autonomy levels the command is started with
  NoRecord,     \* an item the file does not name
  MaxTasks,     \* watch.max_tasks_per_cycle
  MaxEdits,     \* bound on edits in the tracker
  MaxForced,    \* bound on cycles under --force
  MaxFaults     \* bound on crashes and failures of the tracker

ASSUME WatcherAssumption ==
  /\ Items \subseteq Nat /\ IsFiniteSet(Items) /\ Versioned \subseteq Items
  /\ Statuses \subseteq Nat /\ Eligible \subseteq Statuses /\ New \in Statuses
  /\ Levels \subseteq {"observe", "plan", "pr"}
  /\ MaxTasks \in Nat \ {0}
  /\ MaxEdits \in Nat /\ MaxForced \in Nat /\ MaxFaults \in Nat

VARIABLES
  tracker,     \* the item as the tracker has it now, and its number of edits
  edited,      \* edits of all items
  records,     \* watch-state.json
  torn,        \* the file was being written when the process died
  opened,      \* pull requests opened for each content of an item
  receipts,    \* contents whose pr receipt is on disk
  lost,        \* pull requests whose receipt was never written
  phase,       \* where the process is
  force, autonomy, \* its flags
  loaded,       \* the WatchState it loaded
  todo,        \* candidates it has not looked at, as read at the poll
  reading,     \* content the flow of the first candidate read for itself
  attempts,    \* flows started for each item at each edit, as polled
  seen,        \* the latest edit a flow has read, for each item
  forced, faults

sprint == <<tracker, edited>>
durable == <<records, torn, opened, receipts, lost>>
flags == <<force, autonomy>>
history == <<attempts, seen, forced, faults>>
watcherVars == <<sprint, durable, phase, flags, loaded, todo, reading, history>>

Edits == 0..MaxEdits
Snapshot == [item : Items, status : Statuses, edits : Edits]

(* item_revision: nothing for an item whose tracker does not count.        *)
Revision(snap) == IF snap.item \in Versioned THEN snap.edits ELSE -1

(* What the payload of the delivery holds of an item.                      *)
ContentOf(snap) == <<snap.item, Revision(snap), snap.status>>
Contents == Items \X (Edits \cup {-1}) \X Statuses

Record == [revision : Edits \cup {-1}, status : Statuses, final : {"ok", "failed", "blocked"}]

ASSUME RecordAssumption == NoRecord \notin Record

Nothing == [i \in Items |-> NoRecord]

WatcherTypeOK ==
  /\ tracker \in [Items -> Snapshot] /\ edited \in Edits
  /\ records \in [Items -> Record \cup {NoRecord}]
  /\ loaded \in [Items -> Record \cup {NoRecord}]
  /\ torn \in BOOLEAN
  /\ opened \in [Contents -> Nat] /\ lost \in [Contents -> Nat]
  /\ receipts \subseteq Contents
  /\ phase \in {"off", "poll", "task", "flow", "opened", "done", "raised", "saving"}
  /\ force \in BOOLEAN /\ autonomy \in Levels
  /\ todo \in Seq(Snapshot) /\ Len(todo) <= MaxTasks
  /\ reading \in Contents \cup {<<>>}
  /\ attempts \in [Items \X Edits -> Nat]
  /\ seen \in [Items -> Edits \cup {-1}]
  /\ forced \in 0..MaxForced /\ faults \in 0..MaxFaults

WatcherInit ==
  /\ tracker \in [Items -> {s \in Snapshot : s.edits = 0}]
  /\ \A i \in Items : tracker[i].item = i
  /\ edited = 0
  /\ records = [i \in Items |-> NoRecord] /\ loaded = Nothing
  /\ torn = FALSE
  /\ opened = [c \in Contents |-> 0] /\ lost = opened
  /\ receipts = {}
  /\ phase = "off" /\ force = FALSE /\ autonomy \in Levels
  /\ todo = <<>> /\ reading = <<>>
  /\ attempts = [e \in Items \X Edits |-> 0]
  /\ seen = [i \in Items |-> -1]
  /\ forced = 0 /\ faults = 0

------------------------------------------------------------------------------
(* Somebody changes an item: its state, or no more than its text.          *)
Edit(i) ==
  /\ edited < MaxEdits
  /\ edited' = edited + 1
  /\ \E s \in Statuses :
       tracker' = [tracker EXCEPT ![i] = [item |-> i, status |-> s, edits |-> @.edits + 1]]
  /\ UNCHANGED <<durable, phase, flags, loaded, todo, reading, history>>

(* watch_cmd.                                                              *)
Start ==
  /\ phase = "off"
  /\ force' \in BOOLEAN /\ autonomy' \in Levels
  /\ phase' = "poll"
  /\ UNCHANGED <<sprint, durable, loaded, todo, reading, history>>

------------------------------------------------------------------------------
(* WatchStateStore.should_process without --force.  Every record of the    *)
(* watcher names a branch, so a failed item has no second chance.          *)
ShouldProcess(recs, snap) ==
  LET record == recs[snap.item]
  IN \/ record = NoRecord
     \/ record.revision # Revision(snap)
     \/ snap.status = New /\ record.status # New

(* sorted(sprint.items, key = (status, key)).                              *)
Before(s, t) == s.status < t.status \/ (s.status = t.status /\ s.item < t.item)

Polled == {tracker[i] : i \in Items}
Wanted(s) == s.status \in Eligible /\ (force \/ ShouldProcess(records, s))

Sorted(S) == {f \in [1..Cardinality(S) -> S] : \A m, n \in DOMAIN f : m < n => Before(f[m], f[n])}

Cut(sorted) == SubSeq(sorted, 1, IF Len(sorted) < MaxTasks THEN Len(sorted) ELSE MaxTasks)

(* Mutant of Candidates: the limit comes before the dedupe.                *)
CandidatesCutFirst == {SelectSeq(Cut(f), Wanted) : f \in Sorted(Polled)}

(* _eligible_candidates, and the cut to max_tasks_per_cycle: there is one  *)
(* list sorted so.                                                         *)
Candidates == {Cut(f) : f \in Sorted({s \in Polled : Wanted(s)})}

(* The head of run_once: the sprint and the file are read.                 *)
Poll ==
  /\ phase = "poll" /\ ~torn
  /\ force => forced < MaxForced
  /\ forced' = IF force THEN forced + 1 ELSE forced
  /\ loaded' = records
  /\ todo' \in Candidates
  /\ phase' = "task"
  /\ UNCHANGED <<sprint, durable, flags, reading, attempts, seen, faults>>

(* Nothing catches what the tracker or a torn file raises.                 *)
TrackerFails ==
  /\ phase = "poll"
  /\ faults < MaxFaults
  /\ faults' = faults + 1
  /\ phase' = "off"
  /\ loaded' = Nothing
  /\ UNCHANGED <<sprint, durable, flags, todo, reading, attempts, seen, forced>>

TornFile ==
  /\ phase = "poll" /\ torn
  /\ phase' = "off"
  /\ loaded' = Nothing
  /\ UNCHANGED <<sprint, durable, flags, todo, reading, history>>

Marked(snap, final) ==
  [loaded EXCEPT ![snap.item] =
     [revision |-> Revision(snap), status |-> snap.status, final |-> final]]

Observe ==
  /\ phase = "task" /\ todo # <<>>
  /\ autonomy = "observe"
  /\ todo' = Tail(todo)
  /\ UNCHANGED <<sprint, durable, phase, flags, loaded, reading, history>>

(* A repository is missing or has changes; only asked when files may be    *)
(* written.                                                                *)
DirtyWorktree ==
  /\ phase = "task" /\ todo # <<>>
  /\ autonomy = "pr"
  /\ loaded' = Marked(Head(todo), "blocked")
  /\ todo' = Tail(todo)
  /\ UNCHANGED <<sprint, durable, phase, flags, reading, history>>

(* _run_flow_for_item; the flow reads the sprint again and takes the item  *)
(* by its key, whatever its state is by now.                               *)
StartFlow ==
  /\ phase = "task" /\ todo # <<>>
  /\ autonomy # "observe"
  /\ LET snap == Head(todo)
     IN /\ attempts' = [attempts EXCEPT ![<<snap.item, snap.edits>>] = @ + 1]
        /\ seen' = [seen EXCEPT ![snap.item] = tracker[snap.item].edits]
        /\ reading' = ContentOf(tracker[snap.item])
  /\ phase' = "flow"
  /\ UNCHANGED <<sprint, durable, flags, loaded, todo, forced, faults>>

(* Without permission to write files the flow only plans; a delivery whose *)
(* receipts are on disk is served from them.                               *)
Delivers == phase = "flow" /\ autonomy = "pr" /\ reading \notin receipts

OpenPr ==
  /\ Delivers
  /\ opened' = [opened EXCEPT ![reading] = @ + 1]
  /\ phase' = "opened"
  /\ UNCHANGED <<sprint, records, torn, receipts, lost, flags, loaded, todo, reading, history>>

WriteReceipt ==
  /\ phase = "opened"
  /\ receipts' = receipts \cup {reading}
  /\ phase' = "done"
  /\ UNCHANGED <<sprint, records, torn, opened, lost, flags, loaded, todo, reading, history>>

(* The flow returns without a new pull request: it planned, it was served, *)
(* or its report failed.                                                   *)
FlowReturns ==
  /\ phase = "flow"
  /\ phase' = "done"
  /\ UNCHANGED <<sprint, durable, flags, loaded, todo, reading, history>>

(* The flow, or the writing of its evidence, raises.                       *)
FlowRaises ==
  /\ phase \in {"flow", "opened", "done"}
  /\ lost' = IF phase = "opened" THEN [lost EXCEPT ![reading] = @ + 1] ELSE lost
  /\ phase' = "raised"
  /\ UNCHANGED <<sprint, records, torn, opened, receipts, flags, loaded, todo, reading, history>>

(* Mutant of MarkItem: the item is marked as the tracker has it now.       *)
MarkCurrent ==
  /\ phase \in {"done", "raised"}
  /\ loaded' = Marked(tracker[Head(todo).item], IF phase = "done" THEN "ok" ELSE "failed")
  /\ todo' = Tail(todo)
  /\ reading' = <<>>
  /\ phase' = "task"
  /\ UNCHANGED <<sprint, durable, flags, history>>

(* The item is marked as it was polled, ok even when its report failed.    *)
MarkItem ==
  /\ phase \in {"done", "raised"}
  /\ loaded' = Marked(Head(todo), IF phase = "done" THEN "ok" ELSE "failed")
  /\ todo' = Tail(todo)
  /\ reading' = <<>>
  /\ phase' = "task"
  /\ UNCHANGED <<sprint, durable, flags, history>>

(* The tail of run_once; write_text truncates the file and then writes it. *)
BeginSave ==
  /\ phase = "task" /\ todo = <<>>
  /\ phase' = "saving"
  /\ UNCHANGED <<sprint, durable, flags, loaded, todo, reading, history>>

Save ==
  /\ phase = "saving"
  /\ records' = loaded
  /\ phase' = "poll"
  /\ loaded' = Nothing
  /\ UNCHANGED <<sprint, torn, opened, receipts, lost, flags, todo, reading, history>>

(* The process dies, or the operator stops it.                             *)
Crash ==
  /\ phase # "off" /\ faults < MaxFaults
  /\ faults' = faults + 1
  /\ torn' = (torn \/ phase = "saving")
  /\ lost' = IF phase = "opened" THEN [lost EXCEPT ![reading] = @ + 1] ELSE lost
  /\ phase' = "off"
  /\ loaded' = Nothing /\ todo' = <<>> /\ reading' = <<>>
  /\ UNCHANGED <<sprint, records, opened, receipts, flags, attempts, seen, forced>>

------------------------------------------------------------------------------
Cycle ==
  \/ Poll \/ TornFile \/ Observe \/ DirtyWorktree \/ StartFlow
  \/ OpenPr \/ WriteReceipt \/ FlowReturns \/ FlowRaises \/ MarkItem
  \/ BeginSave \/ Save

WatcherNext == Start \/ Cycle \/ TrackerFails \/ Crash \/ \E i \in Items : Edit(i)

WatcherSpec == WatcherInit /\ [][WatcherNext]_watcherVars

(* The loop goes on as long as its process lives; nothing obliges anybody  *)
(* to start it, and sleep ends.                                            *)
FairWatcherSpec == WatcherSpec /\ WF_watcherVars(Cycle)

------------------------------------------------------------------------------
(* "deduplicate by item revision/state" (README.md:92): for an item as it  *)
(* was polled, a second flow run needs a cycle that died before it saved   *)
(* its marks (watch.py:230), or --force.                                   *)
OncePerRevision ==
  \A i \in Items, e \in Edits : attempts[<<i, e>>] <= 1 + faults + forced

(* An edit is never recorded as handled without a flow that read it or a   *)
(* later one: the record has the revision of the poll (watch.py:127, 183), *)
(* and the flow reads the tracker after it.                                *)
RecordNotAhead ==
  \A i \in Versioned :
    records[i] # NoRecord /\ records[i].final # "blocked" => records[i].revision <= seen[i]

(* Retried cycles, new run ids and --force open no second pull request for *)
(* the same content, unless the receipt of the first was lost.             *)
OnePrPerContent == \A c \in Contents : opened[c] <= 1 + lost[c]

(* An item as it was polled is handled once: one flow run per revision, a  *)
(* record that does not run ahead of it, one pull request per content.     *)
HandledOnce == OncePerRevision /\ RecordNotAhead /\ OnePrPerContent

Handled(i) == tracker[i].status \notin Eligible \/ ~ShouldProcess(records, tracker[i])

(* No item waits for ever behind others (watch.py:118-119): a loop that is *)
(* not stopped, not forced and not confined to observing comes to a state  *)
(* where each item is recorded as the tracker has it, however many fail.   *)
NoStarvation ==
  <>[](phase # "off" /\ ~force /\ autonomy # "observe") => <>[](\A i \in Items : Handled(i))
===============================================================================
