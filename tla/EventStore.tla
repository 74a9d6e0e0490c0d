------------------------------ MODULE EventStore ------------------------------
(***************************************************************************)
(* The durable event log of a run (src/sendsprint/event_store.py): a list  *)
(* in memory, a file with a numbered line per event, compaction, periodic  *)
(* snapshots, replay by number or by time and reload after a restart.  One *)
(* lock covers every operation, so what interleaves are writers waiting    *)
(* for it, subscribers, failed writes and crashes.                         *)
(***************************************************************************)
EXTENDS Integers, SequencesExt, FiniteSets, Subsequences

CONSTANTS
  None,        \* no snapshot on disk
  Torn,        \* the part of a write that reached the disk before it failed
  Joined,      \* a line that was appended to such a part
  MaxEvents,   \* bound on events; an event is its timestamp
  Writers,     \* threads that may hold an event and wait for the lock
  Interval,    \* snapshot_interval
  Limits,      \* the max_events a compaction may be called with
  MaxCompacts, \* bound on compactions
  MaxFaults,   \* bound on writes that fail
  MaxCrashes   \* bound on crashes

ASSUME StoreAssumption ==
  /\ MaxEvents \in Nat /\ Writers \in Nat \ {0} /\ Interval \in Nat \ {0}
  /\ Limits \subseteq Nat \ {0}
  /\ MaxCompacts \in Nat /\ MaxFaults \in Nat /\ MaxCrashes \in Nat

(* What is no snapshot is no number, and what does not parse no line.      *)
ASSUME FileAssumption ==
  /\ None \notin Nat /\ Torn \notin Nat /\ None # Torn
  /\ \A line \in {Torn, Joined} : line \notin [seq : Nat, event : 1..MaxEvents]

VARIABLES
  events,    \* _events
  seq,       \* _seq
  file,      \* the lines of events.ndjson
  snapshot,  \* the seq in snapshot.json, None or Torn
  pc,        \* "closed", "idle", or the file the operation has still to write
  cursor,    \* subscriber by number: what it asks for next and has seen
  watch,     \* subscriber by time: the last timestamp and what it has seen
  appended,  \* events that were given to append
  acked,     \* events whose line append has written
  dropped,   \* events a compaction took out of the store
  lost,      \* events whose line was joined to a torn one or not written again
  late,      \* events appended after a younger one
  stale,     \* a crash or a failure came between the file and its snapshot
  compacts, faults, crashes

inMemory == <<events, seq>>
readers == <<cursor, watch>>
account == <<appended, acked, dropped, lost, late>>
bounds == <<compacts, faults, crashes>>
storeVars == <<inMemory, file, snapshot, pc, readers, account, stale, bounds>>

Event == 1..MaxEvents

StoreTypeOK ==
  /\ events \in Seq(Event) /\ seq \in Nat
  /\ file \in Seq([seq : Nat, event : Event] \cup {Torn, Joined})
  /\ snapshot \in Nat \cup {None, Torn}
  /\ pc \in {"closed", "idle", "rewrite", "snapshot"}
  /\ cursor \in [next : Nat, seen : SUBSET Event]
  /\ watch \in [since : 0..MaxEvents, seen : SUBSET Event]
  /\ appended \in SUBSET Event /\ acked \in SUBSET appended
  /\ dropped \in SUBSET Event /\ lost \in SUBSET Event /\ late \in SUBSET Event
  /\ stale \in BOOLEAN
  /\ compacts \in 0..MaxCompacts /\ faults \in 0..MaxFaults /\ crashes \in 0..MaxCrashes

StoreInit ==
  /\ events = <<>> /\ seq = 0
  /\ file = <<>> /\ snapshot = None
  /\ pc = "idle"
  /\ cursor = [next |-> 0, seen |-> {}] /\ watch = [since |-> 0, seen |-> {}]
  /\ appended = {} /\ acked = {} /\ dropped = {} /\ lost = {} /\ late = {}
  /\ stale = FALSE
  /\ compacts = 0 /\ faults = 0 /\ crashes = 0

(* Events that have their timestamp and wait for the lock.                 *)
Waiting == {e \in Event \ appended : Cardinality({x \in 1..e : x \notin appended}) <= Writers}

------------------------------------------------------------------------------
(* append numbers the event and keeps it in memory before it writes.       *)
Keep(e) ==
  /\ pc = "idle" /\ e \in Waiting
  /\ events' = Append(events, e)
  /\ seq' = seq + 1
  /\ appended' = appended \cup {e}
  /\ late' = late \cup {x \in {e} : \E y \in appended : e < y}

TornAtEnd == file # <<>> /\ Last(file) = Torn

(* _write_event opens the file to append: after a torn line the new one is *)
(* a part of it.                                                           *)
WriteEvent(e) ==
  /\ file' = IF TornAtEnd THEN Append(Front(file), Joined) ELSE Append(file, [seq |-> seq, event |-> e])
  /\ lost' = IF TornAtEnd THEN lost \cup {e} ELSE lost

AppendEvent(e) ==
  /\ Keep(e)
  /\ WriteEvent(e)
  /\ acked' = acked \cup {e}
  /\ pc' = IF (seq + 1) % Interval = 0 THEN "snapshot" ELSE "idle"
  /\ UNCHANGED <<snapshot, readers, dropped, stale, bounds>>

(* The write raises, after nothing or a part of the line.                  *)
AppendFails(e) ==
  /\ faults < MaxFaults
  /\ Keep(e)
  /\ file' \in {file, IF TornAtEnd THEN file ELSE Append(file, Torn)}
  /\ faults' = faults + 1
  /\ UNCHANGED <<snapshot, pc, readers, acked, dropped, lost, stale, compacts, crashes>>

WriteSnapshot ==
  /\ pc = "snapshot"
  /\ snapshot' = seq
  /\ stale' = FALSE
  /\ pc' = "idle"
  /\ UNCHANGED <<inMemory, file, readers, account, bounds>>

SnapshotFails ==
  /\ pc = "snapshot" /\ faults < MaxFaults
  /\ snapshot' \in {snapshot, Torn}
  /\ stale' = TRUE
  /\ pc' = "idle" /\ faults' = faults + 1
  /\ UNCHANGED <<inMemory, file, readers, account, compacts, crashes>>

(* write_snapshot.                                                         *)
ForceSnapshot ==
  /\ pc = "idle" /\ snapshot # seq
  /\ pc' = "snapshot"
  /\ UNCHANGED <<inMemory, file, snapshot, readers, account, stale, bounds>>

------------------------------------------------------------------------------
Kept(cutoff, limit) ==
  LET young == Picked(events, {n \in DOMAIN events : events[n] >= cutoff})
  IN IF Len(young) > limit THEN SubSeq(young, Len(young) - limit + 1, Len(young)) ELSE young

(* compact, up to the first write: memory is renumbered from zero.         *)
Compact ==
  /\ pc = "idle" /\ compacts < MaxCompacts
  /\ \E cutoff \in 1..(MaxEvents + 1), limit \in Limits : events' = Kept(cutoff, limit)
  /\ seq' = Len(events')
  /\ dropped' = dropped \cup (ToSet(events) \ ToSet(events'))
  /\ compacts' = compacts + 1
  /\ pc' = "rewrite"
  /\ UNCHANGED <<file, snapshot, readers, appended, acked, lost, late, stale, faults, crashes>>

Lines == [i \in DOMAIN events |-> [seq |-> i - 1, event |-> events[i]]]

Written(lines) == {e \in Event : \E i \in DOMAIN lines : lines[i] \notin {Torn, Joined} /\ lines[i].event = e}

(* Mutant of Rewrite: the new lines are appended to the old ones.          *)
RewriteAppends ==
  /\ pc = "rewrite"
  /\ file' = file \o Lines
  /\ pc' = "snapshot"
  /\ UNCHANGED <<inMemory, snapshot, readers, account, stale, bounds>>

Rewrite ==
  /\ pc = "rewrite"
  /\ file' = Lines
  /\ pc' = "snapshot"
  /\ UNCHANGED <<inMemory, snapshot, readers, account, stale, bounds>>

(* The file was truncated and some of the lines were written.              *)
CutShort ==
  /\ \E n \in 0..(Len(events) - 1) : file' \in {SubSeq(Lines, 1, n), Append(SubSeq(Lines, 1, n), Torn)}
  /\ lost' = lost \cup (ToSet(events) \ Written(file'))

RewriteFails ==
  /\ pc = "rewrite" /\ faults < MaxFaults
  /\ CutShort
  /\ pc' = "idle" /\ faults' = faults + 1
  /\ UNCHANGED <<inMemory, snapshot, readers, appended, acked, dropped, late, stale, compacts, crashes>>

------------------------------------------------------------------------------
(* The process dies; a write in progress may be cut short.                 *)
Crash ==
  /\ pc # "closed" /\ crashes < MaxCrashes
  /\ \/ UNCHANGED <<file, lost>>
     \/ pc = "rewrite" /\ CutShort
  /\ snapshot' \in {snapshot, IF pc = "snapshot" THEN Torn ELSE snapshot}
  /\ stale' = (stale \/ pc # "idle")
  /\ events' = <<>> /\ seq' = 0
  /\ pc' = "closed" /\ crashes' = crashes + 1
  /\ UNCHANGED <<readers, appended, acked, dropped, late, compacts, faults>>

Parses == \A i \in DOMAIN file : file[i] \notin {Torn, Joined}

(* Mutant of Loaded: the last number itself.                               *)
LoadedLast == [events |-> [i \in DOMAIN file |-> file[i].event],
               seq |-> IF file = <<>> THEN -1 ELSE Last(file).seq]

(* _load_from_disk: the lines in order, and one more than the last number. *)
(* A line that does not parse raises and the store cannot be opened.       *)
Loaded == [events |-> [i \in DOMAIN file |-> file[i].event],
           seq |-> IF file = <<>> THEN 0
                   ELSE 1 + (CHOOSE n \in {file[i].seq : i \in DOMAIN file} :
                               \A i \in DOMAIN file : file[i].seq <= n)]

Open ==
  /\ pc = "closed" /\ Parses
  /\ events' = Loaded.events /\ seq' = Loaded.seq
  /\ pc' = "idle"
  /\ UNCHANGED <<file, snapshot, readers, account, stale, bounds>>

------------------------------------------------------------------------------
(* replay(from_seq=...): by position in the list; zero asks for all.       *)
Replay ==
  /\ pc = "idle" /\ cursor.next < Len(events)
  /\ cursor' = [next |-> Len(events),
                seen |-> cursor.seen \cup ToSet(SubSeq(events, cursor.next + 1, Len(events)))]
  /\ UNCHANGED <<inMemory, file, snapshot, pc, watch, account, stale, bounds>>

(* replay(from_timestamp=...), with the timestamp of the last event.       *)
ReplayTime ==
  LET found == Picked(events, {n \in DOMAIN events : events[n] >= watch.since})
  IN /\ pc = "idle" /\ found # <<>>
     /\ watch' = [since |-> Last(found), seen |-> watch.seen \cup ToSet(found)]
     /\ watch' # watch
     /\ UNCHANGED <<inMemory, file, snapshot, pc, cursor, account, stale, bounds>>

StoreNext ==
  \/ \E e \in Event : AppendEvent(e) \/ AppendFails(e)
  \/ WriteSnapshot \/ SnapshotFails \/ ForceSnapshot
  \/ Compact \/ Rewrite \/ RewriteFails
  \/ Crash \/ Open
  \/ Replay \/ ReplayTime

StoreSpec == StoreInit /\ [][StoreNext]_storeVars

------------------------------------------------------------------------------
(* A restart gives back what memory held ("run events survive API          *)
(* restarts", event_store.py:3): at rest, as long as no write failed.      *)
ReloadsMemory ==
  pc = "idle" /\ faults = 0 => Parses /\ Loaded = [events |-> events, seq |-> seq]

(* What append promised to have written is on disk, whatever came between, *)
(* except for what a compaction dropped and what a torn line or a          *)
(* compaction cut short took with it.                                      *)
AckedOnDisk == acked \subseteq Written(file) \cup dropped \cup lost

(* The number append returns is the one replay gives the event, and the    *)
(* next cursor points behind the last event (event_store.py:115, 126-146), *)
(* over compactions and restarts without a failed write.                   *)
SeqIsPosition ==
  faults = 0 /\ pc # "closed" => seq = Len(events)

(* The snapshot on disk trails the log by less than an interval and is     *)
(* never ahead of it, except after a crash that came in between.           *)
SnapshotFollows ==
  pc = "idle" /\ faults = 0 /\ ~stale =>
    LET base == IF snapshot \in Nat THEN snapshot ELSE 0
    IN base <= seq /\ seq < base + Interval

(* A subscriber that resumes by number has seen all that lies before its   *)
(* cursor, until a compaction renumbers or a failed write leaves memory    *)
(* and disk apart: restarts alone do it no harm.                           *)
CursorMissesNothing ==
  compacts = 0 /\ faults = 0 =>
    \A i \in DOMAIN events : i <= cursor.next => events[i] \in cursor.seen

(* A subscriber that resumes by time misses nothing that was appended in   *)
(* order, over compactions, failed writes and restarts.                    *)
TimeMissesNothing ==
  \A e \in ToSet(events) \ late : e < watch.since => e \in watch.seen

(* The log keeps what it acknowledged and gives it back, to a restart and  *)
(* to those who follow it, by the number or by the time of what they saw.  *)
DurableLog ==
  /\ ReloadsMemory /\ AckedOnDisk /\ SeqIsPosition /\ SnapshotFollows
  /\ CursorMissesNothing /\ TimeMissesNothing
===============================================================================
