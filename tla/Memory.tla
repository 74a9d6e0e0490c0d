--------------------------------- MODULE Memory ---------------------------------
(***************************************************************************)
(* The operational memory of a repository (operational_memory.py) with     *)
(* what it learns from failures (failure_learning.py) and the candidates   *)
(* for open source it has seen (oss_mode.py).  An operation loads the      *)
(* file, changes its copy and writes the file back, without a lock: any    *)
(* number of processes may be between the two.                             *)
(***************************************************************************)
EXTENDS Integers, Sequences, FiniteSets, SequencesExt, Subsequences

CONSTANTS
  Recorders,
  Events,      \* what may be recorded
  Window,      \* max_events
  OssTitles,   \* titles of candidates
  Overlapping, \* pairs of titles of which one contains the other
  MaxLog,      \* bound on operations
  Unreadable,  \* a file that does not parse
  NoCopy       \* no copy

Words == <<"authentication", "security", "infrastructure", "test", "quality", "build">>

ASSUME MemoryAssumption ==
  /\ IsFiniteSet(Recorders) /\ Window \in Nat \ {0} /\ MaxLog \in Nat
  /\ Events \subseteq [fingerprint : STRING, status : {"passed", "failed"}, says : SUBSET Range(Words)]
  /\ Overlapping \subseteq OssTitles \X OssTitles

VARIABLES
  stored, \* the file: a memory, or Unreadable
  copy,   \* per writer: the memory it will write, or NoCopy
  place,  \* per writer: where it is
  log,    \* the operations that returned, in the order of their writes
  apart   \* so far no two writers overlapped and none died while it wrote

memoryVars == <<stored, copy, place, log, apart>>

Ops == Events \cup [title : OssTitles]
Fingerprints == {e.fingerprint : e \in Events}
Category == Range(Words) \cup {"unknown"}

(* classify_failure: the first kind of words found in step and message.    *)
Classify(says) ==
  IF says = {} THEN "unknown"
  ELSE Words[CHOOSE i \in DOMAIN Words : Words[i] \in says /\ \A j \in 1..i - 1 : Words[j] \notin says]

Unseen == [failed |-> 0, passed |-> 0, turns |-> 0, last |-> "none", category |-> "unknown"]
Empty == [recent |-> <<>>, learned |-> [f \in Fingerprints |-> Unseen], markers |-> {}]

Learned ==
  [failed : 0..MaxLog, passed : 0..MaxLog, turns : 0..MaxLog, last : {"none", "passed", "failed"},
   category : Category]
Memories == [recent : Seq(Events), learned : [Fingerprints -> Learned], markers : SUBSET OssTitles]
IsMemory(m) == m \in Memories /\ Len(m.recent) <= Window

(* What does not parse is no memory.                                       *)
ASSUME ReadableApart == Unreadable \notin Memories

MemoryTypeOK ==
  /\ stored # Unreadable => IsMemory(stored)
  /\ \A w \in Recorders : copy[w] # NoCopy => IsMemory(copy[w].memory) /\ copy[w].op \in Ops
  /\ place \in [Recorders -> {"idle", "changed", "writing", "overtaken"}]
  /\ log \in Seq(Ops) /\ Len(log) <= MaxLog
  /\ apart \in BOOLEAN

MemoryInit ==
  /\ stored = Empty
  /\ copy = [w \in Recorders |-> NoCopy] /\ place = [w \in Recorders |-> "idle"]
  /\ log = <<>> /\ apart = TRUE

------------------------------------------------------------------------------
(* LearnedFailure.record, on a new entry when there is none.               *)
Learn(old, e) ==
  LET entry == IF old.last = "none" THEN [old EXCEPT !.category = Classify(e.says)] ELSE old
      turned == old.last # "none" /\ old.last # e.status
  IN [entry EXCEPT ![e.status] = @ + 1,
                   !.last = e.status,
                   !.turns = IF turned THEN @ + 1 ELSE @]

(* Mutant of Remembered: what falls out of the window is forgotten.        *)
RememberedInWindow(m, e) ==
  LET recent == Append(m.recent, e)
  IN [m EXCEPT !.recent = SubSeq(recent, 2, Len(recent)), !.learned[e.fingerprint] = Learn(@, e)]

(* record_event: the window slides, what was learned stays.                *)
Remembered(m, e) ==
  LET recent == Append(m.recent, e)
      first == IF Len(recent) > Window THEN Len(recent) - Window + 1 ELSE 1
  IN [m EXCEPT !.recent = SubSeq(recent, first, Len(recent)), !.learned[e.fingerprint] = Learn(@, e)]

Applied(m, op) == IF op \in Events THEN Remembered(m, op) ELSE [m EXCEPT !.markers = @ \cup {op.title}]

(* A file that does not parse raises, for every operation from then on.    *)
LoadAndChange(w) ==
  /\ place[w] = "idle" /\ stored # Unreadable
  /\ Len(log) + Cardinality({v \in Recorders : place[v] # "idle"}) < MaxLog
  /\ \E op \in Ops : copy' = [copy EXCEPT ![w] = [op |-> op, memory |-> Applied(stored, op)]]
  /\ place' = [place EXCEPT ![w] = "changed"]
  /\ apart' = (apart /\ \A v \in Recorders : place[v] = "idle")
  /\ UNCHANGED <<stored, log>>

(* write_text truncates first.                                             *)
Truncate(w) ==
  /\ place[w] = "changed"
  /\ stored' = Unreadable /\ place' = [place EXCEPT ![w] = "writing"]
  /\ UNCHANGED <<copy, log, apart>>

(* Who was overtaken while it wrote may leave the end of a longer text     *)
(* behind its own.                                                         *)
WriteBack(w) ==
  /\ place[w] \in {"writing", "overtaken"}
  /\ \/ stored' = copy[w].memory
     \/ place[w] = "overtaken" /\ stored' = Unreadable
  /\ log' = Append(log, copy[w].op)
  /\ copy' = [copy EXCEPT ![w] = NoCopy]
  /\ place' = [v \in Recorders |-> IF v = w THEN "idle"
                                 ELSE IF place[v] = "writing" THEN "overtaken" ELSE place[v]]
  /\ UNCHANGED apart

(* A process may die anywhere; it matters once the file is truncated.      *)
WriterDies(w) ==
  /\ place[w] # "idle"
  /\ copy' = [copy EXCEPT ![w] = NoCopy] /\ place' = [place EXCEPT ![w] = "idle"]
  /\ apart' = (apart /\ place[w] = "changed")
  /\ UNCHANGED <<stored, log>>

MemoryNext == \E w \in Recorders : LoadAndChange(w) \/ Truncate(w) \/ WriteBack(w) \/ WriterDies(w)

MemorySpec == MemoryInit /\ [][MemoryNext]_memoryVars

------------------------------------------------------------------------------
(* calculate_trust_score over the window, in twentieths.                   *)
Penalty(recent) ==
  LET Of(P(_)) == Cardinality({i \in DOMAIN recent : P(recent[i])})
      Seen(f, s) == \E i \in DOMAIN recent : recent[i].fingerprint = f /\ recent[i].status = s
  IN 12 * Of(LAMBDA e : e.status = "failed")
       + 5 * Of(LAMBDA e : Seen(e.fingerprint, "failed") /\ Seen(e.fingerprint, "passed"))
       + 3 * Of(LAMBDA e : Classify(e.says) = "unknown")

Trust(recent) ==
  IF Penalty(recent) <= 4 * Len(recent) THEN "high"
  ELSE IF Penalty(recent) <= 10 * Len(recent) THEN "medium" ELSE "low"

Flaky(learned) == {f \in Fingerprints : (learned[f].failed > 0 /\ learned[f].passed > 0) \/ learned[f].turns > 0}

(* check_oss_dedupe against the markers in memory.                         *)
Blocked(title, m) == \E t \in m.markers : t = title \/ <<t, title>> \in Overlapping \/ <<title, t>> \in Overlapping

------------------------------------------------------------------------------
Recalls(m) ==
  LET events == Picked(log, {i \in DOMAIN log : log[i] \in Events})
      Tells(f, s) == {i \in DOMAIN events : events[i].fingerprint = f /\ events[i].status = s}
  IN /\ m.recent = SubSeq(events, IF Len(events) > Window THEN Len(events) - Window + 1 ELSE 1, Len(events))
     /\ \A f \in Fingerprints :
          /\ m.learned[f].failed = Cardinality(Tells(f, "failed"))
          /\ m.learned[f].passed = Cardinality(Tells(f, "passed"))
     /\ \A t \in OssTitles : [title |-> t] \in Range(log) => Blocked(t, m)

(* Recorders that kept apart lost nothing: the window holds the last       *)
(* events, the counts all of them, and a candidate once remembered is      *)
(* blocked when it turns up again.  Whatever the writers did, a file that  *)
(* can be read is a whole memory: what its window shows its counts have    *)
(* learned, a fingerprint is flaky exactly when it was seen both ways, and *)
(* "high" trust has at most a third of failures (failure_learning.py:187). *)
MemoryAddsUp ==
  /\ apart /\ (\A w \in Recorders : place[w] \in {"idle", "changed"}) => stored # Unreadable /\ Recalls(stored)
  /\ stored # Unreadable =>
       LET m == stored
           Shown(f, s) == Cardinality({i \in DOMAIN m.recent : m.recent[i].fingerprint = f /\ m.recent[i].status = s})
       IN /\ \A f \in Fingerprints :
               /\ m.learned[f].failed >= Shown(f, "failed") /\ m.learned[f].passed >= Shown(f, "passed")
               /\ f \in Flaky(m.learned) <=> m.learned[f].failed > 0 /\ m.learned[f].passed > 0
          /\ Trust(m.recent) = "high" =>
               3 * Cardinality({i \in DOMAIN m.recent : m.recent[i].status = "failed"}) <= Len(m.recent)
================================================================================
