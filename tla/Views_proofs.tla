------------------------------ MODULE Views_proofs ------------------------------
(***************************************************************************)
(* What clients are shown of a run while it goes on: for any flow, faults, *)
(* polls and streams a view never contradicts itself or an earlier one;    *)
(* for any frames, lines and resumes the tools of the MCP server tell the  *)
(* log.                                                                    *)
(***************************************************************************)
EXTENDS RunViews, ToolServer, Subsequences_proofs, FiniteSetTheorems, TLAPS

------------------------------------------------------------------------------
(* What clients are shown of a run while its thread works, for any events. *)
States == {"queued", "running", "done", "failed"}
RunEnds(type) == type \in {"done", "error"}

(* A state a run may be in after another.                                  *)
MovesOn(a, b) == StageOf(a) <= StageOf(b) /\ (Over(a) => b = a)

ViewsTyped ==
  /\ loopBound \in BOOLEAN
  /\ outcome \in RunFields /\ record \in RunFields
  /\ published \in Seq(RunEvent) /\ handled \in Nat /\ ended \in Nat /\ since \in Nat
  /\ handled <= Len(published) /\ ended <= handled
  /\ shown \in [history : Nat, step : Nat, state : States]
  /\ asked \in {"none"} \cup DOMAIN Reads

(* Where the thread is, what is written and what is due.                   *)
Fresh(state) == [state |-> state, failed |-> FALSE, pr |-> FALSE]
Outcomes ==
  {[state |-> "done", failed |-> FALSE, pr |-> b] : b \in BOOLEAN} \cup
  {[state |-> "failed", failed |-> TRUE, pr |-> b] : b \in BOOLEAN}

ToWrite ==
  \/ due = <<"state", "failed", "pr", "done">> /\ record = Fresh("running")
  \/ due = <<"failed", "pr", "done">> /\ record = Fresh(outcome.state)
  \/ due = <<"pr", "done">> /\ record = [outcome EXCEPT !.pr = FALSE]
  \/ due = <<"done">> /\ record = outcome
ToRaise ==
  /\ outcome = [state |-> "failed", failed |-> TRUE, pr |-> FALSE]
  /\ \/ due = <<"state", "failed", "error">> /\ record = Fresh("running")
     \/ due = <<"failed", "error">> /\ record = Fresh("failed")
     \/ due = <<"error">> /\ record = outcome

ThreadFits ==
  \/ thread = "new" /\ due = <<>> /\ record = Fresh("queued")
  \/ thread = "flow" /\ due = <<>> /\ record = Fresh("running")
  \/ thread = "ending" /\ outcome \in Outcomes /\ (ToWrite \/ ToRaise)
  \/ thread = "ended" /\ outcome \in Outcomes /\ due = <<>> /\ record = outcome

(* The manager ends the stream with the last event of the run.             *)
StreamFits ==
  /\ \A i \in DOMAIN published :
       published[i].from = "manager" /\ RunEnds(published[i].type) => thread = "ended" /\ i = Len(published)
  /\ ended > 0 => RunEnds(published[ended].type)
  /\ since > 0 => since = ended

(* The manager's own event has closed the stream of who asks.              *)
Closed == since > 0 /\ published[since].from = "manager"

(* What was shown is not ahead of the run.                                 *)
ShownFits ==
  /\ shown.history <= handled /\ shown.step <= LatestOfType("step", handled)
  /\ MovesOn(shown.state, record.state)

(* The reads of a view come in their order.                                *)
FirstReads(kind, n) == {Reads[kind][i] : i \in 1..n}
ReadsFit ==
  /\ asked = "none" => DOMAIN view = {} /\ since = 0
  /\ asked # "none" => \E n \in 0..Len(Reads[asked]) : DOMAIN view = FirstReads(asked, n)

(* What is read is not behind what was shown, nor ahead of the run.        *)
HistoryFits == "history" \in DOMAIN view => view.history \in Nat /\ shown.history <= view.history /\ view.history <= handled
StepFits ==
  "step" \in DOMAIN view =>
    /\ view.step \in Nat /\ shown.step <= view.step /\ view.step <= LatestOfType("step", handled)
    /\ "history" \in DOMAIN view => LatestOfType("step", view.history) <= view.step
StateFits ==
  "state" \in DOMAIN view =>
    view.state \in States /\ MovesOn(shown.state, view.state) /\ MovesOn(view.state, record.state)
VerdictFits ==
  /\ "final" \in DOMAIN view /\ Over(shown.state) /\ Bundled(view.history) => view.final
  /\ "gate" \in DOMAIN view /\ shown.state = "done" => view.gate = IF view.history > 0 THEN "pass" ELSE "pending"
ReadinessFits ==
  "readiness" \in DOMAIN view =>
    /\ shown.state = "done" => view.readiness = "auto_publish"
    /\ view.readiness = "auto_publish" =>
         /\ record.state = "done"
         /\ "state" \in DOMAIN view => view.state = "done"
         /\ "failed" \in DOMAIN view => ~view.failed
ClosedFits == Closed => \A x \in DOMAIN view : view[x] = Value(x)

SeenFits == HistoryFits /\ StepFits /\ StateFits /\ VerdictFits /\ ReadinessFits /\ ClosedFits

ViewsInv == ViewsTyped /\ ThreadFits /\ StreamFits /\ ShownFits /\ ReadsFit /\ SeenFits

(* The newest event of a type in a history.                                *)
NewestIn(past, type, n) == Max({0} \cup {i \in 1..n : past[i].type = type})

(* It is the last of them, or none.                                        *)
LEMMA NewestOfType ==
  ASSUME NEW past, NEW type, NEW n \in Nat
  PROVE  /\ NewestIn(past, type, n) \in Nat
         /\ NewestIn(past, type, n) \in {0} \cup {i \in 1..n : past[i].type = type}
         /\ \A i \in 1..n : past[i].type = type => NewestIn(past, type, n) >= i
<1>1. PICK all : all = {0} \cup {i \in 1..n : past[i].type = type}
  OBVIOUS
<1>2. all \subseteq 0..n /\ all # {}
  BY <1>1
<1>3. \E x \in all : \A y \in all : x >= y
  BY <1>2, MaxOfNats
<1>4. PICK x : x = Max(all)
  OBVIOUS
<1>5. x \in all /\ \A y \in all : x >= y
  BY <1>3, <1>4 DEF Max
<1>6. NewestIn(past, type, n) = x
  BY <1>1, <1>4 DEF NewestIn
<1> QED BY <1>1, <1>2, <1>5, <1>6

(* There is only more of it in a longer history.                           *)
LEMMA NewestGrows ==
  ASSUME NEW past, NEW type, NEW n \in Nat, NEW m \in Nat, n <= m
  PROVE  NewestIn(past, type, n) <= NewestIn(past, type, m)
<1>1. PICK x : x = NewestIn(past, type, n)
  OBVIOUS
<1>2. PICK z : z = NewestIn(past, type, m)
  OBVIOUS
<1>3. x \in {0} \cup {i \in 1..n : past[i].type = type} /\ x \in Nat
  BY <1>1, NewestOfType
<1>4. z \in Nat /\ \A i \in 1..m : past[i].type = type => z >= i
  BY <1>2, NewestOfType
<1>5. x <= z
  BY <1>3, <1>4
<1> QED BY <1>1, <1>2, <1>5

(* What the views call the latest.                                         *)
LEMMA NewestIs ==
  \A type, n : LatestOfType(type, n) = NewestIn(published, type, n)
  BY DEF LatestOfType, NewestIn

(* And in the next state.                                                  *)
LEMMA NewestIsThen ==
  \A type, n : LatestOfType(type, n)' = NewestIn(published', type, n)
  BY DEF LatestOfType, NewestIn

(* What the reads of a view have in common: the history comes first, and   *)
(* the verdict before the fields it is about.                              *)
LEMMA ReadOrder ==
  ASSUME NEW kind \in DOMAIN Reads, NEW n \in 0..Len(Reads[kind])
  PROVE  /\ "final" \in FirstReads(kind, n) \/ "gate" \in FirstReads(kind, n) => "history" \in FirstReads(kind, n)
         /\ "failed" \in FirstReads(kind, n) /\ "readiness" \in FirstReads(kind, n) => "state" \in FirstReads(kind, n)
         /\ n < Len(Reads[kind]) =>
              /\ Reads[kind][n + 1] = "history" => FirstReads(kind, n) = {}
              /\ Reads[kind][n + 1] = "readiness" => "state" \notin FirstReads(kind, n) /\ "failed" \notin FirstReads(kind, n)
<1>1. CASE kind = "agent"
  BY <1>1 DEF Reads, FirstReads, AgentReads
<1>2. CASE kind = "tuples"
  BY <1>2 DEF Reads, FirstReads, TupleReads
<1>3. CASE kind = "validations"
  BY <1>3 DEF Reads, FirstReads, EventReads
<1>4. CASE kind = "summary"
  BY <1>4 DEF Reads, FirstReads, SummaryReads
<1>5. CASE kind = "quality"
  BY <1>5 DEF Reads, FirstReads, GateReads
<1>6. CASE kind = "evidence"
  BY <1>6 DEF Reads, FirstReads, EvidenceReads
<1>7. CASE kind = "yools"
  BY <1>7 DEF Reads, FirstReads, YoolReads
<1>8. CASE kind = "agents"
  BY <1>8 DEF Reads, FirstReads, AgentListReads
<1> QED BY <1>1, <1>2, <1>3, <1>4, <1>5, <1>6, <1>7, <1>8 DEF Reads

(* What is published stays where it is.                                    *)
Extends == \A i \in DOMAIN published : i \in DOMAIN published' /\ published'[i] = published[i]

(* The newest event of a history is the same when more is published.       *)
LEMMA NewestStays ==
  ASSUME ViewsTyped, Extends, NEW type, NEW n \in Nat, n <= Len(published)
  PROVE  LatestOfType(type, n)' = LatestOfType(type, n)
<1>1. DOMAIN published = 1..Len(published) /\ Len(published) \in Nat
  BY Lists DEF ViewsTyped
<1>2. \A i \in 1..n : published'[i] = published[i]
  BY <1>1 DEF Extends
<1>3. {0} \cup {i \in 1..n : published'[i].type = type} = {0} \cup {i \in 1..n : published[i].type = type}
  BY <1>2
<1> QED BY <1>3 DEF LatestOfType

(* The states of a run are in order.                                       *)
LEMMA Moves ==
  /\ \A a \in States : MovesOn(a, a)
  /\ \A a, b, c \in States : MovesOn(a, b) /\ MovesOn(b, c) => MovesOn(a, c)
  /\ \A b \in States : MovesOn("queued", b)
  /\ \A b \in States \ {"queued"} : MovesOn("running", b)
<1>1. StageOf("queued") = 0 /\ StageOf("running") = 1 /\ StageOf("done") = 2 /\ StageOf("failed") = 2
  BY DEF StageOf
<1> QED BY <1>1 DEF States, MovesOn, Over

(* A run that is done has not failed.                                      *)
LEMMA DoneClean ==
  ASSUME ThreadFits, record.state = "done"
  PROVE  record.failed = FALSE /\ outcome.state = "done"
<1>1. \A o \in Outcomes : o.state = "done" => o.failed = FALSE
  BY DEF Outcomes
<1>2. \A a : Fresh(a).state = a /\ Fresh(a).failed = FALSE
  BY DEF Fresh
<1>3. CASE record = outcome /\ outcome \in Outcomes
  BY <1>1, <1>3
<1>4. CASE record = [outcome EXCEPT !.pr = FALSE] /\ outcome \in Outcomes
  <2>1. \A o \in Outcomes : [o EXCEPT !.pr = FALSE].state = o.state /\ [o EXCEPT !.pr = FALSE].failed = o.failed
    BY DEF Outcomes
  <2> QED BY <1>1, <1>4, <2>1
<1>5. CASE record = Fresh(outcome.state)
  BY <1>2, <1>5
<1>6. CASE record \in {Fresh("running"), Fresh("failed"), Fresh("queued")}
  BY <1>2, <1>6
<1> QED BY <1>3, <1>4, <1>5, <1>6 DEF ThreadFits, ToWrite, ToRaise

(* When the manager has closed the stream, nothing goes on.                *)
LEMMA ClosedEnded ==
  ASSUME ViewsTyped, StreamFits, Closed
  PROVE  thread = "ended" /\ since = Len(published) /\ handled = Len(published) /\ since # 0 /\ ended # 0
<1>0. ended \in Nat /\ since \in Nat /\ handled \in Nat /\ Len(published) \in Nat /\ DOMAIN published = 1..Len(published)
  BY Lists DEF ViewsTyped
<1>1. ended <= handled /\ handled <= Len(published)
  BY DEF ViewsTyped
<1>2. since > 0 /\ published[since].from = "manager"
  BY DEF Closed
<1>3. since = ended /\ RunEnds(published[since].type)
  BY <1>0, <1>2 DEF StreamFits
<1>4. since \in DOMAIN published
  BY <1>0, <1>1, <1>2, <1>3
<1>5. thread = "ended" /\ since = Len(published)
  <2>1. \A i \in DOMAIN published :
          published[i].from = "manager" /\ RunEnds(published[i].type) => thread = "ended" /\ i = Len(published)
    BY DEF StreamFits
  <2>2. published[since].from = "manager" /\ RunEnds(published[since].type)
    BY <1>2, <1>3
  <2> QED BY <1>4, <2>1, <2>2, Zenon
<1>6. PICK n : n = Len(published)
  OBVIOUS
<1>7. n \in Nat /\ since = n /\ ended = n /\ ended <= handled /\ handled <= n /\ since > 0
  BY <1>0, <1>1, <1>2, <1>3, <1>5, <1>6
<1>8. handled = n /\ since # 0 /\ ended # 0
  BY <1>0, <1>7
<1> QED BY <1>5, <1>6, <1>7, <1>8

------------------------------------------------------------------------------
(* The client rests while the run goes on.                                 *)
FlowOn ==
  /\ UNCHANGED client /\ Extends /\ handled <= handled'
  /\ MovesOn(record.state, record'.state)
  /\ ~Closed

(* What was shown and what was read fit the run that goes on.              *)
LEMMA FlowFits ==
  ASSUME ViewsTyped, ViewsTyped', StreamFits, ShownFits, ReadsFit, SeenFits, FlowOn
  PROVE  ShownFits' /\ ReadsFit' /\ SeenFits'
<1>0. /\ record.state \in States /\ record'.state \in States /\ shown.state \in States
      /\ handled \in Nat /\ handled' \in Nat /\ handled <= handled' /\ handled <= Len(published)
      /\ asked' = asked /\ view' = view /\ shown' = shown /\ since' = since
      /\ MovesOn(record.state, record'.state)
      /\ shown.history \in Nat /\ shown.step \in Nat /\ Extends
  BY DEF ViewsTyped, RunFields, States, FlowOn, client
<1>1. LatestOfType("step", handled) <= LatestOfType("step", handled)'
  <2>1. PICK n \in Nat, m \in Nat : n = handled /\ m = handled'
    BY <1>0
  <2>2. LatestOfType("step", n)' = LatestOfType("step", n)
    BY <1>0, <2>1, NewestStays
  <2>3. LatestOfType("step", n)' <= LatestOfType("step", m)'
    BY <1>0, <2>1, NewestGrows, NewestIsThen
  <2> QED BY <2>1, <2>2, <2>3
<1>2. LatestOfType("step", handled) \in Nat /\ LatestOfType("step", handled)' \in Nat
  <2>1. PICK n \in Nat, m \in Nat : n = handled /\ m = handled'
    BY <1>0
  <2>2. LatestOfType("step", n) \in Nat /\ LatestOfType("step", m)' \in Nat
    BY NewestOfType, NewestIs, NewestIsThen
  <2> QED BY <2>1, <2>2
<1>3. ShownFits'
  <2>1. shown.history <= handled /\ shown.step <= LatestOfType("step", handled) /\ MovesOn(shown.state, record.state)
    BY DEF ShownFits
  <2>2. shown.history <= handled' /\ shown.step <= LatestOfType("step", handled)'
    BY <1>0, <1>1, <1>2, <2>1
  <2>3. MovesOn(shown.state, record'.state)
    BY <1>0, <2>1, Moves
  <2> QED BY <1>0, <2>2, <2>3 DEF ShownFits
<1>4. ReadsFit'
  BY <1>0 DEF ReadsFit, FirstReads
<1>5. HistoryFits'
  BY <1>0 DEF HistoryFits, SeenFits
<1>6. StepFits'
  <2> SUFFICES ASSUME "step" \in DOMAIN view
               PROVE  /\ view.step \in Nat /\ shown.step <= view.step /\ view.step <= LatestOfType("step", handled)'
                      /\ "history" \in DOMAIN view => LatestOfType("step", view.history)' <= view.step
    BY <1>0 DEF StepFits
  <2>1. /\ view.step \in Nat /\ shown.step <= view.step /\ view.step <= LatestOfType("step", handled)
        /\ "history" \in DOMAIN view => LatestOfType("step", view.history) <= view.step
    BY DEF StepFits, SeenFits
  <2>2. view.step <= LatestOfType("step", handled)'
    BY <1>1, <1>2, <2>1
  <2>3. ASSUME "history" \in DOMAIN view PROVE LatestOfType("step", view.history)' <= view.step
    <3>1. view.history \in Nat /\ view.history <= handled
      BY <2>3 DEF HistoryFits, SeenFits
    <3>2. PICK h \in Nat : h = view.history /\ h = view'.history
      BY <1>0, <3>1
    <3>3. h <= Len(published)
      BY <1>0, <3>1, <3>2, Lists DEF ViewsTyped
    <3>4. LatestOfType("step", h)' = LatestOfType("step", h)
      BY <1>0, <3>3, NewestStays
    <3> QED BY <2>1, <2>3, <3>2, <3>4
  <2> QED BY <2>1, <2>2, <2>3
<1>7. StateFits'
  BY <1>0, Moves DEF StateFits, SeenFits
<1>8. VerdictFits'
  <2>1. ("gate" \in DOMAIN view /\ shown.state = "done" => view.gate = IF view.history > 0 THEN "pass" ELSE "pending")'
    BY <1>0 DEF VerdictFits, SeenFits
  <2>2. ASSUME "final" \in DOMAIN view, Over(shown.state), Bundled(view.history)' PROVE view.final
    <3>1. "history" \in DOMAIN view
      BY <2>2, ReadOrder DEF ReadsFit, ViewsTyped
    <3>2. view.history \in Nat /\ view.history <= handled
      BY <3>1 DEF HistoryFits, SeenFits
    <3>3. PICK h \in Nat : h = view.history /\ h = view'.history
      BY <1>0, <3>2
    <3>4. h <= Len(published)
      BY <1>0, <3>2, <3>3, Lists DEF ViewsTyped
    <3>5. LatestOfType("evidence", h)' = LatestOfType("evidence", h)
      BY <1>0, <3>4, NewestStays
    <3>6. Bundled(view.history)
      BY <2>2, <3>3, <3>5 DEF Bundled
    <3> QED BY <2>2, <3>6 DEF VerdictFits, SeenFits
  <2> QED BY <1>0, <2>1, <2>2 DEF VerdictFits
<1>9. ReadinessFits'
  <2>1. record.state = "done" => record'.state = "done"
    BY <1>0 DEF MovesOn, Over
  <2> QED BY <1>0, <2>1 DEF ReadinessFits, SeenFits
<1>10. ClosedFits'
  <2>1. since > 0 /\ published'[since].from = "manager" => Closed
    <3>1. ASSUME since > 0 PROVE published'[since] = published[since]
      <4>1. since \in Nat /\ ended \in Nat /\ since = ended /\ ended <= handled
        BY <3>1 DEF ViewsTyped, StreamFits
      <4>2. Len(published) \in Nat /\ DOMAIN published = 1..Len(published)
        BY Lists DEF ViewsTyped
      <4>3. since \in DOMAIN published
        BY <1>0, <3>1, <4>1, <4>2
      <4> QED BY <1>0, <4>3 DEF Extends
    <3> QED BY <3>1 DEF Closed
  <2> QED BY <1>0, <2>1 DEF ClosedFits, Closed, FlowOn
<1> QED BY <1>3, <1>4, <1>5, <1>6, <1>7, <1>8, <1>9, <1>10 DEF SeenFits

(* The first places of a list without repetitions are as many elements.    *)
Differ(s, m) == \A i, j \in 1..m : s[i] = s[j] => i = j
Firsts(s, n) == {s[i] : i \in 1..n}

(* They are as many as there are places, when no two are the same.         *)
LEMMA FirstCount ==
  ASSUME NEW s, NEW m \in Nat, Differ(s, m), NEW n \in 0..m
  PROVE  Cardinality(Firsts(s, n)) = n
<1> PICK T : T = {k \in Nat : k <= m => /\ IsFiniteSet({s[i] : i \in 1..k})
                                        /\ Cardinality({s[i] : i \in 1..k}) = k}
  OBVIOUS
<1>1. 0 \in T
  <2>1. {s[i] : i \in 1..0} = {}
    OBVIOUS
  <2> QED BY <2>1, FS_EmptySet
<1>2. ASSUME NEW k \in T PROVE k + 1 \in T
  <2> SUFFICES ASSUME k + 1 <= m
               PROVE  /\ IsFiniteSet({s[i] : i \in 1..k + 1}) /\ Cardinality({s[i] : i \in 1..k + 1}) = k + 1
    OBVIOUS
  <2>1. k \in Nat /\ k <= m
    OBVIOUS
  <2>2. PICK first : first = {s[i] : i \in 1..k}
    OBVIOUS
  <2>3. IsFiniteSet(first) /\ Cardinality(first) = k
    BY <2>1, <2>2
  <2>4. {s[i] : i \in 1..k + 1} = first \cup {s[k + 1]}
    BY <2>1, <2>2
  <2>5. s[k + 1] \notin first
    BY <2>1, <2>2 DEF Differ
  <2>6. IsFiniteSet(first \cup {s[k + 1]}) /\ Cardinality(first \cup {s[k + 1]}) = Cardinality(first) + 1
    BY <2>3, <2>5, FS_AddElement
  <2> QED BY <2>3, <2>4, <2>6
<1>3. T = Nat
  BY <1>1, <1>2, Induction
<1>4. n \in Nat /\ n <= m /\ n \in T
  BY <1>3
<1> QED BY <1>4 DEF Firsts

(* Nothing is read twice.                                                  *)
LEMMA ReadsDiffer ==
  ASSUME NEW kind \in DOMAIN Reads
  PROVE  /\ Len(Reads[kind]) \in Nat /\ \A i, j \in 1..Len(Reads[kind]) : Reads[kind][i] = Reads[kind][j] => i = j
         /\ Range(Reads[kind]) = FirstReads(kind, Len(Reads[kind]))
         /\ \A i \in 1..Len(Reads[kind]) :
              Reads[kind][i] \in {"history", "step", "readiness", "gate", "final", "state", "pr", "failed"}
<1>1. CASE kind = "agent"
  BY <1>1 DEF Reads, AgentReads, Range, FirstReads
<1>2. CASE kind = "tuples"
  BY <1>2 DEF Reads, TupleReads, Range, FirstReads
<1>3. CASE kind = "validations"
  BY <1>3 DEF Reads, EventReads, Range, FirstReads
<1>4. CASE kind = "summary"
  BY <1>4 DEF Reads, SummaryReads, Range, FirstReads
<1>5. CASE kind = "quality"
  BY <1>5 DEF Reads, GateReads, Range, FirstReads
<1>6. CASE kind = "evidence"
  BY <1>6 DEF Reads, EvidenceReads, Range, FirstReads
<1>7. CASE kind = "yools"
  BY <1>7 DEF Reads, YoolReads, Range, FirstReads
<1>8. CASE kind = "agents"
  BY <1>8 DEF Reads, AgentListReads, Range, FirstReads
<1> QED BY <1>1, <1>2, <1>3, <1>4, <1>5, <1>6, <1>7, <1>8 DEF Reads

(* One more value is read.                                                 *)
LEMMA ReadAdds ==
  ASSUME ViewsTyped, ReadsFit, ReadNext
  PROVE  \E n \in Nat, what \in {"history", "step", "readiness", "gate", "final", "state", "pr", "failed"} :
           /\ n + 1 \in 0..Len(Reads[asked]) /\ n \in 0..Len(Reads[asked]) /\ asked \in DOMAIN Reads
           /\ what = Reads[asked][n + 1] /\ DOMAIN view = FirstReads(asked, n)
           /\ DOMAIN view' = DOMAIN view \cup {what} /\ DOMAIN view' = FirstReads(asked, n + 1)
           /\ what \notin DOMAIN view /\ view'[what] = Value(what) /\ \A x \in DOMAIN view : view'[x] = view[x]
<1>1. asked \in DOMAIN Reads
  BY DEF ReadNext, ViewsTyped
<1>2. PICK kind \in DOMAIN Reads : kind = asked
  BY <1>1
<1>3. PICK m \in Nat : m = Len(Reads[kind])
  BY ReadsDiffer
<1>4. PICK n \in 0..m : DOMAIN view = FirstReads(kind, n)
  BY <1>1, <1>2, <1>3 DEF ReadsFit, ReadNext
<1>5. Cardinality(DOMAIN view) = n
  <2>1. PICK s : s = Reads[kind]
    OBVIOUS
  <2>2. Differ(s, m)
    BY <1>3, <2>1, ReadsDiffer DEF Differ
  <2>3. m \in Nat /\ n \in 0..m
    BY <1>3
  <2>4. Cardinality(Firsts(s, n)) = n
    BY <2>2, <2>3, FirstCount
  <2>5. FirstReads(kind, n) = Firsts(s, n)
    BY <2>1 DEF FirstReads, Firsts
  <2> QED BY <1>4, <2>4, <2>5
<1>6. n # m
  BY <1>2, <1>3, <1>4, ReadsDiffer DEF ReadNext, Complete
<1>7. n \in Nat /\ n + 1 \in 1..m
  BY <1>6
<1>8. PICK what : what = Reads[kind][n + 1]
  OBVIOUS
<1>9. view' = [x \in DOMAIN view \cup {what} |-> IF x = what THEN Value(what) ELSE view[x]]
  BY <1>2, <1>5, <1>8 DEF ReadNext
<1>10. what \notin DOMAIN view
  <2>1. ASSUME NEW i \in 1..n, Reads[kind][i] = what PROVE FALSE
    BY <1>3, <1>7, <1>8, <2>1, ReadsDiffer
  <2> QED BY <1>4, <2>1 DEF FirstReads
<1>11. DOMAIN view \cup {what} = FirstReads(kind, n + 1)
  BY <1>4, <1>7, <1>8 DEF FirstReads
<1>12. what \in {"history", "step", "readiness", "gate", "final", "state", "pr", "failed"}
  BY <1>3, <1>7, <1>8, ReadsDiffer
<1>13. DOMAIN view' = DOMAIN view \cup {what} /\ view'[what] = Value(what) /\ \A x \in DOMAIN view : view'[x] = view[x]
  BY <1>9, <1>10
<1>14. n + 1 \in 0..Len(Reads[asked]) /\ n \in 0..Len(Reads[asked])
  BY <1>2, <1>3, <1>7
<1> QED BY <1>1, <1>2, <1>4, <1>7, <1>8, <1>10, <1>11, <1>12, <1>13, <1>14

(* What a value is at the time it is read.                                 *)
LEMMA ReadFits ==
  ASSUME ViewsTyped, ThreadFits, StreamFits, ShownFits, ReadsFit, SeenFits, ReadNext
  PROVE  ReadsFit' /\ SeenFits'
<1>1. PICK n \in Nat, what \in {"history", "step", "readiness", "gate", "final", "state", "pr", "failed"} :
           /\ n + 1 \in 0..Len(Reads[asked]) /\ n \in 0..Len(Reads[asked]) /\ asked \in DOMAIN Reads
           /\ what = Reads[asked][n + 1] /\ DOMAIN view = FirstReads(asked, n)
           /\ DOMAIN view' = DOMAIN view \cup {what} /\ DOMAIN view' = FirstReads(asked, n + 1)
           /\ what \notin DOMAIN view /\ view'[what] = Value(what) /\ \A x \in DOMAIN view : view'[x] = view[x]
  BY ReadAdds
<1>2. UNCHANGED <<loopBound, thread, due, outcome, record, published, handled, ended, asked, shown, since>>
  BY DEF ReadNext, flow
<1>3. /\ record.state \in States /\ handled \in Nat /\ handled <= Len(published)
      /\ shown.history \in Nat /\ shown.step \in Nat /\ shown.state \in States
  BY DEF ViewsTyped, RunFields, States
<1>4. /\ what = "history" => DOMAIN view = {}
      /\ what = "readiness" => "state" \notin DOMAIN view /\ "failed" \notin DOMAIN view
  <2>1. n < Len(Reads[asked])
    BY <1>1, ReadsDiffer
  <2> QED BY <1>1, <2>1, ReadOrder
<1>5. \A t : LatestOfType(t, handled)' = LatestOfType(t, handled)
  BY <1>2 DEF LatestOfType
<1>6. \A h : Bundled(h)' = Bundled(h)
  BY <1>2 DEF Bundled, LatestOfType
<1>7. ReadsFit'
  <2>1. asked' = asked /\ asked # "none"
    BY <1>2 DEF ReadNext
  <2> QED BY <1>1, <2>1 DEF ReadsFit, FirstReads
<1>8. HistoryFits'
  <2>1. what = "history" => view'["history"] = handled
    BY <1>1 DEF Value
  <2> QED BY <1>1, <1>2, <1>3, <2>1 DEF HistoryFits, SeenFits, ShownFits
<1>9. StepFits'
  <2> SUFFICES ASSUME "step" \in DOMAIN view'
               PROVE  /\ view'.step \in Nat /\ shown.step <= view'.step /\ view'.step <= LatestOfType("step", handled)
                      /\ "history" \in DOMAIN view' => LatestOfType("step", view.history)' <= view'.step
    BY <1>2, <1>5 DEF StepFits
  <2>0. LatestOfType("step", handled) \in Nat
    BY <1>3, NewestOfType, NewestIs
  <2>00. \A h : LatestOfType("step", h)' = LatestOfType("step", h)
    BY <1>2 DEF LatestOfType
  <2>1. CASE what = "step"
    <3>1. view'.step = LatestOfType("step", handled)
      BY <1>1, <2>1 DEF Value
    <3>2. ASSUME "history" \in DOMAIN view' PROVE LatestOfType("step", view'.history) <= view'.step
      <4>1. view'.history \in Nat /\ view'.history <= handled
        BY <1>1, <2>1, <3>2 DEF HistoryFits, SeenFits
      <4> QED BY <1>3, <3>1, <4>1, NewestGrows, NewestIs
    <3>3. ASSUME "history" \in DOMAIN view' PROVE LatestOfType("step", view.history)' <= view'.step
      <4>1. PICK h : h = view'.history
        OBVIOUS
      <4>2. LatestOfType("step", h)' = LatestOfType("step", h)
        BY <2>00
      <4> QED BY <3>2, <3>3, <4>1, <4>2
    <3>4. shown.step <= LatestOfType("step", handled)
      BY DEF ShownFits
    <3> QED BY <2>0, <3>1, <3>3, <3>4
  <2>2. CASE what # "step"
    <3>1. "step" \in DOMAIN view /\ view'.step = view.step
      BY <1>1, <2>2
    <3>2. what # "history"
      BY <1>4, <3>1
    <3>3. /\ view.step \in Nat /\ shown.step <= view.step /\ view.step <= LatestOfType("step", handled)
          /\ "history" \in DOMAIN view => LatestOfType("step", view.history) <= view.step
      BY <3>1 DEF StepFits, SeenFits
    <3>4. ASSUME "history" \in DOMAIN view' PROVE LatestOfType("step", view.history)' <= view'.step
      <4>1. "history" \in DOMAIN view /\ view'.history = view.history
        BY <1>1, <3>2, <3>4
      <4>2. PICK h : h = view.history
        OBVIOUS
      <4>3. LatestOfType("step", h)' = LatestOfType("step", h)
        BY <2>00
      <4> QED BY <3>1, <3>3, <4>1, <4>2, <4>3
    <3> QED BY <3>1, <3>3, <3>4
  <2> QED BY <2>1, <2>2
<1>10. StateFits'
  <2>1. what = "state" => view'["state"] = record.state
    BY <1>1 DEF Value
  <2>2. MovesOn(record.state, record.state) /\ MovesOn(shown.state, record.state)
    BY <1>3, Moves DEF ShownFits
  <2> QED BY <1>1, <1>2, <1>3, <2>1, <2>2 DEF StateFits, SeenFits
<1>11. VerdictFits'
  <2>1. what \in {"gate", "final"} => "history" \in DOMAIN view
    <3>1. what \in {"gate", "final"} => what \in FirstReads(asked, n + 1)
      BY <1>1
    <3>2. n + 1 \in 0..Len(Reads[asked])
      BY <1>1
    <3>3. what \in {"gate", "final"} => "history" \in FirstReads(asked, n + 1)
      BY <1>1, <3>1, <3>2, ReadOrder
    <3> QED BY <1>1, <3>3
  <2>2. "history" \in DOMAIN view => view'.history = view.history
    BY <1>1
  <2>3. ASSUME "gate" \in DOMAIN view', shown.state = "done"
        PROVE  view'.gate = IF view'.history > 0 THEN "pass" ELSE "pending"
    <3>1. CASE what = "gate"
      <4>1. view'.gate = Gate(view.history, record) /\ "history" \in DOMAIN view
        BY <1>1, <2>1, <3>1 DEF Value
      <4>2. record.state = "done"
        BY <2>3 DEF ShownFits, MovesOn, Over
      <4>3. record.failed = FALSE
        BY <4>2, DoneClean
      <4>4. Gate(view.history, record) = IF view.history = 0 THEN "pending" ELSE "pass"
        BY <4>2, <4>3 DEF Gate
      <4>5. view.history \in Nat
        BY <4>1 DEF HistoryFits, SeenFits
      <4> QED BY <2>2, <4>1, <4>4, <4>5
    <3>2. CASE what # "gate"
      <4>1. "gate" \in DOMAIN view /\ view'.gate = view.gate
        BY <1>1, <2>3, <3>2
      <4>2. "history" \in DOMAIN view
        BY <1>1, <4>1, ReadOrder
      <4> QED BY <2>2, <2>3, <4>1, <4>2 DEF VerdictFits, SeenFits
    <3> QED BY <3>1, <3>2
  <2>4. ASSUME "final" \in DOMAIN view', Over(shown.state), Bundled(view.history)'
        PROVE  view'.final
    <3>1. CASE what = "final"
      <4>1. view'.final = Finalized(view.history, record) /\ "history" \in DOMAIN view
        BY <1>1, <2>1, <3>1 DEF Value
      <4>2. Over(record.state)
        BY <2>4 DEF ShownFits, MovesOn
      <4>3. PICK h : h = view.history /\ h = view'.history
        BY <2>2, <4>1
      <4>4. Bundled(h)
        BY <1>6, <2>4, <4>3
      <4> QED BY <4>1, <4>2, <4>3, <4>4 DEF Finalized
    <3>2. CASE what # "final"
      <4>1. "final" \in DOMAIN view /\ view'.final = view.final
        BY <1>1, <2>4, <3>2
      <4>2. "history" \in DOMAIN view
        BY <1>1, <4>1, ReadOrder
      <4>3. PICK h : h = view.history /\ h = view'.history
        BY <2>2, <4>2
      <4>4. Bundled(view.history)
        BY <1>6, <2>4, <4>3
      <4> QED BY <2>4, <4>1, <4>4 DEF VerdictFits, SeenFits
    <3> QED BY <3>1, <3>2
  <2> QED BY <1>2, <2>3, <2>4 DEF VerdictFits
<1>12. ReadinessFits'
  <2> SUFFICES ASSUME "readiness" \in DOMAIN view'
               PROVE  /\ shown.state = "done" => view'.readiness = "auto_publish"
                      /\ view'.readiness = "auto_publish" =>
                           /\ record.state = "done"
                           /\ "state" \in DOMAIN view' => view'.state = "done"
                           /\ "failed" \in DOMAIN view' => ~view'.failed
    BY <1>2 DEF ReadinessFits
  <2>1. CASE what = "readiness"
    <3>1. view'.readiness = Readiness(record)
      BY <1>1, <2>1 DEF Value
    <3>2. "state" \notin DOMAIN view' /\ "failed" \notin DOMAIN view'
      BY <1>1, <1>4, <2>1
    <3>3. Readiness(record) = "auto_publish" => record.state = "done"
      BY DEF Readiness
    <3>4. ASSUME shown.state = "done" PROVE Readiness(record) = "auto_publish"
      <4>1. record.state = "done"
        BY <3>4 DEF ShownFits, MovesOn, Over
      <4>2. record.failed = FALSE
        BY <4>1, DoneClean
      <4> QED BY <4>1, <4>2 DEF Readiness
    <3> QED BY <3>1, <3>2, <3>3, <3>4
  <2>2. CASE what # "readiness"
    <3>1. "readiness" \in DOMAIN view /\ view'.readiness = view.readiness
      BY <1>1, <2>2
    <3>2. /\ shown.state = "done" => view.readiness = "auto_publish"
          /\ view.readiness = "auto_publish" =>
               /\ record.state = "done"
               /\ "state" \in DOMAIN view => view.state = "done"
               /\ "failed" \in DOMAIN view => ~view.failed
      BY <3>1 DEF ReadinessFits, SeenFits
    <3>3. what = "state" => view'.state = record.state
      BY <1>1 DEF Value
    <3>4. what = "failed" => view'["failed"] = record["failed"]
      BY <1>1 DEF Value
    <3>5. record.state = "done" => record.failed = FALSE
      BY DoneClean
    <3> QED BY <1>1, <3>1, <3>2, <3>3, <3>4, <3>5
  <2> QED BY <2>1, <2>2
<1>13. ClosedFits'
  <2>1. Closed' => Closed
    BY <1>2 DEF Closed
  <2>2. ASSUME Closed, NEW x \in DOMAIN view' PROVE view'[x] = Value(x)'
    <3>1. \A y \in DOMAIN view : view[y] = Value(y)
      BY <2>2 DEF ClosedFits, SeenFits
    <3>2. view'[x] = Value(x)
      BY <1>1, <3>1
    <3>3. x \in {"gate", "final"} => "history" \in DOMAIN view /\ view'.history = view.history
      <4>1. n + 1 \in 0..Len(Reads[asked]) /\ x \in FirstReads(asked, n + 1)
        BY <1>1
      <4>2. x \in {"gate", "final"} => "history" \in FirstReads(asked, n + 1)
        BY <1>1, <4>1, ReadOrder
      <4>3. x \in {"gate", "final"} => what # "history"
        BY <1>1, <1>4
      <4> QED BY <1>1, <4>2, <4>3
    <3>4. Value(x)' = Value(x)
      <4>1. CASE x = "gate"
        <5>1. \A h : Gate(h, record)' = Gate(h, record)
          BY <1>2 DEF Gate
        <5>2. PICK h : h = view.history /\ h = view'.history
          BY <3>3, <4>1
        <5> QED BY <1>2, <4>1, <5>1, <5>2 DEF Value
      <4>2. CASE x = "final"
        <5>1. PICK h : h = view.history /\ h = view'.history
          BY <3>3, <4>2
        <5>2. Finalized(h, record)' = Finalized(h, record)
          BY <1>2, <1>6 DEF Finalized
        <5> QED BY <4>2, <5>1, <5>2 DEF Value
      <4>3. CASE x \notin {"gate", "final"}
        BY <1>2, <1>5, <4>3 DEF Value, Readiness
      <4> QED BY <4>1, <4>2, <4>3
    <3> QED BY <3>2, <3>4
  <2> QED BY <1>2, <2>1, <2>2 DEF ClosedFits
<1> QED BY <1>7, <1>8, <1>9, <1>10, <1>11, <1>12, <1>13 DEF SeenFits

(* What is published is one more event.                                    *)
LEMMA Published ==
  ASSUME ViewsTyped, NEW event \in RunEvent, PublishRun(event)
  PROVE  /\ published' \in Seq(RunEvent) /\ Extends /\ Len(published) \in Nat /\ Len(published') = Len(published) + 1
         /\ DOMAIN published = 1..Len(published) /\ DOMAIN published' = 1..(Len(published) + 1)
         /\ published'[Len(published) + 1] = event
         /\ handled' \in Nat /\ handled <= handled' /\ handled' <= Len(published) + 1
<1>1. PICK q : q = published
  OBVIOUS
<1>2. PICK r : r = Append(q, event)
  OBVIOUS
<1>3. q \in Seq(RunEvent) /\ r = published'
  BY <1>1, <1>2 DEF ViewsTyped, PublishRun
<1>4. /\ r \in Seq(RunEvent) /\ Len(q) \in Nat /\ Len(r) = Len(q) + 1
      /\ DOMAIN q = 1..Len(q) /\ DOMAIN r = 1..(Len(q) + 1)
      /\ r[Len(q) + 1] = event /\ \A j \in 1..Len(q) : r[j] = q[j]
  <2>1. q \in Seq(RunEvent) /\ event \in RunEvent /\ r = Append(q, event)
    BY <1>2, <1>3
  <2> QED BY <2>1, Appended
<1>5. Extends
  BY <1>1, <1>3, <1>4 DEF Extends
<1>6. handled \in Nat /\ handled <= Len(published) /\ (handled' = handled \/ handled' = handled + 1)
  BY DEF ViewsTyped, PublishRun
<1>7. handled' \in Nat /\ handled <= handled' /\ handled' <= Len(published) + 1
  BY <1>1, <1>4, <1>6
<1> QED BY <1>1, <1>3, <1>4, <1>5, <1>7

(* The stream stays as it was with an event that does not end it, and is   *)
(* ended by one that does if nothing is left to do.                        *)
LEMMA StreamPublished ==
  ASSUME ViewsTyped, StreamFits, NEW event \in RunEvent, PublishRun(event), thread # "ended", UNCHANGED <<ended, since>>,
         event.from = "manager" /\ RunEnds(event.type) => thread' = "ended"
  PROVE  StreamFits'
<1>1. /\ published' \in Seq(RunEvent) /\ Extends /\ Len(published) \in Nat /\ Len(published') = Len(published) + 1
      /\ DOMAIN published = 1..Len(published) /\ DOMAIN published' = 1..(Len(published) + 1)
      /\ published'[Len(published) + 1] = event
  BY Published
<1>2. ASSUME NEW i \in DOMAIN published', published'[i].from = "manager" /\ RunEnds(published'[i].type)
      PROVE  thread' = "ended" /\ i = Len(published')
  <2>1. CASE i \in DOMAIN published
    <3>1. published[i].from = "manager" /\ RunEnds(published[i].type)
      BY <1>1, <1>2, <2>1 DEF Extends
    <3> QED BY <2>1, <3>1 DEF StreamFits
  <2>2. CASE i \notin DOMAIN published
    <3>1. i = Len(published) + 1
      BY <1>1, <2>2
    <3> QED BY <1>1, <1>2, <3>1
  <2> QED BY <2>1, <2>2
<1>3. ended > 0 => published'[ended] = published[ended]
  <2>1. ended \in Nat /\ handled \in Nat /\ ended <= handled /\ handled <= Len(published)
    BY DEF ViewsTyped
  <2>2. ended > 0 => ended \in DOMAIN published
    BY <1>1, <2>1
  <2> QED BY <1>1, <2>2 DEF Extends
<1> QED BY <1>2, <1>3 DEF StreamFits

(* It is not closed while the thread is at work.                           *)
LEMMA OpenStream ==
  ASSUME ViewsTyped, StreamFits, thread # "ended" \/ handled # Len(published) \/ ended = 0
  PROVE  ~Closed
  BY ClosedEnded

(* The run goes on: what each step writes.                                 *)
FlowFit == ViewsTyped' /\ ThreadFits' /\ StreamFits' /\ FlowOn

(* The manager's notes, and the demo's, are events.                        *)
LEMMA NoteIs ==
  \A type \in {"log", "done", "error"}, from \in {"bridge", "manager"} :
    /\ Note(type, from) \in RunEvent /\ Note(type, from).type = type /\ Note(type, from).from = from
    /\ \A says \in BOOLEAN :
         LET event == [Note(type, from) EXCEPT !.text = says]
         IN event \in RunEvent /\ event.type = type /\ event.from = from
  BY DEF Note, RunEvent

(* A status without an outcome.                                            *)
LEMMA FreshIs ==
  \A a \in States : Fresh(a) \in RunFields /\ Fresh(a).state = a
  BY DEF Fresh, RunFields, States

(* A field of a status is written.                                         *)
LEMMA Fields ==
  ASSUME NEW a, NEW b, NEW c, NEW d, NEW r, r = [state |-> a, failed |-> b, pr |-> c]
  PROVE  /\ [r EXCEPT !.pr = d] = [state |-> a, failed |-> b, pr |-> d]
         /\ [r EXCEPT !["pr"] = d] = [state |-> a, failed |-> b, pr |-> d]
         /\ [r EXCEPT !["failed"] = d] = [state |-> a, failed |-> d, pr |-> c]
         /\ [r EXCEPT !["state"] = d] = [state |-> d, failed |-> b, pr |-> c]
<1>1. [r EXCEPT !.pr = d] = [state |-> a, failed |-> b, pr |-> d]
  <2>1. PICK q : q = [r EXCEPT !.pr = d]
    OBVIOUS
  <2>2. q = [state |-> a, failed |-> b, pr |-> d]
    BY <2>1
  <2> QED BY <2>1, <2>2
<1>2. [r EXCEPT !["pr"] = d] = [state |-> a, failed |-> b, pr |-> d]
  <2>1. PICK q : q = [r EXCEPT !["pr"] = d]
    OBVIOUS
  <2>2. q = [state |-> a, failed |-> b, pr |-> d]
    BY <2>1
  <2> QED BY <2>1, <2>2
<1>3. [r EXCEPT !["failed"] = d] = [state |-> a, failed |-> d, pr |-> c]
  <2>1. PICK q : q = [r EXCEPT !["failed"] = d]
    OBVIOUS
  <2>2. q = [state |-> a, failed |-> d, pr |-> c]
    BY <2>1
  <2> QED BY <2>1, <2>2
<1>4. [r EXCEPT !["state"] = d] = [state |-> d, failed |-> b, pr |-> c]
  <2>1. PICK q : q = [r EXCEPT !["state"] = d]
    OBVIOUS
  <2>2. q = [state |-> d, failed |-> b, pr |-> c]
    BY <2>1
  <2> QED BY <2>1, <2>2
<1> QED BY <1>1, <1>2, <1>3, <1>4

(* What the flow may come to.                                              *)
LEMMA OutcomeFields ==
  ASSUME NEW o \in Outcomes
  PROVE  /\ o = [state |-> o.state, failed |-> o.failed, pr |-> o.pr]
         /\ o.state \in {"done", "failed"} /\ o.failed \in BOOLEAN /\ o.pr \in BOOLEAN
<1>1. CASE o \in {[state |-> "done", failed |-> FALSE, pr |-> b] : b \in BOOLEAN}
  <2>1. PICK b \in BOOLEAN : o = [state |-> "done", failed |-> FALSE, pr |-> b]
    BY <1>1
  <2> QED BY <2>1
<1>2. CASE o \in {[state |-> "failed", failed |-> TRUE, pr |-> b] : b \in BOOLEAN}
  <2>1. PICK b \in BOOLEAN : o = [state |-> "failed", failed |-> TRUE, pr |-> b]
    BY <1>2
  <2> QED BY <2>1
<1> QED BY <1>1, <1>2 DEF Outcomes

(* An outcome, and what is written of it before the URL, are statuses.     *)
LEMMA OutcomeIs ==
  \A o \in Outcomes : /\ o \in RunFields /\ o.state \in {"done", "failed"}
                      /\ [o EXCEPT !.pr = FALSE] \in RunFields /\ [o EXCEPT !.pr = FALSE].state = o.state
<1> SUFFICES ASSUME NEW o \in Outcomes
             PROVE  /\ o \in RunFields /\ o.state \in {"done", "failed"}
                    /\ [o EXCEPT !.pr = FALSE] \in RunFields /\ [o EXCEPT !.pr = FALSE].state = o.state
  OBVIOUS
<1>1. o.state \in {"done", "failed"} /\ o.failed \in BOOLEAN /\ o.pr \in BOOLEAN
  BY OutcomeFields
<1>2. PICK a, b, c, d : a = o.state /\ b = o.failed /\ c = o.pr /\ d = FALSE
  OBVIOUS
<1>3. o = [state |-> a, failed |-> b, pr |-> c]
  BY <1>2, OutcomeFields
<1>4. [o EXCEPT !.pr = d] = [state |-> a, failed |-> b, pr |-> d]
  BY <1>3, Fields
<1>5. d \in BOOLEAN
  BY <1>2
<1>6. o \in RunFields /\ [o EXCEPT !.pr = d] \in RunFields /\ [o EXCEPT !.pr = d].state = o.state
  BY <1>1, <1>2, <1>3, <1>4, <1>5 DEF RunFields
<1> QED BY <1>1, <1>2, <1>6

(* What is written of an outcome, one field after the other.               *)
LEMMA FieldsWritten ==
  ASSUME NEW o \in Outcomes
  PROVE  /\ [Fresh(o.state) EXCEPT !["failed"] = o["failed"]] = [o EXCEPT !.pr = FALSE]
         /\ [Fresh("running") EXCEPT !["state"] = o["state"]] = Fresh(o.state)
         /\ [[o EXCEPT !.pr = FALSE] EXCEPT !["pr"] = o["pr"]] = o
<1>1. PICK a, b, c, d : a = o.state /\ b = o.failed /\ c = o.pr /\ d = FALSE
  OBVIOUS
<1>2. o = [state |-> a, failed |-> b, pr |-> c]
  BY <1>1, OutcomeFields
<1>3. PICK r, q : r = [state |-> a, failed |-> d, pr |-> d] /\ q = [state |-> "running", failed |-> d, pr |-> d]
  OBVIOUS
<1>4. r = Fresh(a) /\ q = Fresh("running")
  BY <1>1, <1>3 DEF Fresh
<1>5. PICK p : p = [o EXCEPT !.pr = d]
  OBVIOUS
<1>6. p = [state |-> a, failed |-> b, pr |-> d]
  BY <1>2, <1>5, Fields
<1>7. [r EXCEPT !["failed"] = b] = p
  BY <1>3, <1>6, Fields
<1>8. [q EXCEPT !["state"] = a] = r
  BY <1>3, Fields
<1>9. [p EXCEPT !["pr"] = c] = o
  BY <1>2, <1>6, Fields
<1>10. p = [o EXCEPT !.pr = FALSE]
  BY <1>1, <1>5
<1> QED BY <1>1, <1>4, <1>7, <1>8, <1>9, <1>10

(* The thread starts the run.                                              *)
LEMMA StartFits ==
  ASSUME ViewsTyped, ThreadFits, StreamFits, ThreadStarts
  PROVE  FlowFit
<1>0. Note("log", "manager") \in RunEvent /\ Note("log", "manager").type = "log" /\ PublishRun(Note("log", "manager"))
  BY NoteIs DEF ThreadStarts
<1>1. PICK event \in RunEvent : event = Note("log", "manager") /\ event.type = "log" /\ PublishRun(event)
  BY <1>0
<1>2. /\ published' \in Seq(RunEvent) /\ Extends /\ Len(published) \in Nat /\ Len(published') = Len(published) + 1
      /\ handled' \in Nat /\ handled <= handled' /\ handled' <= Len(published) + 1
  BY <1>1, Published
<1>3. /\ thread = "new" /\ thread' = "flow" /\ due' = due /\ UNCHANGED <<loopBound, outcome, ended, client>>
      /\ record' = [record EXCEPT !.state = "running"] /\ record = Fresh("queued") /\ due = <<>>
  BY DEF ThreadStarts, ThreadFits
<1>4. record' = Fresh("running")
  BY <1>3 DEF Fresh
<1>5. ViewsTyped'
  <2>1. ended \in Nat /\ handled \in Nat /\ ended <= handled' /\ handled' <= Len(published')
    BY <1>2 DEF ViewsTyped
  <2>2. record' \in RunFields
    BY <1>4, FreshIs DEF States
  <2> QED BY <1>2, <1>3, <2>1, <2>2 DEF ViewsTyped, client
<1>6. ThreadFits'
  BY <1>3, <1>4 DEF ThreadFits
<1>7. StreamFits'
  <2>1. ~RunEnds(event.type) /\ since' = since
    BY <1>1, <1>3 DEF RunEnds, client
  <2> QED BY <1>1, <1>3, <2>1, StreamPublished
<1>8. MovesOn(record.state, record'.state)
  BY <1>3, <1>4, FreshIs, Moves DEF States
<1>9. ~Closed
  BY <1>3, OpenStream
<1> QED BY <1>2, <1>3, <1>5, <1>6, <1>7, <1>8, <1>9 DEF FlowFit, FlowOn

(* The flow emits an event.                                                *)
LEMMA EmitFits ==
  ASSUME ViewsTyped, ThreadFits, StreamFits, Emit
  PROVE  FlowFit
<1>1. PICK event \in RunEvent : event.from = "bridge" /\ PublishRun(event)
  BY RunViewsAssumption DEF Emit
<1>2. /\ published' \in Seq(RunEvent) /\ Extends /\ Len(published) \in Nat /\ Len(published') = Len(published) + 1
      /\ handled' \in Nat /\ handled <= handled' /\ handled' <= Len(published) + 1
  BY <1>1, Published
<1>3. thread = "flow" /\ UNCHANGED <<loopBound, thread, due, outcome, record, ended, client>>
  BY DEF Emit
<1>5. ViewsTyped'
  <2>1. ended \in Nat /\ handled \in Nat /\ ended <= handled' /\ handled' <= Len(published')
    BY <1>2 DEF ViewsTyped
  <2> QED BY <1>2, <1>3, <2>1 DEF ViewsTyped, client
<1>6. ThreadFits'
  BY <1>3 DEF ThreadFits
<1>7. StreamFits'
  <2>1. event.from # "manager" /\ since' = since
    BY <1>1, <1>3 DEF client
  <2> QED BY <1>1, <1>3, <2>1, StreamPublished
<1>8. MovesOn(record.state, record'.state)
  BY <1>3, Moves DEF ViewsTyped, RunFields, States
<1>9. ~Closed
  BY <1>3, OpenStream
<1> QED BY <1>2, <1>3, <1>5, <1>6, <1>7, <1>8, <1>9 DEF FlowFit, FlowOn

(* The flow returns or raises: its outcome, and what is left to write.     *)
LEMMA EndFits ==
  ASSUME ViewsTyped, ThreadFits, StreamFits, NEW state \in {"done", "failed"}, NEW pr \in BOOLEAN, NEW writes,
         Ends(state, pr, writes), writes = FieldWrites \/ (state = "failed" /\ pr = FALSE /\ writes = <<"state", "failed", "error">>),
         \/ UNCHANGED <<published, handled>>
         \/ PublishRun(Note("done", "bridge"))
  PROVE  FlowFit
<1>1. /\ thread = "flow" /\ thread' = "ending" /\ due' = writes /\ UNCHANGED <<loopBound, record, ended, client>>
      /\ outcome' = [state |-> state, failed |-> state = "failed", pr |-> pr] /\ record = Fresh("running")
  BY DEF Ends, ThreadFits
<1>2. outcome' \in Outcomes /\ (state = "failed" => outcome' = [state |-> "failed", failed |-> TRUE, pr |-> pr])
  <2>1. CASE state = "done"
    <3>1. outcome' = [state |-> "done", failed |-> FALSE, pr |-> pr]
      BY <1>1, <2>1
    <3> QED BY <2>1, <3>1 DEF Outcomes
  <2>2. CASE state = "failed"
    <3>1. outcome' = [state |-> "failed", failed |-> TRUE, pr |-> pr]
      BY <1>1, <2>2
    <3> QED BY <2>2, <3>1 DEF Outcomes
  <2> QED BY <2>1, <2>2
<1>3. ThreadFits'
  <2>1. CASE writes = FieldWrites
    BY <1>1, <1>2, <2>1 DEF ThreadFits, ToWrite, FieldWrites
  <2>2. CASE state = "failed" /\ pr = FALSE /\ writes = <<"state", "failed", "error">>
    BY <1>1, <1>2, <2>2 DEF ThreadFits, ToRaise
  <2> QED BY <2>1, <2>2
<1>4. /\ published' \in Seq(RunEvent) /\ Extends /\ handled' \in Nat /\ handled <= handled' /\ handled' <= Len(published')
      /\ StreamFits'
  <2>1. CASE UNCHANGED <<published, handled>>
    <3>1. StreamFits'
      BY <1>1, <2>1 DEF StreamFits, client
    <3> QED BY <2>1, <3>1 DEF ViewsTyped, Extends
  <2>2. CASE PublishRun(Note("done", "bridge"))
    <3>1. PICK event \in RunEvent : event = Note("done", "bridge") /\ event.from = "bridge" /\ PublishRun(event)
      BY <2>2, NoteIs
    <3>2. /\ published' \in Seq(RunEvent) /\ Extends /\ Len(published) \in Nat /\ Len(published') = Len(published) + 1
          /\ handled' \in Nat /\ handled <= handled' /\ handled' <= Len(published) + 1
      BY <3>1, Published
    <3>3. StreamFits'
      <4>1. event.from # "manager" /\ since' = since
        BY <1>1, <3>1 DEF client
      <4> QED BY <1>1, <3>1, <4>1, StreamPublished
    <3> QED BY <3>2, <3>3
  <2> QED BY <2>1, <2>2
<1>5. ViewsTyped'
  <2>1. ended \in Nat /\ handled \in Nat /\ ended <= handled'
    BY <1>4 DEF ViewsTyped
  <2>2. outcome' \in RunFields
    BY <1>2, OutcomeIs
  <2> QED BY <1>1, <1>4, <2>1, <2>2 DEF ViewsTyped, client
<1>8. MovesOn(record.state, record'.state)
  BY <1>1, Moves DEF ViewsTyped, RunFields, States
<1>9. ~Closed
  BY <1>1, OpenStream
<1> QED BY <1>1, <1>3, <1>4, <1>5, <1>8, <1>9 DEF FlowFit, FlowOn

(* A field is written, in its turn.                                        *)
LEMMA FieldFits ==
  ASSUME ViewsTyped, ThreadFits, StreamFits, WriteField
  PROVE  FlowFit
<1>1. /\ due # <<>> /\ Head(due) \in DOMAIN record
      /\ record' = [record EXCEPT ![Head(due)] = outcome[Head(due)]] /\ due' = Tail(due)
      /\ UNCHANGED <<loopBound, thread, outcome, published, handled, ended, client>>
  BY DEF WriteField
<1>2. DOMAIN record = {"state", "failed", "pr"}
  BY DEF ViewsTyped, RunFields
<1>3. thread = "ending" /\ outcome \in Outcomes /\ (ToWrite \/ ToRaise)
  BY <1>1 DEF ThreadFits
<1>4. (ToWrite \/ ToRaise)' /\ record' \in RunFields /\ MovesOn(record.state, record'.state)
  <2>1. CASE due = <<"state", "failed", "pr", "done">> /\ record = Fresh("running")
    <3>1. Head(due) = "state" /\ due' = <<"failed", "pr", "done">>
      BY <1>1, <2>1
    <3>2. record' = Fresh(outcome.state)
      BY <1>1, <1>3, <2>1, <3>1, FieldsWritten
    <3>3. outcome.state \in {"done", "failed"}
      BY <1>3, OutcomeIs
    <3> QED BY <1>1, <2>1, <3>1, <3>2, <3>3, FreshIs, Moves DEF ToWrite, States
  <2>2. CASE due = <<"failed", "pr", "done">> /\ record = Fresh(outcome.state)
    <3>1. Head(due) = "failed" /\ due' = <<"pr", "done">>
      BY <1>1, <2>2
    <3>2. record' = [outcome EXCEPT !.pr = FALSE]
      BY <1>1, <1>3, <2>2, <3>1, FieldsWritten
    <3>3. outcome.state \in {"done", "failed"} /\ record'.state = outcome.state /\ record' \in RunFields
      BY <1>3, <3>2, OutcomeIs
    <3> QED BY <1>1, <2>2, <3>1, <3>2, <3>3, FreshIs, Moves DEF ToWrite, States
  <2>3. CASE due = <<"pr", "done">> /\ record = [outcome EXCEPT !.pr = FALSE]
    <3>1. Head(due) = "pr" /\ due' = <<"done">>
      BY <1>1, <2>3
    <3>2. record' = outcome
      BY <1>1, <1>3, <2>3, <3>1, FieldsWritten
    <3>3. outcome.state \in {"done", "failed"} /\ record.state = outcome.state /\ record' \in RunFields
      BY <1>3, <2>3, <3>2, OutcomeIs
    <3> QED BY <1>1, <2>3, <3>1, <3>2, <3>3, Moves DEF ToWrite, States
  <2>4. CASE due = <<"done">>
    <3>1. Head(due) = "done"
      BY <2>4
    <3> QED BY <1>1, <1>2, <3>1
  <2>5. CASE outcome = [state |-> "failed", failed |-> TRUE, pr |-> FALSE] /\ due = <<"state", "failed", "error">> /\ record = Fresh("running")
    <3>1. Head(due) = "state" /\ due' = <<"failed", "error">>
      BY <1>1, <2>5
    <3>2. record' = Fresh("failed")
      <4>1. outcome.state = "failed"
        BY <2>5
      <4> QED BY <1>1, <1>3, <2>5, <3>1, <4>1, FieldsWritten
    <3> QED BY <1>1, <2>5, <3>1, <3>2, FreshIs, Moves DEF ToRaise, States
  <2>6. CASE outcome = [state |-> "failed", failed |-> TRUE, pr |-> FALSE] /\ due = <<"failed", "error">> /\ record = Fresh("failed")
    <3>1. Head(due) = "failed" /\ due' = <<"error">>
      BY <1>1, <2>6
    <3>2. record' = outcome
      <4>1. outcome.state = "failed" /\ [outcome EXCEPT !.pr = FALSE] = outcome
        <5>1. PICK o, d, e : o = [state |-> "failed", failed |-> e, pr |-> d] /\ d = FALSE /\ e = TRUE
          OBVIOUS
        <5>2. [o EXCEPT !.pr = d] = o
          <6>1. PICK a : a = "failed"
            OBVIOUS
          <6>2. o = [state |-> a, failed |-> e, pr |-> d]
            BY <5>1, <6>1
          <6>3. [o EXCEPT !.pr = d] = [state |-> a, failed |-> e, pr |-> d]
            BY <6>2, Fields
          <6> QED BY <6>2, <6>3
        <5>3. outcome = o
          BY <2>6, <5>1
        <5> QED BY <2>6, <5>1, <5>2, <5>3
      <4>2. record' = [Fresh(outcome.state) EXCEPT !["failed"] = outcome["failed"]]
        BY <1>1, <2>6, <3>1, <4>1
      <4> QED BY <1>3, <4>1, <4>2, FieldsWritten
    <3>3. outcome \in RunFields /\ outcome.state = "failed"
      BY <2>6 DEF RunFields
    <3> QED BY <1>1, <2>6, <3>1, <3>2, <3>3, FreshIs, Moves DEF ToRaise, States
  <2>7. CASE due = <<"error">>
    <3>1. Head(due) = "error"
      BY <2>7
    <3> QED BY <1>1, <1>2, <3>1
  <2> QED BY <1>3, <2>1, <2>2, <2>3, <2>4, <2>5, <2>6, <2>7 DEF ToWrite, ToRaise
<1>5. ViewsTyped' /\ ThreadFits'
  BY <1>1, <1>3, <1>4 DEF ViewsTyped, ThreadFits, client
<1>6. StreamFits' /\ Extends /\ handled <= handled'
  BY <1>1 DEF StreamFits, Extends, ViewsTyped, client
<1>7. ~Closed
  BY <1>3, OpenStream
<1> QED BY <1>1, <1>4, <1>5, <1>6, <1>7 DEF FlowFit, FlowOn

(* The manager tells the stream, when everything is written.               *)
LEMMA TellFits ==
  ASSUME ViewsTyped, ThreadFits, StreamFits, TellStream
  PROVE  FlowFit
<1>1. /\ due # <<>> /\ Head(due) \in {"done", "error"} /\ due' = Tail(due)
      /\ thread' = IF due' = <<>> THEN "ended" ELSE thread
      /\ UNCHANGED <<loopBound, outcome, record, ended, client>>
  BY DEF TellStream
<1>2. PICK event \in RunEvent : PublishRun(event)
  BY <1>1, NoteIs DEF TellStream
<1>3. thread = "ending" /\ outcome \in Outcomes /\ (ToWrite \/ ToRaise)
  BY <1>1 DEF ThreadFits
<1>4. (due = <<"done">> \/ due = <<"error">>) /\ record = outcome
  <2>1. /\ Head(<<"state", "failed", "pr", "done">>) = "state" /\ Head(<<"failed", "pr", "done">>) = "failed"
        /\ Head(<<"pr", "done">>) = "pr" /\ Head(<<"state", "failed", "error">>) = "state"
        /\ Head(<<"failed", "error">>) = "failed"
    OBVIOUS
  <2> QED BY <1>1, <1>3, <2>1 DEF ToWrite, ToRaise
<1>5. due' = <<>> /\ thread' = "ended"
  BY <1>1, <1>4
<1>6. /\ published' \in Seq(RunEvent) /\ Extends /\ Len(published) \in Nat /\ Len(published') = Len(published) + 1
      /\ handled' \in Nat /\ handled <= handled' /\ handled' <= Len(published) + 1
  BY <1>2, Published
<1>7. ViewsTyped'
  <2>1. ended \in Nat /\ handled \in Nat /\ ended <= handled' /\ handled' <= Len(published')
    BY <1>6 DEF ViewsTyped
  <2> QED BY <1>1, <1>6, <2>1 DEF ViewsTyped, client
<1>8. ThreadFits'
  BY <1>1, <1>3, <1>4, <1>5 DEF ThreadFits
<1>9. StreamFits'
  <2>1. since' = since /\ thread # "ended"
    BY <1>1, <1>3 DEF client
  <2> QED BY <1>1, <1>2, <1>5, <2>1, StreamPublished
<1>10. MovesOn(record.state, record'.state)
  BY <1>1, Moves DEF ViewsTyped, RunFields, States
<1>11. ~Closed
  BY <1>3, OpenStream
<1> QED BY <1>1, <1>6, <1>7, <1>8, <1>9, <1>10, <1>11 DEF FlowFit, FlowOn

(* The loop handles an event, or ends the stream of the client.            *)
LEMMA LoopFits ==
  ASSUME ViewsTyped, ThreadFits, StreamFits, LoopHandles \/ StreamEnds
  PROVE  FlowFit
<1>1. UNCHANGED <<flow, client>>
  BY DEF LoopHandles, StreamEnds
<1>2. /\ handled \in Nat /\ ended \in Nat /\ ended <= handled /\ handled <= Len(published) /\ Len(published) \in Nat
      /\ DOMAIN published = 1..Len(published)
  BY Lists DEF ViewsTyped
<1>3. CASE LoopHandles
  <2>1. handled' = handled + 1 /\ ended' = ended /\ handled < Len(published)
    BY <1>3 DEF LoopHandles
  <2>2. handled' \in Nat /\ handled <= handled' /\ handled' <= Len(published) /\ ended <= handled'
    BY <1>2, <2>1
  <2>3. ViewsTyped' /\ ThreadFits' /\ StreamFits' /\ Extends
    BY <1>1, <2>1, <2>2 DEF ViewsTyped, ThreadFits, ToWrite, ToRaise, StreamFits, Extends, flow, client
  <2>4. ~Closed
    <3>1. handled # Len(published)
      <4>1. PICK h \in Nat, l \in Nat : h = handled /\ l = Len(published)
        BY <1>2
      <4>2. h < l
        BY <2>1, <4>1
      <4> QED BY <4>1, <4>2
    <3> QED BY <3>1, OpenStream
  <2>5. MovesOn(record.state, record'.state)
    BY <1>1, Moves DEF ViewsTyped, RunFields, States, flow
  <2> QED BY <1>1, <2>2, <2>3, <2>4, <2>5 DEF FlowFit, FlowOn
<1>4. CASE StreamEnds
  <2>1. PICK i \in 1..handled : published[i].type \in {"done", "error"} /\ ended' = i
    BY <1>4 DEF StreamEnds
  <2>2. handled' = handled /\ ended = 0
    BY <1>4 DEF StreamEnds
  <2>3. ended' \in Nat /\ ended' <= handled /\ RunEnds(published[ended'].type)
    BY <1>2, <2>1 DEF RunEnds
  <2>4. since = 0
    BY <1>2, <2>2 DEF StreamFits, ViewsTyped
  <2>5. ViewsTyped' /\ ThreadFits'
    BY <1>1, <2>2, <2>3 DEF ViewsTyped, ThreadFits, ToWrite, ToRaise, flow, client
  <2>6. StreamFits'
    BY <1>1, <2>2, <2>3, <2>4 DEF StreamFits, flow, client
  <2>7. ~Closed /\ Extends /\ handled <= handled'
    BY <1>1, <1>2, <2>2, OpenStream DEF Extends, flow
  <2>8. MovesOn(record.state, record'.state)
    BY <1>1, Moves DEF ViewsTyped, RunFields, States, flow
  <2> QED BY <1>1, <2>5, <2>6, <2>7, <2>8 DEF FlowFit, FlowOn
<1> QED BY <1>3, <1>4

(* Each step of the run keeps the invariant.                               *)
LEMMA FlowStep ==
  ASSUME ViewsInv, ThreadStarts \/ Emit \/ FlowEnds \/ DemoEnds \/ RunRaises \/ WriteField \/ TellStream \/ LoopHandles \/ StreamEnds
  PROVE  ViewsInv'
<1>0. ViewsTyped /\ ThreadFits /\ StreamFits /\ ShownFits /\ ReadsFit /\ SeenFits
  BY DEF ViewsInv
<1>1. CASE FlowEnds
  <2>1. PICK state \in {"done", "failed"}, pr \in BOOLEAN : Ends(state, pr, FieldWrites)
    BY <1>1 DEF FlowEnds
  <2>2. UNCHANGED <<published, handled>>
    BY <1>1 DEF FlowEnds
  <2> QED BY <1>0, <2>1, <2>2, EndFits, FlowFits DEF FlowFit, ViewsInv
<1>2. CASE DemoEnds
  BY <1>0, <1>2, EndFits, FlowFits DEF FlowFit, ViewsInv, DemoEnds
<1>3. CASE RunRaises
  BY <1>0, <1>3, EndFits, FlowFits DEF FlowFit, ViewsInv, RunRaises
<1>4. CASE ThreadStarts \/ Emit \/ WriteField \/ TellStream \/ LoopHandles \/ StreamEnds
  <2>1. FlowFit
    BY <1>0, <1>4, StartFits, EmitFits, FieldFits, TellFits, LoopFits
  <2> QED BY <1>0, <2>1, FlowFits DEF FlowFit, ViewsInv
<1> QED BY <1>1, <1>2, <1>3, <1>4

(* The client asks, reads and is answered.                                 *)
LEMMA ClientStep ==
  ASSUME ViewsInv, (\E kind \in DOMAIN Reads : Ask(kind)) \/ ReadNext \/ ViewAnswered
  PROVE  ViewsInv'
<1>0. ViewsTyped /\ ThreadFits /\ StreamFits /\ ShownFits /\ ReadsFit /\ SeenFits
  BY DEF ViewsInv
<1>1. UNCHANGED <<loopBound, thread, due, outcome, record, published, handled, ended>>
  BY DEF Ask, ReadNext, ViewAnswered, flow
<1>2. ThreadFits'
  BY <1>0, <1>1 DEF ThreadFits, ToWrite, ToRaise
<1>3. CASE \E kind \in DOMAIN Reads : Ask(kind)
  <2>1. PICK kind \in DOMAIN Reads : asked' = kind /\ view' = [x \in {} |-> 0] /\ since' = ended /\ shown' = shown
    BY <1>3 DEF Ask
  <2>2. DOMAIN view' = {} /\ asked' # "none" /\ DOMAIN view' = FirstReads(asked', 0)
    BY <2>1 DEF Reads, FirstReads
  <2>3. ViewsTyped' /\ StreamFits' /\ ShownFits'
    BY <1>0, <1>1, <2>1 DEF ViewsTyped, StreamFits, ShownFits, LatestOfType
  <2>4. ReadsFit'
    <3>1. 0 \in 0..Len(Reads[kind])
      BY ReadsDiffer
    <3> QED BY <2>1, <2>2, <3>1 DEF ReadsFit, FirstReads
  <2>5. SeenFits'
    BY <2>2 DEF SeenFits, HistoryFits, StepFits, StateFits, VerdictFits, ReadinessFits, ClosedFits
  <2> QED BY <1>2, <2>3, <2>4, <2>5 DEF ViewsInv
<1>4. CASE ReadNext
  <2>1. ReadsFit' /\ SeenFits'
    BY <1>0, <1>4, ReadFits
  <2>2. UNCHANGED <<asked, shown, since>>
    BY <1>4 DEF ReadNext
  <2>3. ViewsTyped' /\ StreamFits' /\ ShownFits'
    BY <1>0, <1>1, <2>2 DEF ViewsTyped, StreamFits, ShownFits, LatestOfType
  <2> QED BY <1>2, <2>1, <2>3 DEF ViewsInv
<1>5. CASE ViewAnswered
  <2>1. /\ asked' = "none" /\ view' = [x \in {} |-> 0] /\ since' = 0 /\ DOMAIN view' = {}
        /\ shown' = [x \in DOMAIN shown |-> IF x \in DOMAIN view THEN view[x] ELSE shown[x]]
    BY <1>5 DEF ViewAnswered
  <2>2. shown \in [history : Nat, step : Nat, state : States] /\ DOMAIN shown = {"history", "step", "state"}
    BY <1>0 DEF ViewsTyped
  <2>3. /\ shown'.history = IF "history" \in DOMAIN view THEN view.history ELSE shown.history
        /\ shown'.step = IF "step" \in DOMAIN view THEN view.step ELSE shown.step
        /\ shown'.state = IF "state" \in DOMAIN view THEN view.state ELSE shown.state
        /\ shown' = [history |-> shown'.history, step |-> shown'.step, state |-> shown'.state]
    BY <2>1, <2>2
  <2>4. shown'.history \in Nat /\ shown'.history <= handled
    BY <1>0, <2>2, <2>3 DEF SeenFits, HistoryFits, ShownFits
  <2>5. shown'.step \in Nat /\ shown'.step <= LatestOfType("step", handled)
    BY <1>0, <2>2, <2>3 DEF SeenFits, StepFits, ShownFits
  <2>6. shown'.state \in States /\ MovesOn(shown'.state, record.state)
    BY <1>0, <2>2, <2>3 DEF SeenFits, StateFits, ShownFits
  <2>7. shown' \in [history : Nat, step : Nat, state : States]
    BY <2>3, <2>4, <2>5, <2>6
  <2>8. ViewsTyped' /\ StreamFits'
    BY <1>0, <1>1, <2>1, <2>7 DEF ViewsTyped, StreamFits
  <2>9. ShownFits'
    BY <1>1, <2>4, <2>5, <2>6 DEF ShownFits, LatestOfType
  <2>10. ReadsFit' /\ SeenFits'
    BY <2>1 DEF ReadsFit, SeenFits, HistoryFits, StepFits, StateFits, VerdictFits, ReadinessFits, ClosedFits
  <2> QED BY <1>2, <2>8, <2>9, <2>10 DEF ViewsInv
<1> QED BY <1>3, <1>4, <1>5

(* Nothing has been published and nothing shown at the start.              *)
LEMMA ViewsStart ==
  ASSUME RunViewsInit
  PROVE  ViewsInv
<1>1. /\ loopBound \in BOOLEAN /\ thread = "new" /\ due = <<>> /\ record = Fresh("queued") /\ outcome = record
      /\ published = <<>> /\ handled = 0 /\ ended = 0 /\ asked = "none" /\ view = [x \in {} |-> 0] /\ since = 0
      /\ shown = [history |-> 0, step |-> 0, state |-> "queued"]
  BY DEF RunViewsInit, Fresh
<1>2. Fresh("queued") \in RunFields /\ Fresh("queued").state = "queued"
  BY FreshIs DEF States
<1>3. published \in Seq(RunEvent) /\ Len(published) = 0 /\ DOMAIN published = {}
  BY <1>1
<1>4. shown \in [history : Nat, step : Nat, state : States]
  BY <1>1 DEF States
<1>5. ViewsTyped
  BY <1>1, <1>2, <1>3, <1>4 DEF ViewsTyped
<1>6. ThreadFits
  BY <1>1 DEF ThreadFits
<1>7. StreamFits
  BY <1>1, <1>3 DEF StreamFits
<1>8. ShownFits
  <2>1. LatestOfType("step", 0) \in Nat
    BY NewestOfType, NewestIs
  <2>2. shown.history = 0 /\ shown.step = 0 /\ shown.state = "queued"
    BY <1>1
  <2>3. MovesOn(shown.state, record.state)
    BY <1>1, <1>2, <2>2, Moves DEF States
  <2> QED BY <1>1, <2>1, <2>2, <2>3 DEF ShownFits
<1>9. DOMAIN view = {}
  BY <1>1
<1>10. ReadsFit /\ SeenFits
  BY <1>1, <1>9 DEF ReadsFit, SeenFits, HistoryFits, StepFits, StateFits, VerdictFits, ReadinessFits, ClosedFits
<1> QED BY <1>5, <1>6, <1>7, <1>8, <1>10 DEF ViewsInv

(* The invariant is inductive ...                                          *)
LEMMA ViewsStep ==
  ASSUME ViewsInv, [RunViewsNext]_viewVars
  PROVE  ViewsInv'
<1>1. CASE UNCHANGED viewVars
  <2>0. UNCHANGED <<loopBound, thread, due, outcome, record, published, handled, ended, asked, view, shown, since>>
    BY <1>1 DEF viewVars, flow, client
  <2>1. ViewsTyped' /\ ThreadFits' /\ StreamFits' /\ ShownFits' /\ ReadsFit'
    BY <2>0 DEF ViewsInv, ViewsTyped, ThreadFits, ToWrite, ToRaise, StreamFits, ShownFits, ReadsFit, LatestOfType
  <2>2. HistoryFits' /\ StepFits' /\ StateFits' /\ VerdictFits' /\ ReadinessFits'
    BY <2>0 DEF ViewsInv, SeenFits, HistoryFits, StepFits, StateFits, VerdictFits, ReadinessFits, LatestOfType, Bundled
  <2>3. ClosedFits'
    <3>1. \A x : Value(x)' = Value(x)
      BY <2>0 DEF Value, LatestOfType, Readiness, Gate, Finalized, Bundled
    <3> QED BY <2>0, <3>1 DEF ViewsInv, SeenFits, ClosedFits, Closed
  <2> QED BY <2>1, <2>2, <2>3 DEF ViewsInv, SeenFits
<1> QED BY <1>1, FlowStep, ClientStep DEF RunViewsNext

(* ... and says that the views hold.                                       *)
LEMMA ViewsKeep ==
  ASSUME ViewsInv
  PROVE  ViewsHold
<1>0. ViewsTyped /\ ThreadFits /\ StreamFits /\ ShownFits /\ ReadsFit /\ SeenFits
  BY DEF ViewsInv
<1>1. NeverBack
  <2>1. \A x \in DOMAIN view \cap {"history", "step"} : view[x] >= shown[x]
    <3>1. "history" \in DOMAIN view => view["history"] >= shown["history"]
      BY <1>0 DEF SeenFits, HistoryFits, ViewsTyped
    <3>2. "step" \in DOMAIN view => view["step"] >= shown["step"]
      BY <1>0 DEF SeenFits, StepFits, ViewsTyped
    <3> QED BY <3>1, <3>2
  <2>2. "state" \in DOMAIN view =>
          StageOf(view.state) >= StageOf(shown.state) /\ (Over(shown.state) => view.state = shown.state)
    <3>1. \A a, b \in States : MovesOn(a, b) => StageOf(b) >= StageOf(a) /\ (Over(a) => b = a)
      <4>1. \A a \in States : StageOf(a) \in {0, 1, 2}
        BY DEF StageOf
      <4> QED BY <4>1 DEF MovesOn
    <3>2. shown.state \in States
      BY <1>0 DEF ViewsTyped
    <3> QED BY <1>0, <3>1, <3>2 DEF SeenFits, StateFits
  <2>3. "final" \in DOMAIN view /\ Over(shown.state) /\ Bundled(view.history) => view.final
    BY <1>0 DEF SeenFits, VerdictFits
  <2>4. "readiness" \in DOMAIN view /\ shown.state = "done" => view.readiness = "auto_publish"
    BY <1>0 DEF SeenFits, ReadinessFits
  <2>5. "gate" \in DOMAIN view /\ shown.state = "done" => view.gate = IF view.history > 0 THEN "pass" ELSE "pending"
    BY <1>0 DEF SeenFits, VerdictFits
  <2> QED BY <2>1, <2>2, <2>3, <2>4, <2>5 DEF NeverBack
<1>2. PartsAgree
  <2>1. {"history", "step"} \subseteq DOMAIN view => LatestOfType("step", view.history) <= view.step
    BY <1>0 DEF SeenFits, StepFits
  <2>2. ASSUME {"readiness", "failed"} \subseteq DOMAIN view, view.readiness = "auto_publish"
        PROVE  view.state = "done" /\ ~view.failed
    <3>1. "state" \in DOMAIN view
      BY <1>0, <2>2, ReadOrder DEF ReadsFit, ViewsTyped
    <3> QED BY <1>0, <2>2, <3>1 DEF SeenFits, ReadinessFits
  <2> QED BY <2>1, <2>2 DEF PartsAgree
<1>3. CompleteAfterStream
  <2> SUFFICES ASSUME asked # "none", Complete, since > 0, published[since].from = "manager"
               PROVE  /\ \A x \in DOMAIN view \cap DOMAIN record : view[x] = outcome[x]
                      /\ "history" \in DOMAIN view => view.history = Len(published)
                      /\ asked = "evidence" /\ Bundled(Len(published)) => view.final
                      /\ asked = "quality" /\ outcome.state = "done" => view.gate = "pass"
                      /\ asked = "agent" =>
                           NextAction(view) = IF outcome.failed THEN "inspect" ELSE IF outcome.pr THEN "review PR" ELSE "close out"
    BY DEF CompleteAfterStream
  <2>1. Closed /\ \A x \in DOMAIN view : view[x] = Value(x)
    BY <1>0 DEF Closed, SeenFits, ClosedFits
  <2>2. thread = "ended" /\ handled = Len(published) /\ since \in Nat /\ since = Len(published)
    BY <1>0, <2>1, ClosedEnded DEF ViewsTyped
  <2>3. record = outcome /\ outcome \in Outcomes /\ DOMAIN record = {"state", "failed", "pr"}
    BY <1>0, <2>2 DEF ThreadFits, ViewsTyped, RunFields
  <2>4. \A x \in DOMAIN view \cap DOMAIN record : view[x] = outcome[x]
    <3>1. \A x \in {"state", "failed", "pr"} : Value(x) = record[x]
      BY DEF Value
    <3> QED BY <2>1, <2>3, <3>1
  <2>5. "history" \in DOMAIN view => view.history = Len(published)
    <3>1. Value("history") = handled
      BY DEF Value
    <3> QED BY <2>1, <2>2, <3>1
  <2>6. ASSUME asked = "evidence", Bundled(Len(published)) PROVE view.final
    <3>1. DOMAIN view = {"history", "final"}
      <4>1. Reads[asked] = EvidenceReads
        BY <2>6 DEF Reads
      <4>2. DOMAIN view = Range(EvidenceReads)
        BY <4>1 DEF Complete
      <4> QED BY <4>2 DEF Range, EvidenceReads
    <3>2. view.history = Len(published) /\ view["final"] = Value("final")
      BY <2>1, <2>5, <3>1
    <3>3. Value("final") = Finalized(view.history, record)
      BY DEF Value
    <3>4. Over(record.state)
      BY <2>3, OutcomeFields DEF Over
    <3> QED BY <2>6, <3>2, <3>3, <3>4 DEF Finalized
  <2>7. ASSUME asked = "quality", outcome.state = "done" PROVE view.gate = "pass"
    <3>1. DOMAIN view = {"history", "gate"}
      <4>1. Reads[asked] = GateReads
        BY <2>7 DEF Reads
      <4>2. DOMAIN view = Range(GateReads)
        BY <4>1 DEF Complete
      <4> QED BY <4>2 DEF Range, GateReads
    <3>2. view.history = Len(published) /\ view["gate"] = Value("gate")
      BY <2>1, <2>5, <3>1
    <3>3. Value("gate") = Gate(view.history, record)
      BY DEF Value
    <3>4. record.state = "done" /\ record.failed = FALSE
      BY <1>0, <2>3, <2>7, DoneClean
    <3>5. view.history # 0
      BY <2>2, <3>2
    <3> QED BY <3>2, <3>3, <3>4, <3>5 DEF Gate
  <2>8. ASSUME asked = "agent"
        PROVE  NextAction(view) = IF outcome.failed THEN "inspect" ELSE IF outcome.pr THEN "review PR" ELSE "close out"
    <3>1. {"state", "failed", "pr"} \subseteq DOMAIN view
      <4>1. Reads[asked] = AgentReads
        BY <2>8 DEF Reads
      <4>2. DOMAIN view = Range(AgentReads)
        BY <4>1 DEF Complete
      <4> QED BY <4>2 DEF Range, AgentReads
    <3>2. view["state"] = outcome["state"] /\ view["pr"] = outcome["pr"]
      BY <2>3, <2>4, <3>1
    <3>3. /\ outcome.state \in {"done", "failed"} /\ (outcome.state = "done" => outcome.failed = FALSE)
          /\ (outcome.state = "failed" => outcome.failed = TRUE)
      <4>1. \A o \in Outcomes : (o.state = "done" => o.failed = FALSE) /\ (o.state = "failed" => o.failed = TRUE)
        BY DEF Outcomes
      <4> QED BY <2>3, <4>1, OutcomeFields
    <3>4. CASE outcome.state = "done"
      <4>1. NextAction(view) = IF view.pr THEN "review PR" ELSE "close out"
        BY <3>2, <3>4 DEF NextAction
      <4>2. outcome.failed = FALSE
        BY <3>3, <3>4
      <4> QED BY <3>2, <4>1, <4>2
    <3>5. CASE outcome.state = "failed"
      <4>1. NextAction(view) = "inspect"
        BY <3>2, <3>5 DEF NextAction
      <4>2. outcome.failed = TRUE
        BY <3>3, <3>5
      <4> QED BY <4>1, <4>2
    <3> QED BY <3>3, <3>4, <3>5
  <2> QED BY <2>4, <2>5, <2>6, <2>7, <2>8
<1> QED BY <1>1, <1>2, <1>3 DEF ViewsHold

(* A client that reads while the thread writes is never shown less than    *)
(* before, never a step older than the timeline beside it, nor a run as    *)
(* fit to publish that is not done or has failed; and after the manager's  *)
(* own event has closed its stream it is shown the whole run as it ended   *)
(* (events.py:34-42, manager.py:60-83, agent_status.py:16-19,              *)
(* control_plane.py:85-104, status_answer.py:79-93), for any events a flow *)
(* emits and any number of them.                                           *)
THEOREM ViewsHoldKept ==
  RunViewsSpec => []ViewsHold
<1>1. RunViewsSpec => []ViewsInv
  BY ViewsStart, ViewsStep, PTL DEF RunViewsSpec
<1>2. ViewsInv => ViewsHold
  BY ViewsKeep
<1> QED BY <1>1, <1>2, PTL

(* What a view has read so far is of its own reads.                        *)
THEOREM RunViewsTypeOKKept == RunViewsSpec => []RunViewsTypeOK
<1>1. ViewsInv => RunViewsTypeOK
  <2> SUFFICES ASSUME ViewsInv PROVE RunViewsTypeOK
    OBVIOUS
  <2> USE DEF ViewsInv
  <2>1. thread \in {"new", "flow", "ending", "ended"} /\ due \in Seq({"state", "failed", "pr", "done", "error"})
    <3>1. \/ due = <<>> \/ due = <<"done">> \/ due = <<"error">> \/ due = <<"pr", "done">> \/ due = <<"failed", "error">>
          \/ due = <<"failed", "pr", "done">> \/ due = <<"state", "failed", "error">>
          \/ due = <<"state", "failed", "pr", "done">>
      BY DEF ThreadFits, ToWrite, ToRaise
    <3>2. thread \in {"new", "flow", "ending", "ended"}
      BY DEF ThreadFits
    <3> DEFINE Steps == {"state", "failed", "pr", "done", "error"}
    <3>3. /\ <<>> \in Seq(Steps) /\ <<"done">> \in Seq(Steps) /\ <<"error">> \in Seq(Steps)
          /\ <<"pr", "done">> \in Seq(Steps) /\ <<"failed", "error">> \in Seq(Steps)
      OBVIOUS
    <3>4. <<"failed", "pr", "done">> \in Seq(Steps) /\ <<"state", "failed", "error">> \in Seq(Steps)
      OBVIOUS
    <3>5. <<"state", "failed", "pr", "done">> \in Seq(Steps)
      OBVIOUS
    <3>6. due \in Seq(Steps)
      BY <3>1, <3>3, <3>4, <3>5
    <3> QED BY <3>2, <3>6
  <2>2. /\ loopBound \in BOOLEAN /\ {outcome, record} \subseteq RunFields
        /\ published \in Seq(RunEvent) /\ asked \in {"none"} \cup DOMAIN Reads
    BY DEF ViewsTyped
  <2>3. handled \in 0..Len(published) /\ ended \in 0..handled
    BY DEF ViewsTyped
  <2>4. since \in 0..ended
    BY DEF ViewsTyped, StreamFits
  <2>5. ASSUME asked # "none" PROVE DOMAIN view \subseteq Range(Reads[asked])
    <3>1. PICK n \in 0..Len(Reads[asked]) : DOMAIN view = FirstReads(asked, n)
      BY <2>5 DEF ReadsFit
    <3>2. asked \in DOMAIN Reads
      BY <2>2, <2>5
    <3>3. Len(Reads[asked]) \in Nat /\ Range(Reads[asked]) = FirstReads(asked, Len(Reads[asked]))
      BY <3>2, ReadsDiffer
    <3>4. n \in 1..Len(Reads[asked]) \cup {0} /\ \A i \in 1..n : i \in 1..Len(Reads[asked])
      BY <3>3
    <3> QED BY <3>1, <3>3, <3>4 DEF FirstReads
  <2> QED BY <2>1, <2>2, <2>3, <2>4, <2>5 DEF RunViewsTypeOK
<1>2. RunViewsSpec => []ViewsInv
  BY ViewsStart, ViewsStep, PTL DEF RunViewsSpec
<1> QED BY <1>1, <1>2, PTL

------------------------------------------------------------------------------
(* The tools of the MCP server.  What a log says, for any log.             *)
ParsedLine == [kind : {"tuple", "status"}, id : TupleIds, status : Status]
LogIs(said) == said \in Seq(LogLine) /\ said # <<>>
ParsedIn(said) == {i \in DOMAIN said : said[i].kind \in {"tuple", "status"}}
HeldIn(said) == {said[i].id : i \in {j \in ParsedIn(said) : said[j].kind = "tuple"}}
OnLine(said, id, i) == i \in ParsedIn(said) /\ said[i].id = id
LatestLine(said, id, i) == OnLine(said, id, i) /\ \A j \in ParsedIn(said) : said[j].id = id => j <= i
StatusIn(said, id) ==
  said[CHOOSE i \in ParsedIn(said) : said[i].id = id /\ \A j \in ParsedIn(said) : said[j].id = id => j <= i].status
RevivedIn(said, id) ==
  \E i, j \in ParsedIn(said) :
    /\ i < j /\ said[i].id = id /\ said[j].id = id
    /\ said[i].status \in {"completed", "err"} /\ said[j].status = "emitted"
GluedIn(said) == {i \in DOMAIN said : said[i].kind = "glued"}

(* Of the operators of the module.                                         *)
LEMMA LogSays ==
  /\ Parsed = ParsedIn(logLines) /\ Held = HeldIn(logLines)
  /\ \A id : StatusOf(id) = StatusIn(logLines, id) /\ Revived(id) = RevivedIn(logLines, id)
  BY DEF Parsed, ParsedIn, Held, HeldIn, StatusOf, StatusIn, Revived, RevivedIn

(* What the lines of a log are.                                            *)
LEMMA LogLines ==
  ASSUME NEW said, LogIs(said)
  PROVE  /\ Len(said) \in Nat \ {0} /\ DOMAIN said = 1..Len(said) /\ Len(said) \in DOMAIN said /\ Last(said) = said[Len(said)]
         /\ ParsedIn(said) \subseteq 1..Len(said)
         /\ \A i \in DOMAIN said : said[i] \in LogLine
         /\ \A i \in ParsedIn(said) : said[i] \in ParsedLine
<1>1. Len(said) \in Nat \ {0} /\ DOMAIN said = 1..Len(said) /\ \A i \in DOMAIN said : said[i] \in LogLine
  BY DEF LogIs
<1>2. Last(said) = said[Len(said)] /\ Len(said) \in DOMAIN said
  BY <1>1 DEF Last
<1>3. ParsedIn(said) \subseteq 1..Len(said)
  BY <1>1 DEF ParsedIn
<1>4. \A i \in ParsedIn(said) : said[i] \in ParsedLine
  BY <1>1 DEF ParsedIn, LogLine, ParsedLine
<1> QED BY <1>1, <1>2, <1>3, <1>4

(* The latest line of an id tells its status.                              *)
LEMMA StatusIs ==
  ASSUME NEW said, LogIs(said), NEW id, NEW i, LatestLine(said, id, i)
  PROVE  StatusIn(said, id) = said[i].status
<1>1. ParsedIn(said) \subseteq Nat
  BY LogLines
<1> PICK c : c = CHOOSE m \in ParsedIn(said) : said[m].id = id /\ \A j \in ParsedIn(said) : said[j].id = id => j <= m
  OBVIOUS
<1>2. c \in ParsedIn(said) /\ said[c].id = id /\ \A j \in ParsedIn(said) : said[j].id = id => j <= c
  BY DEF LatestLine, OnLine
<1>3. i \in ParsedIn(said) /\ said[i].id = id /\ \A j \in ParsedIn(said) : said[j].id = id => j <= i
  BY DEF LatestLine, OnLine
<1>4. c <= i /\ i <= c /\ c \in Nat /\ i \in Nat
  BY <1>1, <1>2, <1>3
<1>5. c = i
  BY <1>4
<1> QED BY <1>5 DEF StatusIn

(* An id that has a line has a latest one.                                 *)
LEMMA LatestExists ==
  ASSUME NEW said, LogIs(said), NEW id, NEW n, OnLine(said, id, n)
  PROVE  \E i \in ParsedIn(said) : LatestLine(said, id, i)
<1> PICK T : T = {i \in ParsedIn(said) : said[i].id = id}
  OBVIOUS
<1>1. T \in SUBSET (1..Len(said)) /\ n \in T /\ Len(said) \in Nat
  BY LogLines DEF OnLine
<1>2. PICK i \in T : \A j \in T : j <= i
  BY <1>1, Greatest
<1>3. LatestLine(said, id, i)
  BY <1>2 DEF LatestLine, OnLine
<1> QED BY <1>2, <1>3

(* A tuple that is held has a line, hence a status.                        *)
LEMMA HeldHasStatus ==
  ASSUME NEW said, LogIs(said), NEW id \in HeldIn(said)
  PROVE  /\ id \in TupleIds /\ StatusIn(said, id) \in Status
         /\ \E n \in ParsedIn(said) : LatestLine(said, id, n)
<1>1. PICK n \in ParsedIn(said) : said[n].id = id
  BY DEF HeldIn
<1>2. OnLine(said, id, n)
  BY <1>1 DEF OnLine
<1>3. PICK i \in ParsedIn(said) : LatestLine(said, id, i)
  BY <1>2, LatestExists
<1>4. StatusIn(said, id) = said[i].status
  BY <1>3, StatusIs
<1>5. said[i] \in ParsedLine /\ said[i].id = id
  BY <1>3, LogLines DEF LatestLine, OnLine
<1> QED BY <1>3, <1>4, <1>5 DEF ParsedLine

------------------------------------------------------------------------------
(* A line that tells nothing, and one that does.                           *)
SaysNoMore(said, told) == ParsedIn(told) = ParsedIn(said) /\ \A i \in ParsedIn(said) : told[i] = said[i]

SaysMore(said, told, line) ==
  /\ ParsedIn(told) = ParsedIn(said) \cup {Len(said) + 1}
  /\ told[Len(said) + 1] = line /\ \A i \in ParsedIn(said) : told[i] = said[i]

(* The end of a log that is torn and glued to, and what is appended to it. *)
LEMMA GluedOn ==
  ASSUME NEW said, LogIs(said), Last(said).kind = "torn", NEW kind \in {"torn", "glued"},
         NEW told, told = [said EXCEPT ![Len(said)] = [kind |-> kind]]
  PROVE  /\ LogIs(told) /\ Len(told) = Len(said) /\ Last(told).kind = kind /\ SaysNoMore(said, told)
         /\ Len(said) \notin GluedIn(said)
         /\ GluedIn(told) = GluedIn(said) \cup {n \in {Len(said)} : kind = "glued"}
<1> PICK n : n = Len(said)
  OBVIOUS
<1>1. n \in Nat \ {0} /\ DOMAIN said = 1..n /\ n \in DOMAIN said /\ said[n].kind = "torn"
  BY LogLines
<1> PICK new : new = [kind |-> kind]
  OBVIOUS
<1>2. new \in LogLine /\ new.kind = kind
  BY DEF LogLine
<1>3. /\ told \in Seq(LogLine) /\ Len(told) = n /\ DOMAIN told = DOMAIN said
      /\ told[n] = new /\ \A j \in DOMAIN said \ {n} : told[j] = said[j]
  BY <1>1, <1>2, Rewritten DEF LogIs
<1>4. LogIs(told) /\ Last(told) = told[n]
  BY <1>1, <1>3 DEF LogIs, Last
<1>5. SaysNoMore(said, told)
  BY <1>1, <1>2, <1>3 DEF SaysNoMore, ParsedIn
<1>6. n \notin GluedIn(said)
  BY <1>1 DEF GluedIn
<1>7. GluedIn(told) = GluedIn(said) \cup {m \in {n} : kind = "glued"}
  <2>1. \A j \in DOMAIN said : told[j].kind = "glued" <=> (said[j].kind = "glued" \/ (j = n /\ kind = "glued"))
    BY <1>1, <1>2, <1>3
  <2> QED BY <1>1, <1>3, <2>1 DEF GluedIn
<1> QED BY <1>2, <1>3, <1>4, <1>5, <1>6, <1>7

(* The log after a line that was appended to one that ends properly.       *)
LEMMA AppendedTo ==
  ASSUME NEW said, LogIs(said), NEW line \in LogLine, NEW told, told = Append(said, line)
  PROVE  /\ LogIs(told) /\ Len(told) = Len(said) + 1 /\ Last(told) = line
         /\ line.kind \in {"torn", "glued"} => SaysNoMore(said, told)
         /\ line.kind \in {"tuple", "status"} => SaysMore(said, told, line)
         /\ line.kind # "glued" => GluedIn(told) = GluedIn(said)
<1> PICK n : n = Len(said)
  OBVIOUS
<1>1. n \in Nat \ {0} /\ DOMAIN said = 1..n
  BY LogLines
<1>2. /\ told \in Seq(LogLine) /\ Len(told) = n + 1 /\ DOMAIN told = 1..(n + 1)
      /\ told[n + 1] = line /\ \A j \in 1..n : told[j] = said[j]
  BY <1>1 DEF LogIs
<1>3. LogIs(told) /\ Last(told) = line
  BY <1>1, <1>2 DEF LogIs, Last
<1>4. 1..(n + 1) = 1..n \cup {n + 1}
  BY <1>1
<1>5. ParsedIn(told) = ParsedIn(said) \cup {m \in {n + 1} : line.kind \in {"tuple", "status"}}
  BY <1>1, <1>2, <1>4 DEF ParsedIn
<1>6. \A i \in ParsedIn(said) : told[i] = said[i]
  BY <1>1, <1>2 DEF ParsedIn
<1>7. line.kind # "glued" => GluedIn(told) = GluedIn(said)
  BY <1>1, <1>2, <1>4 DEF GluedIn
<1> QED BY <1>1, <1>2, <1>3, <1>5, <1>6, <1>7 DEF SaysNoMore, SaysMore

(* Whatever is asked of a log has the same answer when it says no more.    *)
LEMMA NoMoreTold ==
  ASSUME NEW said, NEW told, LogIs(said), LogIs(told), SaysNoMore(said, told)
  PROVE  /\ HeldIn(told) = HeldIn(said)
         /\ \A id \in HeldIn(said) : StatusIn(told, id) = StatusIn(said, id)
         /\ \A id : RevivedIn(said, id) => RevivedIn(told, id)
<1>1. ParsedIn(told) = ParsedIn(said) /\ \A i \in ParsedIn(said) : told[i] = said[i]
  BY DEF SaysNoMore
<1>2. HeldIn(told) = HeldIn(said)
  BY <1>1 DEF HeldIn
<1>3. ASSUME NEW id \in HeldIn(said) PROVE StatusIn(told, id) = StatusIn(said, id)
  <2>1. PICK i \in ParsedIn(said) : LatestLine(said, id, i)
    BY HeldHasStatus
  <2>2. LatestLine(told, id, i)
    BY <1>1, <2>1 DEF LatestLine, OnLine
  <2>3. StatusIn(said, id) = said[i].status /\ StatusIn(told, id) = told[i].status
    BY <2>1, <2>2, StatusIs
  <2> QED BY <1>1, <2>3
<1>4. ASSUME NEW id, RevivedIn(said, id) PROVE RevivedIn(told, id)
  BY <1>1, <1>4 DEF RevivedIn
<1> QED BY <1>2, <1>3, <1>4

(* A line more is the latest of its id, and of no other.                   *)
LEMMA MoreTold ==
  ASSUME NEW said, NEW told, NEW line \in ParsedLine, LogIs(said), LogIs(told), SaysMore(said, told, line)
  PROVE  /\ HeldIn(told) = HeldIn(said) \cup {id \in {line.id} : line.kind = "tuple"}
         /\ StatusIn(told, line.id) = line.status
         /\ \A id \in HeldIn(said) \ {line.id} : StatusIn(told, id) = StatusIn(said, id)
         /\ \A id : RevivedIn(said, id) => RevivedIn(told, id)
         /\ line.id \in HeldIn(said) /\ StatusIn(said, line.id) \in {"completed", "err"} /\ line.status = "emitted" =>
              RevivedIn(told, line.id)
<1> PICK n : n = Len(said)
  OBVIOUS
<1>1. /\ ParsedIn(told) = ParsedIn(said) \cup {n + 1} /\ told[n + 1] = line
      /\ \A i \in ParsedIn(said) : told[i] = said[i]
  BY DEF SaysMore
<1>2. n \in Nat /\ \A i \in ParsedIn(said) : i \in Nat /\ i <= n /\ i < n + 1 /\ i <= n + 1 /\ i # n + 1
  BY LogLines
<1>3. HeldIn(told) = HeldIn(said) \cup {id \in {line.id} : line.kind = "tuple"}
  <2>1. ASSUME NEW id \in HeldIn(told) PROVE id \in HeldIn(said) \cup {m \in {line.id} : line.kind = "tuple"}
    <3>1. PICK i \in ParsedIn(told) : told[i].kind = "tuple" /\ told[i].id = id
      BY DEF HeldIn
    <3>2. CASE i = n + 1
      BY <1>1, <3>1, <3>2
    <3>3. CASE i \in ParsedIn(said)
      BY <1>1, <3>1, <3>3 DEF HeldIn
    <3> QED BY <1>1, <3>1, <3>2, <3>3
  <2>2. ASSUME NEW id \in HeldIn(said) PROVE id \in HeldIn(told)
    <3>1. PICK i \in ParsedIn(said) : said[i].kind = "tuple" /\ said[i].id = id
      BY DEF HeldIn
    <3>2. i \in ParsedIn(told) /\ told[i] = said[i]
      BY <1>1, <3>1
    <3> QED BY <3>1, <3>2 DEF HeldIn
  <2>3. line.kind = "tuple" => line.id \in HeldIn(told)
    <3>1. n + 1 \in ParsedIn(told)
      BY <1>1
    <3> QED BY <1>1, <3>1 DEF HeldIn
  <2> QED BY <2>1, <2>2, <2>3
<1>4. StatusIn(told, line.id) = line.status
  <2>1. LatestLine(told, line.id, n + 1)
    BY <1>1, <1>2 DEF LatestLine, OnLine
  <2> QED BY <1>1, <2>1, StatusIs
<1>5. ASSUME NEW id \in HeldIn(said) \ {line.id} PROVE StatusIn(told, id) = StatusIn(said, id)
  <2>1. PICK i \in ParsedIn(said) : LatestLine(said, id, i)
    BY HeldHasStatus
  <2>2. LatestLine(told, id, i)
    BY <1>1, <2>1 DEF LatestLine, OnLine
  <2>3. StatusIn(said, id) = said[i].status /\ StatusIn(told, id) = told[i].status
    BY <2>1, <2>2, StatusIs
  <2> QED BY <1>1, <2>3
<1>6. ASSUME NEW id, RevivedIn(said, id) PROVE RevivedIn(told, id)
  <2>1. PICK i \in ParsedIn(said), j \in ParsedIn(said) :
          /\ i < j /\ said[i].id = id /\ said[j].id = id
          /\ said[i].status \in {"completed", "err"} /\ said[j].status = "emitted"
    BY <1>6 DEF RevivedIn
  <2>2. i \in ParsedIn(told) /\ j \in ParsedIn(told) /\ told[i] = said[i] /\ told[j] = said[j]
    BY <1>1, <2>1
  <2> QED BY <2>1, <2>2 DEF RevivedIn
<1>7. ASSUME line.id \in HeldIn(said), StatusIn(said, line.id) \in {"completed", "err"}, line.status = "emitted"
      PROVE  RevivedIn(told, line.id)
  <2>1. PICK i \in ParsedIn(said) : LatestLine(said, line.id, i)
    BY <1>7, HeldHasStatus
  <2>2. StatusIn(said, line.id) = said[i].status /\ said[i].id = line.id
    BY <2>1, StatusIs DEF LatestLine, OnLine
  <2>3. /\ i \in ParsedIn(told) /\ n + 1 \in ParsedIn(told) /\ i < n + 1
        /\ told[i] = said[i] /\ told[n + 1] = line
    BY <1>1, <1>2, <2>1
  <2> QED BY <1>7, <2>2, <2>3 DEF RevivedIn
<1> QED BY <1>3, <1>4, <1>5, <1>6, <1>7

------------------------------------------------------------------------------
(* What was told of a tuple stays told, whatever is written later.         *)
SaysStill(said, told) ==
  /\ HeldIn(said) \subseteq HeldIn(told)
  /\ \A id \in HeldIn(said) :
       /\ StatusIn(said, id) = "err" => StatusIn(told, id) = "err" \/ RevivedIn(told, id)
       /\ StatusIn(said, id) = "completed" => StatusIn(told, id) = "completed" \/ RevivedIn(told, id)
       /\ RevivedIn(said, id) => RevivedIn(told, id)

(* A line that tells nothing changes no status.                            *)
LEMMA NoMoreKeeps ==
  ASSUME NEW said, NEW told, LogIs(said), LogIs(told), SaysNoMore(said, told)
  PROVE  SaysStill(said, told)
  BY NoMoreTold DEF SaysStill

(* What has finished is only ever marked as emitted.                       *)
LEMMA MoreKeeps ==
  ASSUME NEW said, NEW told, NEW line \in ParsedLine, LogIs(said), LogIs(told), SaysMore(said, told, line),
         line.id \in HeldIn(said) /\ StatusIn(said, line.id) \in {"completed", "err"} => line.status = "emitted"
  PROVE  SaysStill(said, told)
<1>1. HeldIn(said) \subseteq HeldIn(told)
  BY MoreTold
<1> SUFFICES ASSUME NEW id \in HeldIn(said)
             PROVE  /\ StatusIn(said, id) = "err" => StatusIn(told, id) = "err" \/ RevivedIn(told, id)
                    /\ StatusIn(said, id) = "completed" => StatusIn(told, id) = "completed" \/ RevivedIn(told, id)
                    /\ RevivedIn(said, id) => RevivedIn(told, id)
  BY <1>1 DEF SaysStill
<1>2. RevivedIn(said, id) => RevivedIn(told, id)
  BY MoreTold
<1>3. CASE id = line.id
  BY <1>2, <1>3, MoreTold
<1>4. CASE id # line.id
  <2>1. StatusIn(told, id) = StatusIn(said, id)
    BY <1>4, MoreTold
  <2> QED BY <1>2, <2>1
<1> QED BY <1>3, <1>4

(* What inspect has read, after that many readings.                        *)
SeenIn(said, n, l) ==
  /\ n \in {1, 2, 3} => l["tuples"] \subseteq HeldIn(said)
  /\ n \in {2, 3} =>
       \A id \in l["tuples"] : id \in l["pending"] \/ StatusIn(said, id) \in {"completed", "err"} \/ RevivedIn(said, id)
  /\ n = 3 =>
       \A id \in l["tuples"] :
         id \in l["pending"] \cup l["completed"] \/ StatusIn(said, id) = "err" \/ RevivedIn(said, id)

(* What was read stays explained while the log says more.                  *)
LEMMA SeenStays ==
  ASSUME NEW said, NEW told, NEW n \in 0..3, NEW l, SaysStill(said, told), SeenIn(said, n, l)
  PROVE  SeenIn(told, n, l)
<1> SUFFICES ASSUME n \in {1, 2, 3} PROVE SeenIn(told, n, l)
  BY DEF SeenIn
<1>1. l["tuples"] \subseteq HeldIn(said) /\ HeldIn(said) \subseteq HeldIn(told)
  BY DEF SeenIn, SaysStill
<1>2. ASSUME NEW id \in l["tuples"], n \in {2, 3}
      PROVE  id \in l["pending"] \/ StatusIn(told, id) \in {"completed", "err"} \/ RevivedIn(told, id)
  BY <1>1, <1>2 DEF SeenIn, SaysStill
<1>3. ASSUME NEW id \in l["tuples"], n = 3
      PROVE  id \in l["pending"] \cup l["completed"] \/ StatusIn(told, id) = "err" \/ RevivedIn(told, id)
  BY <1>1, <1>3 DEF SeenIn, SaysStill
<1> QED BY <1>1, <1>2, <1>3 DEF SeenIn

(* Tuples a pool has not finished wait or are consumed.                    *)
TakenIn(said, taken) == taken \subseteq HeldIn(said) /\ \A id \in taken : StatusIn(said, id) \in {"emitted", "consumed"}

(* So for a line that tells nothing, and for one that does not finish.     *)
LEMMA TakenNoMore ==
  ASSUME NEW said, NEW told, NEW taken, LogIs(said), LogIs(told), SaysNoMore(said, told), TakenIn(said, taken)
  PROVE  TakenIn(told, taken)
  BY NoMoreTold DEF TakenIn

(* A tuple that is taken is only marked as waiting or consumed.            *)
LEMMA TakenMore ==
  ASSUME NEW said, NEW told, NEW line \in ParsedLine, NEW taken, LogIs(said), LogIs(told), SaysMore(said, told, line),
         TakenIn(said, taken), line.id \in taken => line.status \in {"emitted", "consumed"}
  PROVE  TakenIn(told, taken)
<1>1. /\ HeldIn(said) \subseteq HeldIn(told) /\ StatusIn(told, line.id) = line.status
      /\ \A id \in HeldIn(said) \ {line.id} : StatusIn(told, id) = StatusIn(said, id)
  BY MoreTold
<1> QED BY <1>1 DEF TakenIn

------------------------------------------------------------------------------
LogFits == LogIs(logLines) /\ Len(logLines) <= MaxLines /\ HeldIn(logLines) \subseteq 1..issued
IssuedFits ==
  /\ issued \in Nat \ {0} /\ tears \in 0..MaxTears
  /\ issued <= Len(logLines) + tears /\ (TornLast => issued < Len(logLines) + tears)
Reply == [to : Nat \ {0}, answer : {"result", "error"}]
SessionFits ==
  /\ frames \in Seq(Frame) /\ Len(frames) <= MaxFrames
  /\ server \in {"serving", "ended", "raised", "dead"}
  /\ served \in [frame : Nat, tool : {"none", "dispatch", "written", "inspect"}, reads : 0..3]
  /\ served.frame <= Len(frames)
  /\ served.tool # "none" => served.frame \in DOMAIN frames /\ frames[served.frame] # "initialized"
  /\ lists \in [ListNames -> SUBSET TupleIds]
  /\ replies \in Seq(Reply)
Lost == (returned \cup {n \in {issued} : served.tool = "written"}) \ HeldIn(logLines)
LostFits == returned \subseteq 1..issued /\ Cardinality(Lost) <= Cardinality(GluedIn(logLines))
PoolFits == pool = [taken |-> pool.taken, consumed |-> pool.consumed] /\ pool.consumed \subseteq pool.taken /\ TakenIn(logLines, pool.taken)
MarksFit == marks \in Seq(HeldIn(logLines)) /\ resumes \in 0..MaxResumes
ListsFit == SeenIn(logLines, served.reads, lists)

ToolInv == LogFits /\ IssuedFits /\ SessionFits /\ OneReplyEach /\ LostFits /\ PoolFits /\ MarksFit /\ ListsFit

(* At the start all of it holds.                                           *)
LEMMA ToolsInit == ToolServerInit => ToolInv
<1> SUFFICES ASSUME ToolServerInit PROVE ToolInv
  OBVIOUS
<1> PICK line : line = [kind |-> "tuple", id |-> 1, status |-> "emitted"]
  OBVIOUS
<1>0. MaxLines \in Nat \ {0} /\ MaxFrames \in Nat /\ MaxTears \in Nat /\ MaxResumes \in Nat
  BY ToolServerAssumption
<1>1. 1 \in TupleIds
  <2>1. MaxLines + MaxTears \in Nat \ {0}
    BY <1>0
  <2> QED BY <2>1 DEF TupleIds
<1>2. line \in LogLine /\ line.kind = "tuple" /\ line.id = 1
  BY <1>1 DEF LogLine, Status
<1>3. logLines = <<line>> /\ issued = 1 /\ tears = 0
  BY DEF ToolServerInit
<1>4. logLines \in Seq(LogLine) /\ Len(logLines) = 1 /\ DOMAIN logLines = {1} /\ logLines[1] = line /\ logLines # <<>>
  BY <1>2, <1>3
<1>5. HeldIn(logLines) = {1} /\ GluedIn(logLines) = {} /\ ~TornLast
  BY <1>2, <1>4 DEF HeldIn, ParsedIn, GluedIn, TornLast, Last
<1>6. LogFits /\ IssuedFits
  BY <1>0, <1>3, <1>4, <1>5 DEF LogFits, IssuedFits, LogIs
<1>7. /\ frames = <<>> /\ served = [frame |-> 0, tool |-> "none", reads |-> 0] /\ replies = <<>> /\ server = "serving"
      /\ lists = [what \in ListNames |-> {}] /\ returned = {} /\ pool = [taken |-> {}, consumed |-> {}]
      /\ marks = <<>> /\ resumes = 0
  BY DEF ToolServerInit, NoCall, NoLists
<1>8. SessionFits
  BY <1>0, <1>7 DEF SessionFits
<1>9. OneReplyEach
  <2>1. served.frame = 0 /\ DOMAIN replies = {} /\ 1..0 = {}
    BY <1>7
  <2> QED BY <2>1 DEF OneReplyEach
<1>10. LostFits
  <2>1. Lost = {} /\ GluedIn(logLines) = {}
    BY <1>5, <1>7 DEF Lost
  <2> QED BY <1>7, <2>1, FS_EmptySet DEF LostFits
<1>11. PoolFits /\ MarksFit /\ ListsFit
  BY <1>0, <1>7 DEF PoolFits, MarksFit, ListsFit, SeenIn, TakenIn
<1> QED BY <1>6, <1>8, <1>9, <1>10, <1>11 DEF ToolInv

------------------------------------------------------------------------------
(* What the client and the server do to their session.                     *)
Ascending(r) == \A j, k \in DOMAIN r : j < k => r[j].to < r[k].to
Targets(r) == {r[k].to : k \in DOMAIN r}

(* A reply to a frame later than those of all others.                      *)
LEMMA OneMoreReply ==
  ASSUME NEW r \in Seq(Reply), Ascending(r), NEW f \in Nat \ {0}, NEW answer \in {"result", "error"},
         \A k \in DOMAIN r : r[k].to < f, NEW r2, r2 = Append(r, [to |-> f, answer |-> answer])
  PROVE  r2 \in Seq(Reply) /\ Targets(r2) = Targets(r) \cup {f} /\ Ascending(r2)
<1> PICK new : new = [to |-> f, answer |-> answer]
  OBVIOUS
<1>1. new \in Reply /\ new.to = f
  BY DEF Reply
<1> PICK n : n = Len(r)
  OBVIOUS
<1>2. /\ n \in Nat /\ DOMAIN r = 1..n /\ r2 \in Seq(Reply) /\ DOMAIN r2 = 1..(n + 1)
      /\ r2[n + 1] = new /\ \A k \in 1..n : r2[k] = r[k]
  BY <1>1
<1>3. \A k : k \in 1..(n + 1) <=> k \in 1..n \/ k = n + 1
  BY <1>2
<1>4. Targets(r2) = Targets(r) \cup {f}
  <2>1. ASSUME NEW e \in Targets(r2) PROVE e \in Targets(r) \cup {f}
    BY <1>1, <1>2, <1>3, <2>1 DEF Targets
  <2>2. ASSUME NEW k \in DOMAIN r PROVE r[k].to \in Targets(r2)
    <3>1. k \in DOMAIN r2 /\ r2[k] = r[k]
      BY <1>2, <1>3
    <3> QED BY <3>1 DEF Targets
  <2>3. f \in Targets(r2)
    <3>1. n + 1 \in DOMAIN r2
      BY <1>2
    <3> QED BY <1>1, <1>2, <3>1 DEF Targets
  <2> QED BY <2>1, <2>2, <2>3 DEF Targets
<1>5. Ascending(r2)
  <2> SUFFICES ASSUME NEW j \in 1..(n + 1), NEW k \in 1..(n + 1), j < k PROVE r2[j].to < r2[k].to
    BY <1>2 DEF Ascending
  <2>1. j \in 1..n
    BY <1>2
  <2>2. CASE k \in 1..n
    BY <1>2, <2>1, <2>2 DEF Ascending
  <2>3. CASE k = n + 1
    BY <1>1, <1>2, <2>1, <2>3
  <2> QED BY <1>3, <2>2, <2>3
<1> QED BY <1>2, <1>4, <1>5

(* Which frames have an answer, when n of the frames s were taken.         *)
Dealt(s, n, tool) == {i \in 1..n : s[i] # "initialized" /\ (i = n => tool = "none")}

(* OneReplyEach, in these terms.                                           *)
LEMMA AnsweredFrames ==
  /\ OneReplyEach = (Targets(replies) = Dealt(frames, served.frame, served.tool) /\ Ascending(replies))
  /\ OneReplyEach' = (Targets(replies') = Dealt(frames', served'.frame, served'.tool) /\ Ascending(replies'))
  BY DEF OneReplyEach, Targets, Dealt, Ascending

(* An answer to the frame of a tool.                                       *)
LEMMA ReplyFits ==
  ASSUME SessionFits, OneReplyEach, served.tool # "none", NEW answer \in {"result", "error"}, Replies(answer)
  PROVE  SessionFits' /\ OneReplyEach' /\ served'.reads = 0 /\ served'.tool = "none" /\ UNCHANGED others
<1> PICK f : f = served.frame
  OBVIOUS
<1>1. /\ replies' = Append(replies, [to |-> f, answer |-> answer])
      /\ served' = [NoCall EXCEPT !.frame = f] /\ lists' = NoLists /\ UNCHANGED <<frames, server, others>>
  BY DEF Replies, To
<1>2. /\ f \in Nat \ {0} /\ f \in DOMAIN frames /\ frames[f] # "initialized" /\ f <= Len(frames)
      /\ replies \in Seq(Reply)
  BY DEF SessionFits
<1>3. served'.frame = f /\ served'.tool = "none" /\ served'.reads = 0
      /\ served' \in [frame : Nat, tool : {"none", "dispatch", "written", "inspect"}, reads : 0..3]
  BY <1>1, <1>2 DEF NoCall
<1>4. Targets(replies) = Dealt(frames, f, served.tool) /\ Ascending(replies)
  BY AnsweredFrames
<1>5. \A k \in DOMAIN replies : replies[k].to < f
  <2>1. \A i \in Dealt(frames, f, served.tool) : i < f
    BY <1>2 DEF Dealt
  <2> QED BY <1>4, <2>1 DEF Targets
<1>6. replies' \in Seq(Reply) /\ Targets(replies') = Targets(replies) \cup {f} /\ Ascending(replies')
  BY <1>1, <1>2, <1>4, <1>5, OneMoreReply
<1>7. Dealt(frames, f, "none") = Dealt(frames, f, served.tool) \cup {f}
  BY <1>2 DEF Dealt
<1>8. OneReplyEach'
  BY <1>1, <1>3, <1>4, <1>6, <1>7, AnsweredFrames
<1>9. lists' \in [ListNames -> SUBSET TupleIds]
  BY <1>1 DEF NoLists
<1>10. SessionFits'
  BY <1>1, <1>2, <1>3, <1>6, <1>9 DEF SessionFits
<1> QED BY <1>1, <1>3, <1>8, <1>10

(* A frame more at the end.                                                *)
LEMMA SendFits ==
  ASSUME SessionFits, OneReplyEach, NEW frame \in Frame, Send(frame)
  PROVE  SessionFits' /\ OneReplyEach'
<1> PICK s : s = frames
  OBVIOUS
<1>1. /\ s \in Seq(Frame) /\ Len(s) < MaxFrames /\ frames' = Append(s, frame)
      /\ UNCHANGED <<server, served, lists, replies>>
  BY DEF SessionFits, Send, toolCall
<1>2. /\ frames' \in Seq(Frame) /\ Len(s) \in Nat /\ DOMAIN s = 1..Len(s)
      /\ Len(frames') = Len(s) + 1 /\ DOMAIN frames' = 1..(Len(s) + 1) /\ \A i \in 1..Len(s) : frames'[i] = s[i]
  BY <1>1
<1>3. served.frame \in Nat /\ served.frame <= Len(s)
  BY DEF SessionFits
<1>4. Len(frames') <= MaxFrames /\ served.frame <= Len(frames')
  BY <1>1, <1>2, <1>3, ToolServerAssumption
<1>5. served'.tool # "none" => served'.frame \in DOMAIN frames' /\ frames'[served'.frame] # "initialized"
  <2>1. served.tool # "none" => served.frame \in 1..Len(s) /\ s[served.frame] # "initialized"
    BY <1>2 DEF SessionFits
  <2>2. \A i \in 1..Len(s) : i \in 1..(Len(s) + 1)
    BY <1>2
  <2> QED BY <1>1, <1>2, <2>1, <2>2
<1>6. SessionFits'
  BY <1>1, <1>2, <1>4, <1>5 DEF SessionFits
<1>7. Dealt(frames', served.frame, served.tool) = Dealt(s, served.frame, served.tool)
  <2>1. \A i \in 1..served.frame : i \in 1..Len(s)
    BY <1>2, <1>3
  <2> QED BY <1>2, <2>1 DEF Dealt
<1>8. OneReplyEach'
  BY <1>1, <1>7, AnsweredFrames
<1> QED BY <1>6, <1>8

(* The next frame is taken, and is answered at once or is a tool's.        *)
LEMMA NextFrame ==
  ASSUME SessionFits, AwaitsFrame, served.frame < Len(frames), NEW tool, OneReplyEach
  PROVE  /\ served.frame + 1 \in DOMAIN frames /\ served.frame + 1 \in Nat \ {0} /\ served.frame + 1 <= Len(frames)
         /\ Targets(replies) = Dealt(frames, served.frame, "none") /\ Ascending(replies)
         /\ \A k \in DOMAIN replies : replies[k].to < served.frame + 1
         /\ Dealt(frames, served.frame + 1, tool) =
              Dealt(frames, served.frame, "none") \cup
                {i \in {served.frame + 1} : frames[i] # "initialized" /\ tool = "none"}
<1> PICK n : n = served.frame
  OBVIOUS
<1>1. n \in Nat /\ n < Len(frames) /\ Len(frames) \in Nat /\ DOMAIN frames = 1..Len(frames) /\ served.tool = "none"
  BY DEF SessionFits, AwaitsFrame
<1>2. n + 1 \in 1..Len(frames) /\ n + 1 \in Nat \ {0} /\ n + 1 <= Len(frames)
  BY <1>1
<1>3. Targets(replies) = Dealt(frames, n, "none") /\ Ascending(replies)
  BY <1>1, AnsweredFrames
<1>4. \A k \in DOMAIN replies : replies[k].to < n + 1
  <2>1. \A i \in Dealt(frames, n, "none") : i < n + 1
    BY <1>1 DEF Dealt
  <2> QED BY <1>3, <2>1 DEF Targets
<1>5. Dealt(frames, n + 1, tool) =
        Dealt(frames, n, "none") \cup {i \in {n + 1} : frames[i] # "initialized" /\ tool = "none"}
  <2>1. \A i : i \in 1..(n + 1) <=> i \in 1..n \/ i = n + 1
    BY <1>1
  <2>2. \A i \in 1..n : i # n + 1
    BY <1>1
  <2> QED BY <2>1, <2>2 DEF Dealt
<1> QED BY <1>1, <1>2, <1>3, <1>4, <1>5

(* A frame that is handled at once.                                        *)
LEMMA HandleFits ==
  ASSUME SessionFits, OneReplyEach, HandleAtOnce
  PROVE  SessionFits' /\ OneReplyEach' /\ served'.tool = "none" /\ served'.reads = 0
<1> PICK f : f = served.frame + 1
  OBVIOUS
<1>1. /\ AwaitsFrame /\ served.frame < Len(frames) /\ frames[f] \in {"initialize", "initialized", "unknown"}
      /\ served' = [NoCall EXCEPT !.frame = f] /\ UNCHANGED <<frames, server, lists>>
  BY DEF HandleAtOnce, Due
<1>2. /\ f \in DOMAIN frames /\ f \in Nat \ {0} /\ f <= Len(frames) /\ Ascending(replies)
      /\ \A k \in DOMAIN replies : replies[k].to < f
      /\ Dealt(frames, f, "none") = Targets(replies) \cup {i \in {f} : frames[i] # "initialized" /\ "none" = "none"}
  BY <1>1, NextFrame
<1>3. served'.frame = f /\ served'.tool = "none" /\ served'.reads = 0
      /\ served' \in [frame : Nat, tool : {"none", "dispatch", "written", "inspect"}, reads : 0..3]
  BY <1>1, <1>2 DEF NoCall
<1>4. \/ frames[f] = "initialized" /\ replies' = replies
      \/ frames[f] # "initialized" /\ \E answer \in {"result", "error"} : replies' = Append(replies, [to |-> f, answer |-> answer])
  BY <1>1, <1>3 DEF HandleAtOnce, To
<1>5. replies \in Seq(Reply)
  BY DEF SessionFits
<1>6. replies' \in Seq(Reply) /\ Ascending(replies') /\ Targets(replies') = Dealt(frames, f, "none")
  <2>1. CASE frames[f] = "initialized"
    BY <1>2, <1>4, <1>5, <2>1
  <2>2. CASE frames[f] # "initialized"
    <3>1. PICK answer \in {"result", "error"} : replies' = Append(replies, [to |-> f, answer |-> answer])
      BY <1>4, <2>2
    <3>2. replies' \in Seq(Reply) /\ Targets(replies') = Targets(replies) \cup {f} /\ Ascending(replies')
      BY <1>2, <1>5, <3>1, OneMoreReply
    <3> QED BY <1>2, <2>2, <3>2
  <2> QED BY <2>1, <2>2
<1>7. OneReplyEach'
  BY <1>1, <1>3, <1>6, AnsweredFrames
<1>8. SessionFits'
  BY <1>1, <1>2, <1>3, <1>6 DEF SessionFits
<1> QED BY <1>3, <1>7, <1>8

(* A frame that calls a tool.                                              *)
LEMMA ToolCallFits ==
  ASSUME SessionFits, OneReplyEach, CallTool
  PROVE  SessionFits' /\ OneReplyEach' /\ served'.tool # "written" /\ served'.reads = 0
<1> PICK f : f = served.frame + 1
  OBVIOUS
<1>1. /\ AwaitsFrame /\ served.frame < Len(frames) /\ frames[f] \in {"dispatch", "inspect"}
      /\ served' = [NoCall EXCEPT !.frame = f, !.tool = frames[f]] /\ UNCHANGED <<frames, server, lists, replies>>
  BY DEF CallTool, Due
<1> PICK tool : tool = frames[f]
  OBVIOUS
<1>2. /\ f \in DOMAIN frames /\ f \in Nat \ {0} /\ f <= Len(frames) /\ Ascending(replies)
      /\ Dealt(frames, f, tool) = Targets(replies) \cup {i \in {f} : frames[i] # "initialized" /\ tool = "none"}
  BY <1>1, NextFrame
<1>3. tool \in {"dispatch", "inspect"} /\ served' = [frame |-> f, tool |-> tool, reads |-> 0]
  BY <1>1 DEF NoCall
<1>4. served'.frame = f /\ served'.tool = tool /\ served'.reads = 0
      /\ served' \in [frame : Nat, tool : {"none", "dispatch", "written", "inspect"}, reads : 0..3]
  BY <1>2, <1>3
<1>5. OneReplyEach'
  BY <1>1, <1>2, <1>3, <1>4, AnsweredFrames
<1>6. SessionFits'
  BY <1>1, <1>2, <1>3, <1>4 DEF SessionFits
<1> QED BY <1>3, <1>4, <1>5, <1>6

(* A frame that ends the loop.                                             *)
LEMMA EndsFits ==
  ASSUME SessionFits, OneReplyEach, ServeEnds
  PROVE  SessionFits' /\ OneReplyEach'
<1>1. server' \in {"ended", "raised"} /\ UNCHANGED <<frames, served, lists, replies>>
  BY DEF ServeEnds, toolCall
<1> QED BY <1>1 DEF SessionFits, OneReplyEach

(* A server that is started anew.                                          *)
LEMMA AgainFits ==
  ASSUME SessionFits, ServeAgain
  PROVE  SessionFits' /\ OneReplyEach' /\ served'.tool = "none" /\ served'.reads = 0
<1>1. /\ frames' = <<>> /\ served' = [frame |-> 0, tool |-> "none", reads |-> 0] /\ replies' = <<>>
      /\ server' = "serving" /\ lists' = [what \in ListNames |-> {}]
  BY DEF ServeAgain, NoCall, NoLists
<1>2. SessionFits'
  BY <1>1, ToolServerAssumption DEF SessionFits
<1>3. served'.frame = 0 /\ DOMAIN replies' = {} /\ 1..0 = {}
  BY <1>1
<1> QED BY <1>1, <1>2, <1>3 DEF OneReplyEach

------------------------------------------------------------------------------
(* A line of a tuple or a status: told, or glued to the one that is torn.  *)
WrittenIs(said, told, line) ==
  \/ /\ Last(said).kind = "torn" /\ Len(told) = Len(said) /\ SaysNoMore(said, told)
     /\ Len(said) \notin GluedIn(said) /\ GluedIn(told) = GluedIn(said) \cup {Len(said)}
  \/ /\ Last(said).kind # "torn" /\ Len(told) = Len(said) + 1 /\ SaysMore(said, told, line)
     /\ GluedIn(told) = GluedIn(said)

(* What writing such a line makes of the log.                              *)
LEMMA WrittenLine ==
  ASSUME LogFits, Room, NEW line \in ParsedLine, logLines' = WithLine(line)
  PROVE  /\ LogIs(logLines') /\ Len(logLines') <= MaxLines /\ ~TornLast'
         /\ WrittenIs(logLines, logLines', line)
<1>1. LogIs(logLines) /\ Len(logLines) \in Nat \ {0} /\ Len(logLines) < MaxLines /\ MaxLines \in Nat
  BY LogLines, ToolServerAssumption DEF LogFits, Room
<1>2. line \in LogLine /\ line.kind \in {"tuple", "status"}
  BY DEF ParsedLine, LogLine
<1>3. CASE TornLast
  <2>1. Last(logLines).kind = "torn" /\ logLines' = [logLines EXCEPT ![Len(logLines)] = [kind |-> "glued"]]
    BY <1>2, <1>3 DEF TornLast, WithLine
  <2>2. /\ LogIs(logLines') /\ Len(logLines') = Len(logLines) /\ Last(logLines').kind = "glued"
        /\ SaysNoMore(logLines, logLines') /\ Len(logLines) \notin GluedIn(logLines)
        /\ GluedIn(logLines') = GluedIn(logLines) \cup {n \in {Len(logLines)} : "glued" = "glued"}
    BY <1>1, <2>1, GluedOn
  <2>3. WrittenIs(logLines, logLines', line)
    BY <2>1, <2>2 DEF WrittenIs
  <2>4. ~TornLast'
    BY <2>2 DEF TornLast
  <2> QED BY <1>1, <2>2, <2>3, <2>4
<1>4. CASE ~TornLast
  <2>1. Last(logLines).kind # "torn" /\ logLines' = Append(logLines, line)
    BY <1>4 DEF TornLast, WithLine
  <2>2. /\ LogIs(logLines') /\ Len(logLines') = Len(logLines) + 1 /\ Last(logLines') = line
        /\ SaysMore(logLines, logLines', line) /\ GluedIn(logLines') = GluedIn(logLines)
    BY <1>1, <1>2, <2>1, AppendedTo
  <2> QED BY <1>1, <1>2, <2>1, <2>2 DEF WrittenIs, TornLast
<1> QED BY <1>3, <1>4

(* A line that is torn.                                                    *)
LEMMA TornLine ==
  ASSUME LogFits, Room, logLines' = WithLine([kind |-> "torn"])
  PROVE  /\ LogIs(logLines') /\ Len(logLines') <= MaxLines /\ TornLast'
         /\ SaysNoMore(logLines, logLines') /\ GluedIn(logLines') = GluedIn(logLines)
         /\ Len(logLines') = IF TornLast THEN Len(logLines) ELSE Len(logLines) + 1
<1>1. LogIs(logLines) /\ Len(logLines) \in Nat \ {0} /\ Len(logLines) < MaxLines /\ MaxLines \in Nat
  BY LogLines, ToolServerAssumption DEF LogFits, Room
<1> PICK line : line = [kind |-> "torn"]
  OBVIOUS
<1>2. line \in LogLine /\ line.kind = "torn"
  BY DEF LogLine
<1>3. CASE TornLast
  <2>1. Last(logLines).kind = "torn" /\ logLines' = [logLines EXCEPT ![Len(logLines)] = [kind |-> "torn"]]
    BY <1>2, <1>3 DEF TornLast, WithLine
  <2>2. /\ LogIs(logLines') /\ Len(logLines') = Len(logLines) /\ Last(logLines').kind = "torn"
        /\ SaysNoMore(logLines, logLines')
        /\ GluedIn(logLines') = GluedIn(logLines) \cup {n \in {Len(logLines)} : "torn" = "glued"}
    BY <1>1, <2>1, GluedOn
  <2>3. TornLast'
    BY <2>2 DEF TornLast
  <2>4. GluedIn(logLines') = GluedIn(logLines)
    BY <2>2
  <2> QED BY <1>1, <1>3, <2>2, <2>3, <2>4
<1>4. CASE ~TornLast
  <2>1. logLines' = Append(logLines, line)
    BY <1>4 DEF WithLine
  <2>2. /\ LogIs(logLines') /\ Len(logLines') = Len(logLines) + 1 /\ Last(logLines') = line
        /\ SaysNoMore(logLines, logLines') /\ GluedIn(logLines') = GluedIn(logLines)
    BY <1>1, <1>2, <2>1, AppendedTo
  <2> QED BY <1>1, <1>2, <1>4, <2>2 DEF TornLast
<1> QED BY <1>3, <1>4

(* The ids the log holds or has room for.                                  *)
LEMMA IssuedBound ==
  ASSUME LogFits, IssuedFits
  PROVE  issued \in TupleIds
<1>1. Len(logLines) \in Nat /\ Len(logLines) <= MaxLines /\ MaxLines \in Nat /\ MaxTears \in Nat
  BY LogLines, ToolServerAssumption DEF LogFits
<1>2. issued \in Nat \ {0} /\ tears \in Nat /\ tears <= MaxTears /\ issued <= Len(logLines) + tears
  BY <1>1 DEF IssuedFits
<1> QED BY <1>1, <1>2 DEF TupleIds

(* The id that is issued next has room and is of no tuple yet.             *)
LEMMA NextIssued ==
  ASSUME LogFits, IssuedFits, Room
  PROVE  issued + 1 \in TupleIds /\ issued + 1 \notin HeldIn(logLines)
<1>1. Len(logLines) \in Nat /\ Len(logLines) < MaxLines /\ MaxLines \in Nat /\ MaxTears \in Nat
  BY LogLines, ToolServerAssumption DEF LogFits, Room
<1>2. issued \in Nat \ {0} /\ tears \in Nat /\ tears <= MaxTears /\ issued <= Len(logLines) + tears
  BY <1>1 DEF IssuedFits
<1>3. HeldIn(logLines) \subseteq 1..issued
  BY DEF LogFits
<1> QED BY <1>1, <1>2, <1>3 DEF TupleIds

(* What was lost and glued is finite, as their numbers presume.            *)
LEMMA LostFinite ==
  ASSUME LogFits, IssuedFits, LostFits
  PROVE  /\ IsFiniteSet(Lost) /\ IsFiniteSet(GluedIn(logLines))
         /\ Cardinality(Lost) \in Nat /\ Cardinality(GluedIn(logLines)) \in Nat
<1>1. issued \in Nat \ {0} /\ Len(logLines) \in Nat /\ DOMAIN logLines = 1..Len(logLines)
  BY LogLines DEF IssuedFits, LogFits
<1>2. IsFiniteSet(1..issued) /\ IsFiniteSet(1..Len(logLines))
  BY <1>1, FS_Interval
<1>3. Lost \subseteq 1..issued
  <2>1. returned \subseteq 1..issued /\ issued \in 1..issued
    BY <1>1 DEF LostFits
  <2> QED BY <2>1 DEF Lost
<1>4. GluedIn(logLines) \subseteq 1..Len(logLines)
  BY <1>1 DEF GluedIn
<1>5. IsFiniteSet(Lost) /\ IsFiniteSet(GluedIn(logLines))
  BY <1>2, <1>3, <1>4, FS_Subset
<1> QED BY <1>5, FS_CardinalityType

(* Less is lost than before, or one more line is glued.                    *)
LEMMA NoMoreLost ==
  ASSUME LogFits, IssuedFits, LostFits, NEW gone, NEW glued, gone \subseteq Lost,
         glued = GluedIn(logLines)
  PROVE  Cardinality(gone) <= Cardinality(glued)
<1>1. IsFiniteSet(Lost) /\ Cardinality(Lost) \in Nat /\ Cardinality(glued) \in Nat
  BY LostFinite
<1>2. IsFiniteSet(gone) /\ Cardinality(gone) <= Cardinality(Lost) /\ Cardinality(gone) \in Nat
  BY <1>1, FS_Subset, FS_CardinalityType
<1>3. Cardinality(Lost) <= Cardinality(glued)
  BY DEF LostFits
<1> QED BY <1>1, <1>2, <1>3

(* One tuple more is lost, with one line more that is glued.               *)
LEMMA OneMoreLost ==
  ASSUME LogFits, IssuedFits, LostFits, NEW id, NEW n, NEW gone, gone \subseteq Lost \cup {id},
         n \notin GluedIn(logLines), NEW glued, glued = GluedIn(logLines) \cup {n}
  PROVE  Cardinality(gone) <= Cardinality(glued)
<1>1. /\ IsFiniteSet(Lost) /\ IsFiniteSet(GluedIn(logLines))
      /\ Cardinality(Lost) \in Nat /\ Cardinality(GluedIn(logLines)) \in Nat
  BY LostFinite
<1>2. Cardinality(glued) = Cardinality(GluedIn(logLines)) + 1
  BY <1>1, FS_AddElement
<1>3. /\ IsFiniteSet(Lost \cup {id})
      /\ \/ Cardinality(Lost \cup {id}) = Cardinality(Lost)
         \/ Cardinality(Lost \cup {id}) = Cardinality(Lost) + 1
  BY <1>1, FS_AddElement
<1>4. /\ Cardinality(gone) <= Cardinality(Lost \cup {id})
      /\ Cardinality(gone) \in Nat /\ Cardinality(Lost \cup {id}) \in Nat
  BY <1>3, FS_Subset, FS_CardinalityType
<1>5. Cardinality(Lost) <= Cardinality(GluedIn(logLines))
  BY DEF LostFits
<1> QED BY <1>1, <1>2, <1>3, <1>4, <1>5

------------------------------------------------------------------------------
(* What the pool and a resume know stays so while the log says more.       *)
LEMMA MarksStay ==
  ASSUME NEW said, NEW told, SaysStill(said, told), NEW s \in Seq(HeldIn(said))
  PROVE  s \in Seq(HeldIn(told)) /\ (s # <<>> => Tail(s) \in Seq(HeldIn(told)) /\ Head(s) \in HeldIn(said))
<1>1. HeldIn(said) \subseteq HeldIn(told)
  BY DEF SaysStill
<1>2. Seq(HeldIn(said)) \subseteq Seq(HeldIn(told))
  BY <1>1
<1> QED BY <1>2

(* A step of the session, which leaves the log and those who mark it.      *)
LEMMA SessionStep ==
  ASSUME ToolInv, UNCHANGED <<logLines, issued, others, tears>>, SessionFits', OneReplyEach', ListsFit',
         returned' \subseteq 1..issued, Lost' \subseteq Lost
  PROVE  ToolInv'
<1>1. LogFits' /\ IssuedFits' /\ PoolFits' /\ MarksFit'
  BY DEF ToolInv, LogFits, IssuedFits, PoolFits, MarksFit, others, TornLast
<1>2. LostFits'
  <2>1. Cardinality(Lost') <= Cardinality(GluedIn(logLines))
    BY NoMoreLost DEF ToolInv
  <2> QED BY <2>1 DEF LostFits
<1> QED BY <1>1, <1>2 DEF ToolInv

(* The steps of the client and the loop keep all of it.                    *)
LEMMA ClientKept ==
  ASSUME ToolInv, \/ \E frame \in Frame : Send(frame)
                  \/ HandleAtOnce \/ ServeEnds \/ CallTool \/ ToolRaises \/ ServeAgain
  PROVE  ToolInv'
<1> USE DEF ToolInv
<1>1. CASE \E frame \in Frame : Send(frame)
  <2>1. UNCHANGED <<logLines, issued, others, tears, returned, served, lists>>
    BY <1>1 DEF Send, toolCall
  <2>2. SessionFits' /\ OneReplyEach'
    BY <1>1, SendFits
  <2>3. ListsFit' /\ Lost' = Lost /\ returned' \subseteq 1..issued
    BY <2>1 DEF ListsFit, Lost, LostFits
  <2> QED BY <2>1, <2>2, <2>3, SessionStep
<1>2. ASSUME SessionFits', OneReplyEach', served'.tool # "written", served'.reads = 0,
             UNCHANGED <<logLines, issued, returned, others, tears>>
      PROVE  ToolInv'
  <2>1. ListsFit'
    BY <1>2 DEF ListsFit, SeenIn
  <2>2. Lost' \subseteq Lost /\ returned' \subseteq 1..issued
    BY <1>2 DEF Lost, LostFits
  <2> QED BY <1>2, <2>1, <2>2, SessionStep
<1>3. CASE HandleAtOnce
  <2>1. UNCHANGED <<logLines, issued, returned, others, tears>>
    BY <1>3 DEF HandleAtOnce
  <2> QED BY <1>2, <1>3, <2>1, HandleFits
<1>4. CASE ServeEnds
  <2>1. UNCHANGED <<logLines, issued, others, tears, returned, served, lists>>
    BY <1>4 DEF ServeEnds, toolCall
  <2>2. ListsFit' /\ Lost' = Lost /\ returned' \subseteq 1..issued
    BY <2>1 DEF ListsFit, Lost, LostFits
  <2> QED BY <1>4, <2>1, <2>2, EndsFits, SessionStep
<1>5. CASE CallTool
  <2>1. UNCHANGED <<logLines, issued, returned, others, tears>>
    BY <1>5 DEF CallTool
  <2> QED BY <1>2, <1>5, <2>1, ToolCallFits
<1>6. CASE ToolRaises
  <2>1. served.tool # "none" /\ Replies("error") /\ UNCHANGED <<logLines, issued, returned, tears>>
    BY <1>6 DEF ToolRaises
  <2> QED BY <1>2, <2>1, ReplyFits
<1>7. CASE ServeAgain
  <2>1. UNCHANGED <<logLines, issued, returned, others, tears>>
    BY <1>7 DEF ServeAgain
  <2> QED BY <1>2, <1>7, <2>1, AgainFits
<1> QED BY <1>1, <1>3, <1>4, <1>5, <1>6, <1>7

(* What was written is returned, or not.                                   *)
LEMMA DispatchRepliesKept ==
  ASSUME ToolInv, DispatchReplies
  PROVE  ToolInv'
<1> USE DEF ToolInv
<1>1. /\ served.tool = "written" /\ UNCHANGED <<logLines, issued, tears>>
      /\ returned' \in {returned, returned \cup {issued}} /\ \E answer \in {"result", "error"} : Replies(answer)
  BY DEF DispatchReplies
<1>2. SessionFits' /\ OneReplyEach' /\ served'.tool = "none" /\ served'.reads = 0 /\ UNCHANGED others
  BY <1>1, ReplyFits
<1>3. ListsFit'
  BY <1>2 DEF ListsFit, SeenIn
<1>4. returned' \subseteq 1..issued
  BY <1>1 DEF LostFits, IssuedFits
<1>5. Lost' \subseteq Lost
  BY <1>1, <1>2 DEF Lost
<1> QED BY <1>1, <1>2, <1>3, <1>4, <1>5, SessionStep

(* Each reading is of the log as it is.                                    *)
LEMMA InspectKept ==
  ASSUME ToolInv, InspectNext \/ InspectReplies
  PROVE  ToolInv'
<1> USE DEF ToolInv
<1>1. CASE InspectReplies
  <2>1. served.tool # "none" /\ Replies("result") /\ UNCHANGED <<logLines, issued, returned, tears>>
    BY <1>1 DEF InspectReplies
  <2>2. SessionFits' /\ OneReplyEach' /\ served'.tool = "none" /\ served'.reads = 0 /\ UNCHANGED others
    BY <2>1, ReplyFits
  <2>3. ListsFit' /\ Lost' \subseteq Lost /\ returned' \subseteq 1..issued
    BY <2>1, <2>2 DEF ListsFit, SeenIn, Lost, LostFits
  <2> QED BY <2>1, <2>2, <2>3, SessionStep
<1>2. CASE InspectNext
  <2> PICK n : n = served.reads
    OBVIOUS
  <2>1. /\ served.tool = "inspect" /\ n \in 0..3 /\ n < 3 /\ served' = [served EXCEPT !.reads = n + 1]
        /\ UNCHANGED <<logLines, issued, frames, server, replies, returned, others, tears>>
        /\ lists' = [lists EXCEPT ![InspectReads[n + 1]] = Listed(InspectReads[n + 1])]
    BY <1>2 DEF InspectNext, SessionFits
  <2>2. n \in {0, 1, 2}
    BY <2>1
  <2>3. /\ served' \in [frame : Nat, tool : {"none", "dispatch", "written", "inspect"}, reads : 0..3]
        /\ served'.frame = served.frame /\ served'.tool = "inspect" /\ served'.reads = n + 1
    BY <2>1, <2>2 DEF SessionFits
  <2>4. /\ n = 0 => InspectReads[n + 1] = "tuples" /\ Listed("tuples") = HeldIn(logLines)
        /\ n = 1 => InspectReads[n + 1] = "pending"
        /\ n = 2 => InspectReads[n + 1] = "completed"
    BY LogSays DEF InspectReads, Listed
  <2> PICK said : said = logLines
    OBVIOUS
  <2>5. LogIs(said) /\ Held = HeldIn(said) /\ \A id : StatusOf(id) = StatusIn(said, id)
    BY LogSays DEF LogFits
  <2>6. /\ Listed("pending") = {id \in HeldIn(said) : StatusIn(said, id) \in {"emitted", "consumed"}}
        /\ Listed("completed") = {id \in HeldIn(said) : StatusIn(said, id) \in {"completed"}}
    BY <2>5 DEF Listed, PendingTuples, CompletedTuples, Having
  <2>7. HeldIn(said) \subseteq TupleIds /\ \A id \in HeldIn(said) : StatusIn(said, id) \in Status
    BY <2>5, HeldHasStatus
  <2>8. lists \in [ListNames -> SUBSET TupleIds] /\ {"tuples", "pending", "completed"} = ListNames
    BY DEF SessionFits, ListNames
  <2>9. lists' \in [ListNames -> SUBSET TupleIds]
    <3>1. InspectReads[n + 1] \in ListNames
      BY <2>2, <2>4, <2>8
    <3>2. Listed(InspectReads[n + 1]) \in SUBSET TupleIds
      BY <2>2, <2>4, <2>6, <2>7
    <3> QED BY <2>1, <2>8, <3>1, <3>2
  <2>10. SessionFits'
    BY <2>1, <2>3, <2>9 DEF SessionFits
  <2>11. OneReplyEach'
    BY <2>1, <2>3, AnsweredFrames DEF Dealt
  <2>12. SeenIn(said, n + 1, lists')
    <3>1. SeenIn(said, n, lists)
      BY DEF ListsFit
    <3>2. CASE n = 0
      <4>1. lists'["tuples"] = HeldIn(said) /\ n + 1 = 1
        BY <2>1, <2>4, <2>8, <3>2
      <4> QED BY <4>1 DEF SeenIn
    <3>3. CASE n = 1
      <4>1. /\ lists'["tuples"] = lists["tuples"] /\ n + 1 = 2
            /\ lists'["pending"] = {id \in HeldIn(said) : StatusIn(said, id) \in {"emitted", "consumed"}}
        BY <2>1, <2>4, <2>6, <2>8, <3>3
      <4>2. lists["tuples"] \subseteq HeldIn(said)
        BY <3>1, <3>3 DEF SeenIn
      <4> QED BY <2>7, <4>1, <4>2 DEF SeenIn, Status
    <3>4. CASE n = 2
      <4>1. /\ lists'["tuples"] = lists["tuples"] /\ lists'["pending"] = lists["pending"] /\ n + 1 = 3
            /\ lists'["completed"] = {id \in HeldIn(said) : StatusIn(said, id) \in {"completed"}}
        BY <2>1, <2>4, <2>6, <2>8, <3>4
      <4>2. /\ lists["tuples"] \subseteq HeldIn(said)
            /\ \A id \in lists["tuples"] :
                 id \in lists["pending"] \/ StatusIn(said, id) \in {"completed", "err"} \/ RevivedIn(said, id)
        BY <3>1, <3>4 DEF SeenIn
      <4> QED BY <4>1, <4>2 DEF SeenIn
    <3> QED BY <2>2, <3>2, <3>3, <3>4
  <2>13. ListsFit'
    BY <2>1, <2>3, <2>12 DEF ListsFit
  <2>14. Lost' \subseteq Lost /\ returned' \subseteq 1..issued
    BY <2>1, <2>3 DEF Lost, LostFits
  <2> QED BY <2>1, <2>10, <2>11, <2>13, <2>14, SessionStep
<1> QED BY <1>1, <1>2

------------------------------------------------------------------------------
(* A mark of a tuple of the log that has not finished, or as emitted.      *)
LEMMA MarkKept ==
  ASSUME ToolInv, NEW id \in HeldIn(logLines), NEW status \in Status, Mark(id, status),
         UNCHANGED <<issued, session, returned, tears, resumes>>,
         StatusIn(logLines, id) \in {"completed", "err"} => status = "emitted",
         pool' = [taken |-> pool'.taken, consumed |-> pool'.consumed], pool'.consumed \subseteq pool'.taken,
         pool'.taken \subseteq pool.taken, id \in pool'.taken => status \in {"emitted", "consumed"},
         \/ marks' = marks
         \/ marks # <<>> /\ marks' = Tail(marks)
  PROVE  ToolInv'
<1> USE DEF ToolInv
<1> PICK said : said = logLines
  OBVIOUS
<1> PICK told : told = logLines'
  OBVIOUS
<1> PICK line : line = [kind |-> "status", id |-> id, status |-> status]
  OBVIOUS
<1>1. /\ UNCHANGED <<frames, server, served, lists, replies, issued, returned, tears, resumes>>
      /\ Room /\ logLines' = WithLine(line) /\ LogIs(said)
  BY DEF Mark, session, toolCall, LogFits
<1>2. line \in ParsedLine /\ line.id = id /\ line.status = status /\ line.kind = "status"
  BY <1>1, HeldHasStatus DEF ParsedLine
<1>3. LogIs(told) /\ Len(told) <= MaxLines /\ ~TornLast' /\ WrittenIs(said, told, line)
  BY <1>1, <1>2, WrittenLine
<1>4. SaysStill(said, told) /\ HeldIn(told) = HeldIn(said)
  <2>1. CASE SaysNoMore(said, told)
    BY <1>1, <1>3, <2>1, NoMoreKeeps, NoMoreTold
  <2>2. CASE SaysMore(said, told, line)
    <3>1. SaysStill(said, told)
      BY <1>1, <1>2, <1>3, <2>2, MoreKeeps
    <3>2. HeldIn(told) = HeldIn(said) \cup {m \in {line.id} : line.kind = "tuple"}
      BY <1>1, <1>2, <1>3, <2>2, MoreTold
    <3> QED BY <1>2, <3>1, <3>2
  <2> QED BY <1>3, <2>1, <2>2 DEF WrittenIs
<1>5. LogFits'
  BY <1>1, <1>3, <1>4 DEF LogFits
<1>6. IssuedFits'
  <2>1. Len(told) \in {Len(said), Len(said) + 1} /\ (Last(said).kind = "torn" => Len(told) = Len(said)) /\ Len(said) \in Nat
    BY <1>1, <1>3, LogLines DEF WrittenIs
  <2>2. issued \in Nat \ {0} /\ tears \in 0..MaxTears /\ issued <= Len(said) + tears /\ tears \in Nat
    BY ToolServerAssumption DEF IssuedFits
  <2>3. issued <= Len(told) + tears
    BY <2>1, <2>2
  <2> QED BY <1>1, <1>3, <2>2, <2>3 DEF IssuedFits
<1>7. SessionFits' /\ OneReplyEach'
  BY <1>1 DEF SessionFits, OneReplyEach
<1>8. LostFits'
  <2>1. Lost' = Lost
    BY <1>1, <1>4 DEF Lost
  <2>2. CASE GluedIn(told) = GluedIn(said)
    <3>1. Cardinality(Lost') <= Cardinality(GluedIn(told))
      BY <2>1, <2>2, NoMoreLost
    <3> QED BY <1>1, <3>1 DEF LostFits
  <2>3. CASE Len(said) \notin GluedIn(said) /\ GluedIn(told) = GluedIn(said) \cup {Len(said)}
    <3>1. Cardinality(Lost') <= Cardinality(GluedIn(told))
      BY <2>1, <2>3, OneMoreLost
    <3> QED BY <1>1, <3>1 DEF LostFits
  <2> QED BY <1>3, <2>2, <2>3 DEF WrittenIs
<1>9. PoolFits'
  <2>1. TakenIn(said, pool'.taken)
    BY DEF PoolFits, TakenIn
  <2>2. TakenIn(told, pool'.taken)
    BY <1>1, <1>2, <1>3, <2>1, TakenNoMore, TakenMore DEF WrittenIs
  <2> QED BY <2>2 DEF PoolFits
<1>10. MarksFit'
  BY <1>1, <1>4, MarksStay DEF MarksFit
<1>11. ListsFit'
  <2>1. served.reads \in 0..3 /\ SeenIn(said, served.reads, lists)
    BY DEF ListsFit, SessionFits
  <2> QED BY <1>1, <1>4, <2>1, SeenStays DEF ListsFit
<1> QED BY <1>5, <1>6, <1>7, <1>8, <1>9, <1>10, <1>11

(* The pool marks what it has taken.                                       *)
LEMMA PoolMarksKept ==
  ASSUME ToolInv, NEW id \in TupleIds, PoolConsumes(id) \/ PoolFinishes(id)
  PROVE  ToolInv'
<1> USE DEF ToolInv
<1>1. /\ pool = [taken |-> pool.taken, consumed |-> pool.consumed] /\ pool.consumed \subseteq pool.taken
      /\ pool.taken \subseteq HeldIn(logLines) /\ \A i \in pool.taken : StatusIn(logLines, i) \in {"emitted", "consumed"}
  BY DEF PoolFits, TakenIn
<1>2. CASE PoolConsumes(id)
  <2>1. /\ id \in pool.taken /\ Mark(id, "consumed") /\ pool' = [pool EXCEPT !.consumed = pool.consumed \cup {id}]
        /\ UNCHANGED <<issued, session, returned, marks, resumes, tears>>
    BY <1>2 DEF PoolConsumes
  <2>2. pool' = [taken |-> pool.taken, consumed |-> pool.consumed \cup {id}]
    BY <1>1, <2>1
  <2>3. id \in HeldIn(logLines) /\ StatusIn(logLines, id) \in {"emitted", "consumed"} /\ "consumed" \in Status
    BY <1>1, <2>1 DEF Status
  <2>4. pool'.taken = pool.taken /\ pool'.consumed \subseteq pool.taken /\ pool' = [taken |-> pool'.taken, consumed |-> pool'.consumed]
    BY <1>1, <2>1, <2>2
  <2> QED BY <1>1, <2>1, <2>3, <2>4, MarkKept
<1>3. CASE PoolFinishes(id)
  <2>1. PICK status \in {"completed", "err"} : Mark(id, status)
    BY <1>3 DEF PoolFinishes
  <2>2. /\ id \in pool.consumed /\ pool' = [taken |-> pool.taken \ {id}, consumed |-> pool.consumed \ {id}]
        /\ UNCHANGED <<issued, session, returned, marks, resumes, tears>>
    BY <1>3 DEF PoolFinishes
  <2>3. id \in HeldIn(logLines) /\ StatusIn(logLines, id) \in {"emitted", "consumed"} /\ status \in Status
    BY <1>1, <2>1, <2>2 DEF Status
  <2>4. /\ pool' = [taken |-> pool'.taken, consumed |-> pool'.consumed] /\ pool'.consumed \subseteq pool'.taken
        /\ pool'.taken \subseteq pool.taken /\ id \notin pool'.taken
    BY <1>1, <2>2
  <2> QED BY <2>1, <2>2, <2>3, <2>4, MarkKept
<1> QED BY <1>2, <1>3

(* A resume marks as emitted, whatever the tuple is by then.               *)
LEMMA ResumeMarksKept ==
  ASSUME ToolInv, ResumeMarks
  PROVE  ToolInv'
<1> USE DEF ToolInv
<1>1. /\ marks # <<>> /\ Mark(Head(marks), "emitted") /\ marks' = Tail(marks)
      /\ UNCHANGED <<issued, session, returned, pool, resumes, tears>>
  BY DEF ResumeMarks
<1>2. Head(marks) \in HeldIn(logLines) /\ "emitted" \in Status
  BY <1>1, HeadAndTail DEF MarksFit, Status
<1>3. pool = [taken |-> pool.taken, consumed |-> pool.consumed] /\ pool.consumed \subseteq pool.taken
  BY DEF PoolFits
<1> QED BY <1>1, <1>2, <1>3, MarkKept

(* A tuple is appended: it is in the log, or lost with the line before it. *)
LEMMA DispatchAppendsKept ==
  ASSUME ToolInv, DispatchAppends
  PROVE  ToolInv'
<1> USE DEF ToolInv
<1> PICK said : said = logLines
  OBVIOUS
<1> PICK told : told = logLines'
  OBVIOUS
<1> PICK new : new = issued + 1
  OBVIOUS
<1> PICK line : line = [kind |-> "tuple", id |-> new, status |-> "emitted"]
  OBVIOUS
<1>1. /\ served.tool = "dispatch" /\ Room /\ issued' = new /\ logLines' = WithLine(line)
      /\ served' = [served EXCEPT !.tool = "written"]
      /\ UNCHANGED <<frames, server, lists, replies, returned, pool, marks, resumes, tears>>
  BY DEF DispatchAppends, others
<1>2. LogIs(said) /\ HeldIn(said) \subseteq 1..issued /\ new \in TupleIds /\ new \notin HeldIn(said)
  BY <1>1, NextIssued DEF LogFits
<1>3. line \in ParsedLine /\ line.id = new /\ line.status = "emitted" /\ line.kind = "tuple"
  BY <1>2 DEF ParsedLine, Status
<1>4. LogIs(told) /\ Len(told) <= MaxLines /\ ~TornLast' /\ WrittenIs(said, told, line)
  BY <1>1, <1>3, WrittenLine
<1>5. /\ SaysStill(said, told)
      /\ SaysNoMore(said, told) => HeldIn(told) = HeldIn(said)
      /\ SaysMore(said, told, line) => HeldIn(told) = HeldIn(said) \cup {new}
  <2>1. CASE SaysNoMore(said, told)
    <3>1. SaysStill(said, told) /\ HeldIn(told) = HeldIn(said)
      BY <1>2, <1>4, <2>1, NoMoreKeeps, NoMoreTold
    <3>2. SaysMore(said, told, line) => HeldIn(told) = HeldIn(said) \cup {new}
      <4> SUFFICES ASSUME SaysMore(said, told, line) PROVE HeldIn(told) = HeldIn(said) \cup {new}
        OBVIOUS
      <4>1. HeldIn(told) = HeldIn(said) \cup {m \in {line.id} : line.kind = "tuple"}
        BY <1>2, <1>3, <1>4, MoreTold
      <4> QED BY <1>3, <4>1
    <3> QED BY <3>1, <3>2
  <2>2. CASE SaysMore(said, told, line)
    <3>1. SaysStill(said, told)
      BY <1>2, <1>3, <1>4, <2>2, MoreKeeps
    <3>2. HeldIn(told) = HeldIn(said) \cup {m \in {line.id} : line.kind = "tuple"}
      BY <1>2, <1>3, <1>4, <2>2, MoreTold
    <3>3. SaysNoMore(said, told) => HeldIn(told) = HeldIn(said)
      BY <1>2, <1>4, NoMoreTold
    <3> QED BY <1>3, <3>1, <3>2, <3>3
  <2> QED BY <1>4, <2>1, <2>2 DEF WrittenIs
<1>6. issued \in Nat \ {0} /\ new \in Nat \ {0} /\ 1..issued \subseteq 1..new /\ new \in 1..new
  BY DEF IssuedFits
<1>7. LogFits'
  <2>1. HeldIn(told) \subseteq 1..new
    BY <1>2, <1>4, <1>5, <1>6 DEF WrittenIs
  <2> QED BY <1>1, <1>4, <2>1 DEF LogFits
<1>8. IssuedFits'
  <2>1. /\ Len(said) \in Nat
        /\ \/ Last(said).kind = "torn" /\ Len(told) = Len(said)
           \/ Last(said).kind # "torn" /\ Len(told) = Len(said) + 1
    BY <1>2, <1>4, LogLines DEF WrittenIs
  <2>2. /\ issued \in Nat \ {0} /\ tears \in 0..MaxTears /\ tears \in Nat
        /\ issued <= Len(said) + tears /\ (Last(said).kind = "torn" => issued < Len(said) + tears)
    BY ToolServerAssumption DEF IssuedFits, TornLast
  <2>3. new <= Len(told) + tears
    BY <2>1, <2>2
  <2> QED BY <1>1, <1>4, <1>6, <2>2, <2>3 DEF IssuedFits
<1>9. /\ served'.frame = served.frame /\ served'.tool = "written" /\ served'.reads = served.reads
      /\ served' \in [frame : Nat, tool : {"none", "dispatch", "written", "inspect"}, reads : 0..3]
      /\ served.reads \in 0..3
  BY <1>1 DEF SessionFits
<1>10. SessionFits'
  BY <1>1, <1>9 DEF SessionFits
<1>11. OneReplyEach'
  BY <1>1, <1>9, AnsweredFrames DEF Dealt
<1>12. LostFits'
  <2>0. Lost = returned \ HeldIn(said) /\ Lost' = (returned \cup {new}) \ HeldIn(told)
    BY <1>1, <1>9 DEF Lost
  <2>1. returned' \subseteq 1..issued'
    BY <1>1, <1>6 DEF LostFits
  <2>2. CASE SaysMore(said, told, line) /\ GluedIn(told) = GluedIn(said)
    <3>1. Lost' \subseteq Lost
      BY <1>5, <2>0, <2>2
    <3>2. Cardinality(Lost') <= Cardinality(GluedIn(told))
      BY <2>2, <3>1, NoMoreLost
    <3> QED BY <2>1, <3>2 DEF LostFits
  <2>3. CASE SaysNoMore(said, told) /\ Len(said) \notin GluedIn(said) /\ GluedIn(told) = GluedIn(said) \cup {Len(said)}
    <3>1. Lost' \subseteq Lost \cup {new}
      BY <1>5, <2>0, <2>3
    <3>2. Cardinality(Lost') <= Cardinality(GluedIn(told))
      BY <2>3, <3>1, OneMoreLost
    <3> QED BY <2>1, <3>2 DEF LostFits
  <2> QED BY <1>4, <2>2, <2>3 DEF WrittenIs
<1>13. PoolFits'
  <2>1. TakenIn(said, pool.taken)
    BY DEF PoolFits
  <2>2. TakenIn(told, pool.taken)
    BY <1>2, <1>3, <1>4, <2>1, TakenNoMore, TakenMore DEF WrittenIs
  <2> QED BY <1>1, <2>2 DEF PoolFits
<1>14. MarksFit'
  BY <1>1, <1>5, MarksStay DEF MarksFit
<1>15. ListsFit'
  <2>1. SeenIn(said, served.reads, lists)
    BY DEF ListsFit
  <2>2. SeenIn(told, served.reads, lists)
    BY <1>5, <1>9, <2>1, SeenStays
  <2> QED BY <1>1, <1>9, <2>2 DEF ListsFit
<1> QED BY <1>7, <1>8, <1>10, <1>11, <1>12, <1>13, <1>14, <1>15

(* A line that is torn loses no tuple that was returned.                   *)
LEMMA DispatchTearsKept ==
  ASSUME ToolInv, DispatchTears
  PROVE  ToolInv'
<1> USE DEF ToolInv
<1> PICK said : said = logLines
  OBVIOUS
<1> PICK told : told = logLines'
  OBVIOUS
<1> PICK new : new = issued + 1
  OBVIOUS
<1>1. /\ served.tool = "dispatch" /\ Room /\ issued' = new /\ logLines' = WithLine([kind |-> "torn"])
      /\ tears < MaxTears /\ tears' = tears + 1 /\ UNCHANGED returned
      /\ \/ Replies("error")
         \/ server' = "dead" /\ UNCHANGED <<frames, served, lists, replies, others>>
  BY DEF DispatchTears, toolCall
<1>2. /\ LogIs(told) /\ Len(told) <= MaxLines /\ TornLast' /\ SaysNoMore(said, told) /\ GluedIn(told) = GluedIn(said)
      /\ Len(told) = IF TornLast THEN Len(said) ELSE Len(said) + 1
  BY <1>1, TornLine
<1>3. LogIs(said) /\ HeldIn(said) \subseteq 1..issued
  BY DEF LogFits
<1>4. SaysStill(said, told) /\ HeldIn(told) = HeldIn(said)
  BY <1>2, <1>3, NoMoreKeeps, NoMoreTold
<1>5. issued \in Nat \ {0} /\ new \in Nat \ {0} /\ 1..issued \subseteq 1..new
  BY DEF IssuedFits
<1>6. LogFits'
  BY <1>1, <1>2, <1>3, <1>4, <1>5 DEF LogFits
<1>7. IssuedFits'
  <2>1. /\ Len(said) \in Nat
        /\ \/ TornLast /\ Len(told) = Len(said)
           \/ ~TornLast /\ Len(told) = Len(said) + 1
    BY <1>2, <1>3, LogLines
  <2>2. /\ issued \in Nat \ {0} /\ tears \in 0..MaxTears /\ tears \in Nat /\ MaxTears \in Nat
        /\ issued <= Len(said) + tears /\ (TornLast => issued < Len(said) + tears)
    BY ToolServerAssumption DEF IssuedFits
  <2>3. new < Len(told) + (tears + 1) /\ new <= Len(told) + (tears + 1) /\ tears + 1 \in 0..MaxTears
    BY <1>1, <2>1, <2>2
  <2> QED BY <1>1, <1>5, <2>3 DEF IssuedFits
<1>8. /\ SessionFits' /\ OneReplyEach' /\ served'.tool # "written" /\ UNCHANGED others
      /\ \/ served'.reads = 0
         \/ served'.reads = served.reads /\ lists' = lists
  <2>1. CASE Replies("error")
    BY <1>1, <2>1, ReplyFits
  <2>2. CASE server' = "dead" /\ UNCHANGED <<frames, served, lists, replies, others>>
    BY <1>1, <2>2 DEF SessionFits, OneReplyEach
  <2> QED BY <1>1, <2>1, <2>2
<1>9. LostFits'
  <2>1. Lost' \subseteq Lost
    BY <1>1, <1>4, <1>8 DEF Lost
  <2>2. Cardinality(Lost') <= Cardinality(GluedIn(told))
    BY <1>2, <2>1, NoMoreLost
  <2>3. returned' \subseteq 1..issued'
    BY <1>1, <1>5 DEF LostFits
  <2> QED BY <2>2, <2>3 DEF LostFits
<1>10. PoolFits'
  <2>1. TakenIn(told, pool.taken)
    BY <1>2, <1>3, TakenNoMore DEF PoolFits
  <2> QED BY <1>8, <2>1 DEF PoolFits, others
<1>11. MarksFit'
  BY <1>4, <1>8, MarksStay DEF MarksFit, others
<1>12. ListsFit'
  <2>1. CASE served'.reads = 0
    BY <2>1 DEF ListsFit, SeenIn
  <2>2. CASE served'.reads = served.reads /\ lists' = lists
    <3>1. served.reads \in 0..3 /\ SeenIn(said, served.reads, lists)
      BY DEF ListsFit, SessionFits
    <3>2. SeenIn(told, served.reads, lists)
      BY <1>4, <3>1, SeenStays
    <3> QED BY <2>2, <3>2 DEF ListsFit
  <2> QED BY <1>8, <2>1, <2>2
<1> QED BY <1>6, <1>7, <1>8, <1>9, <1>10, <1>11, <1>12

(* The lines that are picked.                                              *)
LEMMA PickedLines ==
  ASSUME NEW said \in Seq(LogLine), NEW K, NEW waiting, waiting = Picked(said, K)
  PROVE  /\ waiting \in Seq(LogLine)
         /\ \A j \in DOMAIN waiting : \E n \in DOMAIN said \cap K : waiting[j] = said[n]
  BY PickedElements

(* A pool and a resume begin with what waits in the log they read.         *)
LEMMA BeginsKept ==
  ASSUME ToolInv, PoolSeeds \/ ResumeBegins
  PROVE  ToolInv'
<1> USE DEF ToolInv
<1> PICK said : said = logLines
  OBVIOUS
<1>1. /\ LogIs(said) /\ Held = HeldIn(said) /\ Parsed = ParsedIn(said) /\ \A id : StatusOf(id) = StatusIn(said, id)
      /\ PendingTuples = {id \in HeldIn(said) : StatusIn(said, id) \in {"emitted", "consumed"}}
  BY LogSays DEF LogFits, PendingTuples, Having
<1>2. UNCHANGED <<logLines, issued, frames, server, served, lists, replies, returned, tears>>
  BY DEF PoolSeeds, ResumeBegins, session, toolCall
<1>3. LogFits' /\ IssuedFits' /\ SessionFits' /\ OneReplyEach' /\ ListsFit'
  BY <1>2 DEF LogFits, IssuedFits, SessionFits, OneReplyEach, ListsFit, TornLast
<1>4. LostFits'
  BY <1>2 DEF LostFits, Lost
<1>5. CASE PoolSeeds
  <2>1. pool' = [taken |-> PendingTuples, consumed |-> {}] /\ UNCHANGED <<marks, resumes>>
    BY <1>5 DEF PoolSeeds
  <2>2. PoolFits'
    BY <1>1, <1>2, <2>1 DEF PoolFits, TakenIn
  <2>3. MarksFit'
    BY <1>2, <2>1 DEF MarksFit
  <2> QED BY <1>3, <1>4, <2>2, <2>3
<1>6. CASE ResumeBegins
  <2>1. PICK waiting : waiting = Picked(logLines, {i \in Parsed : logLines[i].kind = "tuple" /\ logLines[i].id \in PendingTuples})
    OBVIOUS
  <2>2. /\ marks' = [n \in DOMAIN waiting |-> waiting[n].id] /\ resumes < MaxResumes /\ resumes' = resumes + 1
        /\ UNCHANGED pool
    BY <1>6, <2>1 DEF ResumeBegins
  <2>3. \E K : waiting = Picked(logLines, K) /\ \A i \in K : i \in Parsed /\ logLines[i].kind = "tuple"
    BY <2>1
  <2>4. PICK K : waiting = Picked(said, K) /\ \A i \in K : i \in Parsed /\ said[i].kind = "tuple"
    BY <2>3
  <2>5. /\ waiting \in Seq(LogLine)
        /\ \A j \in DOMAIN waiting : \E n \in DOMAIN said \cap K : waiting[j] = said[n]
    <3>1. said \in Seq(LogLine)
      BY <1>1 DEF LogIs
    <3> QED BY <2>4, <3>1, PickedLines
  <2>6. \A n \in K : said[n].id \in HeldIn(said)
    BY <1>1, <2>4 DEF HeldIn
  <2>7. marks' \in Seq(HeldIn(said))
    <3>2. \A j \in DOMAIN waiting : waiting[j].id \in HeldIn(said)
      BY <2>5, <2>6
    <3> QED BY <2>2, <2>5, <3>2, EachOf
  <2>8. resumes' \in 0..MaxResumes
    BY <2>2, ToolServerAssumption DEF MarksFit
  <2>9. MarksFit'
    BY <1>2, <2>7, <2>8 DEF MarksFit
  <2>10. PoolFits'
    BY <1>2, <2>2 DEF PoolFits
  <2> QED BY <1>3, <1>4, <2>9, <2>10
<1> QED BY <1>5, <1>6

(* So these hold.                                                          *)
LEMMA ToolInvHolds == ToolServerSpec => []ToolInv
<1>1. ToolInv /\ [ToolServerNext]_toolServerVars => ToolInv'
  <2> SUFFICES ASSUME ToolInv, [ToolServerNext]_toolServerVars PROVE ToolInv'
    OBVIOUS
  <2>1. CASE UNCHANGED toolServerVars
    <3>1. /\ UNCHANGED <<logLines, issued, frames, server, served, lists, replies, returned, tears>>
          /\ UNCHANGED <<pool, marks, resumes, others>>
      BY <2>1 DEF toolServerVars, session, toolCall, others
    <3>2. SessionFits' /\ OneReplyEach' /\ ListsFit'
      BY <3>1 DEF ToolInv, SessionFits, OneReplyEach, ListsFit
    <3>3. returned' \subseteq 1..issued /\ Lost' \subseteq Lost
      BY <3>1 DEF ToolInv, Lost, LostFits
    <3> QED BY <3>1, <3>2, <3>3, SessionStep
  <2>2. CASE ToolServerNext
    BY <2>2, ClientKept, DispatchRepliesKept, InspectKept, DispatchAppendsKept, DispatchTearsKept, BeginsKept,
       ResumeMarksKept, PoolMarksKept DEF ToolServerNext
  <2> QED BY <2>1, <2>2
<1> QED BY <1>1, ToolsInit, PTL DEF ToolServerSpec

(* Every frame that was handled has its one answer, what a dispatch        *)
(* returned is in the log or was glued to a torn line, and no tuple that   *)
(* inspect lists is missing from its lists without having failed or been   *)
(* set back, however a pool and a resume write the log in between.         *)
THEOREM ToolsTellKept == ToolServerSpec => []ToolsTell
<1>1. ToolInv => ToolsTell
  <2> SUFFICES ASSUME ToolInv PROVE ToolsTell
    OBVIOUS
  <2> USE DEF ToolInv
  <2>1. DispatchedHeld
    <3>1. returned \ HeldIn(logLines) \subseteq Lost
      BY DEF Lost
    <3>2. Cardinality(returned \ HeldIn(logLines)) <= Cardinality(GluedIn(logLines))
      BY <3>1, NoMoreLost
    <3>3. Held = HeldIn(logLines) /\ GluedIn(logLines) = {i \in DOMAIN logLines : logLines[i].kind = "glued"}
      BY LogSays DEF GluedIn
    <3> QED BY <3>2, <3>3 DEF DispatchedHeld
  <2>2. NoneMissing
    BY LogSays DEF NoneMissing, ListsFit, SeenIn
  <2> QED BY <2>1, <2>2 DEF ToolsTell
<1> QED BY <1>1, ToolInvHolds, PTL

(* The log, the session and those who mark it have the types they should,  *)
(* whatever the bounds: the ids of the tuples stay within the lines there  *)
(* are and the lines that were torn.                                       *)
THEOREM ToolServerTypeOKKept == ToolServerSpec => []ToolServerTypeOK
<1>1. ToolInv => ToolServerTypeOK
  <2> SUFFICES ASSUME ToolInv PROVE ToolServerTypeOK
    OBVIOUS
  <2> USE DEF ToolInv
  <2>1. logLines \in Seq(LogLine) /\ issued \in TupleIds /\ HeldIn(logLines) \subseteq 1..issued
    BY IssuedBound DEF LogFits, LogIs
  <2>2. /\ frames \in Seq(Frame) /\ Len(frames) <= MaxFrames /\ server \in {"serving", "ended", "raised", "dead"}
        /\ lists \in [ListNames -> SUBSET TupleIds]
    BY DEF SessionFits
  <2>3. served \in [frame : 0..Len(frames), tool : {"none", "dispatch", "written", "inspect"}, reads : 0..3]
    <3>1. served.frame \in 0..Len(frames)
      BY <2>2 DEF SessionFits
    <3> QED BY <3>1 DEF SessionFits
  <2>4. replies \in Seq([to : DOMAIN frames, answer : {"result", "error"}])
    <3>1. replies \in Seq(Reply) /\ served.frame \in Nat /\ served.frame <= Len(frames) /\ DOMAIN frames = 1..Len(frames)
      BY DEF SessionFits
    <3>2. \A k \in DOMAIN replies : replies[k].to \in 1..served.frame
      BY DEF OneReplyEach
    <3>3. \A k \in DOMAIN replies : replies[k] \in Reply /\ replies[k].to \in DOMAIN frames
      BY <2>2, <3>1, <3>2
    <3>4. \A k \in DOMAIN replies : replies[k] \in [to : DOMAIN frames, answer : {"result", "error"}]
      BY <3>3 DEF Reply
    <3> QED BY <3>1, <3>4, Narrower
  <2>5. returned \subseteq 1..issued /\ pool.consumed \subseteq pool.taken /\ pool.taken \subseteq 1..issued
    BY <2>1 DEF LostFits, PoolFits, TakenIn
  <2>6. marks \in Seq(1..issued) /\ resumes \in 0..MaxResumes /\ tears \in 0..MaxTears
    <3>1. marks \in Seq(HeldIn(logLines)) /\ resumes \in 0..MaxResumes /\ tears \in 0..MaxTears
      BY DEF MarksFit, IssuedFits
    <3>2. \A n \in DOMAIN marks : marks[n] \in 1..issued
      BY <2>1, <3>1
    <3> QED BY <3>1, <3>2, Narrower
  <2> QED BY <2>1, <2>2, <2>3, <2>4, <2>5, <2>6 DEF ToolServerTypeOK
<1> QED BY <1>1, ToolInvHolds, PTL
==================================================================================
