-------------------------------- MODULE RunViews --------------------------------
(***************************************************************************)
(* What clients are shown of a run while its thread works: the snapshot    *)
(* and answer for agents (api/runs/agent_status.py, status_answer.py), the *)
(* dashboards (api/routes/dashboard.py), the control plane (api/routes/    *)
(* control_plane.py) and the stream that says it is over (api/routes/      *)
(* runs.py).  A view is put together read by read from a status object the *)
(* thread writes field by field, and from a history the event loop appends *)
(* to some time after the thread has published; nothing is locked.         *)
(***************************************************************************)
EXTENDS Integers, Sequences, SequencesExt, FiniteSets, FiniteSetsExt

CONSTANTS
  Emits,    \* events of a flow
  MaxEmits  \* bound on the events before it returns

(* text: the event has a message.                                          *)
RunEvent ==
  [type : {"log", "step", "loop", "regression", "evidence", "done", "error"},
   status : {"none", "running", "ok", "failed"}, text : BOOLEAN, from : {"bridge", "manager"}]

ASSUME RunViewsAssumption ==
  Emits \subseteq {event \in RunEvent : event.from = "bridge"} /\ MaxEmits \in Nat

VARIABLES
  loopBound,  \* bind_loop has been called: the web server runs
  thread,     \* the worker of the run
  due,       \* what it has still to write, in order
  outcome,    \* what it writes
  record,     \* the RunStatus: state, failed, pr_url
  published,  \* events, in the order of publish_threadsafe
  handled,    \* how many the history holds; the loop has the others
  ended,      \* the place of the event that closed the client's stream, or 0
  asked,      \* the view under construction, or "none"
  view,       \* what was read for it
  shown,      \* what was answered last
  since       \* ended, when the view was asked

flow == <<loopBound, thread, due, outcome, record, published>>
client == <<asked, view, shown, since>>
viewVars == <<flow, handled, ended, client>>

RunFields == [state : {"queued", "running", "done", "failed"}, failed : BOOLEAN, pr : BOOLEAN]
Over(state) == state \in {"done", "failed"}

------------------------------------------------------------------------------
(* The newest event of a type among the first n, or 0.                     *)
LatestOfType(type, n) == Max({0} \cup {i \in 1..n : published[i].type = type})

(* _compute_readiness: its reads of the state agree with one read at the   *)
(* moment of the last, because the state only moves on.                    *)
Readiness(r) ==
  CASE r.state = "running" -> "by progress"
    [] r.state = "done" /\ ~r.failed -> "auto_publish"
    [] OTHER -> "blocked"

(* _build_quality_gate: there is none without a history, and a step that   *)
(* runs has not passed.                                                    *)
Gate(n, r) ==
  IF n = 0 THEN "pending"
  ELSE IF r.state = "done" /\ ~r.failed THEN "pass"
  ELSE IF \A i \in 1..n : published[i].type = "step" => published[i].status = "ok" THEN "pass"
  ELSE "needs_rework"

(* _build_evidence: nor is there a bundle without an item.                 *)
Bundled(n) == LatestOfType("evidence", n) > 0
Finalized(n, r) == Bundled(n) /\ Over(r.state)

(* What each view reads, in the order of its code; the latest loop and     *)
(* regression are read like the latest step.                               *)
AgentReads == <<"history", "step", "state", "pr", "failed">>
TupleReads == <<"history", "step", "state", "failed">>
EventReads == <<"history">>
SummaryReads == <<"step", "readiness", "state", "pr", "failed">>
GateReads == <<"history", "gate">>
EvidenceReads == <<"history", "final">>
YoolReads == <<"history">>
AgentListReads == <<"state">>

Reads ==
  [agent |-> AgentReads, tuples |-> TupleReads, validations |-> EventReads,
   summary |-> SummaryReads, quality |-> GateReads, evidence |-> EvidenceReads,
   yools |-> YoolReads, agents |-> AgentListReads]

Value(what) ==
  CASE what = "history" -> handled
    [] what = "step" -> LatestOfType("step", handled)
    [] what = "readiness" -> Readiness(record)
    [] what = "gate" -> Gate(view.history, record)
    [] what = "final" -> Finalized(view.history, record)
    [] OTHER -> record[what]

------------------------------------------------------------------------------
RunViewsTypeOK ==
  /\ loopBound \in BOOLEAN
  /\ thread \in {"new", "flow", "ending", "ended"}
  /\ due \in Seq({"state", "failed", "pr", "done", "error"})
  /\ {outcome, record} \subseteq RunFields
  /\ published \in Seq(RunEvent) /\ handled \in 0..Len(published) /\ ended \in 0..handled
  /\ asked \in {"none"} \cup DOMAIN Reads /\ since \in 0..ended
  /\ asked # "none" => DOMAIN view \subseteq Range(Reads[asked])

RunViewsInit ==
  /\ loopBound \in BOOLEAN
  /\ thread = "new" /\ due = <<>>
  /\ record = [state |-> "queued", failed |-> FALSE, pr |-> FALSE] /\ outcome = record
  /\ published = <<>> /\ handled = 0 /\ ended = 0
  /\ asked = "none" /\ view = [x \in {} |-> 0] /\ since = 0
  /\ shown = [history |-> 0, step |-> 0, state |-> "queued"]

(* Without a loop the thread appends to the history itself.                *)
PublishRun(event) ==
  /\ published' = Append(published, event)
  /\ handled' = IF loopBound THEN handled ELSE handled + 1

Note(type, from) == [type |-> type, status |-> "none", text |-> type # "done", from |-> from]

ThreadStarts ==
  /\ thread = "new" /\ thread' = "flow"
  /\ record' = [record EXCEPT !.state = "running"]
  /\ PublishRun(Note("log", "manager"))
  /\ UNCHANGED <<loopBound, due, outcome, ended, client>>

Emit ==
  /\ thread = "flow" /\ Len(published) < MaxEmits
  /\ \E event \in Emits : PublishRun(event)
  /\ UNCHANGED <<loopBound, thread, due, outcome, record, ended, client>>

Ends(state, pr, writes) ==
  /\ thread = "flow" /\ thread' = "ending"
  /\ outcome' = [state |-> state, failed |-> state = "failed", pr |-> pr]
  /\ due' = writes
  /\ UNCHANGED <<loopBound, record, ended, client>>

(* Mutant of FieldWrites: the stream is told before the URL is there.           *)
FieldWritesUrlLast == <<"state", "failed", "done", "pr">>
FieldWrites == <<"state", "failed", "pr", "done">>

FlowEnds ==
  /\ \E state \in {"done", "failed"}, pr \in BOOLEAN : Ends(state, pr, FieldWrites)
  /\ UNCHANGED <<published, handled>>

(* The demo passes in its second round, and says done before it returns.   *)
DemoEnds == Ends("done", TRUE, FieldWrites) /\ PublishRun(Note("done", "bridge"))

RunRaises ==
  /\ Ends("failed", FALSE, <<"state", "failed", "error">>)
  /\ UNCHANGED <<published, handled>>

WriteField ==
  /\ due # <<>> /\ Head(due) \in DOMAIN record
  /\ record' = [record EXCEPT ![Head(due)] = outcome[Head(due)]]
  /\ due' = Tail(due)
  /\ UNCHANGED <<loopBound, thread, outcome, published, handled, ended, client>>

(* The text of an exception may be empty.                                  *)
TellStream ==
  /\ due # <<>> /\ Head(due) \in {"done", "error"}
  /\ \E says \in BOOLEAN :
       /\ Head(due) = "done" => ~says
       /\ PublishRun([Note(Head(due), "manager") EXCEPT !.text = says])
  /\ due' = Tail(due)
  /\ thread' = IF due' = <<>> THEN "ended" ELSE thread
  /\ UNCHANGED <<loopBound, outcome, record, ended, client>>

(* The coroutine of the oldest event: the history, then the queue; one     *)
(* that ends the stream is the last the client gets.                       *)
LoopHandles ==
  /\ loopBound /\ handled < Len(published)
  /\ handled' = handled + 1
  /\ UNCHANGED <<flow, ended, client>>

StreamEnds ==
  /\ loopBound /\ ended = 0
  /\ \E i \in 1..handled :
       /\ published[i].type \in {"done", "error"}
       /\ \A j \in 1..i - 1 : published[j].type \notin {"done", "error"}
       /\ ended' = i
  /\ UNCHANGED <<flow, handled, client>>

------------------------------------------------------------------------------
Ask(kind) ==
  /\ asked = "none" /\ asked' = kind
  /\ view' = [x \in {} |-> 0] /\ since' = ended
  /\ UNCHANGED <<flow, handled, ended, shown>>

Complete == DOMAIN view = Range(Reads[asked])

ReadNext ==
  /\ asked # "none" /\ ~Complete
  /\ LET what == Reads[asked][Cardinality(DOMAIN view) + 1]
     IN view' = [x \in DOMAIN view \cup {what} |-> IF x = what THEN Value(what) ELSE view[x]]
  /\ UNCHANGED <<flow, handled, ended, asked, shown, since>>

ViewAnswered ==
  /\ asked # "none" /\ Complete
  /\ asked' = "none"
  /\ shown' = [x \in DOMAIN shown |-> IF x \in DOMAIN view THEN view[x] ELSE shown[x]]
  /\ view' = [x \in {} |-> 0] /\ since' = 0
  /\ UNCHANGED <<flow, handled, ended>>

RunViewsNext ==
  \/ ThreadStarts \/ Emit \/ FlowEnds \/ DemoEnds \/ RunRaises \/ WriteField \/ TellStream
  \/ LoopHandles \/ StreamEnds
  \/ \E kind \in DOMAIN Reads : Ask(kind)
  \/ ReadNext \/ ViewAnswered

RunViewsSpec == RunViewsInit /\ [][RunViewsNext]_viewVars

------------------------------------------------------------------------------
(* A regression that passed has a message too and counts as a blocker.     *)
Blockers(n) == {i \in 1..n : published[i].type \in {"error", "regression"} /\ published[i].text}

(* render_status_answer, of a snapshot.                                    *)
NextAction(v) ==
  CASE v.state = "queued" -> "wait"
    [] v.state = "running" ->
         IF Blockers(v.history) # {} THEN "resolve" ELSE IF v.step > 0 THEN "continue step" ELSE "continue"
    [] v.state = "failed" -> "inspect"
    [] OTHER -> IF v.pr THEN "review PR" ELSE "close out"

StageOf(state) == CASE state = "queued" -> 0 [] state = "running" -> 1 [] OTHER -> 2

(* Who asks again is never shown less than before: neither the timeline,   *)
(* nor the step, nor the state, nor a verdict to publish goes back         *)
(* (events.py:34-42, manager.py:60-72).                                    *)
NeverBack ==
  LET seen == DOMAIN view
  IN /\ \A x \in seen \cap {"history", "step"} : view[x] >= shown[x]
     /\ "state" \in seen =>
          StageOf(view.state) >= StageOf(shown.state) /\ (Over(shown.state) => view.state = shown.state)
     /\ "final" \in seen /\ Over(shown.state) /\ Bundled(view.history) => view.final
     /\ "readiness" \in seen /\ shown.state = "done" => view.readiness = "auto_publish"
     /\ "gate" \in seen /\ shown.state = "done" => view.gate = IF view.history > 0 THEN "pass" ELSE "pending"

(* Within one answer the step is no older than the timeline beside it, and *)
(* a run that may be published is over and did not fail                    *)
(* (agent_status.py:16-19, control_plane.py:85-104).                       *)
PartsAgree ==
  /\ {"history", "step"} \subseteq DOMAIN view => LatestOfType("step", view.history) <= view.step
  /\ {"readiness", "failed"} \subseteq DOMAIN view /\ view.readiness = "auto_publish" =>
       view.state = "done" /\ ~view.failed

(* A client whose stream was closed by the manager's own event is then     *)
(* shown the whole run, as it ended, and told what that calls for          *)
(* (manager.py:69-83, status_answer.py:79-93).                             *)
CompleteAfterStream ==
  asked # "none" /\ Complete /\ since > 0 /\ published[since].from = "manager" =>
    /\ \A x \in DOMAIN view \cap DOMAIN record : view[x] = outcome[x]
    /\ "history" \in DOMAIN view => view.history = Len(published)
    /\ asked = "evidence" /\ Bundled(Len(published)) => view.final
    /\ asked = "quality" /\ outcome.state = "done" => view.gate = "pass"
    /\ asked = "agent" =>
         NextAction(view) = IF outcome.failed THEN "inspect" ELSE IF outcome.pr THEN "review PR" ELSE "close out"

(* What a client is shown never contradicts what it was shown before, what *)
(* is shown beside it, or the event that ended its stream.                 *)
ViewsHold == NeverBack /\ PartsAgree /\ CompleteAfterStream
================================================================================
