------------------------------- MODULE RunServer -------------------------------
(***************************************************************************)
(* The run registry of the web API, for one run id: the worker threads of  *)
(* src/sendsprint/api/runs/manager.py, the event broker of events.py, the  *)
(* fallback of bridge.py, the event streams of routes/runs.py and the      *)
(* cancel request of routes/operator.py.  Threads write a status object    *)
(* field by field and nothing locks it.                                    *)
(***************************************************************************)
EXTENDS Naturals, Sequences

CONSTANTS
  Clients,      \* connections to the event stream
  MaxStarts,    \* bound on requests that start a run with this id
  MaxCancels    \* bound on requests that cancel it

ASSUME ServerAssumption ==
  /\ MaxStarts \in Nat \ {0} /\ MaxCancels \in Nat

VARIABLES
  status,     \* the RunStatus objects; the registry holds the last one
  pc,         \* where each worker thread is
  bound,      \* the object it took from the registry, 0 before
  report,     \* what run_with_events returned to it
  scheduled,  \* publish coroutines the loop has not run
  queues,     \* the asyncio queues, in order of creation
  queue,      \* the one the broker holds for this run, 0 if none
  client,     \* where each connection is
  canceller,  \* where the cancel request is, and its object
  cancels     \* cancel requests that passed their check

workers == <<pc, bound, report>>
streams == <<queues, queue, client>>
serverVars == <<status, workers, scheduled, streams, canceller, cancels>>

Workers == 1..MaxStarts
Started == DOMAIN status
Final == {"done", "failed"}

(* Steps, logs and evidence pass through the queue and change nothing: the *)
(* events here are the ones that end a stream, done and error.             *)
Event == [from : {"manager", "bridge"}, run : Workers]
Ev(from, n) == [from |-> from, run |-> n]

At(where) == [at |-> where, queue |-> 0, event |-> <<>>]

ServerTypeOK ==
  /\ status \in Seq([state : {"queued", "running"} \cup Final, failed : BOOLEAN])
  /\ Len(status) <= MaxStarts
  /\ pc \in [Workers -> {"none", "queued", "flow", "demo", "report", "flag", "tell",
                         "raised", "tellError", "end"}]
  /\ bound \in [Workers -> {0} \cup Started]
  /\ report \in [Workers -> {"none", "done", "failed"}]
  /\ scheduled \in Seq(Event)
  /\ queues \in Seq(Seq(Event)) /\ queue \in {0} \cup DOMAIN queues
  /\ client \in [Clients -> [at : {"off", "waiting", "got", "closed"},
                             queue : {0} \cup DOMAIN queues, event : Event \cup {<<>>}]]
  /\ canceller \in [at : {"idle", "state", "flag"}, object : {0} \cup Started]
  /\ cancels \in 0..MaxCancels

ServerInit ==
  /\ status = <<>>
  /\ pc = [n \in Workers |-> "none"]
  /\ bound = [n \in Workers |-> 0]
  /\ report = [n \in Workers |-> "none"]
  /\ scheduled = <<>>
  /\ queues = <<>> /\ queue = 0
  /\ client = [c \in Clients |-> At("off")]
  /\ canceller = [at |-> "idle", object |-> 0]
  /\ cancels = 0

Goto(n, where) == pc' = [pc EXCEPT ![n] = where]

PublishThreadsafe(event) == scheduled' = Append(scheduled, event)

------------------------------------------------------------------------------
(* start_run: a run id that is taken is started again all the same.        *)
StartRun ==
  /\ Len(status) < MaxStarts
  /\ LET n == Len(status) + 1
     IN Goto(n, "queued")
  /\ status' = Append(status, [state |-> "queued", failed |-> FALSE])
  /\ UNCHANGED <<bound, report, scheduled, streams, canceller, cancels>>

(* The head of _worker; the registry may hold a later object by now.  The  *)
(* request names a repository or does not.                                 *)
Begin(n) ==
  /\ pc[n] = "queued"
  /\ bound' = [bound EXCEPT ![n] = Len(status)]
  /\ status' = [status EXCEPT ![Len(status)].state = "running"]
  /\ \E next \in {"flow", "demo"} : Goto(n, next)
  /\ UNCHANGED <<report, scheduled, streams, canceller, cancels>>

FlowReturns(n) ==
  /\ pc[n] = "flow"
  /\ report' \in {[report EXCEPT ![n] = r] : r \in Final}
  /\ Goto(n, "report")
  /\ UNCHANGED <<status, bound, scheduled, streams, canceller, cancels>>

(* run_with_events: whatever the flow raises, and whenever, the demo runs. *)
FlowRaises(n) ==
  /\ pc[n] = "flow"
  /\ Goto(n, "demo")
  /\ UNCHANGED <<status, bound, report, scheduled, streams, canceller, cancels>>

(* _run_mock passes in its second round and tells so itself.               *)
DemoReturns(n) ==
  /\ pc[n] = "demo"
  /\ report' = [report EXCEPT ![n] = "done"]
  /\ PublishThreadsafe(Ev("bridge", n))
  /\ Goto(n, "report")
  /\ UNCHANGED <<status, bound, streams, canceller, cancels>>

DemoRaises(n) ==
  /\ pc[n] = "demo"
  /\ Goto(n, "raised")
  /\ UNCHANGED <<status, bound, report, scheduled, streams, canceller, cancels>>

WriteState(n) ==
  /\ pc[n] = "report"
  /\ status' = [status EXCEPT ![bound[n]].state = report[n]]
  /\ Goto(n, "flag")
  /\ UNCHANGED <<bound, report, scheduled, streams, canceller, cancels>>

WriteFailed(n) ==
  /\ pc[n] = "flag"
  /\ status' = [status EXCEPT ![bound[n]].failed = (report[n] = "failed")]
  /\ Goto(n, "tell")
  /\ UNCHANGED <<bound, report, scheduled, streams, canceller, cancels>>

(* Mutant of TellDone: the stream is told before the status is written.    *)
TellDoneEarly(n) ==
  /\ pc[n] \in {"report", "tell"}
  /\ PublishThreadsafe(Ev("manager", n))
  /\ Goto(n, IF pc[n] = "tell" THEN "end" ELSE "flag")
  /\ UNCHANGED <<status, bound, report, streams, canceller, cancels>>

TellDone(n) ==
  /\ pc[n] = "tell"
  /\ PublishThreadsafe(Ev("manager", n))
  /\ Goto(n, "end")
  /\ UNCHANGED <<status, bound, report, streams, canceller, cancels>>

(* Mutant of WriteRaised: the exception is told and not kept.              *)
WriteRaisedNot(n) ==
  /\ pc[n] = "raised"
  /\ Goto(n, "tellError")
  /\ UNCHANGED <<status, bound, report, scheduled, streams, canceller, cancels>>

(* The except branch of _worker.                                           *)
WriteRaised(n) ==
  /\ pc[n] = "raised"
  /\ status' = [status EXCEPT ![bound[n]] = [state |-> "failed", failed |-> TRUE]]
  /\ Goto(n, "tellError")
  /\ UNCHANGED <<bound, report, scheduled, streams, canceller, cancels>>

TellError(n) ==
  /\ pc[n] = "tellError"
  /\ PublishThreadsafe(Ev("manager", n))
  /\ Goto(n, "end")
  /\ UNCHANGED <<status, bound, report, streams, canceller, cancels>>

Work(n) ==
  \/ Begin(n) \/ FlowReturns(n) \/ FlowRaises(n) \/ DemoReturns(n) \/ DemoRaises(n)
  \/ WriteState(n) \/ WriteFailed(n) \/ TellDone(n) \/ WriteRaised(n) \/ TellError(n)

------------------------------------------------------------------------------
(* cancel_run, with confirmation: the check, then field by field.  The     *)
(* control command it enqueues has no consumer.                            *)
CancelCheck ==
  /\ canceller.at = "idle" /\ cancels < MaxCancels
  /\ status # <<>>
  /\ status[Len(status)].state \notin Final
  /\ canceller' = [at |-> "state", object |-> Len(status)]
  /\ cancels' = cancels + 1
  /\ UNCHANGED <<status, workers, scheduled, streams>>

CancelState ==
  /\ canceller.at = "state"
  /\ status' = [status EXCEPT ![canceller.object].state = "failed"]
  /\ canceller' = [canceller EXCEPT !.at = "flag"]
  /\ UNCHANGED <<workers, scheduled, streams, cancels>>

CancelFlag ==
  /\ canceller.at = "flag"
  /\ status' = [status EXCEPT ![canceller.object].failed = TRUE]
  /\ canceller' = [at |-> "idle", object |-> 0]
  /\ UNCHANGED <<workers, scheduled, streams, cancels>>

------------------------------------------------------------------------------
(* queue_for: the queue of the broker, or a new one.                       *)
QueueFor(qs, q) == IF q # 0 THEN <<qs, q>> ELSE <<Append(qs, <<>>), Len(qs) + 1>>

(* The loop runs publish.                                                  *)
Publish ==
  /\ scheduled # <<>>
  /\ LET found == QueueFor(queues, queue)
     IN /\ queues' = [found[1] EXCEPT ![found[2]] = Append(@, Head(scheduled))]
        /\ queue' = found[2]
  /\ scheduled' = Tail(scheduled)
  /\ UNCHANGED <<status, workers, client, canceller, cancels>>

(* drain: get on the queue the broker holds at this moment.                *)
Drain(c) ==
  LET found == QueueFor(queues, queue)
  IN /\ queues' = found[1] /\ queue' = found[2]
     /\ client' = [client EXCEPT ![c].at = "waiting", ![c].queue = found[2]]
     /\ UNCHANGED <<status, workers, scheduled, canceller, cancels>>

Connect(c) == client[c].at = "off" /\ status # <<>> /\ Drain(c)

Get(c) ==
  /\ client[c].at = "waiting"
  /\ LET q == client[c].queue
     IN /\ queues[q] # <<>>
        /\ client' = [client EXCEPT ![c] = [at |-> "got", queue |-> q, event |-> Head(queues[q])]]
        /\ queues' = [queues EXCEPT ![q] = Tail(@)]
  /\ UNCHANGED <<status, workers, scheduled, queue, canceller, cancels>>

(* Thirty seconds without an event: a keepalive, and drain again, which    *)
(* matters to a reader whose queue the broker has dropped.                 *)
Keepalive(c) ==
  /\ client[c].at = "waiting" /\ queues[client[c].queue] = <<>>
  /\ client[c].queue # queue
  /\ Drain(c)

(* The event is sent and closes the stream and the queue of the broker,    *)
(* also when it came from another one.                                     *)
Forward(c) ==
  /\ client[c].at = "got"
  /\ client' = [client EXCEPT ![c].at = "closed"]
  /\ queue' = 0
  /\ UNCHANGED <<status, workers, scheduled, queues, canceller, cancels>>

Serve(c) == Get(c) \/ Keepalive(c) \/ Forward(c)

Cancel == CancelCheck \/ CancelState \/ CancelFlag

ServerNext ==
  \/ StartRun \/ Cancel \/ Publish
  \/ \E n \in Workers : Work(n)
  \/ \E c \in Clients : Connect(c) \/ Serve(c)

(* Threads are scheduled, flows return or raise, the loop runs its tasks   *)
(* and a request that began ends; nobody has to start, connect or cancel.  *)
ServerFairness ==
  /\ \A n \in Workers : WF_serverVars(Work(n))
  /\ WF_serverVars(Publish)
  /\ \A c \in Clients : WF_serverVars(Serve(c))
  /\ WF_serverVars(CancelState) /\ WF_serverVars(CancelFlag)

ServerSpec == ServerInit /\ [][ServerNext]_serverVars /\ ServerFairness

------------------------------------------------------------------------------
Alone(n) == \A m \in Workers \ {n} : bound[m] # bound[n]

(* A stream that the manager's own event closed leaves a reader that asks  *)
(* for the status next with a final one (manager.py:69-83), unless another *)
(* worker was started on the same id.                                      *)
ClosedMeansFinal ==
  \A c \in Clients :
    client[c].at = "closed" /\ client[c].event.from = "manager" /\ Alone(client[c].event.run)
      => status[bound[client[c].event.run]].state \in Final

(* Without a cancel and with one worker to the object, the status says of  *)
(* a run that ended what its report said, in both fields.                  *)
StatusMatchesReport ==
  \A n \in Workers :
    pc[n] = "end" /\ Alone(n) /\ cancels = 0 =>
      LET s == status[bound[n]]
      IN /\ report[n] # "none" => s.state = report[n]
         /\ s.failed <=> s.state = "failed"

(* What the status says once a run is over is what became of it.           *)
HonestStatus == ClosedMeansFinal /\ StatusMatchesReport

(* Every run that was started ends as done or failed for those who ask     *)
(* (README of the API: queued/running/done/failed), whatever raises and    *)
(* however a cancel or a second start comes in between.                    *)
RunSettles == status # <<>> ~> status # <<>> /\ status[Len(status)].state \in Final

(* "Stream fecha apos `done` ou `error`" (api/README.md): every stream.    *)
EveryStreamCloses ==
  \A c \in Clients : client[c].at # "off" ~> client[c].at = "closed"
===============================================================================
