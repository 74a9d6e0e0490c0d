------------------------------- MODULE ToolServer -------------------------------
(***************************************************************************)
(* The tools of the MCP server (mcp/server.py) over the tuple log of one   *)
(* run (yool/runtime.py, yool/tuples.py): serve_stdio answers frame by     *)
(* frame, dispatch appends a tuple and inspect reads the log three times,  *)
(* while a worker pool of another process marks tuples and somebody calls  *)
(* `sendsprint sprint resume`.  A line may be torn, by a process that dies *)
(* or a disk that is full, and the next one is glued to it.                *)
(***************************************************************************)
EXTENDS Integers, Sequences, SequencesExt, FiniteSets, Functions, Subsequences

CONSTANTS
  MaxFrames,   \* bound on frames of a client
  MaxLines,    \* bound on lines of the log
  MaxResumes,  \* bound on calls of resume
  MaxTears     \* bound on lines that are torn

ASSUME ToolServerAssumption == {MaxFrames, MaxResumes, MaxTears} \subseteq Nat /\ MaxLines \in Nat \ {0}

VARIABLES
  logLines,  \* the log: tuples, status markers and lines that do not parse
  issued,    \* tuples made so far; a tuple's id holds the time
  frames,    \* frames of the client, in order
  server,    \* serving, or how it ended
  served,    \* the frame it is at, the tool, and how often that has read the log
  lists,     \* what inspect has read
  replies,   \* to which frame, and what
  returned,  \* tuples a dispatch has returned
  pool,      \* what a worker pool has still to finish, and of that consumed
  marks,     \* what a resume has still to mark
  resumes, tears

toolCall == <<served, lists>>
session == <<frames, server, toolCall, replies>>
others == <<pool, marks, resumes>>
toolServerVars == <<logLines, issued, session, returned, others, tears>>

Frame == {"initialize", "initialized", "dispatch", "inspect", "unknown", "broken", "eof"}
Status == {"emitted", "consumed", "completed", "err"}
TupleIds == 1..MaxLines + MaxTears
LogLine == [kind : {"tuple", "status"}, id : TupleIds, status : Status] \cup [kind : {"torn", "glued"}]

ListNames == {"tuples", "pending", "completed"}
NoLists == [what \in ListNames |-> {}]
NoCall == [frame |-> 0, tool |-> "none", reads |-> 0]

ToolServerTypeOK ==
  /\ logLines \in Seq(LogLine) /\ issued \in TupleIds
  /\ frames \in Seq(Frame) /\ Len(frames) <= MaxFrames
  /\ server \in {"serving", "ended", "raised", "dead"}
  /\ served \in [frame : 0..Len(frames), tool : {"none", "dispatch", "written", "inspect"}, reads : 0..3]
  /\ lists \in [ListNames -> SUBSET TupleIds]
  /\ replies \in Seq([to : DOMAIN frames, answer : {"result", "error"}])
  /\ returned \subseteq 1..issued
  /\ pool.consumed \subseteq pool.taken /\ pool.taken \subseteq 1..issued
  /\ marks \in Seq(1..issued) /\ resumes \in 0..MaxResumes /\ tears \in 0..MaxTears

(* A run whose log holds its first tuple.                                  *)
ToolServerInit ==
  /\ logLines = <<[kind |-> "tuple", id |-> 1, status |-> "emitted"]>> /\ issued = 1
  /\ frames = <<>> /\ server = "serving" /\ served = NoCall /\ lists = NoLists /\ replies = <<>> /\ returned = {}
  /\ pool = [taken |-> {}, consumed |-> {}] /\ marks = <<>>
  /\ resumes = 0 /\ tears = 0

------------------------------------------------------------------------------
(* append, update_status: a line goes to the end of the file, whether the  *)
(* last one has its own end or not; iter_raw skips what does not parse.    *)
Room == Len(logLines) < MaxLines
TornLast == Last(logLines).kind = "torn"
WithLine(line) ==
  IF ~TornLast THEN Append(logLines, line)
  ELSE [logLines EXCEPT ![Len(logLines)] = [kind |-> IF line.kind = "torn" THEN "torn" ELSE "glued"]]

Mark(id, status) == Room /\ logLines' = WithLine([kind |-> "status", id |-> id, status |-> status])

(* materialise: a tuple and its markers, the last of which counts.         *)
Parsed == {i \in DOMAIN logLines : logLines[i].kind \in {"tuple", "status"}}
Held == {logLines[i].id : i \in {j \in Parsed : logLines[j].kind = "tuple"}}
StatusOf(id) ==
  logLines[CHOOSE i \in Parsed : logLines[i].id = id /\ \A j \in Parsed : logLines[j].id = id => j <= i].status

Having(statuses) == {id \in Held : StatusOf(id) \in statuses}
PendingTuples == Having({"emitted", "consumed"})
CompletedTuples == Having({"completed"})

------------------------------------------------------------------------------
(* Nothing follows a frame that ends the stream.                           *)
Send(frame) ==
  /\ Len(frames) < MaxFrames /\ server = "serving"
  /\ frames # <<>> => Last(frames) \notin {"broken", "eof"}
  /\ frames' = Append(frames, frame)
  /\ UNCHANGED <<logLines, issued, server, toolCall, replies, returned, others, tears>>

AwaitsFrame == server = "serving" /\ served.tool = "none"
Due(kinds) == AwaitsFrame /\ served.frame < Len(frames) /\ frames[served.frame + 1] \in kinds

To(frame, answer) == replies' = Append(replies, [to |-> frame, answer |-> answer])

(* handle, without a tool: the handshake is answered and its notification  *)
(* is not; any other method is an error, also when it is a notification.   *)
HandleAtOnce ==
  /\ Due({"initialize", "initialized", "unknown"})
  /\ served' = [NoCall EXCEPT !.frame = served.frame + 1]
  /\ CASE frames[served'.frame] = "initialize" -> To(served'.frame, "result")
       [] frames[served'.frame] = "unknown" -> To(served'.frame, "error")
       [] OTHER -> UNCHANGED replies
  /\ UNCHANGED <<logLines, issued, frames, server, lists, returned, others, tears>>

(* _read_message: the end of the stream ends the loop; a header, a length  *)
(* or a payload that is wrong raises out of it.                            *)
ServeEnds ==
  /\ Due({"eof", "broken"})
  /\ server' = IF frames[served.frame + 1] = "eof" THEN "ended" ELSE "raised"
  /\ UNCHANGED <<logLines, issued, frames, toolCall, replies, returned, others, tears>>

CallTool ==
  /\ Due({"dispatch", "inspect"})
  /\ served' = [NoCall EXCEPT !.frame = served.frame + 1, !.tool = frames[served.frame + 1]]
  /\ UNCHANGED <<logLines, issued, frames, server, lists, replies, returned, others, tears>>

Replies(answer) ==
  /\ To(served.frame, answer)
  /\ served' = [NoCall EXCEPT !.frame = served.frame] /\ lists' = NoLists
  /\ UNCHANGED <<frames, server, others>>

(* A missing argument, a yool the catalogue does not know, a file that     *)
(* cannot be opened or read: -32603, and nothing is written.               *)
ToolRaises ==
  /\ server = "serving" /\ served.tool \in {"dispatch", "inspect"}
  /\ Replies("error")
  /\ UNCHANGED <<logLines, issued, returned, tears>>

(* dispatch_yool: a tuple with an id of its own, then its line.            *)
DispatchAppends ==
  /\ server = "serving" /\ served.tool = "dispatch" /\ Room
  /\ issued' = issued + 1
  /\ logLines' = WithLine([kind |-> "tuple", id |-> issued', status |-> "emitted"])
  /\ served' = [served EXCEPT !.tool = "written"]
  /\ UNCHANGED <<frames, server, lists, replies, returned, others, tears>>

(* The summary of the tuple; fsync may still raise over a line that stays. *)
DispatchReplies ==
  /\ server = "serving" /\ served.tool = "written"
  /\ \/ Replies("result") /\ returned' = returned \cup {issued}
     \/ Replies("error") /\ UNCHANGED returned
  /\ UNCHANGED <<logLines, issued, tears>>

(* The line is torn: the disk is full, or the process dies.                *)
DispatchTears ==
  /\ server = "serving" /\ served.tool = "dispatch" /\ Room /\ tears < MaxTears
  /\ issued' = issued + 1 /\ tears' = tears + 1
  /\ logLines' = WithLine([kind |-> "torn"])
  /\ \/ Replies("error")
     \/ server' = "dead" /\ UNCHANGED <<frames, toolCall, replies, others>>
  /\ UNCHANGED returned

(* The client starts a server anew.                                        *)
ServeAgain ==
  /\ server = "dead" /\ server' = "serving"
  /\ frames' = <<>> /\ served' = NoCall /\ lists' = NoLists /\ replies' = <<>>
  /\ UNCHANGED <<logLines, issued, returned, others, tears>>

(* Mutant of InspectReads: what completed is read before what is pending.  *)
InspectReadsCompleted == <<"tuples", "completed", "pending">>
(* inspect_run opens the log for each list; the receipts lie between.      *)
InspectReads == <<"tuples", "pending", "completed">>

Listed(what) ==
  CASE what = "tuples" -> Held [] what = "pending" -> PendingTuples [] what = "completed" -> CompletedTuples

InspectNext ==
  /\ server = "serving" /\ served.tool = "inspect" /\ served.reads < 3
  /\ served' = [served EXCEPT !.reads = @ + 1]
  /\ LET what == InspectReads[served.reads + 1]
     IN lists' = [lists EXCEPT ![what] = Listed(what)]
  /\ UNCHANGED <<logLines, issued, frames, server, replies, returned, others, tears>>

InspectReplies ==
  /\ server = "serving" /\ served.tool = "inspect" /\ served.reads = 3
  /\ Replies("result")
  /\ UNCHANGED <<logLines, issued, returned, tears>>

------------------------------------------------------------------------------
(* run_worker_pool: the pending tuples, each consumed and then finished.   *)
PoolSeeds ==
  /\ pool.taken = {} /\ PendingTuples # {}
  /\ pool' = [taken |-> PendingTuples, consumed |-> {}]
  /\ UNCHANGED <<logLines, issued, session, returned, marks, resumes, tears>>

PoolConsumes(id) ==
  /\ id \in pool.taken \ pool.consumed /\ Mark(id, "consumed")
  /\ pool' = [pool EXCEPT !.consumed = @ \cup {id}]
  /\ UNCHANGED <<issued, session, returned, marks, resumes, tears>>

PoolFinishes(id) ==
  /\ id \in pool.consumed /\ \E status \in {"completed", "err"} : Mark(id, status)
  /\ pool' = [taken |-> pool.taken \ {id}, consumed |-> pool.consumed \ {id}]
  /\ UNCHANGED <<issued, session, returned, marks, resumes, tears>>

(* resume_run: what is pending now is marked one by one.                   *)
ResumeBegins ==
  /\ marks = <<>> /\ resumes < MaxResumes /\ PendingTuples # {}
  /\ LET waiting == Picked(logLines, {i \in Parsed : logLines[i].kind = "tuple" /\ logLines[i].id \in PendingTuples})
     IN marks' = [n \in DOMAIN waiting |-> waiting[n].id]
  /\ resumes' = resumes + 1
  /\ UNCHANGED <<logLines, issued, session, returned, pool, tears>>

ResumeMarks ==
  /\ marks # <<>> /\ Mark(Head(marks), "emitted")
  /\ marks' = Tail(marks)
  /\ UNCHANGED <<issued, session, returned, pool, resumes, tears>>

ToolServerNext ==
  \/ \E frame \in Frame : Send(frame)
  \/ HandleAtOnce \/ ServeEnds \/ CallTool \/ ToolRaises
  \/ DispatchAppends \/ DispatchReplies \/ DispatchTears \/ ServeAgain
  \/ InspectNext \/ InspectReplies
  \/ PoolSeeds \/ ResumeBegins \/ ResumeMarks
  \/ \E id \in TupleIds : PoolConsumes(id) \/ PoolFinishes(id)

ToolServerSpec == ToolServerInit /\ [][ToolServerNext]_toolServerVars

------------------------------------------------------------------------------
(* Each frame that was handled has one answer, in order, except the        *)
(* notification that has none (mcp/server.py:60-115,146-153).              *)
OneReplyEach ==
  /\ {replies[k].to : k \in DOMAIN replies} =
       {i \in 1..served.frame : frames[i] # "initialized" /\ (i = served.frame => served.tool = "none")}
  /\ \A j, k \in DOMAIN replies : j < k => replies[j].to < replies[k].to

(* A tuple that a dispatch returned is in the log, unless its line was     *)
(* glued to one that was torn before it: each such line takes one with it  *)
(* (tuples.py:3-4,140-145,168-177).                                        *)
DispatchedHeld ==
  Cardinality(returned \ Held) <= Cardinality({i \in DOMAIN logLines : logLines[i].kind = "glued"})

(* A tuple that finished and was marked as emitted after that.             *)
Revived(id) ==
  \E i, j \in Parsed :
    /\ i < j /\ logLines[i].id = id /\ logLines[j].id = id
    /\ logLines[i].status \in {"completed", "err"} /\ logLines[j].status = "emitted"

(* No tuple that inspect lists is missing from both of its lists, though   *)
(* they are read at different moments, unless it failed by now or a resume *)
(* that began before it finished has set it back (runtime.py:81-86,88-94). *)
NoneMissing ==
  served.tool = "inspect" /\ served.reads = 3 =>
    \A id \in lists["tuples"] :
      id \in lists["pending"] \cup lists["completed"] \/ StatusOf(id) = "err" \/ Revived(id)

(* What the tools tell holds of the log beside them.                       *)
ToolsTell == OneReplyEach /\ DispatchedHeld /\ NoneMissing

(* "Writes are fsync'd per line so a kill -9 cannot lose committed work"   *)
(* (tuples.py:3-4): not the line that follows a torn one.                  *)
CommittedStays == returned \subseteq Held
================================================================================
