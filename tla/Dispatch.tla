-------------------------------- MODULE Dispatch --------------------------------
(***************************************************************************)
(* The dispatcher, its receipts on disk with the index in memory, the      *)
(* budget of a tuple and the ledger (yool/dispatcher.py, receipts.py,      *)
(* budgets.py).  The workers of a process share a store and a ledger and   *)
(* dispatch in threads of their own, one worker to a yool; processes share *)
(* the directory.                                                          *)
(***************************************************************************)
EXTENDS Integers, Sequences, FiniteSets, FiniteSetsExt

CONSTANTS
  Processes,
  Workers,     \* set of <<process, yool>>
  Costs,       \* what an execution may cost
  Terms,       \* agent_terms; 0: no limit
  MaxReceipts, \* bound on executions
  MaxDeaths    \* per process, bound on its deaths

Cost == [tokens : Nat, wall : Nat]

ASSUME DispatchAssumption ==
  /\ Costs \subseteq Cost /\ Terms \in Cost
  /\ \A w \in Workers : w[1] \in Processes /\ w = <<w[1], w[2]>>
  /\ MaxReceipts \in Nat /\ MaxDeaths \in [Processes -> Nat]

Yools == {w[2] : w \in Workers}

VARIABLES
  receipts,  \* in the order of ended_at; a receipt's id is its place in it
  index,     \* per process: id of the receipt of a yool's input, or 0
  loaded,    \* _index_loaded
  listing,   \* per worker: the files a scan found
  ledger,    \* per process and yool
  stage,     \* where each worker is
  job,       \* its dispatch
  lives,     \* deaths of each process
  held,      \* yools with a receipt this life put, or its last load found in place
  raced      \* of those, the ones put while a scan was under way

dispatchVars == <<receipts, index, loaded, listing, ledger, stage, job, lives, held, raced>>
memory == <<index, loaded, ledger, held, raced>>

Receipt ==
  [yool : Yools, by : Workers, life : Nat, status : {"ok", "err"}, cost : Cost,
   file : {"tmp", "final", "orphan"}]

Idle == [id |-> 0, marker |-> 0]
Free == [tokens |-> 0, wall |-> 0]

DispatchTypeOK ==
  /\ receipts \in Seq(Receipt) /\ Len(receipts) <= MaxReceipts
  /\ index \in [Processes -> [Yools -> 0..MaxReceipts]]
  /\ loaded \in [Processes -> BOOLEAN]
  /\ listing \in [Workers -> SUBSET ((1..MaxReceipts) \X {"tmp", "final", "orphan"})]
  /\ ledger \in [Processes -> [Yools -> Cost]]
  /\ stage \in [Workers -> {"off", "look", "scan", "execute", "put", "record", "latest", "scan again", "ended", "dead"}]
  /\ job \in [Workers -> [id : 0..MaxReceipts, marker : 0..MaxReceipts]]
  /\ lives \in [Processes -> Nat]
  /\ held \in [Processes -> SUBSET Yools] /\ raced \in [Processes -> SUBSET Yools]

DispatchInit ==
  /\ receipts = <<>>
  /\ index = [p \in Processes |-> [y \in Yools |-> 0]]
  /\ loaded = [p \in Processes |-> FALSE]
  /\ listing = [w \in Workers |-> {}]
  /\ ledger = [p \in Processes |-> [y \in Yools |-> Free]]
  /\ stage = [w \in Workers |-> "off"]
  /\ job = [w \in Workers |-> Idle]
  /\ lives = [p \in Processes |-> 0]
  /\ held = [p \in Processes |-> {}] /\ raced = [p \in Processes |-> {}]

Go(w, there) == stage' = [stage EXCEPT ![w] = there]
Plus(c, d) == [tokens |-> c.tokens + d.tokens, wall |-> c.wall + d.wall]

------------------------------------------------------------------------------
(* With no_cache nothing is looked up.                                     *)
DispatchBegins(w) ==
  /\ stage[w] \in {"off", "ended"}
  /\ \E first \in {"look", "execute"} : Go(w, first)
  /\ job' = [job EXCEPT ![w] = Idle]
  /\ UNCHANGED <<receipts, memory, listing, lives>>

(* all(): the names are listed, then the files are read one by one.  The   *)
(* temporary file of a put has a name the pattern matches.                 *)
Files == {<<id, receipts[id].file>> : id \in DOMAIN receipts}

ScanLists(w) ==
  /\ \/ stage[w] = "look" /\ ~loaded[w[1]] /\ Go(w, "scan")
     \/ stage[w] = "latest" /\ Go(w, "scan again")
  /\ listing' = [listing EXCEPT ![w] = Files]
  /\ UNCHANGED <<receipts, memory, job, lives>>

(* A temporary file may be read while it is incomplete, and is skipped.    *)
Readable(w, found) ==
  /\ found \subseteq {f[1] : f \in listing[w]}
  /\ \A f \in listing[w] : f[2] = "final" => f[1] \in found

Latest(ids) == Max(ids \cup {0})

PutHere(p, y) ==
  \E id \in DOMAIN receipts :
    /\ receipts[id].by = <<p, y>> /\ receipts[id].life = lives[p]
    /\ receipts[id].status = "ok" /\ receipts[id].file = "final"

(* _ensure_index: the newest ok receipt wins; the index is replaced.       *)
IndexLoads(w) ==
  /\ stage[w] = "scan"
  /\ \E found \in SUBSET (DOMAIN receipts) :
       /\ Readable(w, found)
       /\ LET winner(y) == Latest({id \in found : receipts[id].yool = y /\ receipts[id].status = "ok"})
          IN /\ index' = [index EXCEPT ![w[1]] = [y \in Yools |-> winner(y)]]
             /\ held' = [held EXCEPT ![w[1]] =
                           {y \in Yools : \/ y \in @ /\ PutHere(w[1], y)
                                          \/ winner(y) # 0 /\ receipts[winner(y)].file = "final"}]
  /\ loaded' = [loaded EXCEPT ![w[1]] = TRUE]
  /\ listing' = [listing EXCEPT ![w] = {}]
  /\ Go(w, "look")
  /\ UNCHANGED <<receipts, ledger, raced, job, lives>>

(* A listed file that was renamed before it was read raises                *)
(* FileNotFoundError: out of dispatch, or out of the worker's handler.     *)
ScanRaises(w) ==
  /\ \E f \in listing[w] : f[2] = "tmp" /\ receipts[f[1]].file = "final"
  /\ \/ stage[w] = "scan" /\ Go(w, "latest")
     \/ stage[w] = "scan again" /\ Go(w, "dead")
  /\ listing' = [listing EXCEPT ![w] = {}]
  /\ UNCHANGED <<receipts, memory, job, lives>>

(* Mutant of Serve: the cost of the receipt is recorded again.             *)
ServeAtCost(w, id) ==
  /\ job' = [job EXCEPT ![w].id = id, ![w].marker = id]
  /\ ledger' = [ledger EXCEPT ![w[1]][w[2]] = Plus(@, receipts[id].cost)]
  /\ Go(w, "ended")

(* A receipt that is served costs nothing.                                 *)
Serve(w, id) ==
  /\ job' = [job EXCEPT ![w].id = id, ![w].marker = id]
  /\ ledger' = [ledger EXCEPT ![w[1]][w[2]] = Plus(@, Free)]
  /\ Go(w, "ended")

(* find_by_input; the file of an entry may not be there.                   *)
Look(w) ==
  /\ stage[w] = "look" /\ loaded[w[1]]
  /\ LET id == index[w[1]][w[2]]
     IN IF id # 0 /\ receipts[id].file = "final" THEN Serve(w, id)
        ELSE Go(w, "execute") /\ UNCHANGED <<job, ledger>>
  /\ UNCHANGED <<receipts, index, loaded, held, raced, listing, lives>>

(* A guard of its own for each dispatch, asked after the execution.        *)
Within(cost) ==
  /\ Terms.tokens # 0 => cost.tokens <= Terms.tokens
  /\ Terms.wall # 0 => cost.wall <= Terms.wall

(* write_ok_receipt, write_err_receipt, up to the put: the cost of an      *)
(* error, be it the budget's, is its time and no tokens.                   *)
NewReceipt(w, status, cost) ==
  [yool |-> w[2], by |-> w, life |-> lives[w[1]], status |-> status, file |-> "tmp",
   cost |-> IF status = "ok" THEN cost ELSE [cost EXCEPT !.tokens = 0]]

(* The executor returns or raises.                                         *)
Execute(w) ==
  /\ stage[w] = "execute" /\ Len(receipts) < MaxReceipts
  /\ \E cost \in Costs, raises \in BOOLEAN :
       receipts' = Append(receipts,
         NewReceipt(w, IF raises \/ ~Within(cost) THEN "err" ELSE "ok", cost))
  /\ job' = [job EXCEPT ![w].id = Len(receipts')]
  /\ Go(w, "put")
  /\ UNCHANGED <<memory, listing, lives>>

(* Mutant of Put: the index is left for the next load.                     *)
PutOnDisk(w) ==
  /\ stage[w] = "put"
  /\ receipts' = [receipts EXCEPT ![job[w].id].file = "final"]
  /\ Go(w, "record")
  /\ UNCHANGED <<index, loaded, ledger, raced, job, listing, lives>>
  /\ held' = [held EXCEPT ![w[1]] = IF receipts[job[w].id].status = "ok" THEN @ \cup {w[2]} ELSE @]

(* os.replace, then the entry of the index.                                *)
Put(w) ==
  /\ stage[w] = "put"
  /\ receipts' = [receipts EXCEPT ![job[w].id].file = "final"]
  /\ IF receipts[job[w].id].status = "ok"
     THEN /\ index' = [index EXCEPT ![w[1]][w[2]] = job[w].id]
          /\ held' = [held EXCEPT ![w[1]] = @ \cup {w[2]}]
          /\ raced' = IF \E v \in Workers : v[1] = w[1] /\ stage[v] = "scan"
                      THEN [raced EXCEPT ![w[1]] = @ \cup {w[2]}] ELSE raced
     ELSE UNCHANGED <<index, held, raced>>
  /\ Go(w, "record")
  /\ UNCHANGED <<loaded, ledger, job, listing, lives>>

(* The ledger, then the worker's marker: the receipt of the result, or     *)
(* after an exception the newest one of the input it can find.             *)
Record(w) ==
  /\ stage[w] = "record"
  /\ ledger' = [ledger EXCEPT ![w[1]][w[2]] = Plus(@, receipts[job[w].id].cost)]
  /\ IF receipts[job[w].id].status = "ok"
     THEN job' = [job EXCEPT ![w].marker = @ + job[w].id] /\ Go(w, "ended")
     ELSE Go(w, "latest") /\ UNCHANGED job
  /\ UNCHANGED <<receipts, index, loaded, held, raced, listing, lives>>

LatestReceipt(w) ==
  /\ stage[w] = "scan again"
  /\ \E found \in SUBSET (DOMAIN receipts) :
       /\ Readable(w, found)
       /\ job' = [job EXCEPT ![w].marker = Latest({id \in found : receipts[id].yool = w[2]})]
  /\ listing' = [listing EXCEPT ![w] = {}]
  /\ Go(w, "ended")
  /\ UNCHANGED <<receipts, memory, lives>>

(* A process dies: a put it was in leaves its temporary file behind.       *)
DispatcherDies(p) ==
  /\ lives[p] < MaxDeaths[p]
  /\ lives' = [lives EXCEPT ![p] = @ + 1]
  /\ receipts' = [id \in DOMAIN receipts |->
                    IF receipts[id].file = "tmp" /\ receipts[id].by[1] = p
                    THEN [receipts[id] EXCEPT !.file = "orphan"] ELSE receipts[id]]
  /\ index' = [index EXCEPT ![p] = [y \in Yools |-> 0]]
  /\ loaded' = [loaded EXCEPT ![p] = FALSE]
  /\ ledger' = [ledger EXCEPT ![p] = [y \in Yools |-> Free]]
  /\ stage' = [w \in Workers |-> IF w[1] = p THEN "off" ELSE stage[w]]
  /\ job' = [w \in Workers |-> IF w[1] = p THEN Idle ELSE job[w]]
  /\ listing' = [w \in Workers |-> IF w[1] = p THEN {} ELSE listing[w]]
  /\ held' = [held EXCEPT ![p] = {}] /\ raced' = [raced EXCEPT ![p] = {}]

DispatchNext ==
  \/ \E w \in Workers :
       \/ DispatchBegins(w) \/ ScanLists(w) \/ IndexLoads(w) \/ ScanRaises(w) \/ Look(w)
       \/ Execute(w) \/ Put(w) \/ Record(w) \/ LatestReceipt(w)
  \/ \E p \in Processes : DispatcherDies(p)

DispatchSpec == DispatchInit /\ [][DispatchNext]_dispatchVars

------------------------------------------------------------------------------
(* The ledger is the cost of the receipts this life of the process wrote:  *)
(* what is served from one costs nothing, an error costs its time, and a   *)
(* dispatch is counted once (yool/dispatcher.py:72, 114, 127, 140).        *)
Counted(p, y) ==
  {id \in DOMAIN receipts :
     /\ receipts[id].by = <<p, y>> /\ receipts[id].life = lives[p]
     /\ ~(stage[<<p, y>>] \in {"put", "record"} /\ job[<<p, y>>].id = id)}

Tokens == [id \in DOMAIN receipts |-> receipts[id].cost.tokens]
Walls == [id \in DOMAIN receipts |-> receipts[id].cost.wall]

LedgerIsReceipts ==
  \A p \in Processes, y \in Yools :
    <<p, y>> \in Workers =>
      ledger[p][y] = [tokens |-> SumFunctionOnSet(Tokens, Counted(p, y)),
                      wall |-> SumFunctionOnSet(Walls, Counted(p, y))]

(* What the process has put, or has found in place, is not run again,      *)
(* unless no_cache says so, another thread was loading the index when the  *)
(* receipt was put, which its load then replaces, or a newer receipt of    *)
(* another process is not in place (receipts.py:122-131, 160-172).         *)
NotRunAgain ==
  [][\A w \in Workers :
       stage[w] = "look" /\ stage'[w] = "execute" =>
         \/ w[2] \notin held[w[1]] \ raced[w[1]]
         \/ \E id \in {index[w[1]][w[2]]} \ {0} : receipts[id].file # "final"]_dispatchVars

(* A tuple whose dispatch got as far as a receipt carries that one, the    *)
(* one it was served, or, after an error, one that another process wrote   *)
(* later (workers.py:82-100, 124-135).                                     *)
OwnReceipt ==
  \A w \in Workers :
    stage[w] = "ended" /\ job[w].id # 0 =>
      \/ job[w].marker = job[w].id
      \/ job[w].marker > job[w].id /\ receipts[job[w].marker].by[1] # w[1]

Receipted == LedgerIsReceipts /\ OwnReceipt
================================================================================
