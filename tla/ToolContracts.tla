------------------------------ MODULE ToolContracts ------------------------------
(***************************************************************************)
(* What hardens a tool (yool/contracts.py): its contract, the cache of     *)
(* inputs, the budget of a dispatch and the retries.  Nothing in the       *)
(* package puts them together: a caller validates, asks the cache and      *)
(* tries, checks before it spends, and asks the policy after an error.     *)
(***************************************************************************)
EXTENDS Integers, FiniteSets, FiniteSetsExt

CONSTANTS
  Inputs,     \* payloads of the tool: a hash stands for its payload
  Schema,     \* input_schema
  Limit,      \* of each dimension, 0: none
  Spends,     \* what an attempt may use, of each dimension
  Retryable,  \* retryable_errors, with the classes that derive from them
  Errors,     \* what a tool may raise
  RetryLimit, \* max_retries
  Ttl,        \* ttl_s
  MaxEntries, \* max_entries
  MaxClock,   \* bound on time
  Nothing     \* no entry

Dimension == {"tokens", "cost", "time", "disk"}

(* The types of values, and those a JSON type allows: a bool is no number, *)
(* though Python's is an int; a type that is unknown or absent allows all. *)
Kind == {"str", "int", "float", "bool", "list", "dict", "None"}
TypeMatches(type, kind) ==
  CASE type = "string" -> kind = "str"
    [] type = "integer" -> kind = "int"
    [] type = "number" -> kind \in {"int", "float"}
    [] type = "boolean" -> kind = "bool"
    [] type = "array" -> kind = "list"
    [] type = "object" -> kind = "dict"
    [] OTHER -> kind \in Kind

(* validate_payload; what the schema does not name is not looked at.       *)
Valid(payload) ==
  /\ TypeMatches(Schema.type, payload.kind)
  /\ Schema.type = "object" =>
       /\ Schema.required \subseteq DOMAIN payload.fields
       /\ \A f \in DOMAIN payload.fields \cap DOMAIN Schema.properties :
            TypeMatches(Schema.properties[f], payload.fields[f])

ASSUME ToolContractsAssumption ==
  /\ \A i \in Inputs : i.kind \in Kind
  /\ Retryable \subseteq Errors
  /\ Limit \in [Dimension -> Nat] /\ Spends \subseteq [Dimension -> Nat]
  /\ {RetryLimit, Ttl, MaxClock} \subseteq Nat /\ MaxEntries \in Nat \ {0}

(* What is no entry is no time.                                            *)
ASSUME EntryAssumption == Nothing \notin Nat

VARIABLES
  now,      \* monotonic
  store,    \* _store: when the entry was made, or Nothing
  put,      \* the last put of each input, unless it was taken back or found expired
  call,     \* the call under way, or its end
  attempt,  \* its attempt, from 0
  used      \* the accumulators of its enforcer

toolVars == <<now, store, put, call, attempt, used>>
cached == <<store, put>>

ToolContractsTypeOK ==
  /\ now \in 0..MaxClock
  /\ {store, put} \subseteq [Inputs -> 0..MaxClock \cup {Nothing}]
  /\ call \in [of : Inputs, stage : {"attempt", "answered", "served", "refused", "over budget", "failed"}]
                \cup {Nothing}
  /\ attempt \in Nat /\ used \in [Dimension -> Nat]

Unused == [d \in Dimension |-> 0]

ToolContractsInit ==
  /\ now = 0 /\ store = [i \in Inputs |-> Nothing] /\ put = store
  /\ call = Nothing /\ attempt = 0 /\ used = Unused

Entries == {i \in Inputs : store[i] # Nothing}
Expired(i) == now - store[i] > Ttl
Stage(i, s) == call' = [of |-> i, stage |-> s]

------------------------------------------------------------------------------
(* validate_input, then the cache; an expired entry is deleted.            *)
CallBegins(i) ==
  /\ call # Nothing => call.stage # "attempt"
  /\ attempt' = 0 /\ used' = Unused
  /\ IF ~Valid(i) THEN Stage(i, "refused") /\ UNCHANGED cached
     ELSE IF i \notin Entries THEN Stage(i, "attempt") /\ UNCHANGED cached
     ELSE IF Expired(i)
            THEN /\ Stage(i, "attempt")
                 /\ store' = [store EXCEPT ![i] = Nothing] /\ put' = [put EXCEPT ![i] = Nothing]
     ELSE Stage(i, "served") /\ UNCHANGED cached
  /\ UNCHANGED now

(* check_all, with what the attempt would add.                             *)
Affords(spend) == \A d \in Dimension : Limit[d] > 0 => used[d] + spend[d] <= Limit[d]

CheckRaises ==
  /\ call # Nothing /\ call.stage = "attempt"
  /\ \E spend \in Spends : ~Affords(spend)
  /\ Stage(call.of, "over budget")
  /\ UNCHANGED <<now, cached, attempt, used>>

Commit(spend) == used' = [d \in Dimension |-> used[d] + spend[d]]

(* should_retry: a class of the error is on the list, and there are left.  *)
MayRetry(error) == attempt < RetryLimit /\ error \in Retryable

AttemptFails ==
  /\ call # Nothing /\ call.stage = "attempt"
  /\ \E spend \in Spends, error \in Errors :
       /\ Affords(spend) /\ Commit(spend)
       /\ IF MayRetry(error) THEN attempt' = attempt + 1 /\ UNCHANGED call
          ELSE Stage(call.of, "failed") /\ UNCHANGED attempt
  /\ UNCHANGED <<now, cached>>

(* Mutant of Oldest: the entry that was made last makes room.              *)
Newest(full) == {i \in full : \A j \in full : store[i] >= store[j]}
Oldest(full) == {i \in full : \A j \in full : store[i] <= store[j]}

(* put: a new key makes room first, an old one is renewed in place.        *)
CachePut(i) ==
  LET kept == IF Cardinality(Entries) >= MaxEntries /\ i \notin Entries
                THEN {Entries \ {o} : o \in Oldest(Entries)}
                ELSE {Entries}
  IN /\ \E left \in kept :
          store' = [j \in Inputs |-> IF j = i THEN now ELSE IF j \in left THEN store[j] ELSE Nothing]
     /\ put' = [put EXCEPT ![i] = now]

AttemptAnswers ==
  /\ call # Nothing /\ call.stage = "attempt"
  /\ \E spend \in Spends : Affords(spend) /\ Commit(spend)
  /\ CachePut(call.of)
  /\ Stage(call.of, "answered")
  /\ UNCHANGED <<now, attempt>>

Invalidate(i) ==
  /\ i \in Entries
  /\ store' = [store EXCEPT ![i] = Nothing] /\ put' = [put EXCEPT ![i] = Nothing]
  /\ UNCHANGED <<now, call, attempt, used>>

Clear ==
  /\ Entries # {}
  /\ store' = [i \in Inputs |-> Nothing] /\ put' = store'
  /\ UNCHANGED <<now, call, attempt, used>>

Tick == now < MaxClock /\ now' = now + 1 /\ UNCHANGED <<cached, call, attempt, used>>

ToolContractsNext ==
  \/ \E i \in Inputs : CallBegins(i) \/ Invalidate(i)
  \/ CheckRaises \/ AttemptFails \/ AttemptAnswers \/ Clear \/ Tick

ToolContractsSpec == ToolContractsInit /\ [][ToolContractsNext]_toolVars

------------------------------------------------------------------------------
(* The cache is never over its limit and what it serves is the last answer *)
(* within its time; an answer that lost its place lost it to newer ones    *)
(* (contracts.py:390), so a live entry never makes room for an expired     *)
(* one.  A call never spends over its budget, retries included, and never  *)
(* tries more often than the policy says.                                  *)
ContractsHold ==
  /\ Cardinality(Entries) <= MaxEntries
  /\ \A i \in Entries : store[i] = put[i]
  /\ \A i \in Inputs \ Entries : put[i] # Nothing => \A j \in Entries : store[j] >= put[i]
  /\ \A d \in Dimension : Limit[d] > 0 => used[d] <= Limit[d]
  /\ attempt <= RetryLimit
================================================================================
