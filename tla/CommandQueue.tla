----------------------------- MODULE CommandQueue -----------------------------
(***************************************************************************)
(* CommandQueue of src/sendsprint/command_queue.py between operators, who  *)
(* may send a command again under its id when they get no answer, and the  *)
(* workers of a run, who poll, and then decide on each command they were   *)
(* given.  One lock covers every method; polling and deciding are calls    *)
(* apart, so what a worker was given may be decided when it comes to it.   *)
(***************************************************************************)
EXTENDS Naturals, Sequences, FiniteSets, SequencesExt, Subsequences

CONSTANTS
  Commands,   \* command ids
  Runners,    \* workers that poll one run
  Level,      \* rank of the autonomy level of the policy
  Required,   \* Required[c]: rank that the type of command c needs
  MaxSends    \* bound on enqueue calls

ASSUME QueueAssumption ==
  /\ Level \in Nat
  /\ Required \in [Commands -> Nat]
  /\ IsFiniteSet(Runners)
  /\ MaxSends \in Nat

VARIABLES
  commands,  \* status of each command of _commands
  order,     \* _by_run of the run
  batch,     \* what each worker polled and has still to decide
  current,   \* the command each worker has accepted and carries out
  effects,   \* effects[c]: how often command c was carried out
  sends

queueVars == <<commands, order, batch, current, effects, sends>>

Resolved == {"rejected", "applied", "failed"}
CommandStatus == {"queued", "accepted"} \cup Resolved

QueueTypeOK ==
  /\ DOMAIN commands \subseteq Commands
  /\ commands \in [DOMAIN commands -> CommandStatus]
  /\ order \in Seq(Commands) /\ ToSet(order) = DOMAIN commands
  /\ batch \in [Runners -> Seq(Commands)]
  /\ current \in [Runners -> SUBSET Commands]
  /\ effects \in [Commands -> 0..Cardinality(Runners)]
  /\ sends \in 0..MaxSends

QueueInit ==
  /\ commands = <<>> /\ order = <<>>
  /\ batch = [r \in Runners |-> <<>>]
  /\ current = [r \in Runners |-> {}]
  /\ effects = [c \in Commands |-> 0]
  /\ sends = 0

------------------------------------------------------------------------------
Allowed(c) == Level >= Required[c]

Put(c, status) == commands' = [x \in DOMAIN commands \cup {c} |-> IF x = c THEN status ELSE commands[x]]

(* Mutant of EnqueueCommand: an id that is resolved may be used again.     *)
EnqueueCommandAgain(c) ==
  /\ sends < MaxSends /\ Allowed(c)
  /\ c \in DOMAIN commands => commands[c] \in Resolved
  /\ Put(c, "queued")
  /\ order' = IF c \in DOMAIN commands THEN order ELSE Append(order, c)
  /\ sends' = sends + 1
  /\ UNCHANGED <<batch, current, effects>>

(* enqueue with an id of the caller's; the other outcomes raise and change *)
(* nothing: CommandPolicyError, DuplicateCommandError.                     *)
EnqueueCommand(c) ==
  /\ sends < MaxSends /\ Allowed(c) /\ c \notin DOMAIN commands
  /\ Put(c, "queued")
  /\ order' = Append(order, c)
  /\ sends' = sends + 1
  /\ UNCHANGED <<batch, current, effects>>

PollCommands(r) ==
  LET queued == Picked(order, {n \in DOMAIN order : commands[order[n]] = "queued"})
  IN /\ batch[r] = <<>> /\ current[r] = {} /\ queued # <<>>
     /\ batch' = [batch EXCEPT ![r] = queued]
     /\ UNCHANGED <<commands, order, current, effects, sends>>

(* _require_status: the command is known and in this status.               *)
Has(c, status) == c \in DOMAIN commands /\ commands[c] = status

NextInBatch(r) == batch' = [batch EXCEPT ![r] = Tail(@)]

(* accept, and the worker begins to carry the command out.                 *)
Accept(r) ==
  /\ batch[r] # <<>> /\ current[r] = {}
  /\ Has(Head(batch[r]), "queued")
  /\ Put(Head(batch[r]), "accepted")
  /\ current' = [current EXCEPT ![r] = {Head(batch[r])}]
  /\ effects' = [effects EXCEPT ![Head(batch[r])] = @ + 1]
  /\ NextInBatch(r)
  /\ UNCHANGED <<order, sends>>

RejectCommand(r) ==
  /\ batch[r] # <<>> /\ current[r] = {}
  /\ Has(Head(batch[r]), "queued")
  /\ Put(Head(batch[r]), "rejected")
  /\ NextInBatch(r)
  /\ UNCHANGED <<order, current, effects, sends>>

(* accept or reject raise InvalidCommandTransition: another worker was     *)
(* faster.                                                                 *)
TooLate(r) ==
  /\ batch[r] # <<>> /\ current[r] = {}
  /\ ~Has(Head(batch[r]), "queued")
  /\ NextInBatch(r)
  /\ UNCHANGED <<commands, order, current, effects, sends>>

(* Mutant of Resolve: the status that accept asks for.                     *)
ResolveQueued(r) ==
  \E c \in current[r] :
    /\ Has(c, "queued")
    /\ \E status \in {"applied", "failed"} : Put(c, status)
    /\ current' = [current EXCEPT ![r] = {}]
    /\ UNCHANGED <<order, batch, effects, sends>>

(* apply or fail.                                                          *)
Resolve(r) ==
  \E c \in current[r] :
    /\ Has(c, "accepted")
    /\ \E status \in {"applied", "failed"} : Put(c, status)
    /\ current' = [current EXCEPT ![r] = {}]
    /\ UNCHANGED <<order, batch, effects, sends>>

Decide(r) == PollCommands(r) \/ Accept(r) \/ RejectCommand(r) \/ TooLate(r) \/ Resolve(r)

QueueNext ==
  \/ \E c \in Commands : EnqueueCommand(c)
  \/ \E r \in Runners : Decide(r)

QueueSpec == QueueInit /\ [][QueueNext]_queueVars

(* Workers poll at safe checkpoints for as long as the run lasts.          *)
QueueFairness == \A r \in Runners : WF_queueVars(Decide(r))

------------------------------------------------------------------------------
(* "command IDs provide idempotency protection" (CHANGELOG.md:92): however *)
(* often a command is sent and whichever workers were given it, it is      *)
(* carried out once at most, and never after it was rejected.              *)
CarriedOutOnce ==
  \A c \in DOMAIN commands :
    /\ effects[c] <= 1
    /\ effects[c] = 1 <=> commands[c] \in {"accepted", "applied", "failed"}

(* A command that was taken into the queue is resolved in the end, also    *)
(* when two workers were given it and one of them came too late.           *)
CommandsSettle ==
  \A c \in Commands : c \in DOMAIN commands ~> c \in DOMAIN commands /\ commands[c] \in Resolved
===============================================================================
