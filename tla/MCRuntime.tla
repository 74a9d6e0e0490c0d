------------------------------- MODULE MCRuntime -------------------------------
(* What the runtime keeps on disk and in queues; the parts share no        *)
(* variable: one of them is chosen at the start and the others rest.       *)
EXTENDS
  Dispatch, EventStore, PythonWorker, ToolContracts, OperatorApi, Memory, Rollback, RunViews, ToolServer

VARIABLE part

------------------------------------------------------------------------------
MCWorkers == {<<"p", "dev">>, <<"p", "lint">>, <<"q", "dev">>}
MCCosts == {[tokens |-> 1, wall |-> 1], [tokens |-> 3, wall |-> 1]}
MCTerms == [tokens |-> 2, wall |-> 0]
MCMaxDeaths == [p |-> 1, q |-> 0]

Payload(fields) == [kind |-> "dict", fields |-> fields]
MCInputs ==
  {Payload("name" :> "str"), Payload("name" :> "str" @@ "age" :> "int"), Payload("name" :> "str" @@ "note" :> "list"),
   Payload("name" :> "str" @@ "age" :> "bool")}
MCSchema ==
  [type |-> "object", required |-> {"name"}, properties |-> "name" :> "string" @@ "age" :> "number"]

MCLimit == [tokens |-> 3, cost |-> 0, time |-> 4, disk |-> 0]
MCSpends == {[tokens |-> 1, cost |-> 1, time |-> 2, disk |-> 0], [tokens |-> 2, cost |-> 0, time |-> 1, disk |-> 1]}

Failure(fingerprint, status, says) == [fingerprint |-> fingerprint, status |-> status, says |-> says]
MCEvents ==
  {Failure("lint", "failed", {"test", "quality"}), Failure("lint", "passed", {}),
   Failure("push", "failed", {"authentication"}), Failure("push", "passed", {"build"})}
MCOverlapping == {}

RunEventOf(type, status) == [type |-> type, status |-> status, text |-> TRUE, from |-> "bridge"]
MCEmits == {RunEventOf("step", "running"), RunEventOf("regression", "ok"), RunEventOf("evidence", "none")}

MCDeliveryPlan == <<<<"api", "one">>, <<"web", "one">>, <<"web", "two">>>>

------------------------------------------------------------------------------
runtime ==
  <<dispatchVars, storeVars, workerVars, toolVars, operatorVars, memoryVars, rollbackVars, viewVars,
    toolServerVars, part>>

(* A part that rests does so in one initial state.                         *)
Init ==
  /\ part \in {"dispatch", "events", "worker", "tools", "operator", "memory", "rollback", "views", "mcp"}
  /\ DispatchInit /\ StoreInit /\ PythonWorkerInit
  /\ ToolContractsInit /\ OperatorApiInit /\ MemoryInit /\ RollbackInit /\ ToolServerInit
  /\ RunViewsInit /\ (part # "views" => loopBound)

Next ==
  /\ UNCHANGED part
  /\ \/ /\ part = "dispatch" /\ DispatchNext
        /\ UNCHANGED <<storeVars, workerVars, toolVars, operatorVars, memoryVars,
                       rollbackVars, viewVars, toolServerVars>>
     \/ /\ part = "events" /\ StoreNext
        /\ UNCHANGED <<dispatchVars, workerVars, toolVars, operatorVars, memoryVars,
                       rollbackVars, viewVars, toolServerVars>>
     \/ /\ part = "worker" /\ PythonWorkerNext
        /\ UNCHANGED <<dispatchVars, storeVars, toolVars, operatorVars, memoryVars,
                       rollbackVars, viewVars, toolServerVars>>
     \/ /\ part = "tools" /\ ToolContractsNext
        /\ UNCHANGED <<dispatchVars, storeVars, workerVars, operatorVars, memoryVars,
                       rollbackVars, viewVars, toolServerVars>>
     \/ /\ part = "operator" /\ OperatorApiNext
        /\ UNCHANGED <<dispatchVars, storeVars, workerVars, toolVars, memoryVars,
                       rollbackVars, viewVars, toolServerVars>>
     \/ /\ part = "memory" /\ MemoryNext
        /\ UNCHANGED <<dispatchVars, storeVars, workerVars, toolVars, operatorVars,
                       rollbackVars, viewVars, toolServerVars>>
     \/ /\ part = "rollback" /\ RollbackNext
        /\ UNCHANGED <<dispatchVars, storeVars, workerVars, toolVars, operatorVars,
                       memoryVars, viewVars, toolServerVars>>
     \/ /\ part = "views" /\ RunViewsNext
        /\ UNCHANGED <<dispatchVars, storeVars, workerVars, toolVars, operatorVars,
                       memoryVars, rollbackVars, toolServerVars>>
     \/ /\ part = "mcp" /\ ToolServerNext
        /\ UNCHANGED <<dispatchVars, storeVars, workerVars, toolVars, operatorVars,
                       memoryVars, rollbackVars, viewVars>>

(* The part that moves; the others are as it finds them at its start.      *)
TypeOK ==
  /\ part = "dispatch" => DispatchTypeOK
  /\ part = "events" => StoreTypeOK
  /\ part = "worker" => PythonWorkerTypeOK
  /\ part = "tools" => ToolContractsTypeOK
  /\ part = "operator" => OperatorApiTypeOK
  /\ part = "memory" => MemoryTypeOK
  /\ part = "rollback" => RollbackTypeOK
  /\ part = "views" => RunViewsTypeOK
  /\ part = "mcp" => ToolServerTypeOK

Spec == Init /\ [][Next]_runtime
================================================================================
