--------------------------- MODULE PaymentRuntime ---------------------------
(***************************************************************************)
(* PaymentRuntime.execute over PaymentOrchestrator.execute over a rail     *)
(* that moves money elsewhere.  An execution is one call of                *)
(* PaymentRuntime.execute; executions interleave at their awaits.  Each    *)
(* has a transaction object of its own, and all that outlives it is what   *)
(* the rail did, the events on the bus and the promise it returned.        *)
(***************************************************************************)
EXTENDS Naturals

CONSTANTS
    Executions,     \* the calls of PaymentRuntime.execute
    Faults,         \* the kinds of step that may throw
    HasReceipts,    \* the orchestrator is configured with createReceipt
    None

FaultKinds == {"decision", "rail", "validation", "execution", "settlement",
               "receipt", "history", "listener"}

Statuses == {"validating", "processing", "awaiting_settlement", "settled",
             "completed", "failed"}
Outcomes == {"completed", "failed", "declined", "threw"}
Transfers == {"unsent", "inflight", "landed"}

ASSUME RuntimeAssumption ==
    /\ Faults \subseteq FaultKinds
    /\ HasReceipts \in BOOLEAN
    /\ None \notin Statuses \cup Outcomes

\* Lifecycle hooks are awaited one by one; each publishes its event.
HookStages == {"submitted", "accepted", "confirmed", "finalized", "receipted"}
Stages == {"idle", "deciding", "resolving", "validating", "executing", "settling",
           "receipting", "finishing", "done"} \cup HookStages

HookEvent == [submitted |-> "TransactionSubmitted", accepted |-> "TransactionAccepted",
              confirmed |-> "TransactionConfirmed", finalized |-> "TransactionFinalized",
              receipted |-> "ReceiptCreated"]
RuntimeEvents ==
    {"RuntimeStarted", "RuntimeCompleted", "RuntimeFailed", "PaymentCompleted",
     "PaymentFailed", "OrchestrationStarted", "OrchestrationCompleted",
     "OrchestrationFailed", "TransactionSubmitted", "TransactionAccepted",
     "TransactionConfirmed", "TransactionFinalized", "ReceiptCreated"}

VARIABLES
    stage,          \* the await each execution stands at
    transaction,    \* the status of its transaction, once it has one
    transfer,       \* what the rail did for it
    outcome,        \* the orchestration's status, then the promise's outcome
    emitted         \* the events it has published

runtimeVars == <<stage, transaction, transfer, outcome, emitted>>

RuntimeInit ==
    /\ stage = [x \in Executions |-> "idle"]
    /\ transaction = [x \in Executions |-> None]
    /\ transfer = [x \in Executions |-> "unsent"]
    /\ outcome = [x \in Executions |-> None]
    /\ emitted = [x \in Executions |-> {}]

-----------------------------------------------------------------------------
(* Mistakes: see TreasuryProgram. *)

\* The receipt or a hook failing after completion rewrites the transaction.
MistakeNothingTerminal(status) == FALSE

\* The rail's acceptance of a transfer is taken for its settlement.
MistakeAnswered(x) == transfer[x] # "unsent"

\* The catch block returns the result the try block was building.
MistakeOutcome(status) == "completed"

-----------------------------------------------------------------------------
(* What the steps share. *)

CanThrow(kind) == kind \in Faults

Goto(x, next) == stage' = [stage EXCEPT ![x] = next]
Mark(x, status) == transaction' = [transaction EXCEPT ![x] = status]
Publish(x, events) == emitted' = [emitted EXCEPT ![x] = @ \cup events]
Settle(x, how) == outcome' = [outcome EXCEPT ![x] = how]

IsTerminal(status) == status \in {"completed", "failed"}

\* Where an execution goes that was not approved.
WhenDeclined(x) == "done"

\* The adapter answers for a transfer the rail has accepted, and settlement is
\* confirmed for one that landed.
RailAccepts(x) == transfer[x] # "unsent"
RailConfirms(x) == transfer[x] = "landed"

\* The status of a result built in the catch block.
OutcomeOnError(status) == "failed"

\* The catch block of the orchestrator, which then finalizes.
CatchError(x) ==
    /\ Goto(x, "finishing")
    /\ Mark(x, IF IsTerminal(transaction[x]) THEN transaction[x] ELSE "failed")
    /\ Settle(x, OutcomeOnError(transaction[x]))

\* The runtime's promise rejects, after events that were still published.
Throw(x, events) ==
    /\ Goto(x, "done")
    /\ Settle(x, "threw")
    /\ Publish(x, events \cup {"RuntimeFailed"})

-----------------------------------------------------------------------------
(* The steps of an execution. *)

\* RuntimeStarted is published outside the try block.
Start(x) ==
    /\ stage[x] = "idle"
    /\ Publish(x, {"RuntimeStarted"})
    /\ \/ Goto(x, "deciding") /\ UNCHANGED outcome
       \/ CanThrow("listener") /\ Goto(x, "done") /\ Settle(x, "threw")
    /\ UNCHANGED <<transaction, transfer>>

\* A listener that throws ends an execution after what was published.
Approve(x) ==
    \/ /\ Goto(x, "resolving")
       /\ Publish(x, {"OrchestrationStarted"})
       /\ UNCHANGED outcome
    \/ CanThrow("listener") /\ Throw(x, {"OrchestrationStarted"})

Decline(x) ==
    \/ /\ Goto(x, WhenDeclined(x))
       /\ Publish(x, {"PaymentFailed", "RuntimeCompleted"})
       /\ Settle(x, "declined")
    \/ /\ CanThrow("listener")
       /\ \E events \in {{"PaymentFailed"}, {"PaymentFailed", "RuntimeCompleted"}} :
            Throw(x, events)

\* The decision pipeline approves the payment, does not, or throws, of its own
\* or because of a listener (module DecisionPipeline has its steps).
Decide(x) ==
    /\ stage[x] = "deciding"
    /\ \/ Approve(x)
       \/ Decline(x)
       \/ (CanThrow("decision") \/ CanThrow("listener")) /\ Throw(x, {})
    /\ UNCHANGED <<transaction, transfer>>

\* resolveRail is called before the transaction and the try block exist.
ResolveRail(x) ==
    /\ stage[x] = "resolving"
    /\ \/ /\ Goto(x, "validating")
          /\ Mark(x, "validating")
          /\ UNCHANGED <<outcome, emitted>>
       \/ /\ CanThrow("rail")
          /\ Throw(x, {"OrchestrationFailed"})
          /\ UNCHANGED transaction
    /\ UNCHANGED transfer

\* A valid intent is marked ready, then processing, and handed to the rail.
Validate(x) ==
    /\ stage[x] = "validating"
    /\ \/ /\ Goto(x, "executing")
          /\ Mark(x, "processing")
          /\ UNCHANGED outcome
       \/ /\ Goto(x, "finishing")
          /\ Mark(x, "failed")
          /\ Settle(x, "failed")
       \/ CanThrow("validation") /\ CatchError(x)
    /\ UNCHANGED <<transfer, emitted>>

\* The adapter answers, or throws whatever became of the transfer.
ExecutePayment(x) ==
    /\ stage[x] = "executing"
    /\ \/ /\ RailAccepts(x)
          /\ Goto(x, "submitted")
          /\ UNCHANGED <<transaction, outcome>>
       \/ CanThrow("execution") /\ CatchError(x)
    /\ UNCHANGED <<transfer, emitted>>

MonitorSettlement(x) ==
    /\ stage[x] = "settling"
    /\ \/ /\ RailConfirms(x)
          /\ Goto(x, "confirmed")
          /\ Mark(x, "settled")
          /\ UNCHANGED outcome
       \/ CanThrow("settlement") /\ CatchError(x)
    /\ UNCHANGED <<transfer, emitted>>

\* The status and the stage after each hook has returned.
AfterHook(hook) ==
    CASE hook = "submitted" -> <<"awaiting_settlement", "accepted">>
      [] hook = "accepted"  -> <<"awaiting_settlement", "settling">>
      [] hook = "confirmed" -> <<"completed", "finalized">>
      [] hook = "finalized" -> <<"completed", "receipting">>
      [] hook = "receipted" -> <<"completed", "finishing">>

RunHook(x) ==
    /\ stage[x] \in HookStages
    /\ Publish(x, {HookEvent[stage[x]]})
    /\ \/ /\ Mark(x, AfterHook(stage[x])[1])
          /\ Goto(x, AfterHook(stage[x])[2])
          /\ IF stage[x] = "receipted" THEN Settle(x, "completed")
                                       ELSE UNCHANGED outcome
       \/ CanThrow("listener") /\ CatchError(x)
    /\ UNCHANGED transfer

CreateReceipt(x) ==
    /\ stage[x] = "receipting"
    /\ \/ HasReceipts /\ Goto(x, "receipted") /\ UNCHANGED <<transaction, outcome>>
       \/ ~HasReceipts /\ Goto(x, "finishing") /\ Settle(x, "completed")
          /\ UNCHANGED transaction
       \/ HasReceipts /\ CanThrow("receipt") /\ CatchError(x)
    /\ UNCHANGED <<transfer, emitted>>

\* finalize records the history outside the reach of the catch block; the
\* runtime then announces completion whatever the orchestration's status is.
Finish(x) ==
    LET announced == {"OrchestrationCompleted", "PaymentCompleted", "RuntimeCompleted"}
    IN  /\ stage[x] = "finishing"
        /\ \/ Goto(x, "done") /\ Publish(x, announced) /\ UNCHANGED outcome
           \/ CanThrow("history") /\ Throw(x, {"OrchestrationFailed"})
           \/ /\ CanThrow("listener")
              /\ \E events \in {{"OrchestrationCompleted", "OrchestrationFailed"},
                                {"OrchestrationCompleted", "PaymentCompleted"},
                                announced} : Throw(x, events)
        /\ UNCHANGED <<transaction, transfer>>

-----------------------------------------------------------------------------
(* External: the rail.  A transfer may land long after the adapter gave up. *)

Contact(x) ==
    /\ stage[x] = "executing"
    /\ transfer[x] = "unsent"
    /\ transfer' = [transfer EXCEPT ![x] = "inflight"]
    /\ UNCHANGED <<stage, transaction, outcome, emitted>>

Land(x) ==
    /\ transfer[x] = "inflight"
    /\ transfer' = [transfer EXCEPT ![x] = "landed"]
    /\ UNCHANGED <<stage, transaction, outcome, emitted>>

Orchestrate(x) ==
    \/ ResolveRail(x) \/ Validate(x) \/ ExecutePayment(x)
    \/ MonitorSettlement(x) \/ RunHook(x) \/ CreateReceipt(x) \/ Finish(x)
    \/ Contact(x) \/ Land(x)

Advance(x) == Decide(x) \/ Orchestrate(x)

RuntimeNext == \E x \in Executions : Start(x) \/ Advance(x)

RuntimeSpec == RuntimeInit /\ [][RuntimeNext]_runtimeVars

-----------------------------------------------------------------------------
(* Properties *)

RuntimeTypeOK ==
    /\ stage \in [Executions -> Stages]
    /\ transaction \in [Executions -> Statuses \cup {None}]
    /\ transfer \in [Executions -> Transfers]
    /\ outcome \in [Executions -> Outcomes \cup {None}]
    /\ emitted \in [Executions -> SUBSET RuntimeEvents]

\* What a transaction and a result claim is so: money that they call settled or
\* completed has landed, money whose settlement is awaited has been sent, and a
\* result is completed only beside a completed transaction, whichever hook,
\* receipt or history call threw.
ClaimsAreTrue ==
    \A x \in Executions :
        /\ transaction[x] = "awaiting_settlement" => transfer[x] # "unsent"
        /\ transaction[x] \in {"settled", "completed"} => transfer[x] = "landed"
        /\ outcome[x] = "completed" => transaction[x] = "completed"

\* A payment that was declined, or announced as failed, has not reached the rail
\* and never will.
DeclinedIsNeverSent ==
    \A x \in Executions :
        outcome[x] = "declined" \/ "PaymentFailed" \in emitted[x]
          => transfer[x] = "unsent" /\ stage[x] = "done"

\* A transaction's life goes one way and ends once: whatever throws after the
\* transaction has completed does not make it a failed one.
StatusRank ==
    [validating |-> 1, processing |-> 2, awaiting_settlement |-> 3, settled |-> 4,
     completed |-> 5, failed |-> 5]

TransactionMovesForward ==
    [][\A x \in Executions :
         transaction'[x] # transaction[x] /\ transaction[x] # None =>
           StatusRank[transaction[x]] < StatusRank[transaction'[x]]]_runtimeVars

\* The events of a transaction are announced in the order of its life: submitted
\* for money that was sent, confirmed for money that landed, and a receipt for a
\* completed transaction.
EventsFollowTransaction ==
    \A x \in Executions :
        LET seen(e) == e \in emitted[x]
        IN  /\ seen("TransactionSubmitted") => transfer[x] # "unsent"
            /\ seen("TransactionAccepted") => seen("TransactionSubmitted")
            /\ seen("TransactionConfirmed") => /\ seen("TransactionAccepted")
                                               /\ transfer[x] = "landed"
            /\ seen("TransactionFinalized") => /\ seen("TransactionConfirmed")
                                               /\ transaction[x] = "completed"
            /\ seen("ReceiptCreated") => seen("TransactionFinalized")
            /\ outcome[x] = "completed" => seen("TransactionFinalized")
=============================================================================
