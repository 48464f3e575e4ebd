--------------------------- MODULE RuntimeProofs ---------------------------
(***************************************************************************)
(* Theorems about the runtime's three layers: the runtime under the        *)
(* resilience engine, for any number of payments and attempts and any      *)
(* kinds of fault; the decision pipeline, for any engines and verdicts;    *)
(* and the circuit breaker, for any callers, thresholds and cool-down.     *)
(***************************************************************************)
EXTENDS ResilientRuntime, DecisionPipeline, CircuitBreaker, TLAPS

-----------------------------------------------------------------------------
(* The runtime under the resilience engine.  ExecutionInv says what an      *)
(* execution's stage tells of its transaction, its transfer and its outcome;*)
(* it is inductive for each execution alone, since executions share nothing.*)

\* Before the orchestrator's try block there is no transaction.
BeforeTransaction(x) ==
    stage[x] \in {"idle", "deciding", "resolving"} =>
        transaction[x] = None /\ transfer[x] = "unsent"

\* Inside it the stage determines the status.
StatusByStage(x) ==
    /\ stage[x] = "validating" => transaction[x] = "validating" /\ transfer[x] = "unsent"
    /\ stage[x] \in {"executing", "submitted"} => transaction[x] = "processing"
    /\ stage[x] \in {"accepted", "settling"} => transaction[x] = "awaiting_settlement"
    /\ stage[x] = "confirmed" => transaction[x] = "settled"
    /\ stage[x] \in {"finalized", "receipting", "receipted"} => transaction[x] = "completed"
    /\ stage[x] = "finishing" => transaction[x] \in {"completed", "failed"}

\* What the rail has done when the stage says so.
TransferByStage(x) ==
    /\ stage[x] \in {"submitted", "accepted", "settling"} => transfer[x] # "unsent"
    /\ stage[x] \in {"confirmed", "finalized", "receipting", "receipted"}
         => transfer[x] = "landed"

OutcomeByStage(x) ==
    /\ stage[x] \notin {"finishing", "done"} => outcome[x] = None
    /\ stage[x] = "finishing" => outcome[x] \in {"completed", "failed"}
    /\ stage[x] = "done" => outcome[x] \in Outcomes

Claims(x) ==
    /\ transaction[x] = "awaiting_settlement" => transfer[x] # "unsent"
    /\ transaction[x] \in {"settled", "completed"} => transfer[x] = "landed"
    /\ outcome[x] = "completed" => transaction[x] = "completed"

Refusal(x) ==
    outcome[x] = "declined" \/ "PaymentFailed" \in emitted[x]
      => transfer[x] = "unsent" /\ stage[x] = "done"

\* A promise that rejected beside a transfer rejected after the orchestration.
LateThrow(x) ==
    outcome[x] = "threw" /\ transfer[x] # "unsent" =>
        /\ transaction[x] \in {"completed", "failed"}
        /\ \E kind \in {"history", "listener"} : CanThrow(kind)

ExecutionInv(x) ==
    /\ BeforeTransaction(x) /\ StatusByStage(x) /\ TransferByStage(x)
    /\ OutcomeByStage(x) /\ Claims(x) /\ Refusal(x) /\ LateThrow(x)

MovesForward(x) ==
    transaction'[x] # transaction[x] /\ transaction[x] # None =>
        StatusRank[transaction[x]] < StatusRank[transaction'[x]]

\* An execution that is done, and one that has begun, stay so.
Lasting(x) ==
    /\ stage[x] = "done" => stage'[x] = "done" /\ outcome'[x] = outcome[x]
    /\ stage[x] # "idle" => stage'[x] # "idle"

SameExecution(y) ==
    /\ stage'[y] = stage[y]
    /\ transaction'[y] = transaction[y]
    /\ transfer'[y] = transfer[y]
    /\ outcome'[y] = outcome[y]
    /\ emitted'[y] = emitted[y]

\* What each step of execution x is to show.
Kept(x) ==
    /\ RuntimeTypeOK'
    /\ ExecutionInv(x)'
    /\ MovesForward(x)
    /\ Lasting(x)
    /\ \A y \in Executions \ {x} : SameExecution(y)

LEMMA NoneIsNoStatus == None \notin Statuses /\ None \notin Outcomes
BY RuntimeAssumption

LEMMA Ranks ==
    /\ StatusRank["validating"] = 1 /\ StatusRank["processing"] = 2
    /\ StatusRank["awaiting_settlement"] = 3 /\ StatusRank["settled"] = 4
    /\ StatusRank["completed"] = 5 /\ StatusRank["failed"] = 5
BY DEF StatusRank

-----------------------------------------------------------------------------
(* The steps of an execution. *)

\* What an execution's steps do to the five functions: they set its own values.
Sets(x, st, tr, tf, oc, em) ==
    /\ stage' = [stage EXCEPT ![x] = st]
    /\ transaction' = [transaction EXCEPT ![x] = tr]
    /\ transfer' = [transfer EXCEPT ![x] = tf]
    /\ outcome' = [outcome EXCEPT ![x] = oc]
    /\ emitted' = [emitted EXCEPT ![x] = em]

LEMMA SetsOwnValues ==
    ASSUME RuntimeTypeOK, NEW x \in Executions,
           NEW st \in Stages, NEW tr \in Statuses \cup {None}, NEW tf \in Transfers,
           NEW oc \in Outcomes \cup {None}, NEW em \in SUBSET RuntimeEvents,
           Sets(x, st, tr, tf, oc, em)
    PROVE  /\ RuntimeTypeOK'
           /\ stage'[x] = st /\ transaction'[x] = tr /\ transfer'[x] = tf
           /\ outcome'[x] = oc /\ emitted'[x] = em
           /\ \A y \in Executions \ {x} : SameExecution(y)
<1>1. RuntimeTypeOK'
  BY DEF RuntimeTypeOK, Sets
<1>2. QED
  BY <1>1 DEF RuntimeTypeOK, Sets, SameExecution

LEMMA Unchanged ==
    ASSUME RuntimeTypeOK, NEW x \in Executions
    PROVE  /\ stage = [stage EXCEPT ![x] = stage[x]]
           /\ transaction = [transaction EXCEPT ![x] = transaction[x]]
           /\ transfer = [transfer EXCEPT ![x] = transfer[x]]
           /\ outcome = [outcome EXCEPT ![x] = outcome[x]]
           /\ emitted = [emitted EXCEPT ![x] = emitted[x]]
BY DEF RuntimeTypeOK

LEMMA StartKeeps ==
    ASSUME RuntimeTypeOK, NEW x \in Executions, ExecutionInv(x), Start(x)
    PROVE  Kept(x)
<1>1. /\ stage[x] = "idle"
      /\ transaction[x] = None
      /\ transfer[x] = "unsent"
      /\ outcome[x] = None
      /\ "PaymentFailed" \notin emitted[x]
  BY DEF Start, ExecutionInv, BeforeTransaction, OutcomeByStage, Refusal
<1> DEFINE em == emitted[x] \cup {"RuntimeStarted"}
<1>2. em \in SUBSET RuntimeEvents /\ "PaymentFailed" \notin em
  BY <1>1 DEF RuntimeTypeOK, RuntimeEvents
<1>3. PICK st \in {"deciding", "done"}, oc \in {None, "threw"} :
        /\ Sets(x, st, None, "unsent", oc, em)
        /\ st = "deciding" <=> oc = None
  <2>1. CASE Goto(x, "deciding") /\ UNCHANGED outcome
    <3>1. Sets(x, "deciding", None, "unsent", None, em)
      BY <1>1, <2>1, Unchanged DEF Start, Goto, Publish, Sets
    <3>2. QED
      BY <3>1
  <2>2. CASE Goto(x, "done") /\ Settle(x, "threw")
    <3>1. Sets(x, "done", None, "unsent", "threw", em)
      BY <1>1, <2>2, Unchanged DEF Start, Goto, Settle, Publish, Sets
    <3>2. "threw" # None
      BY NoneIsNoStatus DEF Outcomes
    <3>3. QED
      BY <3>1, <3>2
  <2>3. QED
    BY <2>1, <2>2 DEF Start
<1> HIDE DEF em
<1>4. /\ RuntimeTypeOK'
      /\ stage'[x] = st /\ transaction'[x] = None /\ transfer'[x] = "unsent"
      /\ outcome'[x] = oc /\ emitted'[x] = em
      /\ \A y \in Executions \ {x} : SameExecution(y)
  BY <1>2, <1>3, SetsOwnValues DEF Stages, Transfers, Outcomes
<1>5. ExecutionInv(x)'
  BY <1>2, <1>3, <1>4, NoneIsNoStatus DEF ExecutionInv, BeforeTransaction, StatusByStage,
     TransferByStage, OutcomeByStage, Claims, Refusal, LateThrow, Statuses, Outcomes
<1>6. QED
  BY <1>1, <1>3, <1>4, <1>5 DEF Kept, MovesForward, Lasting

\* The two ways in which a step fails, as what they set.
LEMMA CatchErrorSets ==
    ASSUME RuntimeTypeOK, NEW x \in Executions, NEW em, CatchError(x),
           UNCHANGED transfer, emitted' = [emitted EXCEPT ![x] = em]
    PROVE  Sets(x, "finishing",
                IF IsTerminal(transaction[x]) THEN transaction[x] ELSE "failed",
                transfer[x], "failed", em)
BY Unchanged DEF CatchError, Goto, Mark, Settle, OutcomeOnError, Sets

LEMMA ThrowSets ==
    ASSUME RuntimeTypeOK, NEW x \in Executions, NEW events, Throw(x, events),
           UNCHANGED <<transaction, transfer>>
    PROVE  Sets(x, "done", transaction[x], transfer[x], "threw",
                emitted[x] \cup (events \cup {"RuntimeFailed"}))
BY Unchanged DEF Throw, Goto, Settle, Publish, Sets

LEMMA DecideKeeps ==
    ASSUME RuntimeTypeOK, NEW x \in Executions, ExecutionInv(x), Decide(x)
    PROVE  Kept(x)
<1>1. /\ stage[x] = "deciding"
      /\ transaction[x] = None
      /\ transfer[x] = "unsent"
      /\ outcome[x] = None
      /\ "PaymentFailed" \notin emitted[x]
      /\ emitted[x] \subseteq RuntimeEvents
  BY DEF Decide, ExecutionInv, BeforeTransaction, OutcomeByStage, Refusal, RuntimeTypeOK
<1>2. PICK st \in {"resolving", "done"}, oc \in {None, "declined", "threw"},
           em \in SUBSET RuntimeEvents :
        /\ Sets(x, st, None, "unsent", oc, em)
        /\ st = "resolving" => oc = None /\ "PaymentFailed" \notin em
        /\ st = "done" => oc # None
  <2> "declined" # None /\ "threw" # None
    BY NoneIsNoStatus DEF Outcomes
  <2>1. CASE /\ Goto(x, "resolving")
             /\ Publish(x, {"OrchestrationStarted"})
             /\ UNCHANGED outcome
    <3>1. Sets(x, "resolving", None, "unsent", None, emitted[x] \cup {"OrchestrationStarted"})
      BY <1>1, <2>1, Unchanged DEF Decide, Goto, Publish, Sets
    <3>2. QED
      BY <1>1, <3>1 DEF RuntimeEvents
  <2>2. CASE /\ Goto(x, WhenDeclined(x))
             /\ Publish(x, {"PaymentFailed", "RuntimeCompleted"})
             /\ Settle(x, "declined")
    <3>1. Sets(x, "done", None, "unsent", "declined",
               emitted[x] \cup {"PaymentFailed", "RuntimeCompleted"})
      BY <1>1, <2>2, Unchanged DEF Decide, WhenDeclined, Goto, Publish, Settle, Sets
    <3>2. QED
      BY <1>1, <3>1 DEF RuntimeEvents
  <2>3. ASSUME NEW events \in {{}, {"OrchestrationStarted"}, {"PaymentFailed"},
                               {"PaymentFailed", "RuntimeCompleted"}},
               Throw(x, events)
        PROVE  \E em \in SUBSET RuntimeEvents : Sets(x, "done", None, "unsent", "threw", em)
    <3>1. Sets(x, "done", None, "unsent", "threw",
               emitted[x] \cup (events \cup {"RuntimeFailed"}))
      BY <1>1, <2>3, ThrowSets DEF Decide
    <3>2. emitted[x] \cup (events \cup {"RuntimeFailed"}) \in SUBSET RuntimeEvents
      BY <1>1 DEF RuntimeEvents
    <3>3. QED
      BY <3>1, <3>2
  <2>4. QED
    BY <2>1, <2>2, <2>3 DEF Decide, Approve, Decline
<1>3. /\ RuntimeTypeOK'
      /\ stage'[x] = st /\ transaction'[x] = None /\ transfer'[x] = "unsent"
      /\ outcome'[x] = oc /\ emitted'[x] = em
      /\ \A y \in Executions \ {x} : SameExecution(y)
  BY <1>2, SetsOwnValues DEF Stages, Transfers, Outcomes
<1>4. ExecutionInv(x)'
  BY <1>2, <1>3, NoneIsNoStatus DEF ExecutionInv, BeforeTransaction, StatusByStage,
     TransferByStage, OutcomeByStage, Claims, Refusal, LateThrow, Statuses, Outcomes
<1>5. QED
  BY <1>1, <1>2, <1>3, <1>4 DEF Kept, MovesForward, Lasting

LEMMA ResolveRailKeeps ==
    ASSUME RuntimeTypeOK, NEW x \in Executions, ExecutionInv(x), ResolveRail(x)
    PROVE  Kept(x)
<1>1. /\ stage[x] = "resolving"
      /\ transaction[x] = None
      /\ transfer[x] = "unsent"
      /\ outcome[x] = None
      /\ "PaymentFailed" \notin emitted[x]
      /\ emitted[x] \subseteq RuntimeEvents
  BY DEF ResolveRail, ExecutionInv, BeforeTransaction, OutcomeByStage, Refusal,
         RuntimeTypeOK
<1>2. PICK st \in {"validating", "done"}, tr \in {None, "validating"},
           oc \in {None, "threw"}, em \in SUBSET RuntimeEvents :
        /\ Sets(x, st, tr, "unsent", oc, em)
        /\ "PaymentFailed" \notin em
        /\ st = "validating" => tr = "validating" /\ oc = None
        /\ st = "done" => tr = None /\ oc = "threw"
  <2>1. CASE /\ Goto(x, "validating")
             /\ Mark(x, "validating")
             /\ UNCHANGED <<outcome, emitted>>
    <3>1. Sets(x, "validating", "validating", "unsent", None, emitted[x])
      BY <1>1, <2>1, Unchanged DEF ResolveRail, Goto, Mark, Sets
    <3>2. QED
      BY <1>1, <3>1
  <2>2. CASE Throw(x, {"OrchestrationFailed"}) /\ UNCHANGED transaction
    <3>1. Sets(x, "done", None, "unsent", "threw",
               emitted[x] \cup ({"OrchestrationFailed"} \cup {"RuntimeFailed"}))
      BY <1>1, <2>2, ThrowSets DEF ResolveRail
    <3>2. QED
      BY <1>1, <3>1 DEF RuntimeEvents
  <2>3. QED
    BY <2>1, <2>2 DEF ResolveRail
<1>3. /\ RuntimeTypeOK'
      /\ stage'[x] = st /\ transaction'[x] = tr /\ transfer'[x] = "unsent"
      /\ outcome'[x] = oc /\ emitted'[x] = em
      /\ \A y \in Executions \ {x} : SameExecution(y)
  BY <1>2, SetsOwnValues DEF Stages, Statuses, Transfers, Outcomes
<1>4. ExecutionInv(x)'
  BY <1>2, <1>3, NoneIsNoStatus DEF ExecutionInv, BeforeTransaction, StatusByStage,
     TransferByStage, OutcomeByStage, Claims, Refusal, LateThrow, Statuses, Outcomes
<1>5. QED
  BY <1>1, <1>2, <1>3, <1>4 DEF Kept, MovesForward, Lasting

LEMMA ValidateKeeps ==
    ASSUME RuntimeTypeOK, NEW x \in Executions, ExecutionInv(x), Validate(x)
    PROVE  Kept(x)
<1>1. /\ stage[x] = "validating"
      /\ transaction[x] = "validating"
      /\ transfer[x] = "unsent"
      /\ outcome[x] = None
      /\ "PaymentFailed" \notin emitted[x]
      /\ emitted[x] \in SUBSET RuntimeEvents
  BY DEF Validate, ExecutionInv, StatusByStage, OutcomeByStage, Refusal, RuntimeTypeOK
<1>2. PICK st \in {"executing", "finishing"}, tr \in {"processing", "failed"},
           oc \in {None, "failed"} :
        /\ Sets(x, st, tr, "unsent", oc, emitted[x])
        /\ st = "executing" => tr = "processing" /\ oc = None
        /\ st = "finishing" => tr = "failed" /\ oc = "failed"
  <2>1. CASE /\ Goto(x, "executing")
             /\ Mark(x, "processing")
             /\ UNCHANGED outcome
    <3>1. Sets(x, "executing", "processing", "unsent", None, emitted[x])
      BY <1>1, <2>1, Unchanged DEF Validate, Goto, Mark, Sets
    <3>2. QED
      BY <3>1
  <2>2. CASE /\ Goto(x, "finishing")
             /\ Mark(x, "failed")
             /\ Settle(x, "failed")
    <3>1. Sets(x, "finishing", "failed", "unsent", "failed", emitted[x])
      BY <1>1, <2>2, Unchanged DEF Validate, Goto, Mark, Settle, Sets
    <3>2. QED
      BY <3>1
  <2>3. CASE CatchError(x)
    <3>1. Sets(x, "finishing", "failed", "unsent", "failed", emitted[x])
      BY <1>1, <2>3, Unchanged, CatchErrorSets DEF Validate, IsTerminal
    <3>2. QED
      BY <3>1
  <2>4. QED
    BY <2>1, <2>2, <2>3 DEF Validate
<1>3. /\ RuntimeTypeOK'
      /\ stage'[x] = st /\ transaction'[x] = tr /\ transfer'[x] = "unsent"
      /\ outcome'[x] = oc /\ emitted'[x] = emitted[x]
      /\ \A y \in Executions \ {x} : SameExecution(y)
  BY <1>1, <1>2, SetsOwnValues DEF Stages, Statuses, Transfers, Outcomes
<1>4. ExecutionInv(x)'
  BY <1>1, <1>2, <1>3, NoneIsNoStatus DEF ExecutionInv, BeforeTransaction, StatusByStage,
     TransferByStage, OutcomeByStage, Claims, Refusal, LateThrow, Statuses, Outcomes
<1>5. MovesForward(x)
  BY <1>1, <1>2, <1>3, Ranks DEF MovesForward
<1>6. QED
  BY <1>1, <1>2, <1>3, <1>4, <1>5 DEF Kept, Lasting

LEMMA ExecutePaymentKeeps ==
    ASSUME RuntimeTypeOK, NEW x \in Executions, ExecutionInv(x), ExecutePayment(x)
    PROVE  Kept(x)
<1>1. /\ stage[x] = "executing"
      /\ transaction[x] = "processing"
      /\ transfer[x] \in Transfers
      /\ outcome[x] = None
      /\ "PaymentFailed" \notin emitted[x]
      /\ emitted[x] \in SUBSET RuntimeEvents
  BY DEF ExecutePayment, ExecutionInv, StatusByStage, OutcomeByStage, Refusal,
         RuntimeTypeOK
<1>2. PICK st \in {"submitted", "finishing"}, tr \in {"processing", "failed"},
           oc \in {None, "failed"} :
        /\ Sets(x, st, tr, transfer[x], oc, emitted[x])
        /\ st = "submitted" => /\ tr = "processing" /\ oc = None
                               /\ transfer[x] # "unsent"
        /\ st = "finishing" => tr = "failed" /\ oc = "failed"
  <2>1. CASE /\ RailAccepts(x)
             /\ Goto(x, "submitted")
             /\ UNCHANGED <<transaction, outcome>>
    <3>1. Sets(x, "submitted", "processing", transfer[x], None, emitted[x])
      BY <1>1, <2>1, Unchanged DEF ExecutePayment, Goto, Sets
    <3>2. QED
      BY <2>1, <3>1 DEF RailAccepts
  <2>2. CASE CatchError(x)
    <3>1. Sets(x, "finishing", "failed", transfer[x], "failed", emitted[x])
      BY <1>1, <2>2, Unchanged, CatchErrorSets DEF ExecutePayment, IsTerminal
    <3>2. QED
      BY <3>1
  <2>3. QED
    BY <2>1, <2>2 DEF ExecutePayment
<1>3. /\ RuntimeTypeOK'
      /\ stage'[x] = st /\ transaction'[x] = tr /\ transfer'[x] = transfer[x]
      /\ outcome'[x] = oc /\ emitted'[x] = emitted[x]
      /\ \A y \in Executions \ {x} : SameExecution(y)
  BY <1>1, <1>2, SetsOwnValues DEF Stages, HookStages, Statuses, Outcomes
<1>4. ExecutionInv(x)'
  BY <1>1, <1>2, <1>3, NoneIsNoStatus DEF ExecutionInv, BeforeTransaction, StatusByStage,
     TransferByStage, OutcomeByStage, Claims, Refusal, LateThrow, Statuses, Outcomes
<1>5. MovesForward(x)
  BY <1>1, <1>2, <1>3, Ranks DEF MovesForward
<1>6. QED
  BY <1>1, <1>2, <1>3, <1>4, <1>5 DEF Kept, Lasting

LEMMA MonitorSettlementKeeps ==
    ASSUME RuntimeTypeOK, NEW x \in Executions, ExecutionInv(x), MonitorSettlement(x)
    PROVE  Kept(x)
<1>1. /\ stage[x] = "settling"
      /\ transaction[x] = "awaiting_settlement"
      /\ transfer[x] \in Transfers
      /\ outcome[x] = None
      /\ "PaymentFailed" \notin emitted[x]
      /\ emitted[x] \in SUBSET RuntimeEvents
  BY DEF MonitorSettlement, ExecutionInv, StatusByStage, OutcomeByStage, Refusal,
         RuntimeTypeOK
<1>2. PICK st \in {"confirmed", "finishing"}, tr \in {"settled", "failed"},
           oc \in {None, "failed"} :
        /\ Sets(x, st, tr, transfer[x], oc, emitted[x])
        /\ st = "confirmed" => /\ tr = "settled" /\ oc = None
                               /\ transfer[x] = "landed"
        /\ st = "finishing" => tr = "failed" /\ oc = "failed"
  <2>1. CASE /\ RailConfirms(x)
             /\ Goto(x, "confirmed")
             /\ Mark(x, "settled")
             /\ UNCHANGED outcome
    <3>1. Sets(x, "confirmed", "settled", transfer[x], None, emitted[x])
      BY <1>1, <2>1, Unchanged DEF MonitorSettlement, Goto, Mark, Sets
    <3>2. QED
      BY <2>1, <3>1 DEF RailConfirms
  <2>2. CASE CatchError(x)
    <3>1. Sets(x, "finishing", "failed", transfer[x], "failed", emitted[x])
      BY <1>1, <2>2, Unchanged, CatchErrorSets DEF MonitorSettlement, IsTerminal
    <3>2. QED
      BY <3>1
  <2>3. QED
    BY <2>1, <2>2 DEF MonitorSettlement
<1>3. /\ RuntimeTypeOK'
      /\ stage'[x] = st /\ transaction'[x] = tr /\ transfer'[x] = transfer[x]
      /\ outcome'[x] = oc /\ emitted'[x] = emitted[x]
      /\ \A y \in Executions \ {x} : SameExecution(y)
  BY <1>1, <1>2, SetsOwnValues DEF Stages, HookStages, Statuses, Outcomes
<1>4. ExecutionInv(x)'
  BY <1>1, <1>2, <1>3, NoneIsNoStatus DEF ExecutionInv, BeforeTransaction, StatusByStage,
     TransferByStage, OutcomeByStage, Claims, Refusal, LateThrow, Statuses, Outcomes
<1>5. MovesForward(x)
  BY <1>1, <1>2, <1>3, Ranks DEF MovesForward
<1>6. QED
  BY <1>1, <1>2, <1>3, <1>4, <1>5 DEF Kept, Lasting

\* Where a hook leads: on along its way, or to the end with the transaction
\* completed already or now failed.
AfterHooks(x, st, tr, oc) ==
    \/ /\ st = "accepted" /\ tr = "awaiting_settlement" /\ oc = None
       /\ transaction[x] = "processing" /\ transfer[x] # "unsent"
    \/ /\ st = "settling" /\ tr = "awaiting_settlement" /\ oc = None
       /\ transaction[x] = "awaiting_settlement" /\ transfer[x] # "unsent"
    \/ /\ st = "finalized" /\ tr = "completed" /\ oc = None
       /\ transaction[x] = "settled" /\ transfer[x] = "landed"
    \/ /\ st \in {"receipting", "receipted"} /\ tr = "completed" /\ oc = None
       /\ transaction[x] = "completed" /\ transfer[x] = "landed"
    \/ /\ st = "finishing" /\ tr = "completed" /\ oc \in {"completed", "failed"}
       /\ transaction[x] = "completed" /\ transfer[x] = "landed"
    \/ /\ st = "finishing" /\ tr = "failed" /\ oc = "failed"
       /\ transaction[x] \in {"processing", "awaiting_settlement", "settled"}

LEMMA AfterHooksKeeps ==
    ASSUME RuntimeTypeOK, NEW x \in Executions, ExecutionInv(x),
           stage[x] \in HookStages \cup {"receipting"}, outcome[x] = None,
           NEW st, NEW tr, NEW oc, NEW em \in SUBSET RuntimeEvents,
           "PaymentFailed" \notin em,
           AfterHooks(x, st, tr, oc), Sets(x, st, tr, transfer[x], oc, em)
    PROVE  Kept(x)
<1>1. /\ st \in {"accepted", "settling", "finalized", "receipting", "receipted", "finishing"}
      /\ tr \in {"awaiting_settlement", "completed", "failed"}
      /\ oc \in {None, "completed", "failed"}
      /\ transfer[x] \in Transfers
  BY DEF AfterHooks, RuntimeTypeOK
<1>2. st \in Stages /\ tr \in Statuses \cup {None} /\ oc \in Outcomes \cup {None}
  BY <1>1 DEF Stages, HookStages, Statuses, Outcomes
<1>3. /\ RuntimeTypeOK'
      /\ stage'[x] = st /\ transaction'[x] = tr /\ transfer'[x] = transfer[x]
      /\ outcome'[x] = oc /\ emitted'[x] = em
      /\ \A y \in Executions \ {x} : SameExecution(y)
  BY <1>1, <1>2, SetsOwnValues
<1>4. ExecutionInv(x)'
  BY <1>1, <1>3, NoneIsNoStatus DEF AfterHooks, ExecutionInv, BeforeTransaction,
     StatusByStage, TransferByStage, OutcomeByStage, Claims, Refusal, LateThrow,
     Statuses, Outcomes
<1>5. MovesForward(x)
  BY <1>3, Ranks DEF MovesForward, AfterHooks
<1>6. QED
  BY <1>1, <1>3, <1>4, <1>5 DEF Kept, Lasting, HookStages

LEMMA RunHookKeeps ==
    ASSUME RuntimeTypeOK, NEW x \in Executions, ExecutionInv(x), RunHook(x)
    PROVE  Kept(x)
<1> DEFINE em == emitted[x] \cup {HookEvent[stage[x]]}
<1>1. /\ stage[x] \in HookStages
      /\ outcome[x] = None
      /\ em \in SUBSET RuntimeEvents
      /\ "PaymentFailed" \notin em
      /\ emitted' = [emitted EXCEPT ![x] = em]
      /\ transfer' = transfer
  <2>1. stage[x] \in HookStages /\ stage[x] \notin {"finishing", "done"}
    BY DEF RunHook, HookStages
  <2>2. outcome[x] = None /\ "PaymentFailed" \notin emitted[x]
    BY <2>1 DEF ExecutionInv, OutcomeByStage, Refusal
  <2>3. HookEvent[stage[x]] \in RuntimeEvents \ {"PaymentFailed"}
    BY <2>1 DEF HookStages, HookEvent, RuntimeEvents
  <2>4. QED
    BY <2>1, <2>2, <2>3 DEF RunHook, Publish, RuntimeTypeOK
<1>2. \/ stage[x] = "submitted" /\ transaction[x] = "processing" /\ transfer[x] # "unsent"
      \/ stage[x] = "accepted" /\ transaction[x] = "awaiting_settlement"
         /\ transfer[x] # "unsent"
      \/ stage[x] = "confirmed" /\ transaction[x] = "settled" /\ transfer[x] = "landed"
      \/ stage[x] \in {"finalized", "receipted"} /\ transaction[x] = "completed"
         /\ transfer[x] = "landed"
  BY <1>1 DEF HookStages, ExecutionInv, StatusByStage, TransferByStage
<1> HIDE DEF em
<1>3. PICK st, tr, oc :
        AfterHooks(x, st, tr, oc) /\ Sets(x, st, tr, transfer[x], oc, em)
  <2>1. CASE CatchError(x)
    <3> DEFINE tr == IF IsTerminal(transaction[x]) THEN transaction[x] ELSE "failed"
    <3>1. Sets(x, "finishing", tr, transfer[x], "failed", em)
      BY <1>1, <2>1, CatchErrorSets
    <3>2. AfterHooks(x, "finishing", tr, "failed")
      BY <1>2 DEF AfterHooks, IsTerminal
    <3>3. QED
      BY <3>1, <3>2
  <2>2. CASE /\ Mark(x, AfterHook(stage[x])[1])
             /\ Goto(x, AfterHook(stage[x])[2])
             /\ IF stage[x] = "receipted" THEN Settle(x, "completed")
                                          ELSE UNCHANGED outcome
    <3> DEFINE oc == IF stage[x] = "receipted" THEN "completed" ELSE None
    <3>1. Sets(x, AfterHook(stage[x])[2], AfterHook(stage[x])[1], transfer[x], oc, em)
      BY <1>1, <2>2, Unchanged DEF Goto, Mark, Settle, Sets
    <3>2. AfterHooks(x, AfterHook(stage[x])[2], AfterHook(stage[x])[1], oc)
      BY <1>2 DEF AfterHook, AfterHooks
    <3>3. QED
      BY <3>1, <3>2
  <2>3. QED
    BY <2>1, <2>2 DEF RunHook
<1>4. QED
  BY <1>1, <1>3, AfterHooksKeeps

LEMMA CreateReceiptKeeps ==
    ASSUME RuntimeTypeOK, NEW x \in Executions, ExecutionInv(x), CreateReceipt(x)
    PROVE  Kept(x)
<1>1. /\ stage[x] = "receipting"
      /\ transaction[x] = "completed"
      /\ transfer[x] = "landed"
      /\ outcome[x] = None
      /\ emitted[x] \in SUBSET RuntimeEvents
      /\ "PaymentFailed" \notin emitted[x]
  BY DEF CreateReceipt, ExecutionInv, StatusByStage, TransferByStage, OutcomeByStage,
         Refusal, RuntimeTypeOK
<1>2. PICK st, oc : /\ AfterHooks(x, st, "completed", oc)
                    /\ Sets(x, st, "completed", transfer[x], oc, emitted[x])
  <2>1. CASE Goto(x, "receipted") /\ UNCHANGED <<transaction, outcome>>
    <3>1. Sets(x, "receipted", "completed", transfer[x], None, emitted[x])
      BY <1>1, <2>1, Unchanged DEF CreateReceipt, Goto, Sets
    <3>2. QED
      BY <1>1, <3>1 DEF AfterHooks
  <2>2. CASE Goto(x, "finishing") /\ Settle(x, "completed") /\ UNCHANGED transaction
    <3>1. Sets(x, "finishing", "completed", transfer[x], "completed", emitted[x])
      BY <1>1, <2>2, Unchanged DEF CreateReceipt, Goto, Settle, Sets
    <3>2. QED
      BY <1>1, <3>1 DEF AfterHooks
  <2>3. CASE CatchError(x)
    <3>1. Sets(x, "finishing", "completed", transfer[x], "failed", emitted[x])
      BY <1>1, <2>3, Unchanged, CatchErrorSets DEF CreateReceipt, IsTerminal
    <3>2. QED
      BY <1>1, <3>1 DEF AfterHooks
  <2>4. QED
    BY <2>1, <2>2, <2>3 DEF CreateReceipt
<1>3. QED
  BY <1>1, <1>2, AfterHooksKeeps

LEMMA FinishKeeps ==
    ASSUME RuntimeTypeOK, NEW x \in Executions, ExecutionInv(x), Finish(x)
    PROVE  Kept(x)
<1>1. /\ stage[x] = "finishing"
      /\ transaction[x] \in {"completed", "failed"}
      /\ transaction[x] \in Statuses \cup {None}
      /\ transfer[x] \in Transfers
      /\ transaction[x] = "completed" => transfer[x] = "landed"
      /\ outcome[x] \in {"completed", "failed"}
      /\ outcome[x] = "completed" => transaction[x] = "completed"
      /\ "PaymentFailed" \notin emitted[x]
      /\ emitted[x] \subseteq RuntimeEvents
  BY DEF Finish, ExecutionInv, StatusByStage, OutcomeByStage, Claims, Refusal,
         RuntimeTypeOK
<1>2. PICK oc \in {"completed", "failed", "threw"}, em \in SUBSET RuntimeEvents :
        /\ Sets(x, "done", transaction[x], transfer[x], oc, em)
        /\ "PaymentFailed" \notin em
        /\ oc = "completed" => transaction[x] = "completed"
        /\ oc = "threw" => \E kind \in {"history", "listener"} : CanThrow(kind)
  <2> DEFINE announced == {"OrchestrationCompleted", "PaymentCompleted", "RuntimeCompleted"}
  <2>1. CASE Goto(x, "done") /\ Publish(x, announced) /\ UNCHANGED outcome
    <3>1. Sets(x, "done", transaction[x], transfer[x], outcome[x], emitted[x] \cup announced)
      BY <1>1, <2>1, Unchanged DEF Finish, Goto, Publish, Sets
    <3>2. /\ emitted[x] \cup announced \in SUBSET RuntimeEvents
          /\ "PaymentFailed" \notin emitted[x] \cup announced
      BY <1>1 DEF RuntimeEvents
    <3>3. outcome[x] # "threw"
      BY <1>1
    <3> HIDE DEF announced
    <3>4. QED
      BY <1>1, <3>1, <3>2, <3>3
  <2>2. ASSUME NEW events \in {{"OrchestrationFailed"},
                               {"OrchestrationCompleted", "OrchestrationFailed"},
                               {"OrchestrationCompleted", "PaymentCompleted"}, announced},
               Throw(x, events)
        PROVE  \E em \in SUBSET RuntimeEvents :
                 /\ Sets(x, "done", transaction[x], transfer[x], "threw", em)
                 /\ "PaymentFailed" \notin em
    <3>1. Sets(x, "done", transaction[x], transfer[x], "threw",
               emitted[x] \cup (events \cup {"RuntimeFailed"}))
      BY <2>2, ThrowSets DEF Finish
    <3>2. /\ emitted[x] \cup (events \cup {"RuntimeFailed"}) \in SUBSET RuntimeEvents
          /\ "PaymentFailed" \notin emitted[x] \cup (events \cup {"RuntimeFailed"})
      BY <1>1 DEF RuntimeEvents
    <3>3. QED
      BY <3>1, <3>2
  <2>3. CASE CanThrow("history") /\ Throw(x, {"OrchestrationFailed"})
    BY <2>2, <2>3
  <2>4. CASE /\ CanThrow("listener")
             /\ \E events \in {{"OrchestrationCompleted", "OrchestrationFailed"},
                               {"OrchestrationCompleted", "PaymentCompleted"},
                               announced} : Throw(x, events)
    BY <2>2, <2>4
  <2>5. QED
    BY <2>1, <2>3, <2>4 DEF Finish
<1>3. /\ RuntimeTypeOK'
      /\ stage'[x] = "done" /\ transaction'[x] = transaction[x]
      /\ transfer'[x] = transfer[x] /\ outcome'[x] = oc /\ emitted'[x] = em
      /\ \A y \in Executions \ {x} : SameExecution(y)
  <2>1. "done" \in Stages /\ oc \in Outcomes \cup {None}
    BY DEF Stages, Outcomes
  <2>2. QED
    BY <1>1, <1>2, <2>1, SetsOwnValues
<1>4. ExecutionInv(x)'
  BY <1>1, <1>2, <1>3, NoneIsNoStatus DEF ExecutionInv, BeforeTransaction, StatusByStage,
     TransferByStage, OutcomeByStage, Claims, Refusal, LateThrow, CanThrow, Statuses,
     Outcomes
<1>5. QED
  BY <1>1, <1>3, <1>4 DEF Kept, MovesForward, Lasting

\* The rail's two steps: a transfer is sent only while the orchestrator waits
\* for the adapter, and lands whatever became of the execution.
LEMMA ContactKeeps ==
    ASSUME RuntimeTypeOK, NEW x \in Executions, ExecutionInv(x), Contact(x)
    PROVE  Kept(x)
<1>1. /\ stage[x] = "executing"
      /\ transaction[x] = "processing"
      /\ outcome[x] = None
      /\ "PaymentFailed" \notin emitted[x]
  BY DEF Contact, ExecutionInv, StatusByStage, OutcomeByStage, Refusal
<1>2. Sets(x, stage[x], transaction[x], "inflight", outcome[x], emitted[x])
  BY Unchanged DEF Contact, Sets
<1>3. /\ RuntimeTypeOK'
      /\ stage'[x] = stage[x] /\ transaction'[x] = transaction[x]
      /\ transfer'[x] = "inflight"
      /\ outcome'[x] = outcome[x] /\ emitted'[x] = emitted[x]
      /\ \A y \in Executions \ {x} : SameExecution(y)
  <2>1. /\ stage[x] \in Stages /\ transaction[x] \in Statuses \cup {None}
        /\ outcome[x] \in Outcomes \cup {None} /\ emitted[x] \in SUBSET RuntimeEvents
        /\ "inflight" \in Transfers
    BY DEF RuntimeTypeOK, Transfers
  <2>2. QED
    BY <1>2, <2>1, SetsOwnValues
<1>4. ExecutionInv(x)'
  BY <1>1, <1>3, NoneIsNoStatus DEF ExecutionInv, BeforeTransaction, StatusByStage,
     TransferByStage, OutcomeByStage, Claims, Refusal, LateThrow, Statuses, Outcomes
<1>5. QED
  BY <1>3, <1>4 DEF Kept, MovesForward, Lasting

LEMMA LandKeeps ==
    ASSUME RuntimeTypeOK, NEW x \in Executions, ExecutionInv(x), Land(x)
    PROVE  Kept(x)
<1>1. transfer[x] = "inflight"
  BY DEF Land
<1>2. Sets(x, stage[x], transaction[x], "landed", outcome[x], emitted[x])
  BY Unchanged DEF Land, Sets
<1>3. /\ RuntimeTypeOK'
      /\ stage'[x] = stage[x] /\ transaction'[x] = transaction[x]
      /\ transfer'[x] = "landed"
      /\ outcome'[x] = outcome[x] /\ emitted'[x] = emitted[x]
      /\ \A y \in Executions \ {x} : SameExecution(y)
  <2>1. /\ stage[x] \in Stages /\ transaction[x] \in Statuses \cup {None}
        /\ outcome[x] \in Outcomes \cup {None} /\ emitted[x] \in SUBSET RuntimeEvents
        /\ "landed" \in Transfers
    BY DEF RuntimeTypeOK, Transfers
  <2>2. QED
    BY <1>2, <2>1, SetsOwnValues
<1>4. ExecutionInv(x)'
  BY <1>1, <1>3 DEF ExecutionInv, BeforeTransaction, StatusByStage, TransferByStage,
     OutcomeByStage, Claims, Refusal, LateThrow, CanThrow
<1>5. QED
  BY <1>3, <1>4 DEF Kept, MovesForward, Lasting

\* All executions, when one of them or none takes a step.
ExecutionsInv == RuntimeTypeOK /\ \A x \in Executions : ExecutionInv(x)

LEMMA StepKeeps ==
    ASSUME ExecutionsInv, NEW x \in Executions, Start(x) \/ Advance(x)
    PROVE  /\ ExecutionsInv'
           /\ \A y \in Executions : MovesForward(y) /\ Lasting(y)
           /\ \A y \in Executions \ {x} : SameExecution(y)
<1>1. RuntimeTypeOK /\ ExecutionInv(x)
  BY DEF ExecutionsInv
<1>2. Kept(x)
  BY <1>1, StartKeeps, DecideKeeps, ResolveRailKeeps, ValidateKeeps, ExecutePaymentKeeps,
     MonitorSettlementKeeps, RunHookKeeps, CreateReceiptKeeps, FinishKeeps, ContactKeeps,
     LandKeeps DEF Advance, Orchestrate
<1>3. ASSUME NEW y \in Executions \ {x}
      PROVE  ExecutionInv(y)' /\ MovesForward(y) /\ Lasting(y)
  <2>1. ExecutionInv(y) /\ SameExecution(y)
    BY <1>2 DEF ExecutionsInv, Kept
  <2>2. ExecutionInv(y)'
    BY <2>1 DEF SameExecution, ExecutionInv, BeforeTransaction, StatusByStage,
       TransferByStage, OutcomeByStage, Claims, Refusal, LateThrow, CanThrow
  <2>3. QED
    BY <2>1, <2>2 DEF SameExecution, MovesForward, Lasting
<1>4. QED
  BY <1>2, <1>3 DEF ExecutionsInv, Kept

LEMMA StillKeeps ==
    ASSUME ExecutionsInv, UNCHANGED runtimeVars
    PROVE  /\ ExecutionsInv'
           /\ \A y \in Executions : MovesForward(y) /\ Lasting(y)
BY DEF runtimeVars, ExecutionsInv, RuntimeTypeOK, ExecutionInv, BeforeTransaction,
   StatusByStage, TransferByStage, OutcomeByStage, Claims, Refusal, LateThrow, CanThrow,
   MovesForward, Lasting

-----------------------------------------------------------------------------
(* The engine. *)

\* An attempt that the engine gave up on had timed out or rejected.
GivenUp(x) ==
    \/ x \in abandoned
    \/ stage[x] = "done" /\ outcome[x] = "threw"

CallInv(p) ==
    /\ call[p] = "idle" => attempt[p] = 0
    /\ call[p] # "idle" => attempt[p] > 0
    /\ call[p] = "backoff" => attempt[p] < MaxAttempts
    /\ \A n \in 1..MaxAttempts :
          n < attempt[p] \/ (n = attempt[p] /\ call[p] \in {"backoff", "failed"})
            => GivenUp(<<p, n>>)
    /\ call[p] = "waiting" => Current(p) \notin abandoned
    /\ call[p] = "ok" => /\ Current(p) \notin abandoned
                         /\ stage[Current(p)] = "done"
                         /\ IsAnswered(Current(p))

EngineInv ==
    /\ ExecutionsInv
    /\ ResilientTypeOK
    /\ \A p \in Payments : CallInv(p)

LEMMA CurrentIsExecution ==
    ASSUME ResilientTypeOK, NEW p \in Payments, attempt[p] > 0
    PROVE  Current(p) \in Executions
BY ResilienceAssumption DEF ResilientTypeOK, Current

LEMMA NextAttemptIsExecution ==
    ASSUME EngineInv, NEW p \in Payments, StartAttempt(p)
    PROVE  <<p, attempt[p] + 1>> \in Executions
<1>1. attempt[p] + 1 \in 1..MaxAttempts
  BY ResilienceAssumption DEF EngineInv, ResilientTypeOK, CallInv, StartAttempt
<1>2. QED
  BY <1>1, ResilienceAssumption

LEMMA GivenUpLasts ==
    ASSUME NEW x \in Executions, Lasting(x), abandoned \subseteq abandoned', GivenUp(x)
    PROVE  GivenUp(x)'
BY DEF GivenUp, Lasting

LEMMA InitEngine == ResilientInit => EngineInv
<1> SUFFICES ASSUME ResilientInit PROVE EngineInv
  OBVIOUS
<1>1. ExecutionsInv
  BY NoneIsNoStatus DEF ResilientInit, RuntimeInit, ExecutionsInv, RuntimeTypeOK,
     Stages, Transfers, ExecutionInv, BeforeTransaction, StatusByStage, TransferByStage,
     OutcomeByStage, Claims, Refusal, LateThrow, Statuses, Outcomes
<1>2. \A p \in Payments, n \in 1..MaxAttempts :
         stage[<<p, n>>] = "idle" /\ ~(n <= attempt[p])
  BY ResilienceAssumption DEF ResilientInit, RuntimeInit
<1>3. ResilientTypeOK
  BY <1>1, <1>2, ResilienceAssumption
     DEF ExecutionsInv, ResilientInit, ResilientTypeOK, CallStates
<1>4. \A p \in Payments : CallInv(p)
  BY ResilienceAssumption DEF ResilientInit, CallInv
<1>5. QED
  BY <1>1, <1>3, <1>4 DEF EngineInv, ResilientInit

\* What a step of the executions leaves of the engine's facts.
LEMMA OperateKeeps ==
    ASSUME EngineInv, NEW x \in Executions, Operate(x)
    PROVE  EngineInv' /\ \A y \in Executions : MovesForward(y)
<1>1. /\ ExecutionsInv'
      /\ \A y \in Executions : MovesForward(y) /\ Lasting(y)
      /\ \A y \in Executions \ {x} : SameExecution(y)
  BY StepKeeps DEF EngineInv, Operate
<1>2. call' = call /\ attempt' = attempt /\ abandoned' = abandoned
  BY DEF Operate, callVars
<1>3. \A y \in Executions : stage'[y] # "idle" <=> stage[y] # "idle"
  <2>1. stage[x] # "idle"
    <3>1. ExecutionInv(x)
      BY DEF EngineInv, ExecutionsInv
    <3>2. QED
      BY <3>1 DEF Operate, Advance, Orchestrate, Decide, ResolveRail, Validate, ExecutePayment,
         MonitorSettlement, RunHook, HookStages, CreateReceipt, Finish, Contact, Land,
         ExecutionInv, BeforeTransaction
  <2>2. QED
    BY <1>1, <2>1 DEF Lasting, SameExecution
<1>4. ResilientTypeOK'
  BY <1>1, <1>2, <1>3, ResilienceAssumption DEF EngineInv, ExecutionsInv, ResilientTypeOK
<1>5. ASSUME NEW p \in Payments
      PROVE  CallInv(p)'
  <2>1. CallInv(p)
    BY DEF EngineInv
  <2>2. \A n \in 1..MaxAttempts : GivenUp(<<p, n>>) => GivenUp(<<p, n>>)'
    BY <1>1, <1>2, GivenUpLasts, ResilienceAssumption
  <2>3. attempt[p] > 0 => Current(p) \in Executions
    BY CurrentIsExecution DEF EngineInv
  <2>4. call[p] = "ok" => /\ stage'[Current(p)] = "done"
                          /\ IsAnswered(Current(p))'
    BY <1>1, <1>2, <2>1, <2>3 DEF CallInv, Lasting, IsAnswered, Current
  <2>5. QED
    BY <1>2, <2>1, <2>2, <2>4 DEF CallInv, Current
<1>6. QED
  BY <1>1, <1>2, <1>4, <1>5 DEF EngineInv

\* A step of the engine for call p leaves the other calls as they were.
LEMMA OtherCalls ==
    ASSUME EngineInv, NEW p \in Payments, NEW q \in Payments \ {p},
           call'[q] = call[q], attempt'[q] = attempt[q],
           \A n \in 1..MaxAttempts : <<q, n>> \in abandoned' <=> <<q, n>> \in abandoned,
           \A n \in 1..MaxAttempts : SameExecution(<<q, n>>)
    PROVE  CallInv(q)'
<1>1. CallInv(q) /\ attempt[q] \in 0..MaxAttempts
  BY DEF EngineInv, ResilientTypeOK
<1>2. \A n \in 1..MaxAttempts : GivenUp(<<q, n>>) => GivenUp(<<q, n>>)'
  BY DEF GivenUp, SameExecution
<1>3. attempt[q] > 0 =>
        /\ Current(q)' = Current(q)
        /\ Current(q) \in abandoned' <=> Current(q) \in abandoned
        /\ SameExecution(Current(q))
  BY <1>1, ResilienceAssumption DEF Current
<1>4. QED
  BY <1>1, <1>2, <1>3, ResilienceAssumption DEF CallInv, IsAnswered, SameExecution

LEMMA StartAttemptKeeps ==
    ASSUME EngineInv, NEW p \in Payments, StartAttempt(p)
    PROVE  EngineInv' /\ \A y \in Executions : MovesForward(y)
<1> DEFINE x == <<p, attempt[p] + 1>>
<1>1. /\ CallInv(p)
      /\ attempt[p] \in 0..MaxAttempts
      /\ attempt[p] + 1 \in 1..MaxAttempts
      /\ x \in Executions
  BY ResilienceAssumption DEF EngineInv, ResilientTypeOK, CallInv, StartAttempt
<1>2. /\ call' = [call EXCEPT ![p] = "waiting"]
      /\ attempt' = [attempt EXCEPT ![p] = attempt[p] + 1]
      /\ abandoned' = abandoned
      /\ Start(x)
  BY DEF StartAttempt
<1> HIDE DEF x
<1>3. /\ ExecutionsInv'
      /\ \A y \in Executions : MovesForward(y) /\ Lasting(y)
      /\ \A y \in Executions \ {x} : SameExecution(y)
  BY <1>1, <1>2, StepKeeps DEF EngineInv
<1>4. stage'[x] # "idle"
  BY <1>1, <1>2 DEF Start, Goto, EngineInv, ResilientTypeOK, RuntimeTypeOK
<1>5. /\ call' \in [Payments -> CallStates]
      /\ attempt' \in [Payments -> 0..MaxAttempts]
      /\ call'[p] = "waiting" /\ attempt'[p] = attempt[p] + 1
      /\ \A q \in Payments \ {p} : call'[q] = call[q] /\ attempt'[q] = attempt[q]
  BY <1>1, <1>2 DEF EngineInv, ResilientTypeOK, CallStates
<1>6. ASSUME NEW q \in Payments, NEW n \in 1..MaxAttempts
      PROVE  stage'[<<q, n>>] # "idle" <=> n <= attempt'[q]
  <2>1. stage[<<q, n>>] # "idle" <=> n <= attempt[q]
    BY DEF EngineInv, ResilientTypeOK
  <2>2. <<q, n>> \in Executions
    BY ResilienceAssumption
  <2>3. CASE <<q, n>> = x
    BY <1>1, <1>4, <1>5, <2>3 DEF x
  <2>4. CASE <<q, n>> # x
    <3>1. stage'[<<q, n>>] = stage[<<q, n>>]
      BY <1>3, <2>2, <2>4 DEF SameExecution
    <3>2. q # p \/ n # attempt[p] + 1
      BY <2>4 DEF x
    <3>3. QED
      BY <1>1, <1>5, <2>1, <3>1, <3>2, ResilienceAssumption
  <2>5. QED
    BY <2>3, <2>4
<1>7. \A y \in abandoned : stage'[y] # "idle"
  BY <1>3 DEF EngineInv, ResilientTypeOK, Lasting
<1>8. ResilientTypeOK'
  BY <1>2, <1>3, <1>5, <1>6, <1>7 DEF EngineInv, ExecutionsInv, ResilientTypeOK
<1>9. CallInv(p)'
  <2>1. \A n \in 1..MaxAttempts : n <= attempt[p] => GivenUp(<<p, n>>)
    BY <1>1 DEF StartAttempt, CallInv
  <2>2. \A n \in 1..MaxAttempts : GivenUp(<<p, n>>) => GivenUp(<<p, n>>)'
    BY <1>2, <1>3, GivenUpLasts, ResilienceAssumption
  <2>3. Current(p)' \notin abandoned'
    <3>1. Current(p)' = x
      BY <1>5 DEF Current, x
    <3>2. x \notin abandoned
      BY <1>2 DEF EngineInv, ResilientTypeOK, Start
    <3>3. QED
      BY <1>2, <3>1, <3>2
  <2>4. QED
    BY <1>1, <1>5, <2>1, <2>2, <2>3 DEF CallInv
<1>10. ASSUME NEW q \in Payments \ {p}
       PROVE  CallInv(q)'
  <2>1. \A n \in 1..MaxAttempts : <<q, n>> \in Executions \ {x}
    BY ResilienceAssumption DEF x
  <2>2. QED
    BY <1>2, <1>3, <1>5, <2>1, OtherCalls
<1>11. QED
  BY <1>3, <1>8, <1>9, <1>10 DEF EngineInv

\* A step that ends the wait of call p.
LEMMA EndOfWaitKeeps ==
    ASSUME EngineInv, NEW p \in Payments, call[p] = "waiting",
           NEW c \in {"ok", "backoff", "failed"}, call' = [call EXCEPT ![p] = c],
           UNCHANGED <<runtimeVars, attempt>>,
           abandoned' \in {abandoned, abandoned \cup {Current(p)}},
           c # "ok" => GivenUp(Current(p))',
           c = "backoff" => attempt[p] < MaxAttempts,
           c = "ok" => /\ abandoned' = abandoned
                       /\ stage[Current(p)] = "done"
                       /\ IsAnswered(Current(p)),
           stage[Current(p)] # "idle"
    PROVE  EngineInv' /\ \A y \in Executions : MovesForward(y)
<1>1. /\ ExecutionsInv'
      /\ \A y \in Executions : MovesForward(y) /\ Lasting(y)
  BY StillKeeps DEF EngineInv
<1>2. /\ CallInv(p)
      /\ attempt[p] \in 1..MaxAttempts
      /\ Current(p) \in Executions
      /\ Current(p)' = Current(p)
  <2>1. CallInv(p) /\ attempt[p] \in 0..MaxAttempts
    BY DEF EngineInv, ResilientTypeOK
  <2>2. attempt[p] > 0
    BY <2>1 DEF CallInv
  <2>3. QED
    BY <2>1, <2>2, CurrentIsExecution, ResilienceAssumption DEF EngineInv, Current
<1>3. /\ call' \in [Payments -> CallStates]
      /\ call'[p] = c
      /\ \A q \in Payments \ {p} : call'[q] = call[q]
  BY DEF EngineInv, ResilientTypeOK, CallStates
<1>4. /\ stage' = stage /\ transaction' = transaction /\ transfer' = transfer
      /\ outcome' = outcome /\ emitted' = emitted /\ attempt' = attempt
      /\ abandoned \subseteq abandoned'
  BY DEF runtimeVars
<1>5. ResilientTypeOK'
  BY <1>1, <1>2, <1>3, <1>4 DEF EngineInv, ExecutionsInv, ResilientTypeOK
<1>6. CallInv(p)'
  <2>1. \A n \in 1..MaxAttempts : n < attempt[p] => GivenUp(<<p, n>>)'
    BY <1>1, <1>2, <1>4, GivenUpLasts, ResilienceAssumption DEF CallInv
  <2>2. c # "ok" => \A n \in 1..MaxAttempts : n = attempt[p] => GivenUp(<<p, n>>)'
    BY <1>2, <1>4 DEF Current, GivenUp
  <2>3. c = "ok" => /\ Current(p)' \notin abandoned'
                    /\ stage'[Current(p)'] = "done"
                    /\ IsAnswered(Current(p))'
    BY <1>2, <1>4 DEF CallInv, IsAnswered
  <2>4. QED
    BY <1>2, <1>3, <1>4, <2>1, <2>2, <2>3 DEF CallInv
<1>7. ASSUME NEW q \in Payments \ {p}
      PROVE  CallInv(q)'
  <2>1. \A n \in 1..MaxAttempts : <<q, n>> # Current(p)
    BY DEF Current
  <2>2. \A n \in 1..MaxAttempts : <<q, n>> \in abandoned' <=> <<q, n>> \in abandoned
    BY <2>1
  <2>3. \A n \in 1..MaxAttempts : SameExecution(<<q, n>>)
    BY <1>4 DEF SameExecution
  <2>4. QED
    BY <1>3, <1>4, <2>2, <2>3, OtherCalls
<1>8. QED
  BY <1>1, <1>5, <1>6, <1>7 DEF EngineInv

LEMMA EngineStep ==
    ASSUME EngineInv, [ResilientNext]_allVars
    PROVE  EngineInv' /\ \A y \in Executions : MovesForward(y)
<1>1. ASSUME NEW p \in Payments, Succeed(p)
      PROVE  EngineInv' /\ \A y \in Executions : MovesForward(y)
  BY <1>1, EndOfWaitKeeps DEF Succeed
<1>2. ASSUME NEW p \in Payments, Reject(p)
      PROVE  EngineInv' /\ \A y \in Executions : MovesForward(y)
  <2>1. PICK failure : RetryOrFail(p, failure)
    BY <1>2 DEF Reject
  <2>2. PICK c \in {"backoff", "failed"} :
          /\ call' = [call EXCEPT ![p] = c]
          /\ c = "backoff" => attempt[p] < MaxAttempts
    BY <2>1 DEF RetryOrFail, ShouldRetry
  <2>3. GivenUp(Current(p))'
    <3>1. attempt[p] > 0
      BY <1>2 DEF Reject, EngineInv, CallInv
    <3>2. Current(p) \in Executions /\ ExecutionInv(Current(p))
      BY <3>1, CurrentIsExecution DEF EngineInv, ExecutionsInv
    <3>3. stage[Current(p)] = "done" /\ outcome[Current(p)] = "threw"
      BY <1>2, <3>2 DEF Reject, IsAnswered, ExecutionInv, OutcomeByStage, Outcomes
    <3>4. QED
      BY <1>2, <3>3 DEF Reject, runtimeVars, GivenUp, Current
  <2>4. QED
    BY <1>2, <2>2, <2>3, EndOfWaitKeeps DEF Reject
<1>3. ASSUME NEW p \in Payments, TimeOut(p)
      PROVE  EngineInv' /\ \A y \in Executions : MovesForward(y)
  <2>1. PICK c \in {"backoff", "failed"} :
          /\ call' = [call EXCEPT ![p] = c]
          /\ c = "backoff" => attempt[p] < MaxAttempts
    BY <1>3 DEF TimeOut, RetryOrFail, ShouldRetry
  <2>2. GivenUp(Current(p))'
    BY <1>3 DEF TimeOut, GivenUp, Current
  <2>3. stage[Current(p)] # "idle"
    <3>1. attempt[p] \in 1..MaxAttempts
      BY <1>3, ResilienceAssumption DEF TimeOut, EngineInv, CallInv, ResilientTypeOK
    <3>2. QED
      BY <3>1 DEF EngineInv, ResilientTypeOK, Current
  <2>4. QED
    BY <1>3, <2>1, <2>2, <2>3, EndOfWaitKeeps DEF TimeOut
<1>4. CASE UNCHANGED allVars
  <2>1. UNCHANGED runtimeVars /\ UNCHANGED callVars
    BY <1>4 DEF allVars, runtimeVars, callVars
  <2>2. ExecutionsInv' /\ \A y \in Executions : MovesForward(y)
    BY <2>1, StillKeeps DEF EngineInv
  <2>3. QED
    BY <2>1, <2>2 DEF runtimeVars, callVars, EngineInv, ExecutionsInv, ResilientTypeOK,
       CallInv, GivenUp, IsAnswered, Current
<1>5. QED
  BY <1>1, <1>2, <1>3, <1>4, StartAttemptKeeps, OperateKeeps DEF ResilientNext, Execute

-----------------------------------------------------------------------------
(* Theorems. *)

\* The engine's inductive invariant: what each execution's stage tells of it,
\* and that each attempt the engine went past had timed out or rejected.
THEOREM EngineInvariant == ResilientSpec => []EngineInv
<1>1. EngineInv /\ [ResilientNext]_allVars => EngineInv'
  BY EngineStep
<1>2. QED
  BY InitEngine, <1>1, PTL DEF ResilientSpec

\* Type correctness of the runtime under the engine: attempts are numbered from
\* one without gaps, up to the retry policy's maximum.
THEOREM TypesAreKept == ResilientSpec => []ResilientTypeOK
<1>1. EngineInv => ResilientTypeOK
  BY DEF EngineInv
<1>2. QED
  BY <1>1, EngineInvariant, PTL

\* Under the engine (resilienceEngine.ts) the runtime behaves as it does alone: a
\* timeout and a retry change no execution, also none that they gave up on.
THEOREM EngineKeepsTheRuntime == ResilientSpec => RuntimeSpec
<1>1. ASSUME NEW p \in Payments, EngineInv, Execute(p)
      PROVE  [RuntimeNext]_runtimeVars
  <2>1. CASE StartAttempt(p)
    <3>1. <<p, attempt[p] + 1>> \in Executions
      BY <1>1, <2>1, NextAttemptIsExecution
    <3>2. QED
      BY <2>1, <3>1 DEF StartAttempt, RuntimeNext
  <2>2. CASE Succeed(p) \/ Reject(p) \/ TimeOut(p)
    BY <2>2 DEF Succeed, Reject, TimeOut
  <2>3. QED
    BY <1>1, <2>1, <2>2 DEF Execute
<1>2. EngineInv /\ [ResilientNext]_allVars => [RuntimeNext]_runtimeVars
  BY <1>1 DEF ResilientNext, Operate, RuntimeNext, allVars, runtimeVars
<1>3. ResilientInit => RuntimeInit
  BY DEF ResilientInit
<1>4. QED
  BY <1>2, <1>3, EngineInvariant, PTL DEF ResilientSpec, RuntimeSpec

\* Transactions and results of PaymentRuntime.execute claim what the rail did.
THEOREM RuntimeClaimsAreTrue == ResilientSpec => []ClaimsAreTrue
<1>1. EngineInv => ClaimsAreTrue
  BY DEF EngineInv, ExecutionsInv, ExecutionInv, Claims, ClaimsAreTrue
<1>2. QED
  BY <1>1, EngineInvariant, PTL

\* A declined payment, or one announced as failed, never reaches the rail.
THEOREM RefusalIsFinal == ResilientSpec => []DeclinedIsNeverSent
<1>1. EngineInv => DeclinedIsNeverSent
  BY DEF EngineInv, ExecutionsInv, ExecutionInv, Refusal, DeclinedIsNeverSent
<1>2. QED
  BY <1>1, EngineInvariant, PTL

\* The engine pays again only behind an attempt that it abandoned, or that
\* rejected after its orchestration had ended.
THEOREM NoKnownDoublePayment == ResilientSpec => []ResentOnlyBlindly
<1>1. ASSUME EngineInv, NEW p \in Payments, NEW m \in 1..MaxAttempts,
             NEW n \in 1..MaxAttempts, m < n, transfer[<<p, m>>] # "unsent",
             stage[<<p, n>>] # "idle"
      PROVE  \/ <<p, m>> \in abandoned
             \/ /\ outcome[<<p, m>>] = "threw"
                /\ transaction[<<p, m>>] \in {"completed", "failed"}
                /\ \E kind \in {"history", "listener"} : CanThrow(kind)
  <2>1. m < attempt[p]
    BY <1>1, ResilienceAssumption DEF EngineInv, ResilientTypeOK
  <2>2. GivenUp(<<p, m>>) /\ LateThrow(<<p, m>>)
    BY <1>1, <2>1, ResilienceAssumption
       DEF EngineInv, CallInv, ExecutionsInv, ExecutionInv
  <2>3. QED
    BY <1>1, <2>2 DEF GivenUp, LateThrow
<1>2. EngineInv => ResentOnlyBlindly
  BY <1>1 DEF ResentOnlyBlindly
<1>3. QED
  BY <1>2, EngineInvariant, PTL

\* What the engine answers is what the last attempt came to.
THEOREM EngineAnswersTruly == ResilientSpec => []AnswerIsTrue
<1>1. ASSUME EngineInv, NEW p \in Payments, call[p] \in {"ok", "failed"}
      PROVE  /\ call[p] = "ok" =>
                  /\ Current(p) \notin abandoned
                  /\ outcome[Current(p)] = "completed" => transfer[Current(p)] = "landed"
                  /\ outcome[Current(p)] = "declined" => transfer[Current(p)] = "unsent"
                  /\ outcome[Current(p)] # "threw"
             /\ call[p] = "failed" =>
                  Current(p) \in abandoned \/ outcome[Current(p)] = "threw"
  <2>1. CallInv(p) /\ attempt[p] \in 1..MaxAttempts
    BY <1>1, ResilienceAssumption DEF EngineInv, CallInv, ResilientTypeOK
  <2>2. ExecutionInv(Current(p))
    BY <1>1, <2>1, CurrentIsExecution DEF EngineInv, ExecutionsInv
  <2>3. call[p] = "failed" => GivenUp(Current(p))
    BY <2>1 DEF CallInv, Current
  <2>4. QED
    BY <2>1, <2>2, <2>3
       DEF CallInv, IsAnswered, GivenUp, ExecutionInv, Claims, Refusal
<1>2. EngineInv => AnswerIsTrue
  BY <1>1 DEF AnswerIsTrue
<1>3. QED
  BY <1>2, EngineInvariant, PTL

\* No step takes a transaction back, or from one end to the other.
THEOREM TransactionsMoveForward == ResilientSpec => TransactionMovesForward
<1>1. EngineInv /\ [ResilientNext]_allVars =>
        [\A x \in Executions :
           transaction'[x] # transaction[x] /\ transaction[x] # None =>
             StatusRank[transaction[x]] < StatusRank[transaction'[x]]]_runtimeVars
  BY EngineStep DEF MovesForward
<1>2. QED
  BY <1>1, EngineInvariant, PTL DEF ResilientSpec, TransactionMovesForward

-----------------------------------------------------------------------------
(* Events follow the transaction.  EventsByStage says which hooks have published *)
(* when the stage is past them; with ExecutionInv it is inductive.          *)

LifeEvents == {"TransactionSubmitted", "TransactionAccepted", "TransactionConfirmed",
               "TransactionFinalized", "ReceiptCreated"}

EventsByStage(x) ==
    /\ stage[x] \in {"accepted", "settling", "confirmed", "finalized", "receipting", "receipted"}
         => "TransactionSubmitted" \in emitted[x]
    /\ stage[x] \in {"settling", "confirmed", "finalized", "receipting", "receipted"}
         => "TransactionAccepted" \in emitted[x]
    /\ stage[x] \in {"finalized", "receipting", "receipted"}
         => "TransactionConfirmed" \in emitted[x]
    /\ stage[x] \in {"receipting", "receipted"}
         => "TransactionFinalized" \in emitted[x]

Follow(x) ==
    /\ "TransactionSubmitted" \in emitted[x] => transfer[x] # "unsent"
    /\ "TransactionAccepted" \in emitted[x] => "TransactionSubmitted" \in emitted[x]
    /\ "TransactionConfirmed" \in emitted[x] => /\ "TransactionAccepted" \in emitted[x]
                                                /\ transfer[x] = "landed"
    /\ "TransactionFinalized" \in emitted[x] => /\ "TransactionConfirmed" \in emitted[x]
                                                /\ transaction[x] = "completed"
    /\ "ReceiptCreated" \in emitted[x] => "TransactionFinalized" \in emitted[x]
    /\ outcome[x] = "completed" => "TransactionFinalized" \in emitted[x]

EventsInv(x) == EventsByStage(x) /\ Follow(x)

\* A step that publishes none of them: where it may lead.
Quiet(x) ==
    /\ \A e \in LifeEvents : e \in emitted'[x] <=> e \in emitted[x]
    /\ \/ stage'[x] = stage[x]
       \/ stage'[x] \in {"deciding", "resolving", "validating", "executing", "submitted",
                         "finishing", "done"}
       \/ stage[x] = "settling" /\ stage'[x] = "confirmed"
       \/ stage[x] = "receipting" /\ stage'[x] = "receipted"
    /\ outcome'[x] = "completed" => outcome[x] = "completed" \/ stage[x] = "receipting"
    /\ transfer'[x] = "unsent" => transfer[x] = "unsent"
    /\ transfer[x] = "landed" => transfer'[x] = "landed"
    /\ transaction[x] = "completed" => transaction'[x] = "completed"

LEMMA QuietStepKeeps ==
    ASSUME NEW x \in Executions, EventsInv(x), Quiet(x)
    PROVE  EventsInv(x)'
BY DEF EventsInv, EventsByStage, Follow, Quiet, LifeEvents

LEMMA QuietSteps ==
    ASSUME RuntimeTypeOK, NEW x \in Executions, ExecutionInv(x),
           \/ Start(x) \/ Decide(x) \/ ResolveRail(x) \/ Validate(x) \/ ExecutePayment(x)
           \/ MonitorSettlement(x) \/ CreateReceipt(x) \/ Finish(x) \/ Contact(x) \/ Land(x)
    PROVE  Quiet(x)
<1>0. stage[x] \in {"resolving", "validating", "executing", "settling"} =>
        transaction[x] # "completed"
  BY NoneIsNoStatus DEF ExecutionInv, BeforeTransaction, StatusByStage, Statuses
<1> USE <1>0 DEF LifeEvents, RuntimeTypeOK, Quiet, Goto, Publish, Settle, Mark, IsTerminal
<1>1. CASE Start(x)
  BY <1>1 DEF Start
<1>2. CASE Decide(x)
  <2>1. CASE Approve(x)
    BY <1>2, <2>1 DEF Decide, Approve, Throw
  <2>2. CASE Decline(x)
    BY <1>2, <2>2 DEF Decide, Decline, WhenDeclined, Throw
  <2>3. CASE Throw(x, {})
    BY <1>2, <2>3 DEF Decide, Throw
  <2>4. QED
    BY <1>2, <2>1, <2>2, <2>3 DEF Decide
<1>3. CASE ResolveRail(x)
  BY <1>3 DEF ResolveRail, Throw
<1>4. CASE Validate(x)
  BY <1>4 DEF Validate, CatchError, OutcomeOnError
<1>5. CASE ExecutePayment(x)
  BY <1>5 DEF ExecutePayment, CatchError, OutcomeOnError
<1>6. CASE MonitorSettlement(x)
  BY <1>6 DEF MonitorSettlement, CatchError, OutcomeOnError
<1>7. CASE CreateReceipt(x)
  BY <1>7 DEF CreateReceipt, CatchError, OutcomeOnError
<1>8. CASE Finish(x)
  <2>1. CASE stage' = [stage EXCEPT ![x] = "done"] /\ UNCHANGED outcome
             /\ Publish(x, {"OrchestrationCompleted", "PaymentCompleted", "RuntimeCompleted"})
    BY <1>8, <2>1 DEF Finish
  <2>2. ASSUME NEW events \in {{"OrchestrationFailed"},
                               {"OrchestrationCompleted", "OrchestrationFailed"},
                               {"OrchestrationCompleted", "PaymentCompleted"},
                               {"OrchestrationCompleted", "PaymentCompleted", "RuntimeCompleted"}},
               Throw(x, events)
        PROVE  Quiet(x)
    BY <1>8, <2>2 DEF Finish, Throw
  <2>3. QED
    BY <1>8, <2>1, <2>2 DEF Finish
<1>9. CASE Contact(x)
  BY <1>9 DEF Contact
<1>10. CASE Land(x)
  BY <1>10 DEF Land
<1>11. QED
  BY <1>1, <1>2, <1>3, <1>4, <1>5, <1>6, <1>7, <1>8, <1>9, <1>10

\* A hook publishes its event and leads on, or to the catch block.
LEMMA RunHookFollows ==
    ASSUME RuntimeTypeOK, NEW x \in Executions, ExecutionInv(x), EventsInv(x), RunHook(x)
    PROVE  EventsInv(x)'
<1>1. /\ stage[x] \in HookStages
      /\ emitted'[x] = emitted[x] \cup {HookEvent[stage[x]]}
      /\ transfer'[x] = transfer[x]
  BY DEF RunHook, Publish, RuntimeTypeOK
<1>2. \/ /\ transaction'[x] = AfterHook(stage[x])[1]
         /\ stage'[x] = AfterHook(stage[x])[2]
         /\ outcome'[x] = IF stage[x] = "receipted" THEN "completed" ELSE outcome[x]
      \/ /\ transaction'[x] = IF IsTerminal(transaction[x]) THEN transaction[x] ELSE "failed"
         /\ stage'[x] = "finishing"
         /\ outcome'[x] = "failed"
  BY DEF RunHook, RuntimeTypeOK, Goto, Mark, Settle, CatchError, OutcomeOnError
<1>3. outcome[x] # "completed"
  BY <1>1, NoneIsNoStatus DEF ExecutionInv, OutcomeByStage, HookStages, Outcomes
<1>4. CASE stage[x] = "submitted"
  <2>1. HookEvent[stage[x]] = "TransactionSubmitted"
    BY <1>4 DEF HookEvent
  <2>2. stage'[x] \in {"accepted", "finishing"} /\ outcome'[x] # "completed"
    BY <1>2, <1>3, <1>4 DEF AfterHook
  <2>3. transaction[x] = "processing" /\ transfer[x] # "unsent"
    BY <1>4 DEF ExecutionInv, StatusByStage, TransferByStage
  <2>4. QED
    BY <1>1, <1>4, <2>1, <2>2, <2>3 DEF EventsInv, EventsByStage, Follow
<1>5. CASE stage[x] = "accepted"
  <2>1. HookEvent[stage[x]] = "TransactionAccepted"
    BY <1>5 DEF HookEvent
  <2>2. stage'[x] \in {"settling", "finishing"} /\ outcome'[x] # "completed"
    BY <1>2, <1>3, <1>5 DEF AfterHook
  <2>3. transaction[x] = "awaiting_settlement"
    BY <1>5 DEF ExecutionInv, StatusByStage
  <2>4. QED
    BY <1>1, <1>5, <2>1, <2>2, <2>3 DEF EventsInv, EventsByStage, Follow
<1>6. CASE stage[x] = "confirmed"
  <2>1. HookEvent[stage[x]] = "TransactionConfirmed"
    BY <1>6 DEF HookEvent
  <2>2. stage'[x] \in {"finalized", "finishing"} /\ outcome'[x] # "completed"
    BY <1>2, <1>3, <1>6 DEF AfterHook
  <2>3. transaction[x] = "settled" /\ transfer[x] = "landed"
    BY <1>6 DEF ExecutionInv, StatusByStage, TransferByStage
  <2>4. QED
    BY <1>1, <1>6, <2>1, <2>2, <2>3 DEF EventsInv, EventsByStage, Follow
<1>7. CASE stage[x] \in {"finalized", "receipted"}
  <2>1. transaction[x] = "completed" /\ transfer[x] = "landed"
    BY <1>7 DEF ExecutionInv, StatusByStage, TransferByStage
  <2>2. transaction'[x] = "completed"
    BY <1>2, <1>7, <2>1 DEF AfterHook, IsTerminal
  <2>3. CASE stage[x] = "finalized"
    <3>1. HookEvent[stage[x]] = "TransactionFinalized"
      BY <2>3 DEF HookEvent
    <3>2. stage'[x] \in {"receipting", "finishing"}
      BY <1>2, <2>3 DEF AfterHook
    <3>3. QED
      BY <1>1, <2>1, <2>2, <2>3, <3>1, <3>2 DEF EventsInv, EventsByStage, Follow
  <2>4. CASE stage[x] = "receipted"
    <3>1. HookEvent[stage[x]] = "ReceiptCreated"
      BY <2>4 DEF HookEvent
    <3>2. stage'[x] = "finishing"
      BY <1>2, <2>4 DEF AfterHook
    <3>3. QED
      BY <1>1, <2>1, <2>2, <2>4, <3>1, <3>2 DEF EventsInv, EventsByStage, Follow
  <2>5. QED
    BY <1>7, <2>3, <2>4
<1>8. QED
  BY <1>1, <1>4, <1>5, <1>6, <1>7 DEF HookStages

LEMMA EventsStep ==
    ASSUME ExecutionsInv, NEW x \in Executions, EventsInv(x), Start(x) \/ Advance(x)
    PROVE  EventsInv(x)'
<1>1. RuntimeTypeOK /\ ExecutionInv(x)
  BY DEF ExecutionsInv
<1>2. CASE RunHook(x)
  BY <1>1, <1>2, RunHookFollows
<1>3. CASE ~RunHook(x)
  <2>1. Quiet(x)
    BY <1>1, <1>3, QuietSteps DEF Advance, Orchestrate
  <2>2. QED
    BY <2>1, QuietStepKeeps
<1>4. QED
  BY <1>2, <1>3

\* A step that leaves x alone leaves its events alone.
LEMMA EventsOfOthers ==
    ASSUME NEW x \in Executions, EventsInv(x), SameExecution(x)
    PROVE  EventsInv(x)'
BY DEF EventsInv, EventsByStage, Follow, SameExecution

LEMMA EventsOfAll ==
    ASSUME EngineInv, \A x \in Executions : EventsInv(x), [ResilientNext]_allVars
    PROVE  \A x \in Executions : EventsInv(x)'
<1>1. ASSUME NEW y \in Executions, Start(y) \/ Advance(y), NEW x \in Executions
      PROVE  EventsInv(x)'
  <2>1. ExecutionsInv
    BY DEF EngineInv
  <2>2. x # y => SameExecution(x)
    BY <1>1, <2>1, StepKeeps
  <2>3. QED
    BY <1>1, <2>1, <2>2, EventsStep, EventsOfOthers
<1>2. ASSUME UNCHANGED runtimeVars, NEW x \in Executions
      PROVE  EventsInv(x)'
  BY <1>2, EventsOfOthers DEF runtimeVars, SameExecution
<1>3. ASSUME NEW p \in Payments, StartAttempt(p)
      PROVE  \E y \in Executions : Start(y)
  BY <1>3, NextAttemptIsExecution DEF StartAttempt
<1>4. \/ \E y \in Executions : Start(y) \/ Advance(y)
      \/ UNCHANGED runtimeVars
  BY <1>3 DEF ResilientNext, Execute, Succeed, Reject, TimeOut, Operate, allVars, runtimeVars
<1>5. QED
  BY <1>1, <1>2, <1>4

\* PaymentRuntime announces a transaction's life in its order, whatever listener,
\* hook, receipt or history call throws, and confirms only money that landed.
THEOREM EventsFollow == ResilientSpec => []EventsFollowTransaction
<1> DEFINE AllFollow == \A x \in Executions : EventsInv(x)
<1>1. ResilientInit => AllFollow
  BY NoneIsNoStatus DEF ResilientInit, RuntimeInit, EventsInv, EventsByStage, Follow, Outcomes
<1>2. EngineInv /\ AllFollow /\ [ResilientNext]_allVars => AllFollow'
  BY EventsOfAll
<1>3. AllFollow => EventsFollowTransaction
  BY DEF EventsInv, Follow, EventsFollowTransaction
<1> HIDE DEF AllFollow
<1>4. QED
  BY <1>1, <1>2, <1>3, EngineInvariant, PTL DEF ResilientSpec

-----------------------------------------------------------------------------
(* The decision pipeline implements the runtime's decision, an execution   *)
(* that went on was approved, and its events say so.                       *)

\* An execution that went on had an approving decision behind it, and one that
\* has not been decided has moved nothing.
WentOn(x) == stage[x] \notin {"idle", "deciding", "done"} \/ transfer[x] # "unsent"

ApprovedFirst ==
    \A x \in Executions :
        /\ WentOn(x) => at[x] = "decided" /\ DecisionStatus(decision[x]) = "approved"
        /\ stage[x] \in {"idle", "deciding"} => transfer[x] = "unsent"

\* What a step of the orchestrator may do to an execution.
LEMMA OrchestrateGoesOn ==
    ASSUME RuntimeTypeOK, NEW x \in Executions, Orchestrate(x),
           stage[x] \in {"idle", "deciding"} => transfer[x] = "unsent"
    PROVE  /\ WentOn(x)
           /\ stage'[x] \notin {"idle", "deciding"}
           /\ \A y \in Executions \ {x} : stage'[y] = stage[y] /\ transfer'[y] = transfer[y]
<1> USE DEF WentOn, RuntimeTypeOK
<1>1. CASE ResolveRail(x)
  BY <1>1 DEF ResolveRail, Throw, Goto
<1>2. CASE Validate(x)
  BY <1>2 DEF Validate, CatchError, Goto
<1>3. CASE ExecutePayment(x)
  BY <1>3 DEF ExecutePayment, CatchError, Goto
<1>4. CASE MonitorSettlement(x)
  BY <1>4 DEF MonitorSettlement, CatchError, Goto
<1>5. CASE RunHook(x)
  <2>1. stage[x] \in HookStages
    BY <1>5 DEF RunHook
  <2>2. AfterHook(stage[x])[2] \in {"accepted", "settling", "finalized", "receipting", "finishing"}
    BY <2>1 DEF HookStages, AfterHook
  <2>3. CASE Goto(x, AfterHook(stage[x])[2])
    BY <1>5, <2>1, <2>2, <2>3 DEF RunHook, Goto, HookStages
  <2>4. CASE CatchError(x)
    BY <1>5, <2>1, <2>4 DEF RunHook, CatchError, Goto, HookStages
  <2> QED
    BY <1>5, <2>3, <2>4 DEF RunHook
<1>6. CASE CreateReceipt(x)
  BY <1>6 DEF CreateReceipt, CatchError, Goto
<1>7. CASE Finish(x)
  BY <1>7 DEF Finish, Throw, Goto
<1>8. CASE Contact(x)
  BY <1>8 DEF Contact
<1>9. CASE Land(x)
  <2>1. transfer[x] = "inflight" /\ stage' = stage
    BY <1>9 DEF Land
  <2> QED
    BY <1>9, <2>1 DEF Land
<1> QED
  BY <1>1, <1>2, <1>3, <1>4, <1>5, <1>6, <1>7, <1>8, <1>9 DEF Orchestrate

\* The orchestrator's steps keep the types.
LEMMA OrchestrateTyped ==
    ASSUME RuntimeTypeOK, NEW x \in Executions, Orchestrate(x)
    PROVE  RuntimeTypeOK'
<1> USE DEF RuntimeTypeOK, Goto, Mark, Settle, Publish, Stages, Statuses, Outcomes,
            Transfers, RuntimeEvents
<1>1. CASE ResolveRail(x)
  BY <1>1 DEF ResolveRail, Throw
<1>2. CASE Validate(x)
  BY <1>2 DEF Validate, CatchError, OutcomeOnError, IsTerminal
<1>3. CASE ExecutePayment(x)
  BY <1>3 DEF ExecutePayment, CatchError, OutcomeOnError, IsTerminal, HookStages
<1>4. CASE MonitorSettlement(x)
  BY <1>4 DEF MonitorSettlement, CatchError, OutcomeOnError, IsTerminal, HookStages
<1>5. CASE RunHook(x)
  <2>1. /\ stage[x] \in HookStages
        /\ HookEvent[stage[x]] \in RuntimeEvents
        /\ AfterHook(stage[x])[1] \in Statuses
        /\ AfterHook(stage[x])[2] \in Stages
    BY <1>5 DEF RunHook, HookStages, AfterHook, HookEvent
  <2>2. /\ emitted' \in [Executions -> SUBSET RuntimeEvents]
        /\ transfer' = transfer
    BY <1>5, <2>1 DEF RunHook
  <2>3. CASE /\ Mark(x, AfterHook(stage[x])[1])
             /\ Goto(x, AfterHook(stage[x])[2])
             /\ outcome' = outcome \/ Settle(x, "completed")
    BY <2>1, <2>2, <2>3
  <2>4. CASE CatchError(x)
    BY <2>2, <2>4 DEF CatchError, OutcomeOnError, IsTerminal
  <2> QED
    BY <1>5, <2>3, <2>4 DEF RunHook
<1>6. CASE CreateReceipt(x)
  BY <1>6 DEF CreateReceipt, CatchError, OutcomeOnError, IsTerminal, HookStages
<1>7. CASE Finish(x)
  <2>1. /\ stage' \in [Executions -> Stages]
        /\ outcome' \in [Executions -> Outcomes \cup {None}]
        /\ UNCHANGED <<transaction, transfer>>
    BY <1>7 DEF Finish, Throw
  <2>2. emitted' \in [Executions -> SUBSET RuntimeEvents]
    BY <1>7 DEF Finish, Throw
  <2> QED
    BY <2>1, <2>2
<1>8. CASE Contact(x) \/ Land(x)
  BY <1>8 DEF Contact, Land
<1> QED
  BY <1>1, <1>2, <1>3, <1>4, <1>5, <1>6, <1>7, <1>8 DEF Orchestrate

\* So do the runtime's start and its conclusion, which keep the money where it is.
LEMMA StartTyped ==
    ASSUME RuntimeTypeOK, NEW x \in Executions, Start(x)
    PROVE  /\ RuntimeTypeOK'
           /\ stage[x] = "idle" /\ stage'[x] \in {"deciding", "done"}
           /\ \A y \in Executions \ {x} : stage'[y] = stage[y]
           /\ transfer' = transfer
BY DEF RuntimeTypeOK, Start, Goto, Settle, Publish, Stages, Outcomes, RuntimeEvents

LEMMA ConcludeTyped ==
    ASSUME RuntimeTypeOK, NEW x \in Executions, Conclude(x)
    PROVE  /\ RuntimeTypeOK'
           /\ stage[x] = "deciding" /\ stage'[x] \in {"resolving", "done"}
           /\ stage'[x] = "resolving" =>
                at[x] = "decided" /\ DecisionStatus(decision[x]) = "approved"
           /\ at[x] \notin Engines
           /\ \A y \in Executions \ {x} : stage'[y] = stage[y]
           /\ transfer' = transfer
<1> USE DEF RuntimeTypeOK, Goto, Settle, Publish, Stages, Outcomes, RuntimeEvents
<1>1. stage[x] = "deciding" /\ UNCHANGED <<transaction, transfer>>
  BY DEF Conclude
<1>2. "decided" \notin Engines /\ "rejected" \notin Engines
  BY DEF Engines, Verdicts
<1>3. ASSUME NEW events \in SUBSET RuntimeEvents, Throw(x, events)
      PROVE  /\ RuntimeTypeOK' /\ stage'[x] = "done"
             /\ \A y \in Executions \ {x} : stage'[y] = stage[y]
  BY <1>1, <1>3 DEF Throw
<1>4. CASE at[x] = "decided" /\ DecisionStatus(decision[x]) = "approved" /\ Approve(x)
  BY <1>1, <1>2, <1>3, <1>4 DEF Approve
<1>5. CASE at[x] = "decided" /\ DecisionStatus(decision[x]) # "approved" /\ Decline(x)
  <2>1. CASE /\ Goto(x, WhenDeclined(x))
             /\ Publish(x, {"PaymentFailed", "RuntimeCompleted"})
             /\ Settle(x, "declined")
    BY <1>1, <1>2, <1>5, <2>1 DEF WhenDeclined
  <2>2. ASSUME NEW events \in {{"PaymentFailed"}, {"PaymentFailed", "RuntimeCompleted"}},
               Throw(x, events)
        PROVE  /\ RuntimeTypeOK' /\ stage'[x] = "done"
               /\ \A y \in Executions \ {x} : stage'[y] = stage[y]
    BY <1>3, <2>2
  <2> QED
    BY <1>1, <1>2, <1>5, <2>1, <2>2 DEF Decline
<1>6. CASE at[x] = "rejected" /\ Throw(x, {})
  BY <1>1, <1>2, <1>3, <1>6
<1> QED
  BY <1>4, <1>5, <1>6 DEF Conclude

-----------------------------------------------------------------------------
(* The events of a pipeline that awaits the engine at a are those of the    *)
(* engines before it, and its start.                                       *)

Saw(x, e, status) == Note(e, status) \in noted[x]
Passed(x, e) == Saw(x, e, "completed") /\ ~Saw(x, e, "failed")

Reach(a) ==
    CASE a = "idle" -> 0
      [] a \in Measured -> Position[a]
      [] a \notin Measured \cup {"idle"} -> 5

UpTo(x, a) ==
    \A e \in Measured :
        /\ Position[e] < Reach(a) => Saw(x, e, "started") /\ Passed(x, e)
        /\ Position[e] = Reach(a) =>
             Saw(x, e, "started") /\ ~Saw(x, e, "completed") /\ ~Saw(x, e, "failed")
        /\ Position[e] > Reach(a) =>
             ~Saw(x, e, "started") /\ ~Saw(x, e, "completed") /\ ~Saw(x, e, "failed")

InOrder(x) ==
    /\ \A e \in Measured : Saw(x, e, "completed") \/ Saw(x, e, "failed") => Saw(x, e, "started")
    /\ \A e, f \in Measured :
         Position[e] < Position[f] /\ Saw(x, f, "started") => Passed(x, e)

PipelineInv ==
    /\ PipelineTypeOK
    /\ ApprovedFirst
    /\ \A x \in Executions :
         /\ at[x] = "rejected" => CanThrow("decision") \/ CanThrow("listener")
         /\ stage[x] = "idle" => at[x] = "idle"
         /\ outcome[x] = "declined" => at[x] = "decided"
         /\ at[x] # "rejected" => UpTo(x, at[x])
         /\ InOrder(x)

LEMMA MeasuredEngines ==
    /\ Measured = {"identity", "compliance", "risk", "policy"}
    /\ Engines = {"identity", "compliance", "risk", "policy", "trust"}
    /\ Position["identity"] = 1 /\ Position["compliance"] = 2
    /\ Position["risk"] = 3 /\ Position["policy"] = 4
BY DEF Measured, Engines, Position, Verdicts

Successive(a, b) ==
    <<a, b>> \in {<<"idle", "identity">>, <<"identity", "compliance">>,
                  <<"compliance", "risk">>, <<"risk", "policy">>, <<"policy", "trust">>,
                  <<"policy", "decided">>, <<"trust", "decided">>}

\* Measuring from engine a, which has just completed (if it is measured), to b.
LEMMA MoveOnKeeps ==
    ASSUME PipelineTypeOK, NEW x \in Executions, NEW a, NEW b,
           Successive(a, b), at[x] = a, UpTo(x, a),
           MoveOn(x, b, IF a \in Measured THEN {Note(a, "completed")} ELSE {})
    PROVE  /\ at' \in [Executions -> Engines \cup {"idle", "decided", "rejected"}]
           /\ noted' \in [Executions -> SUBSET (Measured \X {"started", "completed", "failed"})]
           /\ \A y \in Executions \ {x} : at'[y] = at[y] /\ noted'[y] = noted[y]
           /\ (at'[x] = b /\ UpTo(x, b)') \/ (at'[x] = "rejected" /\ CanThrow("listener"))
           /\ InOrder(x)'
<1> DEFINE completed == IF a \in Measured THEN {Note(a, "completed")} ELSE {}
           started == IF b \in Measured THEN {Note(b, "started")} ELSE {}
<1>1. /\ noted' = [noted EXCEPT ![x] = @ \cup completed \cup started]
      /\ \/ at' = [at EXCEPT ![x] = b]
         \/ at' = [at EXCEPT ![x] = "rejected"] /\ CanThrow("listener")
  BY DEF MoveOn, RejectStage
<1>2. completed \cup started \subseteq Measured \X {"started", "completed", "failed"}
  BY DEF Note, Successive
<1>3. noted \in [Executions -> SUBSET (Measured \X {"started", "completed", "failed"})]
  BY DEF PipelineTypeOK
<1>4. /\ noted' \in [Executions -> SUBSET (Measured \X {"started", "completed", "failed"})]
      /\ noted'[x] = noted[x] \cup completed \cup started
      /\ \A y \in Executions \ {x} : noted'[y] = noted[y]
  <2> HIDE DEF completed, started
  <2> QED
    BY <1>1, <1>2, <1>3
<1>5. /\ at' \in [Executions -> Engines \cup {"idle", "decided", "rejected"}]
      /\ \A y \in Executions \ {x} : at'[y] = at[y]
      /\ at'[x] = b \/ (at'[x] = "rejected" /\ CanThrow("listener"))
  BY <1>1, MeasuredEngines DEF PipelineTypeOK, Successive
<1>6. \A e \in Measured :
        /\ Saw(x, e, "started")' <=> Saw(x, e, "started") \/ e = b
        /\ Saw(x, e, "completed")' <=> Saw(x, e, "completed") \/ e = a
        /\ Saw(x, e, "failed")' <=> Saw(x, e, "failed")
  BY <1>4, MeasuredEngines DEF Saw, Note, Successive
<1>7. UpTo(x, b)'
  BY <1>6, MeasuredEngines DEF Successive, UpTo, Passed, Reach
<1>8. InOrder(x)'
  BY <1>6, MeasuredEngines DEF Successive, UpTo, InOrder, Passed, Reach
<1> QED
  BY <1>4, <1>5, <1>7, <1>8

\* A pipeline that ends because engine a, or a listener told of it, threw.
LEMMA RejectKeeps ==
    ASSUME PipelineTypeOK, NEW x \in Executions, NEW a \in Engines, NEW statuses,
           statuses \in SUBSET {"completed", "failed"},
           at[x] = a, UpTo(x, a),
           RejectStage(x, IF a \in Measured THEN {Note(a, s) : s \in statuses} ELSE {})
    PROVE  /\ at' \in [Executions -> Engines \cup {"idle", "decided", "rejected"}]
           /\ noted' \in [Executions -> SUBSET (Measured \X {"started", "completed", "failed"})]
           /\ \A y \in Executions \ {x} : at'[y] = at[y] /\ noted'[y] = noted[y]
           /\ at'[x] = "rejected"
           /\ InOrder(x)'
<1> DEFINE notes == IF a \in Measured THEN {Note(a, s) : s \in statuses} ELSE {}
<1>1. at' = [at EXCEPT ![x] = "rejected"] /\ noted' = [noted EXCEPT ![x] = @ \cup notes]
  BY DEF RejectStage
<1>2. notes \subseteq Measured \X {"started", "completed", "failed"}
  BY DEF Note
<1>3. /\ noted' \in [Executions -> SUBSET (Measured \X {"started", "completed", "failed"})]
      /\ noted'[x] = noted[x] \cup notes
      /\ \A y \in Executions \ {x} : noted'[y] = noted[y]
  <2>1. noted \in [Executions -> SUBSET (Measured \X {"started", "completed", "failed"})]
    BY DEF PipelineTypeOK
  <2> HIDE DEF notes
  <2> QED
    BY <1>1, <1>2, <2>1
<1>4. /\ at' \in [Executions -> Engines \cup {"idle", "decided", "rejected"}]
      /\ \A y \in Executions \ {x} : at'[y] = at[y]
      /\ at'[x] = "rejected"
  BY <1>1 DEF PipelineTypeOK
<1>5. \A e \in Measured :
        /\ Saw(x, e, "started")' <=> Saw(x, e, "started")
        /\ Saw(x, e, "completed")' => Saw(x, e, "completed") \/ e = a
        /\ Saw(x, e, "completed") => Saw(x, e, "completed")'
        /\ Saw(x, e, "failed")' => Saw(x, e, "failed") \/ e = a
  BY <1>3 DEF Saw, Note
<1>6. InOrder(x)'
  BY <1>5, MeasuredEngines DEF UpTo, InOrder, Passed, Reach
<1> QED
  BY <1>3, <1>4, <1>6

-----------------------------------------------------------------------------
(* The invariant is kept by every action. *)

\* What PipelineInv says of one execution.
ExecutionOK(x) ==
    /\ at[x] \in Engines => stage[x] = "deciding"
    /\ at[x] # "idle" =>
         /\ request[x] \in Requests
         /\ decision[x] \in [Engines -> AllVerdicts \cup {None}]
    /\ stage[x] \notin {"idle", "deciding", "done"} => at[x] = "decided"
    /\ WentOn(x) => at[x] = "decided" /\ DecisionStatus(decision[x]) = "approved"
    /\ stage[x] \in {"idle", "deciding"} => transfer[x] = "unsent"
    /\ at[x] = "rejected" => CanThrow("decision") \/ CanThrow("listener")
    /\ stage[x] = "idle" => at[x] = "idle"
    /\ outcome[x] = "declined" => at[x] = "decided"
    /\ at[x] # "rejected" => UpTo(x, at[x])
    /\ InOrder(x)

Shapes ==
    /\ RuntimeTypeOK
    /\ request \in [Executions -> Requests \cup {None}]
    /\ at \in [Executions -> Engines \cup {"idle", "decided", "rejected"}]
    /\ decision \in [Executions -> [Engines -> AllVerdicts \cup {None}] \cup {None}]
    /\ noted \in [Executions -> SUBSET (Measured \X {"started", "completed", "failed"})]

LEMMA InvByExecution == PipelineInv <=> Shapes /\ \A x \in Executions : ExecutionOK(x)
BY DEF PipelineInv, PipelineTypeOK, ApprovedFirst, Shapes, ExecutionOK

\* A step of x leaves every other execution as it was.
Alone(x) ==
    \A y \in Executions \ {x} :
        /\ stage'[y] = stage[y] /\ transfer'[y] = transfer[y] /\ outcome'[y] = outcome[y]
        /\ request'[y] = request[y] /\ at'[y] = at[y]
        /\ decision'[y] = decision[y] /\ noted'[y] = noted[y]

LEMMA OthersKept ==
    ASSUME PipelineInv, NEW x \in Executions, Shapes', Alone(x), ExecutionOK(x)'
    PROVE  PipelineInv'
<1>1. ASSUME NEW y \in Executions \ {x} PROVE ExecutionOK(y)'
  <2>1. ExecutionOK(y)
    BY InvByExecution
  <2>2. /\ stage'[y] = stage[y] /\ transfer'[y] = transfer[y] /\ outcome'[y] = outcome[y]
        /\ request'[y] = request[y] /\ at'[y] = at[y]
        /\ decision'[y] = decision[y] /\ noted'[y] = noted[y]
    BY DEF Alone
  <2>3. /\ WentOn(y)' <=> WentOn(y)
        /\ InOrder(y)' <=> InOrder(y)
        /\ UpTo(y, at[y])' <=> UpTo(y, at[y])
        /\ DecisionStatus(decision[y])' = DecisionStatus(decision[y])
    BY <2>2 DEF WentOn, InOrder, UpTo, Passed, Saw, DecisionStatus, IsBlocked, NeedsReview
  <2> QED
    BY <2>1, <2>2, <2>3 DEF ExecutionOK, CanThrow
<1>2. \A z \in Executions : ExecutionOK(z)'
  BY <1>1
<1> QED
  BY <1>2 DEF PipelineInv, PipelineTypeOK, ApprovedFirst, Shapes, ExecutionOK

LEMMA EvaluateKeeps ==
    ASSUME PipelineInv, NEW x \in Executions, Evaluate(x)
    PROVE  PipelineInv'
<1>1. Shapes /\ ExecutionOK(x)
  BY InvByExecution
<1>2. /\ RuntimeTypeOK'
      /\ stage[x] = "idle" /\ stage'[x] \in {"deciding", "done"}
      /\ \A y \in Executions \ {x} : stage'[y] = stage[y]
      /\ transfer' = transfer
  BY <1>1, StartTyped DEF Shapes, Evaluate
<1>3. at[x] = "idle" /\ transfer[x] = "unsent" /\ UpTo(x, "idle") /\ InOrder(x)
  BY <1>1, <1>2 DEF ExecutionOK
<1>4. PICK r \in Requests :
        /\ request' = [request EXCEPT ![x] = r]
        /\ decision' = [decision EXCEPT ![x] = r.carried]
  BY DEF Evaluate
<1>5. r.carried \in [Engines -> AllVerdicts \cup {None}]
  BY PipelineAssumption
<1>6. /\ request' \in [Executions -> Requests \cup {None}] /\ request'[x] = r
      /\ decision' \in [Executions -> [Engines -> AllVerdicts \cup {None}] \cup {None}]
      /\ decision'[x] = r.carried
      /\ \A y \in Executions \ {x} : request'[y] = request[y] /\ decision'[y] = decision[y]
  BY <1>1, <1>4, <1>5 DEF Shapes
<1>7. /\ outcome'[x] # "declined"
      /\ \A y \in Executions \ {x} : outcome'[y] = outcome[y]
  BY <1>1, <1>3, MeasuredEngines DEF Evaluate, Start, Settle, ExecutionOK, Shapes, RuntimeTypeOK
<1>8. CASE stage'[x] = "deciding" /\ MoveOn(x, "identity", {})
  <2>1. "idle" \notin Measured
    BY MeasuredEngines
  <2>2. /\ at' \in [Executions -> Engines \cup {"idle", "decided", "rejected"}]
        /\ noted' \in [Executions -> SUBSET (Measured \X {"started", "completed", "failed"})]
        /\ \A y \in Executions \ {x} : at'[y] = at[y] /\ noted'[y] = noted[y]
        /\ (at'[x] = "identity" /\ UpTo(x, "identity")') \/ (at'[x] = "rejected" /\ CanThrow("listener"))
        /\ InOrder(x)'
    <3>1. MoveOn(x, "identity", IF "idle" \in Measured THEN {Note("idle", "completed")} ELSE {})
      BY <1>8, <2>1
    <3>2. PipelineTypeOK /\ at[x] = "idle" /\ UpTo(x, "idle")
      BY <1>3 DEF PipelineInv
    <3>3. Successive("idle", "identity")
      BY DEF Successive
    <3> QED
      BY <3>1, <3>2, <3>3, MoveOnKeeps
  <2>3. ExecutionOK(x)'
    BY <1>2, <1>5, <1>6, <1>7, <1>8, <2>2, MeasuredEngines, <1>3 DEF ExecutionOK, WentOn, CanThrow
  <2>4. Shapes' /\ Alone(x)
    BY <1>2, <1>6, <1>7, <2>2 DEF Shapes, Alone
  <2> QED
    BY <2>3, <2>4, OthersKept
<1>9. CASE stage'[x] = "done" /\ UNCHANGED <<at, noted>>
  <2>1. UpTo(x, "idle")' /\ InOrder(x)'
    BY <1>3, <1>9 DEF UpTo, InOrder, Passed, Saw
  <2>2. ExecutionOK(x)'
    BY <1>2, <1>3, <1>6, <1>7, <1>9, <2>1, MeasuredEngines DEF ExecutionOK, WentOn
  <2>3. Shapes' /\ Alone(x)
    BY <1>1, <1>2, <1>6, <1>7, <1>9 DEF Shapes, Alone
  <2> QED
    BY <2>2, <2>3, OthersKept
<1> QED
  BY <1>8, <1>9 DEF Evaluate

LEMMA AnswerKeeps ==
    ASSUME PipelineInv, NEW x \in Executions, Answer(x)
    PROVE  PipelineInv'
<1>0. PICK e \in Engines : at[x] = e
  BY DEF Answer
<1>1. Shapes /\ ExecutionOK(x)
  BY InvByExecution
<1>2. UNCHANGED <<runtimeVars, request>>
  BY DEF Answer
<1>3. /\ stage[x] = "deciding" /\ transfer[x] = "unsent" /\ outcome[x] # "declined"
      /\ request[x] \in Requests /\ UpTo(x, e)
      /\ decision[x] \in [Engines -> AllVerdicts \cup {None}]
  BY <1>0, <1>1, MeasuredEngines DEF ExecutionOK
<1>4. PICK verdict \in Answers(x, e) : decision' = [decision EXCEPT ![x][e] = verdict]
  BY <1>0 DEF Answer
<1>5. verdict \in AllVerdicts \cup {None}
  BY <1>3, <1>4 DEF Answers, AllVerdicts
<1>6. /\ decision' \in [Executions -> [Engines -> AllVerdicts \cup {None}] \cup {None}]
      /\ decision'[x] \in [Engines -> AllVerdicts \cup {None}]
      /\ \A y \in Executions \ {x} : decision'[y] = decision[y]
  BY <1>1, <1>2, <1>3, <1>4, <1>5 DEF Shapes
<1>7. /\ RuntimeTypeOK' /\ stage' = stage /\ transfer' = transfer /\ outcome' = outcome
      /\ request' = request
  BY <1>1, <1>2 DEF Shapes, RuntimeTypeOK, runtimeVars
<1>8. ASSUME /\ at' \in [Executions -> Engines \cup {"idle", "decided", "rejected"}]
             /\ noted' \in [Executions -> SUBSET (Measured \X {"started", "completed", "failed"})]
             /\ \A y \in Executions \ {x} : at'[y] = at[y] /\ noted'[y] = noted[y]
             /\ InOrder(x)',
             \/ at'[x] \in Engines \cup {"decided"} /\ UpTo(x, at[x])'
             \/ at'[x] = "rejected" /\ (CanThrow("decision") \/ CanThrow("listener"))
      PROVE  PipelineInv'
  <2>1. ExecutionOK(x)'
    <3>1. CASE at'[x] \in Engines \cup {"decided"} /\ UpTo(x, at[x])'
      BY <1>3, <1>6, <1>7, <1>8, <3>1, MeasuredEngines DEF ExecutionOK, WentOn
    <3>2. CASE at'[x] = "rejected" /\ (CanThrow("decision") \/ CanThrow("listener"))
      BY <1>3, <1>6, <1>7, <1>8, <3>2, MeasuredEngines DEF ExecutionOK, WentOn, CanThrow
    <3> QED
      BY <1>8, <3>1, <3>2
  <2>2. Shapes' /\ Alone(x)
    BY <1>1, <1>6, <1>7, <1>8 DEF Shapes, Alone
  <2> QED
    BY <2>1, <2>2, OthersKept
<1>9. CASE MoveOn(x, Following(x, e), IF e \in Measured THEN {Note(e, "completed")} ELSE {})
  <2>0. PICK b : b = Following(x, e)
    OBVIOUS
  <2>1. <<e, b>> \in {<<"identity", "compliance">>, <<"compliance", "risk">>,
                      <<"risk", "policy">>, <<"policy", "trust">>,
                      <<"policy", "decided">>, <<"trust", "decided">>}
    BY <2>0, MeasuredEngines DEF Following
  <2>2. b \in Engines \cup {"decided"}
    BY <2>1, MeasuredEngines
  <2>3. /\ at' \in [Executions -> Engines \cup {"idle", "decided", "rejected"}]
        /\ noted' \in [Executions -> SUBSET (Measured \X {"started", "completed", "failed"})]
        /\ \A y \in Executions \ {x} : at'[y] = at[y] /\ noted'[y] = noted[y]
        /\ (at'[x] = b /\ UpTo(x, b)') \/ (at'[x] = "rejected" /\ CanThrow("listener"))
        /\ InOrder(x)'
    <3>1. MoveOn(x, b, IF e \in Measured THEN {Note(e, "completed")} ELSE {})
      BY <1>9, <2>0
    <3>2. PipelineTypeOK /\ at[x] = e /\ UpTo(x, e)
      BY <1>0, <1>3 DEF PipelineInv
    <3>3. Successive(e, b)
      BY <2>1 DEF Successive
    <3> QED
      BY <3>1, <3>2, <3>3, MoveOnKeeps
  <2> QED
    BY <1>8, <2>2, <2>3
<1>10. CASE /\ e \in Measured /\ CanThrow("listener")
            /\ RejectStage(x, {Note(e, "completed")} \cup {Note(e, "failed")})
  <2>1. RejectStage(x, IF e \in Measured THEN {Note(e, s) : s \in {"completed", "failed"}} ELSE {})
    <3>1. {Note(e, s) : s \in {"completed", "failed"}} = {Note(e, "completed")} \cup {Note(e, "failed")}
      OBVIOUS
    <3> QED
      BY <1>10, <3>1
  <2>2. /\ at' \in [Executions -> Engines \cup {"idle", "decided", "rejected"}]
        /\ noted' \in [Executions -> SUBSET (Measured \X {"started", "completed", "failed"})]
        /\ \A y \in Executions \ {x} : at'[y] = at[y] /\ noted'[y] = noted[y]
        /\ at'[x] = "rejected" /\ InOrder(x)'
    BY <1>0, <1>3, <2>1, RejectKeeps DEF PipelineInv
  <2> QED
    BY <1>8, <1>10, <2>2
<1> QED
  BY <1>0, <1>9, <1>10 DEF Answer

LEMMA EngineFailsKeeps ==
    ASSUME PipelineInv, NEW x \in Executions, EngineFails(x)
    PROVE  PipelineInv'
<1>1. Shapes /\ ExecutionOK(x)
  BY InvByExecution
<1>2. PICK e \in Engines : at[x] = e
  BY DEF EngineFails
<1>3. /\ CanThrow("decision")
      /\ UNCHANGED <<runtimeVars, request, decision>>
      /\ RejectStage(x, IF e \in Measured THEN {Note(e, "failed")} ELSE {})
  BY <1>2 DEF EngineFails
<1>4. /\ stage[x] = "deciding" /\ transfer[x] = "unsent" /\ outcome[x] # "declined"
      /\ request[x] \in Requests /\ UpTo(x, e)
      /\ decision[x] \in [Engines -> AllVerdicts \cup {None}]
  BY <1>1, <1>2, MeasuredEngines DEF ExecutionOK
<1>5. RejectStage(x, IF e \in Measured THEN {Note(e, s) : s \in {"failed"}} ELSE {})
  <2>1. {Note(e, s) : s \in {"failed"}} = {Note(e, "failed")}
    OBVIOUS
  <2> QED
    BY <1>3, <2>1
<1>6. /\ at' \in [Executions -> Engines \cup {"idle", "decided", "rejected"}]
      /\ noted' \in [Executions -> SUBSET (Measured \X {"started", "completed", "failed"})]
      /\ \A y \in Executions \ {x} : at'[y] = at[y] /\ noted'[y] = noted[y]
      /\ at'[x] = "rejected" /\ InOrder(x)'
  <2>1. {"failed"} \in SUBSET {"completed", "failed"}
    OBVIOUS
  <2>2. PipelineTypeOK
    BY DEF PipelineInv
  <2> QED
    BY <1>2, <1>4, <1>5, <2>1, <2>2, RejectKeeps
<1>7. ExecutionOK(x)'
  BY <1>3, <1>4, <1>6, MeasuredEngines DEF ExecutionOK, WentOn, CanThrow, runtimeVars
<1>8. Shapes' /\ Alone(x)
  BY <1>1, <1>3, <1>6 DEF Shapes, RuntimeTypeOK, Alone, runtimeVars
<1> QED
  BY <1>7, <1>8, OthersKept

LEMMA ConcludeKeeps ==
    ASSUME PipelineInv, NEW x \in Executions, Conclude(x)
    PROVE  PipelineInv'
<1>1. Shapes /\ ExecutionOK(x)
  BY InvByExecution
<1>2. /\ RuntimeTypeOK'
      /\ stage[x] = "deciding" /\ stage'[x] \in {"resolving", "done"}
      /\ stage'[x] = "resolving" =>
           at[x] = "decided" /\ DecisionStatus(decision[x]) = "approved"
      /\ at[x] \notin Engines
      /\ \A y \in Executions \ {x} : stage'[y] = stage[y]
      /\ transfer' = transfer
  BY <1>1, ConcludeTyped DEF Shapes
<1>3. UNCHANGED <<request, at, decision, noted>>
  BY DEF Conclude, pipelineVars
<1>4. /\ outcome'[x] = "declined" => at[x] = "decided"
      /\ \A y \in Executions \ {x} : outcome'[y] = outcome[y]
  BY <1>1 DEF Conclude, Approve, Decline, Throw, Settle, ExecutionOK, Shapes, RuntimeTypeOK
<1>5. UpTo(x, at[x])' = UpTo(x, at[x]) /\ InOrder(x)' = InOrder(x)
  BY <1>3 DEF UpTo, InOrder, Passed, Saw
<1>6. DecisionStatus(decision[x])' = DecisionStatus(decision[x])
  BY <1>3 DEF DecisionStatus, IsBlocked, NeedsReview
<1>7. ExecutionOK(x)'
  BY <1>1, <1>2, <1>3, <1>4, <1>5, <1>6 DEF ExecutionOK, WentOn, CanThrow
<1>8. Shapes' /\ Alone(x)
  BY <1>1, <1>2, <1>3, <1>4 DEF Shapes, Alone
<1> QED
  BY <1>7, <1>8, OthersKept

LEMMA OrchestrateKeeps ==
    ASSUME PipelineInv, NEW x \in Executions, Orchestrate(x), UNCHANGED pipelineVars
    PROVE  PipelineInv'
<1>1. Shapes /\ ExecutionOK(x)
  BY InvByExecution
<1>2. /\ WentOn(x)
      /\ stage'[x] \notin {"idle", "deciding"}
      /\ \A y \in Executions \ {x} : stage'[y] = stage[y] /\ transfer'[y] = transfer[y]
  BY <1>1, OrchestrateGoesOn DEF Shapes, ExecutionOK
<1>3. RuntimeTypeOK'
  BY <1>1, OrchestrateTyped DEF Shapes
<1>4. UNCHANGED <<request, at, decision, noted>>
  BY DEF pipelineVars
<1>5. at[x] = "decided" /\ DecisionStatus(decision[x]) = "approved"
  BY <1>1, <1>2 DEF ExecutionOK
<1>6. \A y \in Executions \ {x} : outcome'[y] = outcome[y]
  BY <1>1 DEF Orchestrate, ResolveRail, Validate, ExecutePayment, MonitorSettlement,
     RunHook, CreateReceipt, Finish, Contact, Land, Throw, CatchError, Settle, Shapes,
     RuntimeTypeOK
<1>7. UpTo(x, at[x])' = UpTo(x, at[x]) /\ InOrder(x)' = InOrder(x)
  BY <1>4 DEF UpTo, InOrder, Passed, Saw
<1>8. DecisionStatus(decision[x])' = DecisionStatus(decision[x])
  BY <1>4 DEF DecisionStatus, IsBlocked, NeedsReview
<1>9. /\ request[x] \in Requests
      /\ decision[x] \in [Engines -> AllVerdicts \cup {None}]
  BY <1>1, <1>2 DEF ExecutionOK, WentOn
<1>10. ExecutionOK(x)'
  BY <1>1, <1>2, <1>4, <1>5, <1>7, <1>8, <1>9, MeasuredEngines DEF ExecutionOK
<1>11. Shapes' /\ Alone(x)
  BY <1>1, <1>2, <1>3, <1>4, <1>6 DEF Shapes, Alone
<1> QED
  BY <1>10, <1>11, OthersKept

\* Any step keeps the invariant.
LEMMA PipelineStep ==
    ASSUME PipelineInv, [PipelineNext]_<<runtimeVars, pipelineVars>>
    PROVE  PipelineInv'
<1>1. ASSUME NEW x \in Executions,
             \/ Evaluate(x) \/ Answer(x) \/ EngineFails(x) \/ Conclude(x)
             \/ Orchestrate(x) /\ UNCHANGED pipelineVars
      PROVE  PipelineInv'
  BY <1>1, EvaluateKeeps, AnswerKeeps, EngineFailsKeeps, ConcludeKeeps, OrchestrateKeeps
<1>2. CASE UNCHANGED <<runtimeVars, pipelineVars>>
  BY <1>2 DEF PipelineInv, PipelineTypeOK, RuntimeTypeOK, ApprovedFirst, WentOn, UpTo,
     InOrder, Passed, Saw, DecisionStatus, IsBlocked, NeedsReview, CanThrow,
     runtimeVars, pipelineVars
<1> QED
  BY <1>1, <1>2 DEF PipelineNext

LEMMA PipelineStart == PipelineInit => PipelineInv
<1> SUFFICES ASSUME PipelineInit PROVE PipelineInv
  OBVIOUS
<1>1. Shapes
  BY DEF PipelineInit, RuntimeInit, Shapes, RuntimeTypeOK, Stages, Transfers
<1>2. ASSUME NEW x \in Executions PROVE ExecutionOK(x)
  <2>1. /\ stage[x] = "idle" /\ at[x] = "idle" /\ transfer[x] = "unsent"
        /\ outcome[x] = None /\ noted[x] = {}
    BY DEF PipelineInit, RuntimeInit
  <2>2. UpTo(x, "idle") /\ InOrder(x)
    BY <2>1, MeasuredEngines DEF UpTo, InOrder, Passed, Saw, Reach
  <2>3. None # "declined"
    BY RuntimeAssumption DEF Outcomes
  <2> QED
    BY <2>1, <2>2, <2>3, MeasuredEngines DEF ExecutionOK, WentOn
<1> QED
  BY <1>1, <1>2, InvByExecution

LEMMA PipelineAlways == PipelineSpec => []PipelineInv
BY PipelineStart, PipelineStep, PTL DEF PipelineSpec

-----------------------------------------------------------------------------

\* Executions and their pipelines keep in step.
THEOREM PipelineIsTyped == PipelineSpec => []PipelineTypeOK
<1>1. PipelineInv => PipelineTypeOK
  BY DEF PipelineInv
<1> QED
  BY <1>1, PipelineAlways, PTL

\* Whatever engines are configured and whatever a request carries, a payment that
\* reached the rail was refused by none of the decisions that counted.
THEOREM VerdictsAreObeyed == PipelineSpec => []NoTransferAgainstAVerdict
<1>1. PipelineInv => NoTransferAgainstAVerdict
  BY DEF PipelineInv, ApprovedFirst, WentOn, NoTransferAgainstAVerdict, DecisionStatus,
         IsBlocked, NeedsReview
<1> QED
  BY <1>1, PipelineAlways, PTL

\* The pipeline's events account for every stage of a decision.
THEOREM StagesAreAlwaysAccounted == PipelineSpec => []StagesAreAccounted
<1>1. PipelineInv => StagesAreAccounted
  <2> SUFFICES ASSUME PipelineInv, NEW x \in Executions
               PROVE  /\ InOrder(x)
                      /\ \A e \in Measured : at[x] = e =>
                           /\ Saw(x, e, "started")
                           /\ ~Saw(x, e, "completed") /\ ~Saw(x, e, "failed")
                      /\ outcome[x] = "declined" \/ transfer[x] # "unsent" =>
                           \A e \in Measured : Passed(x, e)
    BY DEF StagesAreAccounted, InOrder, Passed, Saw
  <2>1. ExecutionOK(x)
    BY InvByExecution
  <2>2. ASSUME NEW e \in Measured, at[x] = e
        PROVE  Saw(x, e, "started") /\ ~Saw(x, e, "completed") /\ ~Saw(x, e, "failed")
    BY <2>1, <2>2, MeasuredEngines DEF ExecutionOK, UpTo, Reach
  <2>3. outcome[x] = "declined" \/ transfer[x] # "unsent" => at[x] = "decided"
    BY <2>1 DEF ExecutionOK, WentOn
  <2>4. at[x] = "decided" => \A e \in Measured : Passed(x, e)
    BY <2>1, MeasuredEngines DEF ExecutionOK, UpTo, Reach
  <2> QED
    BY <2>1, <2>2, <2>3, <2>4 DEF ExecutionOK
<1> QED
  BY <1>1, PipelineAlways, PTL

\* The pipeline in its place implements the runtime's decision, so whatever is
\* proved of PaymentRuntime's executions holds with any engines.
THEOREM PipelineImplementsRuntime == PipelineSpec => ImplementsRuntime
<1>1. PipelineInit => RuntimeInit
  BY DEF PipelineInit
<1>2. PipelineInv /\ [PipelineNext]_<<runtimeVars, pipelineVars>> => [RuntimeNext]_runtimeVars
  <2> SUFFICES ASSUME PipelineInv, PipelineNext PROVE [RuntimeNext]_runtimeVars
    OBVIOUS
  <2>1. PICK x \in Executions :
          \/ Evaluate(x) \/ Answer(x) \/ EngineFails(x) \/ Conclude(x)
          \/ Orchestrate(x) /\ UNCHANGED pipelineVars
    BY DEF PipelineNext
  <2>2. CASE Evaluate(x)
    BY <2>2 DEF Evaluate, RuntimeNext
  <2>3. CASE Answer(x) \/ EngineFails(x)
    BY <2>3 DEF Answer, EngineFails
  <2>4. CASE Conclude(x)
    <3>1. at[x] = "rejected" => CanThrow("decision") \/ CanThrow("listener")
      BY DEF PipelineInv
    <3>2. Decide(x)
      BY <2>4, <3>1 DEF Conclude, Decide
    <3> QED
      BY <3>2 DEF RuntimeNext, Advance
  <2>5. CASE Orchestrate(x)
    BY <2>5 DEF RuntimeNext, Advance
  <2> QED
    BY <2>1, <2>2, <2>3, <2>4, <2>5
<1> QED
  BY <1>1, <1>2, PipelineAlways, PTL DEF PipelineSpec, ImplementsRuntime, RuntimeSpec

-----------------------------------------------------------------------------
(* The circuit breaker's fields are consistent, and it implements          *)
(* BreakerPolicy.                                                          *)

USE DEF BreakerStates

\* Each of the breaker's own steps keeps the fields consistent.
LEMMA BreakerSteps ==
    ASSUME TypeOK, [Next]_vars
    PROVE  TypeOK'
<1> USE BreakerAssumption
<1>1. ASSUME NEW c \in Callers, Attempt(c) PROVE TypeOK'
  BY <1>1 DEF TypeOK, Attempt, CanAttempt, TransitionToHalfOpen, breakerVars
<1>2. ASSUME NEW c \in Callers, CallSucceeds(c) PROVE TypeOK'
  BY <1>2 DEF TypeOK, CallSucceeds, CallEnds, RecordSuccess, CountTrialSuccess, TransitionToClosed, breakerVars
<1>3. ASSUME NEW c \in Callers, CallFails(c) PROVE TypeOK'
  BY <1>3 DEF TypeOK, CallFails, CallEnds, RecordFailure, TransitionToOpen
<1>4. CASE Reset
  BY <1>4 DEF TypeOK, Reset, TransitionToClosed
<1>5. CASE Tick
  BY <1>5 DEF TypeOK, Tick, breakerVars
<1>6. CASE GoUpOrDown
  BY <1>6 DEF TypeOK, GoUpOrDown, breakerVars
<1>7. CASE UNCHANGED vars
  BY <1>7 DEF TypeOK, vars
<1> QED
  BY <1>1, <1>2, <1>3, <1>4, <1>5, <1>6, <1>7 DEF Next

\* The fields of the class stay consistent whatever order results come in: a
\* closed breaker is below its threshold and an open one knows when it opened.
THEOREM BreakerIsConsistent == Spec => []TypeOK
<1>1. Init => TypeOK
  BY BreakerAssumption DEF Init, TypeOK
<1>2. TypeOK /\ [Next]_vars => TypeOK'
  BY BreakerSteps
<1> QED
  BY <1>1, <1>2, PTL DEF Spec

-----------------------------------------------------------------------------

\* What Policy reads for cooled.
Cooled == state = "open" /\ IsCooled

\* An admission is the policy's.
LEMMA AttemptIsAdmit ==
    ASSUME TypeOK, TypeOK', NEW c \in Callers, Attempt(c)
    PROVE  Policy!Admit(c)
<1> USE BreakerAssumption
<1>1. CASE state \in {"closed", "half_open"} /\ UNCHANGED breakerVars
  BY <1>1 DEF Attempt, breakerVars, Policy!Admit
<1>2. CASE state = "open" /\ IsCooled /\ TransitionToHalfOpen
  BY <1>2 DEF Attempt, TransitionToHalfOpen, Policy!Admit, Policy!Enter
<1> QED
  BY <1>1, <1>2 DEF Attempt, CanAttempt

\* A success is counted as the policy counts it, however late it comes.
LEMMA SucceedIsSuccessOf ==
    ASSUME TypeOK, TypeOK', NEW c \in Callers, CallSucceeds(c)
    PROVE  Policy!SuccessOf(c)
<1> USE BreakerAssumption
<1>1. CASE CountTrialSuccess
  <2>1. CASE successCount + 1 >= SuccessThreshold
    BY <1>1, <2>1 DEF CallSucceeds, CallEnds, CountTrialSuccess, TransitionToClosed, TypeOK,
                      Policy!SuccessOf, Policy!Enter
  <2>2. CASE ~(successCount + 1 >= SuccessThreshold)
    BY <1>1, <2>2 DEF CallSucceeds, CallEnds, CountTrialSuccess, TypeOK, Policy!SuccessOf
  <2> QED
    BY <2>1, <2>2
<1>2. CASE /\ state = "closed"
           /\ failureCount' = 0
           /\ successCount' = successCount + 1
           /\ UNCHANGED <<state, openedAt>>
  BY <1>2 DEF CallSucceeds, CallEnds, Policy!SuccessOf
<1>3. CASE state = "open" /\ UNCHANGED breakerVars
  BY <1>3 DEF CallSucceeds, CallEnds, breakerVars, IsCooled, Policy!SuccessOf
<1> QED
  BY <1>1, <1>2, <1>3 DEF CallSucceeds, CallEnds, RecordSuccess

\* A failure opens the breaker when the policy says so, and one that comes while
\* it is open does not renew the cool-down.
LEMMA FailIsFailureOf ==
    ASSUME TypeOK, TypeOK', NEW c \in Callers, CallFails(c)
    PROVE  Policy!FailureOf(c)
<1> USE BreakerAssumption
<1>1. CASE state = "half_open" \/ (state = "closed" /\ failureCount + 1 >= FailureThreshold)
  <2>1. TransitionToOpen /\ now' = now /\ c \in running /\ running' = running \ {c}
    BY <1>1 DEF CallFails, CallEnds, RecordFailure
  <2>2. ~Cooled'
    BY <2>1 DEF TypeOK, Cooled, IsCooled, TransitionToOpen
  <2> QED
    BY <1>1, <2>1, <2>2 DEF TransitionToOpen, Cooled, TypeOK, Policy!FailureOf, Policy!Enter
<1>2. CASE ~(state = "half_open" \/ (state = "closed" /\ failureCount + 1 >= FailureThreshold))
  <2>1. /\ failureCount' = failureCount + 1
        /\ UNCHANGED <<state, openedAt, now>>
        /\ c \in running
        /\ running' = running \ {c}
    BY <1>2 DEF CallFails, CallEnds, RecordFailure
  <2>2. Cooled' = Cooled
    BY <2>1 DEF Cooled, IsCooled
  <2> QED
    BY <1>2, <2>1, <2>2 DEF Cooled, TypeOK, Policy!FailureOf
<1> QED
  BY <1>1, <1>2

\* The clock does nothing to the breaker but cool it.
LEMMA TickIsCool ==
    ASSUME TypeOK, Tick
    PROVE  Policy!Cool \/ UNCHANGED Policy!policyVars
<1> USE BreakerAssumption
<1>1. UNCHANGED <<state, failureCount, successCount, openedAt, running>> /\ now' = now + 1
  BY DEF Tick, breakerVars
<1>2. CASE Cooled'
  BY <1>1, <1>2 DEF Cooled, Policy!Cool
<1>3. CASE ~Cooled'
  <2>1. ~Cooled
    BY <1>1, <1>3 DEF Cooled, IsCooled, TypeOK
  <2> QED
    BY <1>1, <1>3, <2>1 DEF Cooled, Policy!policyVars
<1> QED
  BY <1>2, <1>3

\* The class CircuitBreaker, with its counters and its clock, implements the
\* policy for any number of concurrent callers and late results.
THEOREM BreakerImplementsPolicy == Spec => ImplementsPolicy
<1> USE BreakerAssumption
<1>1. Init => Policy!PolicyInit
  BY DEF Init, Policy!PolicyInit
<1>2. TypeOK /\ TypeOK' /\ [Next]_vars => [Policy!PolicyNext]_(Policy!policyVars)
  <2> SUFFICES ASSUME TypeOK, TypeOK', [Next]_vars
               PROVE  Policy!PolicyNext \/ UNCHANGED Policy!policyVars
    OBVIOUS
  <2>1. ASSUME NEW c \in Callers, Attempt(c) PROVE Policy!PolicyNext
    BY <2>1, AttemptIsAdmit DEF Policy!PolicyNext
  <2>2. ASSUME NEW c \in Callers, CallSucceeds(c) PROVE Policy!PolicyNext
    BY <2>2, SucceedIsSuccessOf DEF Policy!PolicyNext
  <2>3. ASSUME NEW c \in Callers, CallFails(c) PROVE Policy!PolicyNext
    BY <2>3, FailIsFailureOf DEF Policy!PolicyNext
  <2>4. CASE Reset
    BY <2>4 DEF Reset, TransitionToClosed, Policy!PolicyNext, Policy!ResetByHand, Policy!Enter
  <2>5. CASE Tick
    BY <2>5, TickIsCool DEF Policy!PolicyNext
  <2>6. CASE GoUpOrDown
    BY <2>6 DEF GoUpOrDown, breakerVars, IsCooled, Policy!policyVars
  <2>7. CASE UNCHANGED vars
    BY <2>7 DEF vars, IsCooled, Policy!policyVars
  <2> QED
    BY <2>1, <2>2, <2>3, <2>4, <2>5, <2>6, <2>7 DEF Next
<1>3. Spec => []TypeOK
  BY BreakerIsConsistent
<1> QED
  BY <1>1, <1>2, <1>3, PTL DEF Spec, ImplementsPolicy, Policy!PolicySpec
=============================================================================
