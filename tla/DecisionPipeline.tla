-------------------------- MODULE DecisionPipeline --------------------------
(***************************************************************************)
(* PaymentDecisionPipeline.evaluate in its place in PaymentRuntime.execute: *)
(* five decision engines are asked one after the other, four of them       *)
(* between events, and the runtime goes by what they said.  An engine that *)
(* is not configured, or that the request has no input for, is not asked:  *)
(* the decision the request carries stands for its answer.                 *)
(***************************************************************************)
EXTENDS PaymentRuntime

Verdicts ==
    [identity   |-> {"verified", "unverified"},
     compliance |-> {"approved", "requires_kyc", "requires_kyb", "manual_review", "blocked"},
     risk       |-> {"approved", "step_up_required", "manual_review", "hold", "blocked"},
     policy     |-> {"approved", "approved_with_warnings", "manual_review", "blocked"},
     trust      |-> {"trusted", "limited", "review_required", "restricted"}]

Engines == DOMAIN Verdicts
AllVerdicts == UNION {Verdicts[e] : e \in Engines}

\* The engines that emitter.measure surrounds with events, in their order.
Position == [identity |-> 1, compliance |-> 2, risk |-> 3, policy |-> 4]
Measured == DOMAIN Position

CONSTANT Requests   \* the requests callers make: the engines asked about them
                    \* and the decisions they carry

ASSUME PipelineAssumption ==
    /\ None \notin AllVerdicts
    /\ \A r \in Requests :
         /\ r.asked \subseteq Engines
         /\ r.carried \in [Engines -> AllVerdicts \cup {None}]
         /\ \A e \in Engines : r.carried[e] \in Verdicts[e] \cup {None}

VARIABLES
    request,    \* the request of each execution
    at,         \* the engine that its pipeline awaits, or how the pipeline ended
    decision,   \* what counts as each engine's answer
    noted       \* the pipeline's events, as engine and status

pipelineVars == <<request, at, decision, noted>>

PipelineInit ==
    /\ RuntimeInit
    /\ request = [x \in Executions |-> None]
    /\ at = [x \in Executions |-> "idle"]
    /\ decision = [x \in Executions |-> None]
    /\ noted = [x \in Executions |-> {}]

-----------------------------------------------------------------------------
(* Mistakes: see TreasuryProgram. *)

\* A review that policy asks for is overlooked.
MistakeReviewOfTwo(d) ==
    "manual_review" \in {d.compliance, d.risk} \/ d.trust = "review_required"

\* measure swallows the error.
MistakeSwallow(x, notes) ==
    /\ at' = [at EXCEPT ![x] = "decided"]
    /\ noted' = [noted EXCEPT ![x] = @ \cup notes]

-----------------------------------------------------------------------------
(* The pipeline. *)

IsBlocked(d) == "blocked" \in {d.compliance, d.risk, d.policy}

NeedsReview(d) ==
    "manual_review" \in {d.compliance, d.risk, d.policy} \/ d.trust = "review_required"

\* identity has no say, and a status that is neither blocked nor a review, such as
\* requires_kyc, hold or restricted, lets the payment through.
DecisionStatus(d) ==
    CASE IsBlocked(d) -> "blocked"
      [] ~IsBlocked(d) /\ NeedsReview(d) -> "manual_review"
      [] OTHER -> "approved"

Note(e, status) == <<e, status>>

\* The await an engine's answer leads to.  trust is only awaited when it is asked.
Following(x, e) ==
    CASE e = "identity" -> "compliance"
      [] e = "compliance" -> "risk"
      [] e = "risk" -> "policy"
      [] e = "policy" -> IF "trust" \in request[x].asked THEN "trust" ELSE "decided"
      [] e = "trust" -> "decided"

\* evaluate rejects.
RejectStage(x, notes) ==
    /\ at' = [at EXCEPT ![x] = "rejected"]
    /\ noted' = [noted EXCEPT ![x] = @ \cup notes]

\* measure begins, or there is nothing to measure: a listener may throw on the
\* started event, which is outside the try block.
MoveOn(x, e, notes) ==
    LET started == IF e \in Measured THEN {Note(e, "started")} ELSE {}
    IN  \/ /\ at' = [at EXCEPT ![x] = e]
           /\ noted' = [noted EXCEPT ![x] = @ \cup notes \cup started]
        \/ e \in Measured /\ CanThrow("listener") /\ RejectStage(x, notes \cup started)

\* execute up to its first await: the pipeline has asked for the identity.
Evaluate(x) ==
    /\ Start(x)
    /\ \E r \in Requests :
         /\ request' = [request EXCEPT ![x] = r]
         /\ decision' = [decision EXCEPT ![x] = r.carried]
    /\ \/ stage'[x] = "deciding" /\ MoveOn(x, "identity", {})
       \/ stage'[x] = "done" /\ UNCHANGED <<at, noted>>

Answers(x, e) == IF e \in request[x].asked THEN Verdicts[e] ELSE {decision[x][e]}

\* An engine's answer arrives; the next one is asked.  A listener that throws on
\* the completed event is inside measure's try block.
Answer(x) ==
    LET e == at[x]
    IN  /\ e \in Engines
        /\ \E verdict \in Answers(x, e) :
             decision' = [decision EXCEPT ![x][e] = verdict]
        /\ LET completed == IF e \in Measured THEN {Note(e, "completed")} ELSE {}
           IN  \/ MoveOn(x, Following(x, e), completed)
               \/ /\ e \in Measured /\ CanThrow("listener")
                  /\ RejectStage(x, completed \cup {Note(e, "failed")})
        /\ UNCHANGED <<runtimeVars, request>>

\* An engine rejects.
EngineFails(x) ==
    LET e == at[x]
    IN  /\ e \in Engines /\ e \in request[x].asked /\ CanThrow("decision")
        /\ RejectStage(x, IF e \in Measured THEN {Note(e, "failed")} ELSE {})
        /\ UNCHANGED <<runtimeVars, request, decision>>

\* Mistake: a refusal is announced and the payment goes on.
MistakeFallThrough(x) ==
    /\ stage[x] = "deciding" /\ at[x] = "decided"
    /\ Goto(x, "resolving")
    /\ Publish(x, IF DecisionStatus(decision[x]) = "approved" THEN {} ELSE {"PaymentFailed"})
    /\ UNCHANGED <<transaction, transfer, outcome, pipelineVars>>

\* The runtime goes on when evaluate has settled.
Conclude(x) ==
    /\ stage[x] = "deciding"
    /\ \/ at[x] = "decided" /\ DecisionStatus(decision[x]) = "approved" /\ Approve(x)
       \/ at[x] = "decided" /\ DecisionStatus(decision[x]) # "approved" /\ Decline(x)
       \/ at[x] = "rejected" /\ Throw(x, {})
    /\ UNCHANGED <<transaction, transfer, pipelineVars>>

PipelineNext ==
    \E x \in Executions :
        \/ Evaluate(x) \/ Answer(x) \/ EngineFails(x) \/ Conclude(x)
        \/ Orchestrate(x) /\ UNCHANGED pipelineVars

PipelineSpec == PipelineInit /\ [][PipelineNext]_<<runtimeVars, pipelineVars>>

-----------------------------------------------------------------------------
(* Properties *)

\* The executions are in step with their pipelines, and an answer is one that its
\* engine can give.
PipelineTypeOK ==
    /\ RuntimeTypeOK
    /\ request \in [Executions -> Requests \cup {None}]
    /\ at \in [Executions -> Engines \cup {"idle", "decided", "rejected"}]
    /\ decision \in [Executions -> [Engines -> AllVerdicts \cup {None}] \cup {None}]
    /\ noted \in [Executions -> SUBSET (Measured \X {"started", "completed", "failed"})]
    /\ \A x \in Executions :
         /\ at[x] \in Engines => stage[x] = "deciding"
         /\ at[x] # "idle" =>
              /\ request[x] \in Requests
              /\ decision[x] \in [Engines -> AllVerdicts \cup {None}]
         /\ stage[x] \notin {"idle", "deciding", "done"} => at[x] = "decided"

\* The pipeline in the runtime's place does what PaymentRuntime says of its
\* decision, so what is proved of the runtime holds with any engines.
ImplementsRuntime == RuntimeSpec

\* No money moves against the word of an engine that blocks or asks for review,
\* nor of a decision that the request carried in its place.
NoTransferAgainstAVerdict ==
    \A x \in Executions :
        transfer[x] # "unsent" =>
            /\ \A e \in {"compliance", "risk", "policy"} :
                 decision[x][e] \notin {"blocked", "manual_review"}
            /\ decision[x].trust # "review_required"

\* Who reads the events of an execution reads its decision: an engine is started
\* when the one before it has completed and not failed, one that is awaited has no
\* end yet, one whose answer counted has one, and an execution that was declined or
\* moved money has all of them.
StagesAreAccounted ==
    \A x \in Executions :
        LET saw(e, status) == Note(e, status) \in noted[x]
            passed(e) == saw(e, "completed") /\ ~saw(e, "failed")
        IN  /\ \A e, f \in Measured :
                 Position[e] < Position[f] /\ saw(f, "started") => passed(e)
            /\ \A e \in Measured :
                 /\ saw(e, "completed") \/ saw(e, "failed") => saw(e, "started")
                 /\ at[x] = e => saw(e, "started") /\ ~saw(e, "completed") /\ ~saw(e, "failed")
            /\ outcome[x] = "declined" \/ transfer[x] # "unsent" =>
                 \A e \in Measured : passed(e)
=============================================================================
