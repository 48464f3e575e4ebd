--------------------------- MODULE RailExecution ---------------------------
(***************************************************************************)
(* One payment through RuntimeExecutionFacade and the canonical Solana     *)
(* adapter.  Both keep no state: what they answer is kept by a caller that *)
(* persists it, may lose its worker at any await, and follows the          *)
(* recommendations it is given.                                            *)
(***************************************************************************)
EXTENDS Naturals

CONSTANTS
    MaxPreparations,    \* bound: how often the caller prepares the payment
    MaxAttempts,        \* DEFAULT_RETRY_POLICY.maxAttempts
    None

\* Each preparation signs a transaction of its own, known by its signature.
Signatures == 1..MaxPreparations

Actions == {"retry_pre_submission", "reconcile", "wait_and_reconcile",
            "manual_review", "terminate"}
References == {"signature", "runtime"}

ASSUME RailAssumption ==
    /\ MaxPreparations \in Nat \ {0}
    /\ MaxAttempts \in Nat \ {0}
    /\ None \notin Actions \cup References

VARIABLES
    phase,      \* the caller's durable record of the execution
    attempt,    \* how often it was prepared; the current signature
    reference,  \* the reconciliation reference it holds, by what it names
    recovery,   \* the last recommendation
    receipt,    \* a receipt was created
    waiting,    \* a worker awaits submitExecution
    contact,    \* how far the adapter's call went, per signature
    chain       \* what the cluster made of each signature

callerVars == <<phase, attempt, reference, recovery, receipt>>
vars == <<phase, attempt, reference, recovery, receipt, waiting, contact, chain>>

Phases == {"requested", "prepared", "submitting", "open", "rejected",
           "settled", "failed"}
ContactStates == {"none", "called", "made", "ended"}
ChainStates == {"absent", "inflight", "settled", "failed", "expired"}

Init ==
    /\ phase = "requested"
    /\ attempt = 0
    /\ reference = None
    /\ recovery = None
    /\ receipt = FALSE
    /\ waiting = FALSE
    /\ contact = [s \in Signatures |-> "none"]
    /\ chain = [s \in Signatures |-> "absent"]

-----------------------------------------------------------------------------
(* Mistakes: see TreasuryProgram. *)

\* An error that says nothing about contact is taken for one before contact.
MistakeOptimistic(error) == IF error = "plain" THEN "not_started" ELSE error

\* A signature the node does not know is taken for a transaction that failed.
MistakeMissingIsFailed(status) == IF status = "missing" THEN "failed" ELSE status

\* An ambiguous submission is retried like any other retryable failure.
MistakeImpossible(certainty) == "impossible"

-----------------------------------------------------------------------------
(* Failures and recommendations. *)

\* Only a failure that cannot have had an effect stays retryable.
CreateExecutionFailure(code, where, sideEffect, retryable) ==
    [code |-> code, phase |-> where, sideEffect |-> sideEffect,
     retryable |-> retryable /\ sideEffect = "impossible"]

\* evaluateRetry, asked about the first attempt by everyone who asks.
ShouldRetry(failure) == failure.retryable /\ 1 < MaxAttempts

IsDeterministic(failure) ==
    \/ failure.phase \in {"runtime_validation", "runtime_decision"}
    \/ failure.code \in {"CONFIGURATION_ERROR", "PROVIDER_REJECTED_PRE_SUBMISSION"}

RecommendRecovery(failure) ==
    CASE failure.sideEffect # "impossible" ->
           IF failure.phase \in {"settlement", "reconciliation"}
             THEN "wait_and_reconcile" ELSE "reconcile"
      [] failure.sideEffect = "impossible" /\ IsDeterministic(failure) -> "terminate"
      [] failure.sideEffect = "impossible" /\ ~IsDeterministic(failure) ->
           IF ShouldRetry(failure) THEN "retry_pre_submission"
           ELSE IF failure.retryable THEN "manual_review" ELSE "terminate"

-----------------------------------------------------------------------------
(* Submission outcomes. *)

Outcome(outcome, ref, failure) ==
    [outcome |-> outcome, reference |-> ref, failure |-> failure]

\* Errors carry a certainty about contact, or none.
Certainty(error) == IF error = "plain" THEN "may_have_occurred" ELSE error

SideEffectOf(certainty) ==
    IF certainty = "may_have_occurred" THEN "may_have_occurred" ELSE "impossible"

NormalizeSubmissionException(certainty, ref) ==
    IF certainty = "may_have_occurred"
      THEN Outcome("unknown", ref,
             CreateExecutionFailure("SUBMISSION_AMBIGUOUS", "submission",
                                    SideEffectOf(certainty), TRUE))
      ELSE Outcome("rejected", None,
             CreateExecutionFailure("ADAPTER_FAILED", "pre_submission",
                                    SideEffectOf(certainty), TRUE))

\* Mistake: the adapter leaves the reference of an error to the facade.
MistakeNoReference(answer) ==
    IF answer \in {"accepted", "settled"}
      THEN Outcome(answer, "signature", None)
      ELSE NormalizeSubmissionException(Certainty(answer), "runtime")

\* The adapter's submit, by what its transport answered or threw.
Submission(answer) ==
    IF answer \in {"accepted", "settled"}
      THEN Outcome(answer, "signature", None)
      ELSE NormalizeSubmissionException(Certainty(answer), "signature")

\* The observation or the recommendation that an outcome leads to.
AfterSubmission(outcome) ==
    CASE outcome \in {"accepted", "unknown"} -> "open"
      [] outcome = "settled" -> "settled"
      [] outcome = "rejected" -> "rejected"

SubmissionResult(result) ==
    /\ phase' = AfterSubmission(result.outcome)
    /\ reference' = result.reference
    /\ recovery' = IF result.outcome \in {"rejected", "unknown"}
                     THEN RecommendRecovery(result.failure) ELSE None

-----------------------------------------------------------------------------
(* The facade's operations. *)

\* Preparation signs and does not submit; it may be repeated before submission.
PrepareExecution ==
    /\ phase \in {"requested", "prepared"}
    /\ attempt < MaxPreparations
    /\ attempt' = attempt + 1
    /\ phase' = "prepared"
    /\ UNCHANGED <<reference, recovery, receipt, waiting, contact, chain>>

SubmitExecution ==
    /\ phase = "prepared"
    /\ phase' = "submitting"
    /\ waiting' = TRUE
    /\ contact' = [contact EXCEPT ![attempt] = "called"]
    /\ UNCHANGED <<attempt, reference, recovery, receipt, chain>>

\* What the transport can say; it is trusted about what it claims to know.
TransportAnswers ==
    {answer \in {"accepted", "settled", "not_started", "may_have_occurred", "plain"} :
        /\ answer = "accepted" => chain[attempt] # "absent"
        /\ answer = "settled" => chain[attempt] = "settled"
        /\ answer = "not_started" => contact[attempt] = "called"}

\* The adapter catches what its transport throws; what the adapter throws
\* before that, the facade catches, and knows no signature.
SubmissionAnswered ==
    /\ waiting
    /\ waiting' = FALSE
    /\ \/ \E answer \in TransportAnswers :
            /\ SubmissionResult(Submission(answer))
            /\ contact' = IF answer = "not_started"
                            THEN [contact EXCEPT ![attempt] = "ended"] ELSE contact
       \/ /\ contact[attempt] = "called"
          /\ SubmissionResult(NormalizeSubmissionException(Certainty("plain"), "runtime"))
          /\ contact' = [contact EXCEPT ![attempt] = "ended"]
    /\ UNCHANGED <<attempt, receipt, chain>>

\* A missing signature stays pending; only an error of the chain is a failure.
ReconciledAs(status) == IF status = "missing" THEN "pending" ELSE status

\* A node lags behind the cluster.
Observable(status) == {"missing", "pending"} \cup ({status} \cap {"settled", "failed"})

ReconciliationResult(outcome) ==
    /\ phase' = IF outcome \in {"settled", "failed"} THEN outcome ELSE phase
    /\ recovery' =
         CASE outcome = "failed" ->
                RecommendRecovery(CreateExecutionFailure(
                    "SETTLEMENT_FAILED", "reconciliation", "occurred", FALSE))
           [] outcome = "unknown" ->
                RecommendRecovery(CreateExecutionFailure(
                    "RECONCILIATION_FAILED", "reconciliation", "may_have_occurred", FALSE))
           [] outcome \in {"settled", "pending"} -> None

\* The signature is read off the reference, which fails for any other kind.
\* A failed verdict comes with the recommendation to reconcile again.
ReconcileExecution ==
    /\ phase \in {"open", "failed"}
    /\ \/ /\ reference = "signature"
          /\ \E status \in Observable(chain[attempt]) :
                ReconciliationResult(ReconciledAs(status))
       \/ ReconciliationResult("unknown")
    /\ UNCHANGED <<attempt, reference, receipt, waiting, contact, chain>>

IsSettled(observation) == observation = "settled"

CreateReceipt ==
    /\ IsSettled(phase)
    /\ ~receipt
    /\ receipt' = TRUE
    /\ UNCHANGED <<phase, attempt, reference, recovery, waiting, contact, chain>>

-----------------------------------------------------------------------------
(* External: the caller.  It persists before it submits, and reconciles a    *)
(* submission whose worker it lost by the signature it persisted.            *)

LoseWorker ==
    /\ waiting
    /\ waiting' = FALSE
    /\ UNCHANGED <<callerVars, contact, chain>>

Resume ==
    /\ phase = "submitting"
    /\ ~waiting
    /\ phase' = "open"
    /\ reference' = "signature"
    /\ UNCHANGED <<attempt, recovery, receipt, waiting, contact, chain>>

FollowRetry ==
    /\ phase \in {"open", "rejected"}
    /\ recovery = "retry_pre_submission"
    /\ phase' = "requested"
    /\ reference' = None
    /\ recovery' = None
    /\ UNCHANGED <<attempt, receipt, waiting, contact, chain>>

(* External: the cluster, which a call may reach after its worker is gone. *)

Contact(s) ==
    /\ contact[s] = "called"
    /\ contact' = [contact EXCEPT ![s] = "made"]
    /\ \E received \in {"absent", "inflight"} : chain' = [chain EXCEPT ![s] = received]
    /\ UNCHANGED <<callerVars, waiting>>

Finalize(s) ==
    /\ chain[s] = "inflight"
    /\ \E fate \in {"settled", "failed", "expired"} : chain' = [chain EXCEPT ![s] = fate]
    /\ UNCHANGED <<callerVars, waiting, contact>>

Next ==
    \/ PrepareExecution \/ SubmitExecution \/ SubmissionAnswered
    \/ ReconcileExecution \/ CreateReceipt
    \/ LoseWorker \/ Resume \/ FollowRetry
    \/ \E s \in Signatures : Contact(s) \/ Finalize(s)

\* A worker's await ends; the caller takes up what a lost worker left; a node
\* that is asked again and again tells one day what the cluster decided.
Fairness ==
    /\ WF_vars(SubmissionAnswered \/ LoseWorker)
    /\ WF_vars(Resume)
    /\ WF_vars(ReconcileExecution /\ phase' # phase)

Spec == Init /\ [][Next]_vars

FairSpec == Spec /\ Fairness

-----------------------------------------------------------------------------
(* Properties *)

\* Types, and the record the caller holds: a submission that is open has a
\* reference to be reconciled by, and only that.
TypeOK ==
    /\ phase \in Phases
    /\ attempt \in 0..MaxPreparations
    /\ reference \in References \cup {None}
    /\ recovery \in Actions \cup {None}
    /\ receipt \in BOOLEAN
    /\ waiting \in BOOLEAN
    /\ contact \in [Signatures -> ContactStates]
    /\ chain \in [Signatures -> ChainStates]
    /\ waiting => phase = "submitting"
    /\ phase # "requested" => attempt > 0
    /\ phase \in {"open", "settled", "failed"} <=> reference # None

\* Of all the transactions signed for a payment at most one is ever offered to
\* the cluster, whatever was lost, answered late or recommended.
OneTransactionIsOffered ==
    \A s, t \in Signatures :
        contact[s] \in {"called", "made"} /\ contact[t] \in {"called", "made"} => s = t

\* Verdicts agree with the cluster, and for good: a rejected payment was offered
\* by nobody and will not be, a settled one has a settled transaction, a failed
\* one cannot settle any more, and a receipt exists for a settled one only.
VerdictsAreTrue ==
    /\ phase \in {"requested", "prepared", "rejected"} =>
         \A s \in Signatures : chain[s] = "absent" /\ contact[s] \in {"none", "ended"}
    /\ phase \in {"settled", "failed"} => chain[attempt] = phase
    /\ receipt => phase = "settled"

\* The payment as its caller sees it.
Payment == INSTANCE SinglePayment WITH
    Transactions <- Signatures,
    transfers <- {s \in Signatures : chain[s] = "settled"},
    verdict <- CASE phase = "settled" -> "paid"
                 [] phase = "failed" -> "unpaid"
                 [] OTHER -> "open"

\* Facade and adapter keep the promise of SinglePayment.
ImplementsSinglePayment == Payment!PaymentSpec

\* What the cluster decides about a payment the caller learns, across lost
\* workers, lost answers and errors.
DecisionIsLearnt ==
    \A s \in Signatures :
        chain[s] \in {"settled", "failed"} ~> phase \in {"settled", "failed"}
=============================================================================
