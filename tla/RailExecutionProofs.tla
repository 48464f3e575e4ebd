------------------------ MODULE RailExecutionProofs ------------------------
(* Theorems about one payment over the canonical rail, for any number of    *)
(* preparations.  The inductive invariant adds to the checked properties    *)
(* that nothing but the current signature was ever offered, that a cluster  *)
(* only knows what it was contacted with, and that a retry is recommended   *)
(* to a rejected payment only.                                              *)
EXTENDS RailExecution, TLAPS

Unoffered(s) == contact[s] \in {"none", "ended"} /\ chain[s] = "absent"

OnlyCurrentIsOffered == \A s \in Signatures \ {attempt} : Unoffered(s)

ContactComesFirst == \A s \in Signatures : chain[s] # "absent" => contact[s] = "made"

RetryAfterRejectionOnly == recovery = "retry_pre_submission" => phase = "rejected"

RailInv ==
    /\ TypeOK
    /\ VerdictsAreTrue
    /\ OnlyCurrentIsOffered
    /\ ContactComesFirst
    /\ RetryAfterRejectionOnly

LEMMA NoneIsNoString == None \notin References /\ None \notin Actions
BY RailAssumption

LEMMA InitRailInv == Init => RailInv
<1> SUFFICES ASSUME Init PROVE RailInv
  OBVIOUS
<1>1. TypeOK
  <2>1. contact \in [Signatures -> ContactStates] /\ chain \in [Signatures -> ChainStates]
    BY DEF Init, ContactStates, ChainStates
  <2>2. phase \in Phases /\ attempt \in 0..MaxPreparations
    BY RailAssumption DEF Init, Phases
  <2>3. QED
    BY <2>1, <2>2 DEF Init, TypeOK
<1>2. RetryAfterRejectionOnly
  BY NoneIsNoString DEF Init, RetryAfterRejectionOnly, Actions
<1>3. VerdictsAreTrue /\ OnlyCurrentIsOffered /\ ContactComesFirst
  BY DEF Init, VerdictsAreTrue, OnlyCurrentIsOffered, ContactComesFirst, Unoffered
<1>4. QED
  BY <1>1, <1>2, <1>3 DEF RailInv

-----------------------------------------------------------------------------
(* What the facade answers. *)

\* A retry is recommended only for a failure that cannot have had an effect.
LEMMA RecoveryOfAmbiguity ==
    ASSUME NEW failure, failure.sideEffect # "impossible"
    PROVE  RecommendRecovery(failure) \in {"reconcile", "wait_and_reconcile"}
<1>1. RecommendRecovery(failure) =
        IF failure.phase \in {"settlement", "reconciliation"}
          THEN "wait_and_reconcile" ELSE "reconcile"
  BY DEF RecommendRecovery
<1>2. QED
  BY <1>1

LEMMA RecoveryIsAnAction ==
    ASSUME NEW failure PROVE RecommendRecovery(failure) \in Actions
<1>1. CASE failure.sideEffect # "impossible"
  BY <1>1, RecoveryOfAmbiguity DEF Actions
<1>2. CASE failure.sideEffect = "impossible" /\ IsDeterministic(failure)
  <2>1. RecommendRecovery(failure) = "terminate"
    BY <1>2 DEF RecommendRecovery
  <2>2. QED
    BY <2>1 DEF Actions
<1>3. CASE failure.sideEffect = "impossible" /\ ~IsDeterministic(failure)
  <2>1. RecommendRecovery(failure) =
          IF ShouldRetry(failure) THEN "retry_pre_submission"
          ELSE IF failure.retryable THEN "manual_review" ELSE "terminate"
    BY <1>3 DEF RecommendRecovery
  <2>2. QED
    BY <2>1 DEF Actions
<1>4. QED
  BY <1>1, <1>2, <1>3

\* What normalisation makes of an error that may have come after contact.
LEMMA AmbiguousOutcome ==
    ASSUME NEW ref
    PROVE  LET result == NormalizeSubmissionException("may_have_occurred", ref)
           IN  /\ result.outcome = "unknown"
               /\ result.reference = ref
               /\ RecommendRecovery(result.failure) \in {"reconcile", "wait_and_reconcile"}
<1> DEFINE result == NormalizeSubmissionException("may_have_occurred", ref)
<1>1. /\ result.outcome = "unknown"
      /\ result.reference = ref
      /\ result.failure.sideEffect = "may_have_occurred"
  BY DEF NormalizeSubmissionException, Outcome, CreateExecutionFailure, SideEffectOf
<1>2. RecommendRecovery(result.failure) \in {"reconcile", "wait_and_reconcile"}
  BY <1>1, RecoveryOfAmbiguity
<1>3. QED
  BY <1>1, <1>2

\* The ways in which a submission can be recorded.
Recorded(where, ref, advice) == phase' = where /\ reference' = ref /\ recovery' = advice

LEMMA SubmissionRecorded ==
    ASSUME NEW answer \in {"accepted", "settled", "not_started", "may_have_occurred", "plain"},
           SubmissionResult(Submission(answer))
    PROVE  \/ answer = "accepted" /\ Recorded("open", "signature", None)
           \/ answer = "settled" /\ Recorded("settled", "signature", None)
           \/ /\ answer = "not_started"
              /\ \E advice \in Actions : Recorded("rejected", None, advice)
           \/ \E advice \in {"reconcile", "wait_and_reconcile"} :
                Recorded("open", "signature", advice)
<1>1. CASE answer \in {"accepted", "settled"}
  BY <1>1 DEF SubmissionResult, Submission, Outcome, AfterSubmission, Recorded
<1>2. CASE answer = "not_started"
  <2>1. /\ Submission(answer).outcome = "rejected"
        /\ Submission(answer).reference = None
    BY <1>2 DEF Submission, Certainty, NormalizeSubmissionException, Outcome
  <2>2. Recorded("rejected", None, RecommendRecovery(Submission(answer).failure))
    BY <2>1 DEF SubmissionResult, AfterSubmission, Recorded
  <2>3. QED
    BY <1>2, <2>2, RecoveryIsAnAction
<1>3. CASE answer \in {"may_have_occurred", "plain"}
  <2>1. Submission(answer) = NormalizeSubmissionException("may_have_occurred", "signature")
    BY <1>3 DEF Submission, Certainty
  <2>2. /\ Submission(answer).outcome = "unknown"
        /\ Submission(answer).reference = "signature"
        /\ RecommendRecovery(Submission(answer).failure) \in {"reconcile", "wait_and_reconcile"}
    BY <2>1, AmbiguousOutcome
  <2>3. Recorded("open", "signature", RecommendRecovery(Submission(answer).failure))
    BY <2>2 DEF SubmissionResult, AfterSubmission, Recorded
  <2>4. QED
    BY <2>2, <2>3
<1>4. QED
  BY <1>1, <1>2, <1>3

LEMMA RefusalRecorded ==
    ASSUME SubmissionResult(NormalizeSubmissionException(Certainty("plain"), "runtime"))
    PROVE  \E advice \in {"reconcile", "wait_and_reconcile"} :
             Recorded("open", "runtime", advice)
<1> DEFINE result == NormalizeSubmissionException(Certainty("plain"), "runtime")
<1>1. result = NormalizeSubmissionException("may_have_occurred", "runtime")
  BY DEF Certainty
<1>2. /\ result.outcome = "unknown"
      /\ result.reference = "runtime"
      /\ RecommendRecovery(result.failure) \in {"reconcile", "wait_and_reconcile"}
  BY <1>1, AmbiguousOutcome
<1>3. Recorded("open", "runtime", RecommendRecovery(result.failure))
  BY <1>2 DEF SubmissionResult, AfterSubmission, Recorded
<1>4. QED
  BY <1>2, <1>3

LEMMA ReconciliationRecorded ==
    ASSUME NEW outcome \in {"settled", "failed", "pending", "unknown"},
           ReconciliationResult(outcome)
    PROVE  /\ phase' = IF outcome \in {"settled", "failed"} THEN outcome ELSE phase
           /\ recovery' \in {None, "reconcile", "wait_and_reconcile"}
<1> DEFINE failed == CreateExecutionFailure("SETTLEMENT_FAILED", "reconciliation",
                                            "occurred", FALSE)
           unknown == CreateExecutionFailure("RECONCILIATION_FAILED", "reconciliation",
                                             "may_have_occurred", FALSE)
<1>1. failed.sideEffect # "impossible" /\ unknown.sideEffect # "impossible"
  BY DEF CreateExecutionFailure
<1>2. /\ RecommendRecovery(failed) \in {"reconcile", "wait_and_reconcile"}
      /\ RecommendRecovery(unknown) \in {"reconcile", "wait_and_reconcile"}
  BY <1>1, RecoveryOfAmbiguity
<1>3. recovery' = CASE outcome = "failed" -> RecommendRecovery(failed)
                    [] outcome = "unknown" -> RecommendRecovery(unknown)
                    [] outcome \in {"settled", "pending"} -> None
  BY DEF ReconciliationResult
<1> HIDE DEF failed, unknown
<1>4. recovery' \in {None, "reconcile", "wait_and_reconcile"}
  BY <1>2, <1>3
<1>5. QED
  BY <1>4 DEF ReconciliationResult

-----------------------------------------------------------------------------
(* The invariant is inductive. *)

LEMMA CurrentSignature ==
    ASSUME TypeOK, attempt > 0 PROVE attempt \in Signatures
BY RailAssumption DEF TypeOK, Signatures

LEMMA PrepareKeepsInv ==
    ASSUME RailInv, PrepareExecution PROVE RailInv'
<1>1. TypeOK /\ \A s \in Signatures : Unoffered(s)
  BY DEF RailInv, VerdictsAreTrue, PrepareExecution, Unoffered
<1>2. TypeOK'
  BY <1>1, RailAssumption DEF TypeOK, PrepareExecution, Phases
<1>3. OnlyCurrentIsOffered'
  BY <1>1 DEF OnlyCurrentIsOffered, Unoffered, PrepareExecution
<1>4. VerdictsAreTrue'
  BY <1>1 DEF RailInv, VerdictsAreTrue, Unoffered, PrepareExecution
<1>5. ContactComesFirst' /\ RetryAfterRejectionOnly'
  BY <1>1 DEF RailInv, ContactComesFirst, RetryAfterRejectionOnly, Unoffered, PrepareExecution
<1>6. QED
  BY <1>2, <1>3, <1>4, <1>5 DEF RailInv

LEMMA SubmitKeepsInv ==
    ASSUME RailInv, SubmitExecution PROVE RailInv'
<1>1. /\ TypeOK
      /\ attempt \in Signatures
      /\ \A s \in Signatures : Unoffered(s)
  BY CurrentSignature DEF RailInv, VerdictsAreTrue, SubmitExecution, Unoffered, TypeOK
<1>2. TypeOK'
  BY <1>1 DEF TypeOK, SubmitExecution, Phases, ContactStates
<1>3. OnlyCurrentIsOffered'
  BY <1>1 DEF TypeOK, OnlyCurrentIsOffered, Unoffered, SubmitExecution
<1>4. VerdictsAreTrue'
  BY <1>1 DEF RailInv, VerdictsAreTrue, SubmitExecution
<1>5. ContactComesFirst'
  BY <1>1 DEF ContactComesFirst, Unoffered, SubmitExecution
<1>6. RetryAfterRejectionOnly'
  BY DEF RailInv, RetryAfterRejectionOnly, SubmitExecution
<1>7. QED
  BY <1>2, <1>3, <1>4, <1>5, <1>6 DEF RailInv

\* A call that ends before contact has not been offered and will not be.
LEMMA EndedCallIsUnoffered ==
    ASSUME RailInv, attempt \in Signatures, contact[attempt] = "called",
           contact' = [contact EXCEPT ![attempt] = "ended"], UNCHANGED <<attempt, chain>>
    PROVE  \A s \in Signatures : Unoffered(s)'
BY DEF RailInv, TypeOK, OnlyCurrentIsOffered, ContactComesFirst, Unoffered

LEMMA AnswerKeepsInv ==
    ASSUME RailInv, SubmissionAnswered PROVE RailInv'
<1>1. /\ TypeOK
      /\ phase = "submitting"
      /\ attempt \in Signatures
      /\ ~receipt
  BY CurrentSignature DEF RailInv, SubmissionAnswered, TypeOK, VerdictsAreTrue
<1>2. /\ OnlyCurrentIsOffered
      /\ ContactComesFirst
      /\ UNCHANGED <<attempt, receipt, chain>>
      /\ waiting' = FALSE
  BY DEF RailInv, SubmissionAnswered
<1>3. \/ contact' = contact
      \/ /\ contact[attempt] = "called"
         /\ contact' = [contact EXCEPT ![attempt] = "ended"]
  BY DEF SubmissionAnswered, TransportAnswers
<1>4. OnlyCurrentIsOffered' /\ ContactComesFirst'
  <2>1. CASE contact' = contact
    BY <1>2, <2>1 DEF OnlyCurrentIsOffered, ContactComesFirst, Unoffered
  <2>2. CASE /\ contact[attempt] = "called"
             /\ contact' = [contact EXCEPT ![attempt] = "ended"]
    <3>1. \A s \in Signatures : Unoffered(s)'
      BY <1>1, <1>2, <2>2, EndedCallIsUnoffered
    <3>2. QED
      BY <3>1 DEF OnlyCurrentIsOffered, ContactComesFirst, Unoffered
  <2>3. QED
    BY <1>3, <2>1, <2>2
<1>5. contact' \in [Signatures -> ContactStates]
  BY <1>1, <1>3 DEF TypeOK, ContactStates
<1> DEFINE Recording ==
        \/ \E ref \in References, advice \in {None, "reconcile", "wait_and_reconcile"} :
             Recorded("open", ref, advice)
        \/ chain[attempt] = "settled" /\ Recorded("settled", "signature", None)
        \/ /\ \A s \in Signatures : Unoffered(s)'
           /\ \E advice \in Actions : Recorded("rejected", None, advice)
<1>6. Recording
  <2>1. ASSUME NEW answer \in TransportAnswers,
               SubmissionResult(Submission(answer)),
               contact' = IF answer = "not_started"
                            THEN [contact EXCEPT ![attempt] = "ended"] ELSE contact
        PROVE  Recording
    <3>1. /\ answer \in {"accepted", "settled", "not_started", "may_have_occurred", "plain"}
          /\ answer = "settled" => chain[attempt] = "settled"
          /\ answer = "not_started" => contact[attempt] = "called"
      BY DEF TransportAnswers
    <3>2. CASE answer = "not_started" /\ \E advice \in Actions : Recorded("rejected", None, advice)
      BY <1>1, <1>2, <2>1, <3>1, <3>2, EndedCallIsUnoffered
    <3>3. CASE answer = "settled" /\ Recorded("settled", "signature", None)
      BY <3>1, <3>3
    <3>4. CASE \/ answer = "accepted" /\ Recorded("open", "signature", None)
               \/ \E advice \in {"reconcile", "wait_and_reconcile"} :
                    Recorded("open", "signature", advice)
      BY <3>4 DEF References
    <3>5. QED
      BY <2>1, <3>1, <3>2, <3>3, <3>4, SubmissionRecorded
  <2>2. CASE SubmissionResult(NormalizeSubmissionException(Certainty("plain"), "runtime"))
    BY <2>2, RefusalRecorded DEF References
  <2>3. QED
    BY <2>1, <2>2 DEF SubmissionAnswered
<1>7. /\ phase' \in {"open", "settled", "rejected"}
      /\ phase' \in {"open", "settled"} <=> reference' # None
      /\ reference' \in References \cup {None}
      /\ recovery' \in Actions \cup {None}
      /\ recovery' = "retry_pre_submission" => phase' = "rejected"
  BY <1>6, NoneIsNoString DEF Recorded, References, Actions
<1>8. TypeOK'
  BY <1>1, <1>2, <1>5, <1>7 DEF TypeOK, Phases
<1>9. VerdictsAreTrue'
  BY <1>1, <1>2, <1>6 DEF VerdictsAreTrue, Recorded, Unoffered
<1>10. QED
  BY <1>4, <1>7, <1>8, <1>9 DEF RailInv, RetryAfterRejectionOnly

\* A conclusion is drawn from what the chain shows of the current signature.
LEMMA ReconcileCases ==
    ASSUME ReconcileExecution
    PROVE  /\ phase \in {"open", "failed"}
           /\ UNCHANGED <<attempt, reference, receipt, waiting, contact, chain>>
           /\ recovery' \in {None, "reconcile", "wait_and_reconcile"}
           /\ phase' = phase \/ (phase' \in {"settled", "failed"} /\ phase' = chain[attempt])
<1>1. CASE ReconciliationResult("unknown")
  BY <1>1, ReconciliationRecorded DEF ReconcileExecution
<1>2. ASSUME NEW status \in Observable(chain[attempt]),
             ReconciliationResult(ReconciledAs(status))
      PROVE  /\ recovery' \in {None, "reconcile", "wait_and_reconcile"}
             /\ phase' = phase \/ (phase' \in {"settled", "failed"} /\ phase' = chain[attempt])
  <2>1. /\ ReconciledAs(status) \in {"settled", "failed", "pending", "unknown"}
        /\ ReconciledAs(status) \in {"settled", "failed"} => ReconciledAs(status) = chain[attempt]
    BY DEF Observable, ReconciledAs
  <2>2. QED
    BY <1>2, <2>1, ReconciliationRecorded
<1>3. QED
  BY <1>1, <1>2 DEF ReconcileExecution

LEMMA ReconcileKeepsInv ==
    ASSUME RailInv, ReconcileExecution PROVE RailInv'
<1>1. /\ TypeOK
      /\ phase \in {"open", "failed"}
      /\ UNCHANGED <<attempt, reference, receipt, waiting, contact, chain>>
      /\ recovery' \in {None, "reconcile", "wait_and_reconcile"}
      /\ phase' = phase \/ (phase' \in {"settled", "failed"} /\ phase' = chain[attempt])
  BY ReconcileCases DEF RailInv
<1>2. phase' \in {"open", "settled", "failed"}
  BY <1>1
<1>3. TypeOK'
  <2>1. reference' # None /\ attempt' > 0 /\ ~waiting'
    BY <1>1 DEF TypeOK
  <2>2. QED
    BY <1>1, <1>2, <2>1 DEF TypeOK, Phases, Actions
<1>4. VerdictsAreTrue'
  BY <1>1, <1>2 DEF RailInv, VerdictsAreTrue
<1>5. OnlyCurrentIsOffered' /\ ContactComesFirst'
  BY <1>1 DEF RailInv, OnlyCurrentIsOffered, ContactComesFirst, Unoffered
<1>6. RetryAfterRejectionOnly'
  BY <1>1, NoneIsNoString DEF RetryAfterRejectionOnly, Actions
<1>7. QED
  BY <1>3, <1>4, <1>5, <1>6 DEF RailInv

LEMMA CallerKeepsInv ==
    ASSUME RailInv, CreateReceipt \/ LoseWorker \/ Resume \/ FollowRetry PROVE RailInv'
<1>1. TypeOK /\ UNCHANGED <<attempt, contact, chain>>
  BY DEF RailInv, CreateReceipt, LoseWorker, Resume, FollowRetry, callerVars
<1>2. OnlyCurrentIsOffered' /\ ContactComesFirst'
  BY <1>1 DEF RailInv, OnlyCurrentIsOffered, ContactComesFirst, Unoffered
<1>3. CASE CreateReceipt
  <2>1. phase = "settled"
    BY <1>3 DEF CreateReceipt, IsSettled
  <2>2. TypeOK'
    BY <1>1, <1>3 DEF TypeOK, CreateReceipt
  <2>3. VerdictsAreTrue' /\ RetryAfterRejectionOnly'
    BY <1>3, <2>1 DEF RailInv, VerdictsAreTrue, RetryAfterRejectionOnly, CreateReceipt
  <2>4. QED
    BY <1>2, <2>2, <2>3 DEF RailInv
<1>4. CASE LoseWorker
  <2>1. TypeOK'
    BY <1>1, <1>4 DEF TypeOK, LoseWorker, callerVars
  <2>2. VerdictsAreTrue' /\ RetryAfterRejectionOnly'
    BY <1>4 DEF RailInv, VerdictsAreTrue, RetryAfterRejectionOnly, LoseWorker, callerVars
  <2>3. QED
    BY <1>2, <2>1, <2>2 DEF RailInv
<1>5. CASE Resume
  <2>1. TypeOK'
    BY <1>1, <1>5, NoneIsNoString DEF TypeOK, Resume, Phases, References
  <2>2. recovery' # "retry_pre_submission"
    BY <1>5 DEF RailInv, RetryAfterRejectionOnly, Resume
  <2>3. VerdictsAreTrue'
    BY <1>5 DEF RailInv, VerdictsAreTrue, Resume
  <2>4. QED
    BY <1>2, <2>1, <2>2, <2>3 DEF RailInv, RetryAfterRejectionOnly
<1>6. CASE FollowRetry
  <2>1. phase = "rejected"
    BY <1>6 DEF RailInv, RetryAfterRejectionOnly, FollowRetry
  <2>2. TypeOK'
    BY <1>1, <1>6 DEF TypeOK, FollowRetry, Phases
  <2>3. VerdictsAreTrue'
    BY <1>6, <2>1 DEF RailInv, VerdictsAreTrue, FollowRetry
  <2>4. RetryAfterRejectionOnly'
    BY <1>6, NoneIsNoString DEF RetryAfterRejectionOnly, FollowRetry, Actions
  <2>5. QED
    BY <1>2, <2>2, <2>3, <2>4 DEF RailInv
<1>7. QED
  BY <1>3, <1>4, <1>5, <1>6

LEMMA ClusterKeepsInv ==
    ASSUME RailInv, NEW s \in Signatures, Contact(s) \/ Finalize(s) PROVE RailInv'
<1>1. /\ TypeOK
      /\ UNCHANGED <<phase, attempt, reference, recovery, receipt, waiting>>
  BY DEF RailInv, Contact, Finalize, callerVars
<1>2. /\ s = attempt
      /\ phase \notin {"requested", "prepared", "rejected"}
      /\ chain[s] \in {"absent", "inflight"}
  <2>1. contact[s] = "called" \/ chain[s] = "inflight"
    BY DEF Contact, Finalize
  <2>2. chain[s] # "absent" => contact[s] = "made"
    BY DEF RailInv, ContactComesFirst
  <2>3. QED
    BY <2>1, <2>2 DEF RailInv, OnlyCurrentIsOffered, VerdictsAreTrue, Unoffered
<1>3. \E to \in ChainStates : /\ chain' = [chain EXCEPT ![s] = to]
                             /\ contact' = [contact EXCEPT ![s] = "made"]
  <2>1. CASE Contact(s)
    BY <2>1 DEF Contact, ChainStates
  <2>2. CASE Finalize(s)
    <3>1. contact[s] = "made" /\ contact' = contact
      BY <2>2 DEF RailInv, ContactComesFirst, Finalize
    <3>2. contact' = [contact EXCEPT ![s] = "made"]
      BY <1>1, <3>1 DEF TypeOK
    <3>3. QED
      BY <2>2, <3>2 DEF Finalize, ChainStates
  <2>3. QED
    BY <2>1, <2>2
<1>4. TypeOK'
  BY <1>1, <1>3 DEF TypeOK, ContactStates
<1>5. OnlyCurrentIsOffered'
  BY <1>1, <1>2, <1>3 DEF RailInv, TypeOK, OnlyCurrentIsOffered, Unoffered
<1>6. ContactComesFirst'
  BY <1>1, <1>3 DEF RailInv, TypeOK, ContactComesFirst
<1>7. VerdictsAreTrue'
  BY <1>1, <1>2 DEF RailInv, VerdictsAreTrue
<1>8. RetryAfterRejectionOnly'
  BY <1>1 DEF RailInv, RetryAfterRejectionOnly
<1>9. QED
  BY <1>4, <1>5, <1>6, <1>7, <1>8 DEF RailInv

LEMMA NextKeepsInv == RailInv /\ [Next]_vars => RailInv'
<1> SUFFICES ASSUME RailInv, [Next]_vars PROVE RailInv'
  OBVIOUS
<1>1. CASE Next
  BY <1>1, PrepareKeepsInv, SubmitKeepsInv, AnswerKeepsInv, ReconcileKeepsInv,
     CallerKeepsInv, ClusterKeepsInv DEF Next
<1>2. CASE UNCHANGED vars
  BY <1>2 DEF vars, RailInv, TypeOK, VerdictsAreTrue, OnlyCurrentIsOffered,
     ContactComesFirst, RetryAfterRejectionOnly, Unoffered
<1>3. QED
  BY <1>1, <1>2

LEMMA SpecKeepsInv == Spec => []RailInv
BY InitRailInv, NextKeepsInv, PTL DEF Spec

-----------------------------------------------------------------------------
(* The checked properties. *)

\* The caller's record is well formed: whatever may have been submitted has a
\* reference to be reconciled by.
THEOREM RecordIsWellFormed == Spec => []TypeOK
<1>1. RailInv => TypeOK
  BY DEF RailInv
<1>2. QED
  BY <1>1, SpecKeepsInv, PTL

\* However often the payment is prepared, retried, lost or answered late, one
\* signed transaction at most is offered to the cluster.
THEOREM OneOfferAtMost == Spec => []OneTransactionIsOffered
<1>1. RailInv => OneTransactionIsOffered
  BY DEF RailInv, OnlyCurrentIsOffered, OneTransactionIsOffered, Unoffered
<1>2. QED
  BY <1>1, SpecKeepsInv, PTL

\* What the caller concludes agrees with the cluster.
THEOREM ConclusionsAreTrue == Spec => []VerdictsAreTrue
<1>1. RailInv => VerdictsAreTrue
  BY DEF RailInv
<1>2. QED
  BY <1>1, SpecKeepsInv, PTL

-----------------------------------------------------------------------------
(* Refinement of SinglePayment. *)

Settled == {s \in Signatures : chain[s] = "settled"}

Verdict == CASE phase = "settled" -> "paid"
             [] phase = "failed" -> "unpaid"
             [] OTHER -> "open"

\* Unless a transaction settles or a verdict is recorded, nothing is seen.
SeenAlike == chain' = chain /\ (phase' = phase \/ {phase, phase'} \cap {"settled", "failed"} = {})

LEMMA AlikeStutters ==
    ASSUME SeenAlike PROVE Settled' = Settled /\ Verdict' = Verdict
<1>1. Settled' = Settled
  BY DEF SeenAlike, Settled
<1>2. CASE phase' = phase
  BY <1>1, <1>2 DEF Verdict
<1>3. CASE {phase, phase'} \cap {"settled", "failed"} = {}
  <2>1. phase \notin {"settled", "failed"} /\ phase' \notin {"settled", "failed"}
    BY <1>3
  <2>2. Verdict = "open" /\ Verdict' = "open"
    BY <2>1 DEF Verdict
  <2>3. QED
    BY <1>1, <2>2
<1>4. QED
  BY <1>2, <1>3 DEF SeenAlike

Conclusion ==
    /\ Verdict = "open"
    /\ Verdict' = IF Settled = {} THEN "unpaid" ELSE "paid"
    /\ Settled' = Settled

\* A verdict that agrees with the chain is a conclusion.
LEMMA VerdictConcludes ==
    ASSUME RailInv, attempt \in Signatures, phase \notin {"settled", "failed"},
           phase' \in {"settled", "failed"}, phase' = chain[attempt], chain' = chain
    PROVE  Conclusion
<1>1. Verdict = "open" /\ Settled' = Settled
  BY DEF Verdict, Settled
<1>2. CASE phase' = "settled"
  <2>1. Settled # {} /\ Verdict' = "paid"
    BY <1>2 DEF Settled, Verdict
  <2>2. QED
    BY <1>1, <2>1 DEF Conclusion
<1>3. CASE phase' = "failed"
  <2>1. Settled = {}
    BY <1>3 DEF Settled, RailInv, OnlyCurrentIsOffered, Unoffered
  <2>2. Verdict' = "unpaid"
    BY <1>3 DEF Verdict
  <2>3. QED
    BY <1>1, <2>1, <2>2 DEF Conclusion
<1>4. QED
  BY <1>2, <1>3

Payout ==
    /\ Settled = {}
    /\ Verdict # "unpaid"
    /\ \E s \in Signatures : Settled' = {s}
    /\ Verdict' = Verdict

LEMMA ClusterStep ==
    ASSUME RailInv, NEW s \in Signatures, Contact(s) \/ Finalize(s)
    PROVE  Payout \/ (Settled' = Settled /\ Verdict' = Verdict)
<1>1. TypeOK /\ phase' = phase
  BY DEF RailInv, Contact, Finalize, callerVars
<1>2. Verdict' = Verdict
  BY <1>1 DEF Verdict
<1>3. PICK to \in ChainStates : chain' = [chain EXCEPT ![s] = to]
  BY DEF Contact, Finalize, ChainStates
<1>4. chain[s] # "settled"
  BY DEF Contact, Finalize, RailInv, ContactComesFirst
<1>5. CASE to # "settled"
  <2>1. Settled' = Settled
    BY <1>1, <1>3, <1>4, <1>5 DEF TypeOK, Settled
  <2>2. QED
    BY <1>2, <2>1
<1>6. CASE to = "settled"
  <2>1. contact[s] = "made" /\ chain[s] = "inflight"
    BY <1>1, <1>3, <1>6 DEF Contact, Finalize, RailInv, ContactComesFirst, TypeOK
  <2>2. s = attempt
    BY <2>1 DEF RailInv, OnlyCurrentIsOffered, Unoffered
  <2>3. Settled = {}
    BY <1>4, <2>2 DEF Settled, RailInv, OnlyCurrentIsOffered, Unoffered
  <2>4. Settled' = {s}
    BY <1>1, <1>3, <1>6, <2>3 DEF TypeOK, Settled
  <2>5. phase # "failed"
    BY <2>1, <2>2 DEF RailInv, VerdictsAreTrue
  <2>6. Verdict # "unpaid"
    BY <2>5 DEF Verdict
  <2>7. QED
    BY <1>2, <2>3, <2>4, <2>6 DEF Payout
<1>7. QED
  BY <1>5, <1>6

LEMMA CallerStep ==
    ASSUME RailInv, RailInv',
           \/ PrepareExecution \/ SubmitExecution \/ SubmissionAnswered
           \/ ReconcileExecution \/ CreateReceipt
           \/ LoseWorker \/ Resume \/ FollowRetry
    PROVE  Conclusion \/ (Settled' = Settled /\ Verdict' = Verdict)
<1>1. CASE PrepareExecution \/ SubmitExecution \/ CreateReceipt \/ LoseWorker
           \/ Resume \/ FollowRetry
  <2>1. SeenAlike
    BY <1>1 DEF SeenAlike, PrepareExecution, SubmitExecution, CreateReceipt, LoseWorker,
       Resume, FollowRetry, callerVars
  <2>2. QED
    BY <2>1, AlikeStutters
<1>2. CASE SubmissionAnswered \/ ReconcileExecution
  <2>1. chain' = chain /\ attempt' = attempt
    BY <1>2 DEF SubmissionAnswered, ReconcileExecution
  <2>2. phase \in {"submitting", "open", "failed"}
    BY <1>2 DEF RailInv, TypeOK, SubmissionAnswered, ReconcileExecution
  <2>3. attempt \in Signatures
    BY <2>2, CurrentSignature DEF RailInv, TypeOK
  <2>4. phase' \in {"settled", "failed"} => phase' = chain[attempt]
    BY <2>1 DEF RailInv, VerdictsAreTrue
  <2>5. CASE phase' \in {"settled", "failed"} /\ phase \notin {"settled", "failed"}
    BY <2>1, <2>3, <2>4, <2>5, VerdictConcludes
  <2>6. CASE phase' \notin {"settled", "failed"} /\ phase \notin {"settled", "failed"}
    <3>1. SeenAlike
      BY <2>1, <2>6 DEF SeenAlike
    <3>2. QED
      BY <3>1, AlikeStutters
  <2>7. CASE phase = "failed"
    <3>1. chain[attempt] = "failed"
      BY <2>7 DEF RailInv, VerdictsAreTrue
    <3>2. ReconcileExecution
      BY <1>2, <2>7 DEF RailInv, TypeOK, SubmissionAnswered
    <3>3. phase' = phase \/ phase' = "failed"
      BY <3>1, <3>2, ReconcileCases
    <3>4. SeenAlike
      BY <2>1, <2>7, <3>3 DEF SeenAlike
    <3>5. QED
      BY <3>4, AlikeStutters
  <2>8. QED
    BY <2>2, <2>5, <2>6, <2>7
<1>3. QED
  BY <1>1, <1>2

LEMMA StepImplements ==
    RailInv /\ RailInv' /\ [Next]_vars => [Payment!PaymentNext]_(Payment!paymentVars)
<1> SUFFICES ASSUME RailInv, RailInv', [Next]_vars
             PROVE  [Payment!PaymentNext]_(Payment!paymentVars)
  OBVIOUS
<1>1. Conclusion \/ Payout \/ (Settled' = Settled /\ Verdict' = Verdict)
  <2>1. CASE Next
    BY <2>1, CallerStep, ClusterStep DEF Next
  <2>2. CASE UNCHANGED vars
    <3>1. SeenAlike
      BY <2>2 DEF SeenAlike, vars
    <3>2. QED
      BY <3>1, AlikeStutters
  <2>3. QED
    BY <2>1, <2>2
<1>2. CASE Conclusion
  BY <1>2 DEF Conclusion, Settled, Verdict, Payment!PaymentNext, Payment!Conclude
<1>3. CASE Payout
  BY <1>3 DEF Payout, Settled, Verdict, Payment!PaymentNext, Payment!Transfer
<1>4. CASE Settled' = Settled /\ Verdict' = Verdict
  BY <1>4 DEF Settled, Verdict, Payment!paymentVars
<1>5. QED
  BY <1>1, <1>2, <1>3, <1>4

\* Facade, adapter and a caller that follows their advice move the money of a
\* payment at most once, and tell the truth about it.
THEOREM RailImplementsSinglePayment == Spec => ImplementsSinglePayment
<1>1. Init => Payment!PaymentInit
  BY DEF Init, Payment!PaymentInit
<1>2. Spec => Payment!PaymentSpec
  BY <1>1, StepImplements, SpecKeepsInv, PTL DEF Spec, Payment!PaymentSpec
<1>3. QED
  BY <1>2 DEF ImplementsSinglePayment
=============================================================================
