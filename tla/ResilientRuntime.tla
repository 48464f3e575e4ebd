-------------------------- MODULE ResilientRuntime --------------------------
(***************************************************************************)
(* ResilienceEngine.execute around PaymentRuntime.execute, the way the     *)
(* runtime's resilience wrapper composes them: a call races each execution *)
(* against a timeout, which abandons the execution without stopping it,    *)
(* and starts another one when the failure is recoverable and retryable.   *)
(***************************************************************************)
EXTENDS PaymentRuntime

CONSTANTS
    Payments,       \* the calls of ResilienceEngine.execute
    MaxAttempts,    \* retryPolicy.maxAttempts
    Fallback,       \* the failureFallback of the calls, or None
    ThrownFailures  \* RuntimeFailures that steps throw, None for other errors

\* Of the codes that evaluateRecovery and inferRetryable leave to their default
\* branches, UNKNOWN_RUNTIME_FAILURE stands for all.
Codes == {"RPC_TIMEOUT", "RPC_UNAVAILABLE", "RPC_RATE_LIMITED",
          "NETWORK_UNAVAILABLE", "SETTLEMENT_TIMEOUT", "SETTLEMENT_FAILED",
          "CONFIGURATION_ERROR", "COMPLIANCE_REJECTED", "RISK_REJECTED",
          "POLICY_REJECTED", "TRUST_REJECTED", "VALIDATION_FAILED",
          "ADAPTER_FAILED", "RECEIPT_FAILED", "UNKNOWN_RUNTIME_FAILURE"}
Failures == [code : Codes, retryable : BOOLEAN]

ASSUME ResilienceAssumption ==
    /\ MaxAttempts \in Nat \ {0}
    /\ Executions = Payments \X (1..MaxAttempts)
    /\ Fallback \in Failures \cup {None}
    /\ ThrownFailures \subseteq Failures \cup {None}
    /\ None \notin Failures

CallStates == {"idle", "waiting", "backoff", "ok", "failed"}

VARIABLES
    call,       \* the state of each engine call
    attempt,    \* its ResilienceContext.currentAttempt
    abandoned   \* the executions that a timeout gave up on

callVars == <<call, attempt, abandoned>>
allVars == <<stage, transaction, transfer, outcome, emitted, call, attempt, abandoned>>

ResilientInit ==
    /\ RuntimeInit
    /\ call = [p \in Payments |-> "idle"]
    /\ attempt = [p \in Payments |-> 0]
    /\ abandoned = {}

-----------------------------------------------------------------------------
(* Mistakes: see TreasuryProgram. *)

\* An orchestration that failed is retried like one that threw.
MistakeRetryFailed(x) == outcome[x] \in {"completed", "declined"}

-----------------------------------------------------------------------------
(* Failures and decisions. *)

TransientCodes == {"RPC_TIMEOUT", "RPC_UNAVAILABLE", "RPC_RATE_LIMITED",
                   "NETWORK_UNAVAILABLE", "SETTLEMENT_TIMEOUT"}

InferRetryable(code) == code \in TransientCodes

\* normalizeFailure of an error that is not a RuntimeFailure.
TimeoutFailure ==
    IF Fallback = None THEN [code |-> "SETTLEMENT_TIMEOUT", retryable |-> TRUE]
                       ELSE Fallback

ErrorFailure ==
    IF Fallback = None
      THEN [code |-> "UNKNOWN_RUNTIME_FAILURE",
            retryable |-> InferRetryable("UNKNOWN_RUNTIME_FAILURE")]
      ELSE Fallback

\* evaluateRecovery: some codes decide alone, the rest follow the flag.
IsRecoverable(failure) ==
    \/ failure.code \in TransientCodes
    \/ /\ failure.code \in {"ADAPTER_FAILED", "UNKNOWN_RUNTIME_FAILURE"}
       /\ failure.retryable

\* evaluateRetry.
ShouldRetry(failure, n) == failure.retryable /\ n < MaxAttempts

Current(p) == <<p, attempt[p]>>

\* Mistake: the return of a failure that is not retried is forgotten.
MistakeNoReturnOfFailure(p, failure) ==
    call' = IF IsRecoverable(failure) /\ ShouldRetry(failure, attempt[p])
              THEN [call EXCEPT ![p] = "backoff"] ELSE call

\* The catch block of the engine's loop.
RetryOrFail(p, failure) ==
    call' = [call EXCEPT ![p] =
               IF IsRecoverable(failure) /\ ShouldRetry(failure, attempt[p])
                 THEN "backoff" ELSE "failed"]

-----------------------------------------------------------------------------
(* The engine's steps. *)

\* startAttempt and the operation's synchronous beginning.
StartAttempt(p) ==
    /\ call[p] \in {"idle", "backoff"}
    /\ call' = [call EXCEPT ![p] = "waiting"]
    /\ attempt' = [attempt EXCEPT ![p] = @ + 1]
    /\ Start(<<p, attempt[p] + 1>>)
    /\ UNCHANGED abandoned

\* A resolved promise is a success, whatever the orchestration's status is.
IsAnswered(x) == outcome[x] \in {"completed", "failed", "declined"}

Succeed(p) ==
    /\ call[p] = "waiting"
    /\ stage[Current(p)] = "done"
    /\ IsAnswered(Current(p))
    /\ call' = [call EXCEPT ![p] = "ok"]
    /\ UNCHANGED <<runtimeVars, attempt, abandoned>>

Reject(p) ==
    /\ call[p] = "waiting"
    /\ stage[Current(p)] = "done"
    /\ ~IsAnswered(Current(p))
    /\ \E thrown \in ThrownFailures :
          RetryOrFail(p, IF thrown = None THEN ErrorFailure ELSE thrown)
    /\ UNCHANGED <<runtimeVars, attempt, abandoned>>

\* The timer wins the race; the operation goes on.
TimeOut(p) ==
    /\ call[p] = "waiting"
    /\ stage[Current(p)] # "done"
    /\ abandoned' = abandoned \cup {Current(p)}
    /\ RetryOrFail(p, TimeoutFailure)
    /\ UNCHANGED <<runtimeVars, attempt>>

Execute(p) == StartAttempt(p) \/ Succeed(p) \/ Reject(p) \/ TimeOut(p)

Operate(x) == Advance(x) /\ UNCHANGED callVars

ResilientNext ==
    \/ \E p \in Payments : Execute(p)
    \/ \E x \in Executions : Operate(x)

\* The engine's continuations and timers run.  Neither the decision services,
\* nor the rail, nor the history need ever answer.
Fairness == \A p \in Payments : WF_allVars(call[p] # "idle" /\ Execute(p))

ResilientSpec == ResilientInit /\ [][ResilientNext]_allVars

FairResilientSpec == ResilientSpec /\ Fairness

-----------------------------------------------------------------------------
(* Properties *)

ResilientTypeOK ==
    /\ RuntimeTypeOK
    /\ call \in [Payments -> CallStates]
    /\ attempt \in [Payments -> 0..MaxAttempts]
    /\ abandoned \subseteq Executions
    /\ \A p \in Payments, n \in 1..MaxAttempts : stage[<<p, n>>] # "idle" <=> n <= attempt[p]
    /\ \A x \in abandoned : stage[x] # "idle"

\* A payment is sent a second time only behind an execution that the timeout
\* abandoned or that threw after its orchestration had ended: an error of the
\* rail, of a hook or of the receipt never makes the engine pay again.
ResentOnlyBlindly ==
    \A p \in Payments, m, n \in 1..MaxAttempts :
        m < n /\ transfer[<<p, m>>] # "unsent" /\ stage[<<p, n>>] # "idle" =>
          \/ <<p, m>> \in abandoned
          \/ /\ outcome[<<p, m>>] = "threw"
             /\ transaction[<<p, m>>] \in {"completed", "failed"}
             /\ \E kind \in {"history", "listener"} : CanThrow(kind)

\* An answer is that of the last execution, which was not abandoned: a call
\* that says ok beside a completed orchestration has paid, one that says ok
\* beside a refusal has not, and a call fails only behind a timeout or a throw.
AnswerIsTrue ==
    \A p \in Payments :
        LET x == Current(p)
        IN  /\ call[p] = "ok" =>
                 /\ x \notin abandoned
                 /\ outcome[x] = "completed" => transfer[x] = "landed"
                 /\ outcome[x] = "declined" => transfer[x] = "unsent"
                 /\ outcome[x] # "threw"
            /\ call[p] = "failed" => x \in abandoned \/ outcome[x] = "threw"

\* Every call is answered, although no service, rail or history ever has to.
EngineAnswers == \A p \in Payments : call[p] = "waiting" ~> call[p] \in {"ok", "failed"}
=============================================================================
