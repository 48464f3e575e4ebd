--------------------------- MODULE CircuitBreaker ---------------------------
(***************************************************************************)
(* The class CircuitBreaker under concurrent callers: each asks            *)
(* canAttempt, calls a service, and records the result whenever it comes,  *)
(* in whatever state the breaker is by then.                               *)
(***************************************************************************)
EXTENDS Naturals

CONSTANTS
    Callers,
    FailureThreshold,   \* config.failureThreshold
    SuccessThreshold,   \* config.successThreshold
    CooldownMs,         \* config.cooldownMs, in ticks of the clock
    StartTime,          \* what the clock shows when the breaker is created
    Undefined           \* undefined

\* A clock that shows 0 is left out: openedAt is tested for truthiness, so a
\* breaker that opened then would never be tried.  Date.now(), the default of
\* every method, is past it.
ASSUME BreakerAssumption ==
    /\ FailureThreshold \in Nat
    /\ SuccessThreshold \in Nat
    /\ CooldownMs \in Nat \ {0}
    /\ StartTime \in Nat \ {0}
    /\ Undefined \notin Nat

BreakerStates == {"closed", "open", "half_open"}

VARIABLES
    state,          \* CircuitBreaker.state
    failureCount,
    successCount,
    openedAt,
    now,            \* the clock
    running,        \* the callers that were admitted and have no result yet
    up,             \* external: the service answers
    crossed         \* external: of those running, the calls during which the
                    \* service went up or down: either result may be on its way

breakerVars == <<state, failureCount, successCount, openedAt>>
vars == <<state, failureCount, successCount, openedAt, now, running, up, crossed>>

Init ==
    /\ state = "closed"
    /\ failureCount = 0
    /\ successCount = 0
    /\ openedAt = Undefined
    /\ now = StartTime
    /\ running = {}
    /\ up = TRUE
    /\ crossed = {}

-----------------------------------------------------------------------------
(* Mistakes: see TreasuryProgram. *)

MistakeKeepFailures ==
    /\ state' = "closed"
    /\ failureCount' = failureCount
    /\ successCount' = 0
    /\ openedAt' = Undefined

\* A single success on trial is never enough, and the count starts over.
MistakeForgetfulTrial ==
    /\ state = "half_open"
    /\ successCount' = 0
    /\ UNCHANGED <<state, failureCount, openedAt>>

-----------------------------------------------------------------------------
(* Transitions. *)

TransitionToClosed ==
    /\ state' = "closed"
    /\ failureCount' = 0
    /\ successCount' = 0
    /\ openedAt' = Undefined

TransitionToOpen ==
    /\ state' = "open"
    /\ openedAt' = now
    /\ successCount' = 0

TransitionToHalfOpen ==
    /\ state' = "half_open"
    /\ successCount' = 0
    /\ UNCHANGED <<failureCount, openedAt>>

IsCooled == openedAt \notin {Undefined, 0} /\ now - openedAt >= CooldownMs

\* canAttempt, when it returns true.  A refused caller changes nothing.
CanAttempt ==
    \/ state \in {"closed", "half_open"} /\ UNCHANGED breakerVars
    \/ state = "open" /\ IsCooled /\ TransitionToHalfOpen

CountTrialSuccess ==
    /\ state = "half_open"
    /\ IF successCount + 1 >= SuccessThreshold
         THEN TransitionToClosed
         ELSE /\ successCount' = successCount + 1
              /\ UNCHANGED <<state, failureCount, openedAt>>

RecordSuccess ==
    \/ CountTrialSuccess
    \/ /\ state = "closed"
       /\ failureCount' = 0
       /\ successCount' = successCount + 1
       /\ UNCHANGED <<state, openedAt>>
    \/ state = "open" /\ UNCHANGED breakerVars

RecordFailure ==
    /\ failureCount' = failureCount + 1
    /\ IF state = "half_open" \/ (state = "closed" /\ failureCount + 1 >= FailureThreshold)
         THEN TransitionToOpen
         ELSE successCount' = 0 /\ UNCHANGED <<state, openedAt>>

-----------------------------------------------------------------------------
(* The callers, the service and the clock. *)

Attempt(c) ==
    /\ c \notin running
    /\ CanAttempt
    /\ running' = running \cup {c}
    /\ UNCHANGED <<now, up, crossed>>

CallEnds(c) ==
    /\ c \in running
    /\ running' = running \ {c}
    /\ crossed' = crossed \ {c}
    /\ UNCHANGED <<now, up>>

CallSucceeds(c) ==
    /\ up \/ c \in crossed
    /\ RecordSuccess
    /\ CallEnds(c)

CallFails(c) ==
    /\ ~up \/ c \in crossed
    /\ RecordFailure
    /\ CallEnds(c)

Reset == TransitionToClosed /\ UNCHANGED <<now, running, up, crossed>>

Tick == now' = now + 1 /\ UNCHANGED <<breakerVars, running, up, crossed>>

GoUpOrDown ==
    /\ up' = ~up
    /\ crossed' = running
    /\ UNCHANGED <<breakerVars, now, running>>

Next ==
    \/ \E c \in Callers : Attempt(c) \/ CallSucceeds(c) \/ CallFails(c)
    \/ Reset
    \/ Tick
    \/ GoUpOrDown

Spec == Init /\ [][Next]_vars

\* Time passes, calls end, and there are callers who ask again.
BreakerFairness ==
    /\ WF_vars(Tick)
    /\ \A c \in Callers : WF_vars(Attempt(c)) /\ WF_vars(CallSucceeds(c) \/ CallFails(c))

FairSpec == Spec /\ BreakerFairness

-----------------------------------------------------------------------------
(* Properties *)

\* The fields keep their types, a closed breaker is below its threshold, an open
\* one knows when it opened, and neither knows it in the future.
TypeOK ==
    /\ state \in BreakerStates
    /\ failureCount \in Nat
    /\ successCount \in Nat
    /\ openedAt \in Nat \cup {Undefined}
    /\ now \in Nat \ {0}
    /\ running \subseteq Callers
    /\ up \in BOOLEAN
    /\ crossed \subseteq running
    /\ state = "closed" => failureCount = 0 \/ failureCount < FailureThreshold
    /\ state = "open" => openedAt \in 1..now /\ successCount = 0

\* Whatever the counters hold over from earlier states, and whenever a late
\* result is recorded, the breaker opens, admits and closes as the policy says.
\* The counters that still matter are the failures of a closed breaker and the
\* successes of one on trial.
Policy == INSTANCE BreakerPolicy WITH
    mode <- state,
    streak <- CASE state = "closed"    -> failureCount
                [] state = "half_open" -> successCount
                [] state = "open"      -> 0,
    cooled <- state = "open" /\ IsCooled

ImplementsPolicy == Policy!PolicySpec

\* A service that is up for good is used again: however many callers had failed
\* and whichever failures are still recorded after it came up, the breaker closes
\* and stays closed.
RecoversWhenUp == <>[]up => <>[](state = "closed")
=============================================================================
