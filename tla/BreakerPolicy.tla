--------------------------- MODULE BreakerPolicy ---------------------------
(***************************************************************************)
(* What a circuit breaker promises to the callers of a service: it opens   *)
(* after failures in a row, admits nobody until it has cooled down, then   *)
(* admits callers on trial and closes after successes in a row.  Results   *)
(* of calls that are still running when it opens change nothing.           *)
(***************************************************************************)
EXTENDS Naturals

CONSTANTS
    Callers,
    FailureThreshold,   \* failures in a row that open a closed breaker
    SuccessThreshold    \* successes in a row that close one on trial

VARIABLES
    mode,       \* closed, open or half_open
    streak,     \* the results in a row that count in this mode
    cooled,     \* an open breaker may be tried
    running     \* the callers that were admitted and have no result yet

policyVars == <<mode, streak, cooled, running>>

Enter(m) == mode' = m /\ streak' = 0 /\ cooled' = FALSE

PolicyInit == mode = "closed" /\ streak = 0 /\ cooled = FALSE /\ running = {}

\* Admission, which takes a cooled breaker on trial.
Admit(c) ==
    /\ c \notin running
    /\ running' = running \cup {c}
    /\ \/ mode # "open" /\ UNCHANGED <<mode, streak, cooled>>
       \/ mode = "open" /\ cooled /\ Enter("half_open")

SuccessOf(c) ==
    /\ c \in running
    /\ running' = running \ {c}
    /\ \/ mode = "open" /\ UNCHANGED <<mode, streak, cooled>>
       \/ mode = "closed" /\ streak' = 0 /\ UNCHANGED <<mode, cooled>>
       \/ /\ mode = "half_open" /\ streak + 1 >= SuccessThreshold
          /\ Enter("closed")
       \/ /\ mode = "half_open" /\ streak + 1 < SuccessThreshold
          /\ streak' = streak + 1 /\ UNCHANGED <<mode, cooled>>

FailureOf(c) ==
    /\ c \in running
    /\ running' = running \ {c}
    /\ \/ mode = "open" /\ UNCHANGED <<mode, streak, cooled>>
       \/ mode = "half_open" /\ Enter("open")
       \/ mode = "closed" /\ streak + 1 >= FailureThreshold /\ Enter("open")
       \/ /\ mode = "closed" /\ streak + 1 < FailureThreshold
          /\ streak' = streak + 1 /\ UNCHANGED <<mode, cooled>>

Cool ==
    /\ mode = "open"
    /\ cooled' = TRUE
    /\ UNCHANGED <<mode, streak, running>>

ResetByHand == Enter("closed") /\ UNCHANGED running

PolicyNext ==
    \/ \E c \in Callers : Admit(c) \/ SuccessOf(c) \/ FailureOf(c)
    \/ Cool
    \/ ResetByHand

PolicySpec == PolicyInit /\ [][PolicyNext]_policyVars
=============================================================================
