-------------------------- MODULE MCCircuitBreaker --------------------------
(* Model checking of CircuitBreaker. *)
EXTENDS CircuitBreaker

\* The counters grow without bound, and so does the clock, but what the breaker
\* does next depends on the streak that its state counts and on the time since it
\* opened, up to the cool-down: ImplementsPolicy says so of the counters.
WhatMatters ==
    <<state,
      CASE state = "closed"    -> failureCount
        [] state = "half_open" -> successCount
        [] state = "open"      -> 0,
      IF state = "open" /\ openedAt # Undefined
        THEN IF now - openedAt < CooldownMs THEN now - openedAt ELSE CooldownMs
        ELSE CooldownMs + 1,
      running, up, crossed>>
=============================================================================
