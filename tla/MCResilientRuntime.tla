------------------------- MODULE MCResilientRuntime -------------------------
(* Model checking of ResilientRuntime. *)
EXTENDS ResilientRuntime

MCExecutions == Payments \X (1..MaxAttempts)

\* The fallback of scripts/smoke_test_runtime_resilience.ts.
SmokeFallback == [code |-> "SETTLEMENT_TIMEOUT", retryable |-> TRUE]

\* A failure that ends a call at once, and an error that is not a RuntimeFailure.
MixedFailures == {None, [code |-> "COMPLIANCE_REJECTED", retryable |-> FALSE]}
=============================================================================
