-------------------------- MODULE ResilientClaims --------------------------
(* What the runtime's messages and comments say of it and the code does not *)
(* keep.                                                                    *)
EXTENDS MCResilientRuntime

\* paymentRuntime.ts announces PaymentCompleted with the message "Payment
\* completed successfully."; it should follow a completed transaction.
CompletedEventIsTrue ==
    \A x \in Executions :
        "PaymentCompleted" \in emitted[x] => transaction[x] = "completed"
=============================================================================
