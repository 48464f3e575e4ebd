--------------------------- MODULE SinglePayment ---------------------------
(***************************************************************************)
(* What the caller of a rail is promised about one payment: money moves at *)
(* most once, and a verdict about it is true then and ever after.          *)
(***************************************************************************)

CONSTANT Transactions   \* the signed transactions that could move the money

VARIABLES
    transfers,  \* the transactions that moved it
    verdict     \* what the caller holds: open, paid or unpaid

paymentVars == <<transfers, verdict>>

PaymentInit == transfers = {} /\ verdict = "open"

Transfer ==
    /\ transfers = {}
    /\ verdict # "unpaid"
    /\ \E t \in Transactions : transfers' = {t}
    /\ UNCHANGED verdict

Conclude ==
    /\ verdict = "open"
    /\ verdict' = IF transfers = {} THEN "unpaid" ELSE "paid"
    /\ UNCHANGED transfers

PaymentNext == Transfer \/ Conclude

PaymentSpec == PaymentInit /\ [][PaymentNext]_paymentVars
=============================================================================
