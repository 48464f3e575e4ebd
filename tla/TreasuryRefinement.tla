------------------------- MODULE TreasuryRefinement -------------------------
(* The on-chain program implements PaymentLedger: its journal is read off   *)
(* the receipts of the treasury's seed family, in index order.             *)
EXTENDS TreasuryProgram

\* The payment the receipt at pay index i records.
PaymentAt(i) ==
    LET r == receipts[TreasuryPda][i]
    IN  [to |-> r.user, mint |-> r.mint, amount |-> r.amount]

Ledger == INSTANCE PaymentLedger WITH
            Parties <- Owners,
            Custodian <- TreasuryPda,
            open <- treasury # None /\ ~treasury.paused,
            held <- balance[TreasuryPda],
            journal <- [n \in 1..PayCount |-> PaymentAt(n - 1)]

\* Every behaviour of the program is one of the ledger: reading the receipts
\* at 0 .. pay_count - 1 gives a journal that grows by one entry exactly when
\* a payment is made (spl_pay.rs), and nothing leaves while paused.
ImplementsLedger == Ledger!Spec
=============================================================================
