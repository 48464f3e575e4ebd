--------------------------- MODULE PaymentLedger ---------------------------
(***************************************************************************)
(* What the treasury promises, without accounts, seeds or instructions: a  *)
(* custodian holds value, lets none of it go while it is closed, never     *)
(* pays more than it holds, and enters every payment in a journal that     *)
(* only ever grows at its end (docs/ARCHITECTURE.md, Core Accounts).       *)
(***************************************************************************)
EXTENDS Naturals, Sequences

CONSTANTS Parties, Custodian, Mints

VARIABLES
    open,       \* value may leave
    held,       \* what the custodian holds of each mint
    journal     \* the payments made, oldest first

vars == <<open, held, journal>>

Payments == [to : Parties, mint : Mints, amount : Nat \ {0}]

Init ==
    /\ open = FALSE
    /\ held = [m \in Mints |-> 0]
    /\ journal = <<>>

\* The authority opens or closes the treasury.
Switch ==
    /\ open' \in BOOLEAN
    /\ UNCHANGED <<held, journal>>

\* Value arrives, whether the treasury is open or not.
Receive(mint) ==
    /\ held'[mint] > held[mint]
    /\ held' = [held EXCEPT ![mint] = held'[mint]]
    /\ UNCHANGED <<open, journal>>

\* Value is returned to a user.
Release(mint, amount) ==
    /\ open
    /\ amount <= held[mint]
    /\ held' = [held EXCEPT ![mint] = @ - amount]
    /\ UNCHANGED <<open, journal>>

\* A payment takes value and is entered in the journal in the same step.
Pay(payment) ==
    /\ open
    /\ payment.amount <= held[payment.mint]
    /\ held' = IF payment.to = Custodian
                 THEN held
                 ELSE [held EXCEPT ![payment.mint] = @ - payment.amount]
    /\ journal' = Append(journal, payment)
    /\ UNCHANGED open

Next ==
    \/ Switch
    \/ \E mint \in Mints :
          Receive(mint) \/ \E amount \in 1..held[mint] : Release(mint, amount)
    \/ \E to \in Parties, mint \in Mints : \E amount \in 1..held[mint] :
          Pay([to |-> to, mint |-> mint, amount |-> amount])

Spec == Init /\ [][Next]_vars
=============================================================================
