---------------------------- MODULE MCProtocolLab ----------------------------
(* Model checking of ProtocolLab. *)
EXTENDS ProtocolLab

CONSTANTS operator, shop, usdc

\* Two payments to the same recipient, of which the treasury may afford one.
TwoPayments == <<[recipient |-> shop, mint |-> usdc, amount |-> 1],
                 [recipient |-> shop, mint |-> usdc, amount |-> 2]>>

\* Bound: the receipts that others' instructions write during the run.
MaxReceipts == 2

FewReceipts == Cardinality({slot \in Owners \X U64 : receipts[slot[1]][slot[2]] # None})
                 <= MaxReceipts

\* Nothing reads the last event, and of the validation's verdict only whether it is
\* green is looked at.
EventlessLabView == <<treasury, profiles, receipts, atas, balance,
                      lab, verdict = "green", configured, simulationVars, ledger>>
=============================================================================
