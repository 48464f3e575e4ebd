--------------------------- MODULE TreasuryClaims ---------------------------
(* What the docs say of the on-chain program that the program does not keep. *)
EXTENDS TreasuryProgram

\* The event emitted with a receipt says the direction the receipt says.
EventDirectionMatchesReceipt ==
    [][\A o \in Owners, i \in U64 :
         receipts[o][i] = None /\ receipts'[o][i] # None =>
           event'.direction = CASE receipts'[o][i].direction = "DIR_DEPOSIT" -> "UserToTreasury"
                                [] receipts'[o][i].direction = "DIR_WITHDRAW" -> "TreasuryToUser"
                                [] receipts'[o][i].direction = "DIR_PAY" -> "TreasuryToRecipient"]_vars
=============================================================================
