-------------------------- MODULE MCLivingEconomy --------------------------
(* Model checking of LivingEconomy. *)
EXTENDS LivingEconomy

MCTypeOf == [id \in Ids |->
    CASE id = "matt" -> "human" [] id = "pizza" -> "merchant" [] id = "bot" -> "ai_agent"]

\* One below, one within and one above what is accepted.
MCRates == {-1, 50, 10001}

\* The same error in every operation, and errors that do not cancel out: shares
\* rounded up and balances down, but for one bucket.
Rounding(fee, share, balance) ==
    [fee |-> fee, share |-> [b \in RevenueBuckets |-> share],
     balance |-> [b \in RevenueBuckets |->
                    IF b = "treasuryOperations" THEN share ELSE balance]]

MCRoundings ==
    {Rounding(0, 0, 0), Rounding(1, 1, 1), Rounding(-1, -1, -1), Rounding(1, 1, -1)}

Past(count, weight) == [count |-> count, weight |-> weight]

\* None, and just below each level, with light and heavier signals.
MCPastEvidence ==
    {Past(0, 0), Past(9, 9), Past(48, 79), Past(98, 98)}

NoPast == {Past(0, 0)}

\* A payment asks of its participants only who they are: neither the registry nor
\* the copies' statuses matter to the money and the trust, nor these to them.  So
\* they are told apart in the states before the first payment only, and of two
\* participants: what is done to a third differs in nothing.
Observed == {"matt", "pizza"}

ObservedRegistry ==
    <<[id \in Observed \cap DOMAIN registry |-> registry[id]],
      {p \in copies : p.id \in Observed}>>

WhatMatters ==
    <<IF PaymentCount = 0 THEN ObservedRegistry ELSE <<>>,
      {p.id : p \in copies}, economyVars>>
=============================================================================
