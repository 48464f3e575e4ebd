------------------------- MODULE MCTreasuryProgram -------------------------
(* Model checking of TreasuryProgram and of what it implements.            *)
EXTENDS TreasuryRefinement, TLC

\* Wallets are interchangeable: none is named in Init or Next.
WalletSymmetry == Permutations(Wallets)

\* No instruction reads the last event: two states that differ in it alone have
\* the same future.  Properties read the next one, except ReceiptsAnnounced,
\* which asks whether it is new and sees the last event of one state of each
\* such class.
EventlessView == <<treasury, profiles, receipts, atas, balance>>
=============================================================================
