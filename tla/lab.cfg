\* The operator and a shop; counters and nonces 0 to 2, so that others may pay
\* between the lab's readings and the counter still be short of its end; a scenario
\* of two payments, of 1 and of 2, when each wallet begins with one token.  Not more
\* than MaxReceipts receipts are written.
SPECIFICATION LabSpec
CONSTANTS
    operator = operator
    shop = shop
    usdc = usdc
    LabWallet = operator
    Wallets = {operator, shop}
    TreasuryPda = treasuryPda
    Mints = {usdc}
    Amounts = {1}
    Memos = {0}
    MemoMax = 1
    MaxU64 = 2
    InitialBalance = 1
    None = None
    Scenario <- TwoPayments
CONSTRAINT FewReceipts
VIEW EventlessLabView
INVARIANTS
    LabTypeOK
PROPERTIES
    VerdictsAreExplained
    EveryBatchEnds
