\* Two wallets, counters and nonces 0 to 2, so that both counters reach their
\* limit; one token each, amounts 0, 1 and 3 (zero and overdraft included), a memo too long.
SPECIFICATION Spec
CONSTANTS
    Wallets = {alice, bob}
    TreasuryPda = treasuryPda
    Mints = {usdc}
    Amounts = {0, 1, 3}
    Memos = {0, 2}
    MemoMax = 1
    MaxU64 = 2
    InitialBalance = 1
    None = None
SYMMETRY WalletSymmetry
VIEW EventlessView
INVARIANTS
    PayTrailContiguous
    WithdrawTrailContiguous
    ReceiptAddressRecoverable
PROPERTIES
    AuditTrailAppendOnly
    ReceiptsTruthful
    ReceiptsAnnounced
    PauseFreezesTreasury
    OutflowAnnounced
    ImplementsLedger
