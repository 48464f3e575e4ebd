\* The event of a receipted withdraw names the direction of a deposit.
SPECIFICATION Spec
CONSTANTS
    Wallets = {alice}
    TreasuryPda = treasuryPda
    Mints = {usdc}
    Amounts = {1}
    Memos = {0}
    MemoMax = 1
    MaxU64 = 2
    InitialBalance = 2
    None = None
PROPERTY EventDirectionMatchesReceipt
