\* A call of the script and a call of the adapter, one wallet beside the
\* treasury, payments of nothing and of one token; more tokens than calls.
SPECIFICATION FairClientSpec
CONSTANTS
    Wallets = {operator}
    Operator = operator
    TreasuryPda = treasuryPda
    Mints = {usdc}
    Amounts = {0, 1}
    Memos = {0}
    MemoMax = 0
    MaxU64 = 2
    InitialBalance = 2
    Calls = {c1, c2}
    ScriptCalls = {c1}
    None = None
VIEW EventlessClientView
INVARIANTS
    SuccessIsPaid
    PaymentsAccountedFor
PROPERTIES
    EveryCallAnswered
