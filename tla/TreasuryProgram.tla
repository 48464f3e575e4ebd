-------------------------- MODULE TreasuryProgram --------------------------
(***************************************************************************)
(* The on-chain program of Zephyon Protocol (programs/protocol).  One      *)
(* action per instruction.  An instruction is atomic: a failed constraint, *)
(* a failed require! or a failed token transfer rolls everything back, so  *)
(* a failing instruction is a step that is not taken, and every guard      *)
(* below is one of those checks.                                           *)
(*                                                                         *)
(* An account that has not been created has the value None, which is also  *)
(* Pubkey::default() ("no receipt") in an event.  The account at seeds     *)
(* ["receipt", o, i] is receipts[o][i].                                    *)
(***************************************************************************)
EXTENDS Naturals

CONSTANTS
    Wallets,        \* wallets that sign: users, recipients, the authority
    TreasuryPda,    \* the treasury account; owns token accounts, never signs
    Mints,          \* SPL mints
    Amounts,        \* the raw amounts an instruction may be called with
    Memos,          \* the memo lengths a payment may be called with
    MemoMax,        \* MEMO_MAX
    MaxU64,         \* the largest value of a u64 counter or nonce
    InitialBalance, \* what every wallet holds of every mint at the start
    None

U64 == 0..MaxU64
Owners == Wallets \cup {TreasuryPda}
Directions == {"DIR_DEPOSIT", "DIR_WITHDRAW", "DIR_PAY"}
PayDirections == {"TreasuryToRecipient", "UserToTreasury", "TreasuryToUser"}

Treasuries == [authority : Wallets, paused : BOOLEAN, pay_count : U64]
UserProfiles == [authority : Wallets, tx_count : U64]
Receipts == [user : Owners, direction : Directions, mint : Mints,
             amount : Nat \ {0}, tx_count : U64, memo_len : Nat]
ReceiptSeeds == Owners \X U64

ValueEvents == [name : {"DepositEvent", "WithdrawEvent", "SplPayEvent"},
                authority : Wallets \cup {None}, user : Owners, mint : Mints,
                amount : Nat \ {0}, direction : PayDirections,
                receipt : ReceiptSeeds \cup {None}, index : U64]
GovernanceEvents ==
    [name : {"TreasuryInitializedEvent", "TreasuryPausedSetEvent"},
     authority : Wallets, paused : BOOLEAN]

ASSUME ConstantsAssumption ==
    /\ TreasuryPda \notin Wallets
    /\ Amounts \subseteq Nat
    /\ Memos \subseteq Nat
    /\ MemoMax \in Nat
    /\ MaxU64 \in Nat
    /\ InitialBalance \in Nat

ASSUME NoneAssumption ==
    /\ None \notin Wallets
    /\ None \notin Treasuries
    /\ None \notin UserProfiles
    /\ None \notin Receipts
    /\ None \notin ReceiptSeeds
    /\ None \notin ValueEvents
    /\ None \notin GovernanceEvents

VARIABLES
    treasury,   \* the treasury account
    profiles,   \* the user_profile account of each wallet
    receipts,   \* the receipt accounts, by seed owner and seed index
    atas,       \* the associated token accounts that exist: <<owner, mint>>
    balance,    \* the amount each token account holds
    event       \* the event the last instruction emitted

vars == <<treasury, profiles, receipts, atas, balance, event>>

Init ==
    /\ treasury = None
    /\ profiles = [u \in Wallets |-> None]
    /\ receipts = [o \in Owners |-> [i \in U64 |-> None]]
    /\ atas = Wallets \X Mints
    /\ balance = [o \in Owners |->
                    [m \in Mints |-> IF o \in Wallets THEN InitialBalance ELSE 0]]
    /\ event = None

-----------------------------------------------------------------------------
(* Mistakes: forms that definitions below could have taken by a plausible  *)
(* slip.  Nothing uses them; a property that none of them breaks would say *)
(* nothing about the code.                                                 *)

\* The pause flag is not consulted.
MistakePauseIgnored == treasury # None

\* The signature is checked, the recorded authority is not.
MistakeAnySigner(signer) == signer \in Wallets

\* init_if_needed where init is meant.
MistakeReceiptReused(owner, index, receipt) ==
    receipts' = [receipts EXCEPT ![owner][index] = receipt]

\* A direction copied from another handler.
MistakeCopiedDirection(user, direction, mint, amount, index, memo_len) ==
    [user |-> user, direction |-> "DIR_DEPOSIT", mint |-> mint,
     amount |-> amount, tx_count |-> index, memo_len |-> memo_len]

\* The index stored in the receipt is read after the increment.
MistakePostIncrement(user, direction, mint, amount, index, memo_len) ==
    [user |-> user, direction |-> direction, mint |-> mint, amount |-> amount,
     tx_count |-> index + 1, memo_len |-> memo_len]

\* The event is filled in after the counter has moved on.
MistakeLateEvent(name, authority, user, mint, amount, direction, receipt, index) ==
    [name |-> name, authority |-> authority, user |-> user, mint |-> mint,
     amount |-> amount, direction |-> direction, receipt |-> receipt,
     index |-> index + 1]

\* The increment is forgotten.
MistakeNoIncrement(n) == n

\* The receipt address of a payment is not tied to the counter.
MistakeAnySlot(slot) == slot \in U64

-----------------------------------------------------------------------------
(* What the instructions share. *)

\* The treasury account exists and its pause flag is down.
Unpaused == treasury # None /\ ~treasury.paused

\* The signer is the wallet recorded in the treasury account.
IsAuthority(signer) == signer = treasury.authority

\* The balances after amount of mint has gone from one owner's token account
\* to another's.
Moved(from, to, mint, amount) ==
    LET debited == [balance EXCEPT ![from][mint] = @ - amount]
    IN  [debited EXCEPT ![to][mint] = @ + amount]

\* token::transfer needs the sender's token account, and the funds in it.
CanTransfer(from, mint, amount) ==
    /\ <<from, mint>> \in atas
    /\ amount <= balance[from][mint]

\* token::transfer between two token accounts that exist.  A transfer from an
\* account to itself needs the funds and leaves the balance as it was.
Transfer(from, to, mint, amount) ==
    /\ CanTransfer(from, mint, amount)
    /\ balance' = Moved(from, to, mint, amount)

\* No receipt account exists at seeds ["receipt", owner, index].
IsFree(owner, index) == receipts[owner][index] = None

\* `init` of the receipt at these seeds, and its fields.
CreateReceipt(owner, index, receipt) ==
    /\ IsFree(owner, index)
    /\ receipts' = [receipts EXCEPT ![owner][index] = receipt]

NewReceipt(user, direction, mint, amount, index, memo_len) ==
    [user |-> user, direction |-> direction, mint |-> mint, amount |-> amount,
     tx_count |-> index, memo_len |-> memo_len]

ValueEvent(name, authority, user, mint, amount, direction, receipt, index) ==
    [name |-> name, authority |-> authority, user |-> user, mint |-> mint,
     amount |-> amount, direction |-> direction, receipt |-> receipt,
     index |-> index]

\* init_if_needed of user_profile: a fresh profile is zeroed, then claimed.
ProfileOf(user) ==
    IF profiles[user] = None THEN [authority |-> user, tx_count |-> 0]
                             ELSE profiles[user]

SaturatingAdd1(n) == IF n = MaxU64 THEN n ELSE n + 1

\* checked_add(1) yields a value.
CheckedAdd1Fits(n) == n < MaxU64

\* The seeds constraint on the receipt of a payment: the address the caller
\* passed was derived from the counter's present value.
IsPayReceiptSlot(slot) == slot = treasury.pay_count

-----------------------------------------------------------------------------
(* The instructions. *)

InitializeTreasury(signer) ==
    /\ treasury = None
    /\ treasury' = [authority |-> signer, paused |-> FALSE, pay_count |-> 0]
    /\ event' = [name |-> "TreasuryInitializedEvent", authority |-> signer,
                 paused |-> FALSE]
    /\ UNCHANGED <<profiles, receipts, atas, balance>>

SetTreasuryPaused(signer, paused) ==
    /\ treasury # None
    /\ IsAuthority(signer)
    /\ treasury' = [treasury EXCEPT !.paused = paused]
    /\ event' = [name |-> "TreasuryPausedSetEvent", authority |-> signer,
                 paused |-> paused]
    /\ UNCHANGED <<profiles, receipts, atas, balance>>

\* The treasury's token account is created when it is missing.
SplDeposit(user, mint, amount) ==
    /\ Unpaused
    /\ amount > 0
    /\ atas' = atas \cup {<<TreasuryPda, mint>>}
    /\ Transfer(user, TreasuryPda, mint, amount)
    /\ event' = ValueEvent("DepositEvent", None, user, mint, amount,
                           "UserToTreasury", None, 0)
    /\ UNCHANGED <<treasury, profiles, receipts>>

\* The caller chooses the nonce.  The treasury's token account must exist.
SplDepositWithReceipt(user, mint, amount, nonce) ==
    /\ Unpaused
    /\ amount > 0
    /\ <<TreasuryPda, mint>> \in atas
    /\ CreateReceipt(user, nonce,
                     NewReceipt(user, "DIR_DEPOSIT", mint, amount, nonce, 0))
    /\ Transfer(user, TreasuryPda, mint, amount)
    /\ event' = ValueEvent("DepositEvent", None, user, mint, amount,
                           "UserToTreasury", <<user, nonce>>, nonce)
    /\ UNCHANGED <<treasury, profiles, atas>>

\* user does not sign, so it may be any owner, the treasury itself included.
SplWithdraw(signer, user, mint, amount) ==
    /\ Unpaused
    /\ amount > 0
    /\ IsAuthority(signer)
    /\ atas' = atas \cup {<<user, mint>>}
    /\ Transfer(TreasuryPda, user, mint, amount)
    /\ event' = ValueEvent("WithdrawEvent", signer, user, mint, amount,
                           "TreasuryToUser", None, 0)
    /\ UNCHANGED <<treasury, profiles, receipts>>

\* The user and the treasury authority both sign.
SplWithdrawWithReceipt(signer, user, mint, amount) ==
    LET profile == ProfileOf(user)
        index == profile.tx_count
    IN  /\ Unpaused
        /\ amount > 0
        /\ profile.authority = user
        /\ IsAuthority(signer)
        /\ atas' = atas \cup {<<user, mint>>}
        /\ Transfer(TreasuryPda, user, mint, amount)
        /\ CreateReceipt(user, index,
                         NewReceipt(user, "DIR_WITHDRAW", mint, amount, index, 0))
        /\ profiles' = [profiles EXCEPT ![user] =
                          [profile EXCEPT !.tx_count = SaturatingAdd1(@)]]
        /\ event' = ValueEvent("WithdrawEvent", signer, user, mint, amount,
                               "UserToTreasury", <<user, index>>, index)
        /\ UNCHANGED treasury

\* Whether a payment executes, or rolls back: slot is the pay index from which
\* the caller derived the receipt address it passes.  The counter's last value
\* is never consumed: checked_add fails.
PayIsAccepted(signer, mint, amount, memo_len, slot) ==
    /\ Unpaused
    /\ IsPayReceiptSlot(slot)
    /\ amount > 0
    /\ memo_len <= MemoMax
    /\ IsAuthority(signer)
    /\ CheckedAdd1Fits(treasury.pay_count)
    /\ CanTransfer(TreasuryPda, mint, amount)
    /\ IsFree(TreasuryPda, slot)

SplPay(signer, recipient, mint, amount, memo_len, slot) ==
    /\ PayIsAccepted(signer, mint, amount, memo_len, slot)
    /\ atas' = atas \cup {<<recipient, mint>>}
    /\ Transfer(TreasuryPda, recipient, mint, amount)
    /\ CreateReceipt(TreasuryPda, slot,
                     NewReceipt(recipient, "DIR_PAY", mint, amount, slot, memo_len))
    /\ treasury' = [treasury EXCEPT !.pay_count = @ + 1]
    /\ event' = ValueEvent("SplPayEvent", signer, recipient, mint, amount,
                           "TreasuryToRecipient", <<TreasuryPda, slot>>, slot)
    /\ UNCHANGED profiles

-----------------------------------------------------------------------------
(* External: the token program and the associated token program, called by *)
(* wallets without this program.                                           *)

CreateAta(owner, mint) ==
    /\ <<owner, mint>> \notin atas
    /\ atas' = atas \cup {<<owner, mint>>}
    /\ UNCHANGED <<treasury, profiles, receipts, balance, event>>

\* A wallet closes its empty token account.
CloseAta(owner, mint) ==
    /\ <<owner, mint>> \in atas
    /\ balance[owner][mint] = 0
    /\ atas' = atas \ {<<owner, mint>>}
    /\ UNCHANGED <<treasury, profiles, receipts, balance, event>>

\* A wallet sends tokens to any token account, the treasury's included.
DirectTransfer(from, to, mint, amount) ==
    /\ <<to, mint>> \in atas
    /\ Transfer(from, to, mint, amount)
    /\ UNCHANGED <<treasury, profiles, receipts, atas, event>>

-----------------------------------------------------------------------------
GovernanceStep ==
    \E signer \in Wallets :
        \/ InitializeTreasury(signer)
        \/ \E paused \in BOOLEAN : SetTreasuryPaused(signer, paused)

DepositStep ==
    \E user \in Wallets, mint \in Mints, amount \in Amounts :
        \/ SplDeposit(user, mint, amount)
        \/ \E nonce \in U64 : SplDepositWithReceipt(user, mint, amount, nonce)

WithdrawStep ==
    \E signer \in Wallets, mint \in Mints, amount \in Amounts :
        \/ \E user \in Owners : SplWithdraw(signer, user, mint, amount)
        \/ \E user \in Wallets : SplWithdrawWithReceipt(signer, user, mint, amount)

PayStep ==
    \E signer \in Wallets, recipient \in Owners, mint \in Mints,
       amount \in Amounts, memo_len \in Memos, slot \in U64 :
        SplPay(signer, recipient, mint, amount, memo_len, slot)

TokenStep ==
    \/ \E owner \in Owners, mint \in Mints : CreateAta(owner, mint)
    \/ \E owner \in Wallets, mint \in Mints : CloseAta(owner, mint)
    \/ \E from \in Wallets, to \in Owners, mint \in Mints, amount \in Amounts :
           DirectTransfer(from, to, mint, amount)

Next == GovernanceStep \/ DepositStep \/ WithdrawStep \/ PayStep \/ TokenStep

Spec == Init /\ [][Next]_vars

-----------------------------------------------------------------------------
(* Properties *)

\* Every account has the shape its Rust type gives it.
TypeOK ==
    /\ treasury \in Treasuries \cup {None}
    /\ profiles \in [Wallets -> UserProfiles \cup {None}]
    /\ receipts \in [Owners -> [U64 -> Receipts \cup {None}]]
    /\ atas \subseteq Owners \X Mints
    /\ balance \in [Owners -> [Mints -> Nat]]
    /\ event \in ValueEvents \cup GovernanceEvents \cup {None}

PayCount == IF treasury = None THEN 0 ELSE treasury.pay_count
TxCount(user) == IF profiles[user] = None THEN 0 ELSE profiles[user].tx_count

\* The receipts of the treasury's seed family occupy exactly the indexes below
\* pay_count: no payment is missing from the trail, none is recorded twice,
\* and the address the next payment needs is free, so the counter cannot block
\* itself (spl_pay.rs: receipt `init` and the checked increment).
PayTrailContiguous ==
    \A i \in U64 : receipts[TreasuryPda][i] # None <=> i < PayCount

\* Below a user's tx_count every index of the user's seed family holds a
\* withdraw receipt, and no withdraw receipt lies above it, except the one the
\* saturated counter leaves behind (spl_withdraw_with_receipt.rs).
WithdrawTrailContiguous ==
    \A u \in Wallets, i \in U64 :
        LET isWithdraw == receipts[u][i] # None
                          /\ receipts[u][i].direction = "DIR_WITHDRAW"
        IN  /\ i < TxCount(u) => isWithdraw
            /\ isWithdraw => i < TxCount(u) \/ TxCount(u) = MaxU64

\* A receipt's address can be computed again from its own fields: a payment's
\* from the treasury and tx_count, any other from user and tx_count.  This is
\* what lets an indexer verify a receipt account it is handed.
ReceiptAddressRecoverable ==
    \A o \in Owners, i \in U64 :
        LET r == receipts[o][i]
        IN  r # None =>
              /\ r.tx_count = i
              /\ o = IF r.direction = "DIR_PAY" THEN TreasuryPda ELSE r.user

\* Funds are in token accounts that exist, whatever is created and closed
\* (init_if_needed of every handler; the token program closes only what is empty).
FundsAreHeld ==
    \A o \in Owners, m \in Mints : balance[o][m] > 0 => <<o, m>> \in atas

\* Receipts, counters and the authority form an append-only history: a created
\* receipt never changes, a counter never goes back, and the treasury's
\* authority is fixed by its initialization.
AuditTrailAppendOnly ==
    [][/\ \A o \in Owners, i \in U64 :
             receipts[o][i] # None => receipts'[o][i] = receipts[o][i]
       /\ PayCount <= PayCount'
       /\ \A u \in Wallets : TxCount(u) <= TxCount(u)'
       /\ treasury # None => /\ treasury' # None
                            /\ treasury'.authority = treasury.authority]_vars

\* The receipt this step created at <<o, i>> is its only one and says what the
\* step did: its amount of its mint moved between the treasury and its user.
Truthful(o, i) ==
    LET r == receipts'[o][i]
        from == IF r.direction = "DIR_DEPOSIT" THEN r.user ELSE TreasuryPda
        to == IF r.direction = "DIR_DEPOSIT" THEN TreasuryPda ELSE r.user
    IN  /\ \A p \in Owners, j \in U64 :
              <<p, j>> # <<o, i>> => receipts'[p][j] = receipts[p][j]
        /\ balance[from][r.mint] >= r.amount
        /\ balance' = Moved(from, to, r.mint, r.amount)

\* A step creates at most one receipt, and the receipt is truthful: no handler
\* records a transfer it did not make, nor another amount, mint, user or
\* direction.  (A payment to the treasury itself moves nothing.)
ReceiptsTruthful ==
    [][\A o \in Owners, i \in U64 :
         receipts[o][i] = None /\ receipts'[o][i] # None => Truthful(o, i)]_vars

\* Which event announces a receipt of which direction.
Announcement == [DIR_DEPOSIT |-> "DepositEvent", DIR_WITHDRAW |-> "WithdrawEvent",
                 DIR_PAY |-> "SplPayEvent"]

\* A receipt created at <<o, i>> is announced by the step that creates it, with
\* the receipt's own index, user, mint and amount; and a new event that names
\* <<o, i>> announces the receipt this very step created there.
AnnouncedAt(o, i) ==
    LET r == receipts'[o][i]
        created == receipts[o][i] = None /\ r # None
        named == event' \in ValueEvents /\ event'.receipt = <<o, i>>
    IN  /\ created => /\ named
                      /\ event'.name = Announcement[r.direction]
                      /\ event'.index = r.tx_count
                      /\ event'.user = r.user
                      /\ event'.mint = r.mint
                      /\ event'.amount = r.amount
        /\ named /\ event' # event => created

\* Events and receipts tell the same story: no receipt goes unannounced, none
\* is announced twice or before it exists, and an indexer that follows events
\* derives the receipt's address and finds in it what the event said.  Only the
\* transfer's direction is not asked for: the withdraw's event has it wrong.
ReceiptsAnnounced ==
    [][\A o \in Owners, i \in U64 : AnnouncedAt(o, i)]_vars

\* While the pause flag is up nothing leaves the treasury, no receipt is
\* written and no counter moves; before initialization neither.  Tokens sent
\* to the treasury's account without this program still arrive.
PauseFreezesTreasury ==
    [][treasury = None \/ treasury.paused =>
         /\ \A m \in Mints : balance[TreasuryPda][m] <= balance'[TreasuryPda][m]
         /\ UNCHANGED <<receipts, profiles>>
         /\ PayCount' = PayCount]_vars

\* Whatever leaves the treasury is announced by a withdraw or pay event of
\* exactly that amount, naming the account that received it, on the signature
\* of the recorded authority.
OutflowAnnounced ==
    [][\A m \in Mints :
         balance'[TreasuryPda][m] < balance[TreasuryPda][m] =>
           /\ event' \in ValueEvents
           /\ event'.name \in {"WithdrawEvent", "SplPayEvent"}
           /\ event'.authority = treasury.authority
           /\ event'.mint = m
           /\ balance[TreasuryPda][m] - balance'[TreasuryPda][m] = event'.amount
           /\ balance'[event'.user][m] - balance[event'.user][m] = event'.amount]_vars
=============================================================================
