----------------------- MODULE TreasuryProgramProofs -----------------------
(* Theorems about the on-chain program, for any set of wallets and mints,   *)
(* any counter width and any amounts.                                      *)
EXTENDS TreasuryRefinement, SequenceTheorems, TLAPS

\* What the other proofs use of the constants.
LEMMA ConstantFacts ==
    /\ Wallets \subseteq Owners
    /\ TreasuryPda \in Owners
    /\ TreasuryPda \notin Wallets
    /\ U64 \subseteq Nat
    /\ 0 \in U64
    /\ \A n \in U64 : n # MaxU64 => n + 1 \in U64
    /\ Amounts \subseteq Nat
    /\ Memos \subseteq Nat
BY ConstantsAssumption DEF Owners, U64

\* A transfer between two known owners leaves every balance a natural number.
LEMMA TransferTyped ==
    ASSUME TypeOK, NEW from \in Owners, NEW to \in Owners, NEW mint \in Mints,
           NEW amount \in Nat, Transfer(from, to, mint, amount)
    PROVE  balance' \in [Owners -> [Mints -> Nat]]
<1> DEFINE debited == [balance EXCEPT ![from][mint] = @ - amount]
<1>1. debited \in [Owners -> [Mints -> Nat]]
  <2>1. balance[from][mint] - amount \in Nat
    BY DEF TypeOK, Transfer, CanTransfer
  <2>2. QED
    BY <2>1 DEF TypeOK
<1>2. balance' = [debited EXCEPT ![to][mint] = @ + amount]
  BY DEF Transfer, CanTransfer, Moved
<1>3. debited[to][mint] + amount \in Nat
  BY <1>1
<1> HIDE DEF debited
<1>4. QED
  BY <1>1, <1>2, <1>3

\* Writing a receipt into a free address keeps the receipt accounts typed.
LEMMA CreateReceiptTyped ==
    ASSUME TypeOK, NEW owner \in Owners, NEW index \in U64,
           NEW receipt \in Receipts, CreateReceipt(owner, index, receipt)
    PROVE  receipts' \in [Owners -> [U64 -> Receipts \cup {None}]]
BY DEF TypeOK, CreateReceipt, IsFree

LEMMA NewReceiptTyped ==
    ASSUME NEW user \in Owners, NEW direction \in Directions, NEW mint \in Mints,
           NEW amount \in Nat \ {0}, NEW index \in U64, NEW memo_len \in Nat
    PROVE  NewReceipt(user, direction, mint, amount, index, memo_len) \in Receipts
BY DEF NewReceipt, Receipts

LEMMA ValueEventTyped ==
    ASSUME NEW name \in {"DepositEvent", "WithdrawEvent", "SplPayEvent"},
           NEW authority \in Wallets \cup {None}, NEW user \in Owners,
           NEW mint \in Mints, NEW amount \in Nat \ {0},
           NEW direction \in PayDirections,
           NEW receipt \in ReceiptSeeds \cup {None}, NEW index \in U64
    PROVE  ValueEvent(name, authority, user, mint, amount, direction, receipt,
                      index) \in ValueEvents
BY DEF ValueEvent, ValueEvents

LEMMA ProfileOfTyped ==
    ASSUME TypeOK, NEW user \in Wallets
    PROVE  /\ ProfileOf(user) \in UserProfiles
           /\ ProfileOf(user).tx_count = TxCount(user)
           /\ TxCount(user) \in U64
BY ConstantFacts, NoneAssumption DEF TypeOK, ProfileOf, UserProfiles, TxCount

LEMMA PayCountTyped ==
    ASSUME TypeOK
    PROVE  PayCount \in U64
BY ConstantFacts DEF TypeOK, PayCount, Treasuries

-----------------------------------------------------------------------------
LEMMA InitTyped == Init => TypeOK
<1> SUFFICES ASSUME Init PROVE TypeOK
  OBVIOUS
<1>1. balance \in [Owners -> [Mints -> Nat]]
  BY ConstantsAssumption DEF Init, Owners
<1>2. receipts \in [Owners -> [U64 -> Receipts \cup {None}]]
  BY DEF Init
<1>3. atas \subseteq Owners \X Mints
  BY ConstantFacts DEF Init
<1>4. QED
  BY <1>1, <1>2, <1>3 DEF Init, TypeOK

LEMMA StepTyped == TypeOK /\ [Next]_vars => TypeOK'
<1> SUFFICES ASSUME TypeOK, [Next]_vars PROVE TypeOK'
  OBVIOUS
<1> USE ConstantFacts
<1>1. ASSUME NEW signer \in Wallets, InitializeTreasury(signer)
      PROVE  TypeOK'
  BY <1>1 DEF TypeOK, InitializeTreasury, Treasuries, GovernanceEvents
<1>2. ASSUME NEW signer \in Wallets, NEW paused \in BOOLEAN,
             SetTreasuryPaused(signer, paused)
      PROVE  TypeOK'
  BY <1>2 DEF TypeOK, SetTreasuryPaused, Treasuries, GovernanceEvents
<1>3. ASSUME NEW user \in Wallets, NEW mint \in Mints, NEW amount \in Amounts,
             SplDeposit(user, mint, amount)
      PROVE  TypeOK'
  <2>1. balance' \in [Owners -> [Mints -> Nat]]
    BY <1>3, TransferTyped DEF SplDeposit
  <2>2. event' \in ValueEvents
    <3>1. event' = ValueEvent("DepositEvent", None, user, mint, amount,
                              "UserToTreasury", None, 0)
      BY <1>3 DEF SplDeposit
    <3>2. amount \in Nat \ {0}
      BY <1>3 DEF SplDeposit
    <3>3. QED
      BY <3>1, <3>2, ValueEventTyped DEF PayDirections
  <2>3. QED
    BY <1>3, <2>1, <2>2 DEF TypeOK, SplDeposit
<1>4. ASSUME NEW user \in Wallets, NEW mint \in Mints, NEW amount \in Amounts,
             NEW nonce \in U64, SplDepositWithReceipt(user, mint, amount, nonce)
      PROVE  TypeOK'
  <2>1. balance' \in [Owners -> [Mints -> Nat]]
    BY <1>4, TransferTyped DEF SplDepositWithReceipt
  <2> amount \in Nat \ {0}
    BY <1>4 DEF SplDepositWithReceipt
  <2>2. event' \in ValueEvents
    <3>1. event' = ValueEvent("DepositEvent", None, user, mint, amount,
                              "UserToTreasury", <<user, nonce>>, nonce)
      BY <1>4 DEF SplDepositWithReceipt
    <3>2. <<user, nonce>> \in ReceiptSeeds
      BY DEF ReceiptSeeds
    <3>3. QED
      BY <3>1, <3>2, ValueEventTyped DEF PayDirections
  <2>3. receipts' \in [Owners -> [U64 -> Receipts \cup {None}]]
    <3> DEFINE r == NewReceipt(user, "DIR_DEPOSIT", mint, amount, nonce, 0)
    <3>1. CreateReceipt(user, nonce, r)
      BY <1>4 DEF SplDepositWithReceipt
    <3>2. r \in Receipts
      BY NewReceiptTyped DEF Directions
    <3> HIDE DEF r
    <3>3. QED
      BY <3>1, <3>2, CreateReceiptTyped
  <2>4. QED
    BY <1>4, <2>1, <2>2, <2>3 DEF TypeOK, SplDepositWithReceipt
<1>5. ASSUME NEW signer \in Wallets, NEW user \in Owners, NEW mint \in Mints,
             NEW amount \in Amounts, SplWithdraw(signer, user, mint, amount)
      PROVE  TypeOK'
  <2>1. balance' \in [Owners -> [Mints -> Nat]]
    BY <1>5, TransferTyped DEF SplWithdraw
  <2>2. event' \in ValueEvents
    <3>1. event' = ValueEvent("WithdrawEvent", signer, user, mint, amount,
                              "TreasuryToUser", None, 0)
      BY <1>5 DEF SplWithdraw
    <3>2. amount \in Nat \ {0}
      BY <1>5 DEF SplWithdraw
    <3>3. QED
      BY <3>1, <3>2, ValueEventTyped DEF PayDirections
  <2>3. QED
    BY <1>5, <2>1, <2>2 DEF TypeOK, SplWithdraw
<1>6. ASSUME NEW signer \in Wallets, NEW user \in Wallets, NEW mint \in Mints,
             NEW amount \in Amounts,
             SplWithdrawWithReceipt(signer, user, mint, amount)
      PROVE  TypeOK'
  <2> DEFINE profile == ProfileOf(user)
             index == profile.tx_count
  <2>1. profile \in UserProfiles /\ index \in U64
    BY ProfileOfTyped DEF UserProfiles
  <2>2. profiles' \in [Wallets -> UserProfiles \cup {None}]
    <3>1. SaturatingAdd1(index) \in U64
      BY <2>1 DEF SaturatingAdd1
    <3>2. [profile EXCEPT !.tx_count = SaturatingAdd1(@)] \in UserProfiles
      BY <2>1, <3>1 DEF UserProfiles
    <3>3. profiles' = [profiles EXCEPT ![user] =
                         [profile EXCEPT !.tx_count = SaturatingAdd1(@)]]
      BY <1>6 DEF SplWithdrawWithReceipt
    <3> HIDE DEF profile
    <3>4. QED
      BY <3>2, <3>3 DEF TypeOK
  <2>3. balance' \in [Owners -> [Mints -> Nat]]
    BY <1>6, TransferTyped DEF SplWithdrawWithReceipt
  <2>4. event' \in ValueEvents
    <3>1. event' = ValueEvent("WithdrawEvent", signer, user, mint, amount,
                              "UserToTreasury", <<user, index>>, index)
      BY <1>6 DEF SplWithdrawWithReceipt
    <3>2. amount \in Nat \ {0} /\ <<user, index>> \in ReceiptSeeds
      BY <1>6, <2>1 DEF SplWithdrawWithReceipt, ReceiptSeeds
    <3>3. QED
      BY <2>1, <3>1, <3>2, ValueEventTyped DEF PayDirections
  <2>5. receipts' \in [Owners -> [U64 -> Receipts \cup {None}]]
    <3>1. CreateReceipt(user, index, NewReceipt(user, "DIR_WITHDRAW", mint, amount, index, 0))
      BY <1>6 DEF SplWithdrawWithReceipt
    <3>2. NewReceipt(user, "DIR_WITHDRAW", mint, amount, index, 0) \in Receipts
      BY <1>6, <2>1, NewReceiptTyped DEF SplWithdrawWithReceipt, Directions
    <3>3. QED
      BY <2>1, <3>1, <3>2, CreateReceiptTyped
  <2>6. treasury' = treasury /\ atas' = atas \cup {<<user, mint>>}
    BY <1>6 DEF SplWithdrawWithReceipt
  <2>7. QED
    BY <2>2, <2>3, <2>4, <2>5, <2>6 DEF TypeOK
<1>7. ASSUME NEW signer \in Wallets, NEW recipient \in Owners, NEW mint \in Mints,
             NEW amount \in Amounts, NEW memo_len \in Memos, NEW slot \in U64,
             SplPay(signer, recipient, mint, amount, memo_len, slot)
      PROVE  TypeOK'
  <2> amount \in Nat \ {0} /\ memo_len \in Nat
    BY <1>7 DEF SplPay, PayIsAccepted
  <2>1. balance' \in [Owners -> [Mints -> Nat]]
    BY <1>7, TransferTyped DEF SplPay, PayIsAccepted
  <2>2. event' \in ValueEvents
    <3>1. event' = ValueEvent("SplPayEvent", signer, recipient, mint, amount,
                              "TreasuryToRecipient", <<TreasuryPda, slot>>, slot)
      BY <1>7 DEF SplPay, PayIsAccepted
    <3>2. <<TreasuryPda, slot>> \in ReceiptSeeds
      BY DEF ReceiptSeeds
    <3>3. QED
      BY <3>1, <3>2, ValueEventTyped DEF PayDirections
  <2>3. receipts' \in [Owners -> [U64 -> Receipts \cup {None}]]
    <3> DEFINE r == NewReceipt(recipient, "DIR_PAY", mint, amount, slot, memo_len)
    <3>1. CreateReceipt(TreasuryPda, slot, r)
      BY <1>7 DEF SplPay, PayIsAccepted
    <3>2. r \in Receipts
      BY NewReceiptTyped DEF Directions
    <3> HIDE DEF r
    <3>3. QED
      BY <3>1, <3>2, CreateReceiptTyped
  <2>4. treasury' \in Treasuries
    <3>1. treasury \in Treasuries /\ treasury.pay_count < MaxU64
      BY <1>7 DEF TypeOK, SplPay, PayIsAccepted, Unpaused, CheckedAdd1Fits
    <3>2. treasury.pay_count + 1 \in U64
      BY <3>1, ConstantsAssumption DEF Treasuries, U64
    <3>3. treasury' = [treasury EXCEPT !.pay_count = @ + 1]
      BY <1>7 DEF SplPay, PayIsAccepted
    <3>4. QED
      BY <3>1, <3>2, <3>3 DEF Treasuries
  <2>5. profiles' = profiles /\ atas' = atas \cup {<<recipient, mint>>}
    BY <1>7 DEF SplPay, PayIsAccepted
  <2>6. QED
    BY <2>1, <2>2, <2>3, <2>4, <2>5 DEF TypeOK
<1>8. ASSUME NEW owner \in Owners, NEW mint \in Mints, CreateAta(owner, mint)
      PROVE  TypeOK'
  BY <1>8 DEF TypeOK, CreateAta
<1>9. ASSUME NEW owner \in Wallets, NEW mint \in Mints, CloseAta(owner, mint)
      PROVE  TypeOK'
  BY <1>9 DEF TypeOK, CloseAta
<1>10. ASSUME NEW from \in Wallets, NEW to \in Owners, NEW mint \in Mints,
              NEW amount \in Amounts, DirectTransfer(from, to, mint, amount)
       PROVE  TypeOK'
  <2>1. balance' \in [Owners -> [Mints -> Nat]]
    BY <1>10, TransferTyped DEF DirectTransfer
  <2>2. QED
    BY <1>10, <2>1 DEF TypeOK, DirectTransfer
<1>11. CASE UNCHANGED vars
  BY <1>11 DEF TypeOK, vars
<1>12. QED
  BY <1>1, <1>2, <1>3, <1>4, <1>5, <1>6, <1>7, <1>8, <1>9, <1>10, <1>11
     DEF Next, GovernanceStep, DepositStep, WithdrawStep, PayStep, TokenStep

\* The accounts keep the shape of their Rust types, whatever instructions run
\* in whatever order (state/treasury.rs, state/receipt.rs, state/user_profile.rs).
THEOREM TypeCorrect == Spec => []TypeOK
<1>1. QED
  BY InitTyped, StepTyped, PTL DEF Spec

-----------------------------------------------------------------------------
(* The receipt trails.  Their conjunction is inductive together with the     *)
(* types: a payment is written at pay_count, the first free index of the    *)
(* treasury's family, and a receipted withdraw at tx_count, below which     *)
(* every index of the user's family is taken, so that no deposit nonce and  *)
(* no other instruction can fill or empty an index below a counter.         *)

Trails ==
    /\ PayTrailContiguous
    /\ WithdrawTrailContiguous
    /\ ReceiptAddressRecoverable

\* A step that leaves the counters and receipts alone keeps the trails.
LEMMA TrailsUnchanged ==
    ASSUME Trails, PayCount' = PayCount, UNCHANGED <<receipts, profiles>>
    PROVE  Trails'
BY DEF Trails, PayTrailContiguous, WithdrawTrailContiguous, TxCount,
       ReceiptAddressRecoverable

LEMMA NewReceiptFields ==
    ASSUME NEW user \in Owners, NEW direction \in Directions, NEW mint \in Mints,
           NEW amount \in Nat \ {0}, NEW index \in U64, NEW memo_len \in Nat
    PROVE  LET r == NewReceipt(user, direction, mint, amount, index, memo_len)
           IN  /\ r.user = user
               /\ r.direction = direction
               /\ r.tx_count = index
               /\ r # None
<1>1. NewReceipt(user, direction, mint, amount, index, memo_len) \in Receipts
  BY NewReceiptTyped
<1>2. QED
  BY <1>1, NoneAssumption DEF NewReceipt

LEMMA InitTrails == Init => Trails
<1> SUFFICES ASSUME Init PROVE Trails
  OBVIOUS
<1>1. PayTrailContiguous
  BY ConstantFacts DEF Init, PayTrailContiguous, PayCount
<1>2. WithdrawTrailContiguous
  BY ConstantFacts DEF Init, WithdrawTrailContiguous, TxCount
<1>3. ReceiptAddressRecoverable
  BY DEF Init, ReceiptAddressRecoverable
<1>4. QED
  BY <1>1, <1>2, <1>3 DEF Trails

LEMMA DepositReceiptTrails ==
    ASSUME TypeOK, Trails, NEW user \in Wallets, NEW mint \in Mints,
           NEW amount \in Amounts, NEW nonce \in U64,
           SplDepositWithReceipt(user, mint, amount, nonce)
    PROVE  Trails'
<1> USE ConstantFacts
<1> DEFINE r == NewReceipt(user, "DIR_DEPOSIT", mint, amount, nonce, 0)
<1>1. /\ receipts[user][nonce] = None
      /\ receipts' = [receipts EXCEPT ![user][nonce] = r]
      /\ PayCount' = PayCount
      /\ profiles' = profiles
  BY DEF SplDepositWithReceipt, CreateReceipt, IsFree, PayCount
<1>2. r.user = user /\ r.direction = "DIR_DEPOSIT" /\ r.tx_count = nonce /\ r # None
  BY NewReceiptFields DEF SplDepositWithReceipt, Directions
<1> HIDE DEF r
<1>3. PayTrailContiguous'
  BY <1>1, <1>2 DEF TypeOK, Trails, PayTrailContiguous
<1>4. WithdrawTrailContiguous'
  BY <1>1, <1>2 DEF TypeOK, Trails, WithdrawTrailContiguous, TxCount
<1>5. ReceiptAddressRecoverable'
  BY <1>1, <1>2 DEF TypeOK, Trails, ReceiptAddressRecoverable
<1>6. QED
  BY <1>3, <1>4, <1>5 DEF Trails

LEMMA WithdrawReceiptTrails ==
    ASSUME TypeOK, Trails, NEW signer \in Wallets, NEW user \in Wallets,
           NEW mint \in Mints, NEW amount \in Amounts,
           SplWithdrawWithReceipt(signer, user, mint, amount)
    PROVE  Trails'
<1> USE ConstantFacts
<1> DEFINE n == ProfileOf(user).tx_count
           r == NewReceipt(user, "DIR_WITHDRAW", mint, amount, n, 0)
<1>1. n \in U64 /\ n = TxCount(user)
  BY ProfileOfTyped
<1>2. /\ receipts[user][n] = None
      /\ receipts' = [receipts EXCEPT ![user][n] = r]
      /\ PayCount' = PayCount
  BY DEF SplWithdrawWithReceipt, CreateReceipt, IsFree, PayCount
<1>3. r.user = user /\ r.direction = "DIR_WITHDRAW" /\ r.tx_count = n /\ r # None
  BY <1>1, NewReceiptFields DEF SplWithdrawWithReceipt, Directions
<1>4. \A u \in Wallets :
        TxCount(u)' = IF u = user THEN SaturatingAdd1(n) ELSE TxCount(u)
  <2>1. profiles' = [profiles EXCEPT ![user] =
                       [ProfileOf(user) EXCEPT !.tx_count = SaturatingAdd1(@)]]
    BY DEF SplWithdrawWithReceipt
  <2>2. ProfileOf(user) \in UserProfiles
    BY ProfileOfTyped
  <2>3. [ProfileOf(user) EXCEPT !.tx_count = SaturatingAdd1(@)] # None
    <3>1. SaturatingAdd1(n) \in U64
      BY <1>1 DEF SaturatingAdd1
    <3>2. [ProfileOf(user) EXCEPT !.tx_count = SaturatingAdd1(@)] \in UserProfiles
      BY <2>2, <3>1 DEF UserProfiles
    <3>3. QED
      BY <3>2, NoneAssumption
  <2>4. QED
    BY <2>1, <2>2, <2>3 DEF TypeOK, TxCount, UserProfiles
<1> HIDE DEF r, n
<1>5. PayTrailContiguous'
  BY <1>1, <1>2, <1>3 DEF TypeOK, Trails, PayTrailContiguous
<1>6. WithdrawTrailContiguous'
  <2> SUFFICES ASSUME NEW u \in Wallets, NEW i \in U64
               PROVE  LET isWithdraw == receipts'[u][i] # None
                               /\ receipts'[u][i].direction = "DIR_WITHDRAW"
                      IN  /\ i < TxCount(u)' => isWithdraw
                          /\ isWithdraw => i < TxCount(u)' \/ TxCount(u)' = MaxU64
    BY DEF WithdrawTrailContiguous
  <2>1. CASE u # user
    BY <1>1, <1>2, <1>4, <2>1 DEF TypeOK, Trails, WithdrawTrailContiguous
  <2>2. CASE u = user /\ i # n
    BY <1>1, <1>2, <1>4, <2>2, ConstantsAssumption
       DEF TypeOK, Trails, WithdrawTrailContiguous, SaturatingAdd1, U64
  <2>3. CASE u = user /\ i = n
    BY <1>1, <1>2, <1>3, <1>4, <2>3, ConstantsAssumption
       DEF TypeOK, SaturatingAdd1, U64
  <2>4. QED
    BY <2>1, <2>2, <2>3
<1>7. ReceiptAddressRecoverable'
  BY <1>1, <1>2, <1>3 DEF TypeOK, Trails, ReceiptAddressRecoverable
<1>8. QED
  BY <1>5, <1>6, <1>7 DEF Trails

LEMMA PayTrails ==
    ASSUME TypeOK, Trails, NEW signer \in Wallets, NEW recipient \in Owners,
           NEW mint \in Mints, NEW amount \in Amounts, NEW memo_len \in Memos,
           NEW slot \in U64, SplPay(signer, recipient, mint, amount, memo_len, slot)
    PROVE  Trails'
<1> USE ConstantFacts
<1> DEFINE r == NewReceipt(recipient, "DIR_PAY", mint, amount, slot, memo_len)
<1>1. /\ receipts[TreasuryPda][slot] = None
      /\ receipts' = [receipts EXCEPT ![TreasuryPda][slot] = r]
      /\ profiles' = profiles
  BY DEF SplPay, PayIsAccepted, CreateReceipt, IsFree
<1>2. slot = PayCount /\ PayCount' = slot + 1
  <2>1. treasury \in Treasuries /\ slot = treasury.pay_count
    BY DEF TypeOK, SplPay, PayIsAccepted, Unpaused, IsPayReceiptSlot
  <2>2. treasury' = [treasury EXCEPT !.pay_count = @ + 1]
    BY DEF SplPay, PayIsAccepted
  <2>3. treasury' # None
    <3>1. treasury.pay_count + 1 \in U64
      BY <2>1, ConstantsAssumption DEF SplPay, PayIsAccepted, CheckedAdd1Fits, Treasuries, U64
    <3>2. treasury' \in Treasuries
      BY <2>1, <2>2, <3>1 DEF Treasuries
    <3>3. QED
      BY <3>2, NoneAssumption
  <2>4. QED
    BY <2>1, <2>2, <2>3, NoneAssumption DEF PayCount, Treasuries
<1>3. r.user = recipient /\ r.direction = "DIR_PAY" /\ r.tx_count = slot /\ r # None
  BY NewReceiptFields DEF SplPay, PayIsAccepted, Directions
<1> HIDE DEF r
<1>4. PayTrailContiguous'
  BY <1>1, <1>2, <1>3 DEF TypeOK, Trails, PayTrailContiguous
<1>5. WithdrawTrailContiguous'
  BY <1>1 DEF TypeOK, Trails, WithdrawTrailContiguous, TxCount
<1>6. ReceiptAddressRecoverable'
  BY <1>1, <1>3 DEF TypeOK, Trails, ReceiptAddressRecoverable
<1>7. QED
  BY <1>4, <1>5, <1>6 DEF Trails

LEMMA StepTrails == TypeOK /\ Trails /\ [Next]_vars => Trails'
<1> SUFFICES ASSUME TypeOK, Trails, [Next]_vars PROVE Trails'
  OBVIOUS
<1>1. ASSUME NEW signer \in Wallets, InitializeTreasury(signer)
      PROVE  Trails'
  <2>1. treasury = None /\ treasury' # None /\ treasury'.pay_count = 0
    <3>1. treasury' = [authority |-> signer, paused |-> FALSE, pay_count |-> 0]
      BY <1>1 DEF InitializeTreasury
    <3>2. treasury' \in Treasuries
      BY <3>1, ConstantFacts DEF Treasuries
    <3>3. treasury = None
      BY <1>1 DEF InitializeTreasury
    <3>4. treasury' # None
      BY <3>2, NoneAssumption
    <3>5. treasury'.pay_count = 0
      BY <3>1
    <3>6. QED
      BY <3>3, <3>4, <3>5
  <2>2. PayCount' = PayCount
    BY <2>1 DEF PayCount
  <2>3. QED
    BY <1>1, <2>2, TrailsUnchanged DEF InitializeTreasury
<1>2. ASSUME NEW signer \in Wallets, NEW paused \in BOOLEAN,
             SetTreasuryPaused(signer, paused)
      PROVE  Trails'
  <2>1. treasury \in Treasuries /\ treasury' \in Treasuries
        /\ treasury'.pay_count = treasury.pay_count
    BY <1>2 DEF SetTreasuryPaused, TypeOK, Treasuries
  <2>2. PayCount' = PayCount
    BY <2>1, NoneAssumption DEF PayCount
  <2>3. QED
    BY <1>2, <2>2, TrailsUnchanged DEF SetTreasuryPaused
<1>3. ASSUME UNCHANGED <<treasury, profiles, receipts>>
      PROVE  Trails'
  BY <1>3, TrailsUnchanged DEF PayCount
<1>4. CASE GovernanceStep
  BY <1>1, <1>2, <1>4 DEF GovernanceStep
<1>5. CASE DepositStep
  BY <1>3, <1>5, DepositReceiptTrails DEF DepositStep, SplDeposit
<1>6. CASE WithdrawStep
  BY <1>3, <1>6, WithdrawReceiptTrails DEF WithdrawStep, SplWithdraw
<1>7. CASE PayStep
  BY <1>7, PayTrails DEF PayStep
<1>8. CASE TokenStep
  BY <1>3, <1>8 DEF TokenStep, CreateAta, CloseAta, DirectTransfer
<1>9. CASE UNCHANGED vars
  BY <1>3, <1>9 DEF vars
<1>10. QED
  BY <1>4, <1>5, <1>6, <1>7, <1>8, <1>9 DEF Next

THEOREM TrailsHold == Spec => []Trails
<1>1. TypeOK /\ Trails /\ [Next]_vars => TypeOK' /\ Trails'
  BY StepTyped, StepTrails
<1>2. Init => TypeOK /\ Trails
  BY InitTyped, InitTrails
<1>3. QED
  BY <1>1, <1>2, PTL DEF Spec

\* The pay receipts occupy exactly the indexes below pay_count: the trail of
\* payments has no gap and no payment can be blocked by an earlier one.
THEOREM PayTrailIsContiguous == Spec => []PayTrailContiguous
BY TrailsHold, PTL DEF Trails

\* Below a user's tx_count every receipt of the user is a withdraw receipt,
\* above it none is, up to the index the saturated counter leaves behind.
THEOREM WithdrawTrailIsContiguous == Spec => []WithdrawTrailContiguous
BY TrailsHold, PTL DEF Trails

\* Every receipt's address follows from the receipt's own fields.
THEOREM ReceiptAddressIsRecoverable == Spec => []ReceiptAddressRecoverable
BY TrailsHold, PTL DEF Trails

-----------------------------------------------------------------------------
(* What one step of the program may do: the action properties of           *)
(* TreasuryProgram, each from type correctness alone.                      *)

-----------------------------------------------------------------------------
(* What each kind of step does to each part of the state. *)

\* A step writes at most one receipt, into a free address.
LEMMA StepReceipts ==
    ASSUME TypeOK, [Next]_vars
    PROVE  \/ receipts' = receipts
           \/ \E o \in Owners, i \in U64, r \in Receipts : CreateReceipt(o, i, r)
<1> USE ConstantFacts
<1>1. ASSUME NEW user \in Wallets, NEW mint \in Mints, NEW amount \in Amounts,
             NEW nonce \in U64, SplDepositWithReceipt(user, mint, amount, nonce)
      PROVE  \E o \in Owners, i \in U64, r \in Receipts : CreateReceipt(o, i, r)
  <2>1. NewReceipt(user, "DIR_DEPOSIT", mint, amount, nonce, 0) \in Receipts
    BY <1>1, NewReceiptTyped DEF SplDepositWithReceipt, Directions
  <2>2. QED
    BY <1>1, <2>1 DEF SplDepositWithReceipt
<1>2. ASSUME NEW signer \in Wallets, NEW user \in Wallets, NEW mint \in Mints,
             NEW amount \in Amounts,
             SplWithdrawWithReceipt(signer, user, mint, amount)
      PROVE  \E o \in Owners, i \in U64, r \in Receipts : CreateReceipt(o, i, r)
  <2> DEFINE n == ProfileOf(user).tx_count
  <2>1. n \in U64
    BY ProfileOfTyped
  <2>2. NewReceipt(user, "DIR_WITHDRAW", mint, amount, n, 0) \in Receipts
    BY <1>2, <2>1, NewReceiptTyped DEF SplWithdrawWithReceipt, Directions
  <2>3. CreateReceipt(user, n, NewReceipt(user, "DIR_WITHDRAW", mint, amount, n, 0))
    BY <1>2 DEF SplWithdrawWithReceipt
  <2> HIDE DEF n
  <2>4. QED
    BY <2>1, <2>2, <2>3
<1>3. ASSUME NEW signer \in Wallets, NEW recipient \in Owners, NEW mint \in Mints,
             NEW amount \in Amounts, NEW memo_len \in Memos, NEW slot \in U64,
             SplPay(signer, recipient, mint, amount, memo_len, slot)
      PROVE  \E o \in Owners, i \in U64, r \in Receipts : CreateReceipt(o, i, r)
  <2>1. NewReceipt(recipient, "DIR_PAY", mint, amount, slot, memo_len) \in Receipts
    BY <1>3, NewReceiptTyped DEF SplPay, PayIsAccepted, Directions
  <2>2. QED
    BY <1>3, <2>1 DEF SplPay, PayIsAccepted
<1>4. CASE GovernanceStep \/ TokenStep \/ UNCHANGED vars
  BY <1>4 DEF GovernanceStep, InitializeTreasury, SetTreasuryPaused, TokenStep,
     CreateAta, CloseAta, DirectTransfer, vars
<1>5. CASE DepositStep
  BY <1>1, <1>5 DEF DepositStep, SplDeposit
<1>6. CASE WithdrawStep
  BY <1>2, <1>6 DEF WithdrawStep, SplWithdraw
<1>7. CASE PayStep
  BY <1>3, <1>7 DEF PayStep
<1>8. QED
  BY <1>4, <1>5, <1>6, <1>7 DEF Next

\* The treasury account is created once, with a zero counter; after that the
\* authority stays and the counter moves by at most one.
LEMMA StepTreasury ==
    ASSUME TypeOK, [Next]_vars
    PROVE  \/ treasury' = treasury
           \/ treasury = None /\ treasury' \in Treasuries /\ treasury'.pay_count = 0
           \/ /\ treasury \in Treasuries
              /\ treasury' \in Treasuries
              /\ treasury'.authority = treasury.authority
              /\ treasury'.pay_count \in {treasury.pay_count, treasury.pay_count + 1}
<1> USE ConstantFacts
<1>1. ASSUME NEW signer \in Wallets, InitializeTreasury(signer)
      PROVE  treasury = None /\ treasury' \in Treasuries /\ treasury'.pay_count = 0
  BY <1>1 DEF InitializeTreasury, Treasuries
<1>2. ASSUME NEW signer \in Wallets, NEW paused \in BOOLEAN,
             SetTreasuryPaused(signer, paused)
      PROVE  /\ treasury \in Treasuries
             /\ treasury' \in Treasuries
             /\ treasury'.authority = treasury.authority
             /\ treasury'.pay_count = treasury.pay_count
  BY <1>2 DEF SetTreasuryPaused, TypeOK, Treasuries
<1>3. ASSUME NEW signer \in Wallets, NEW recipient \in Owners, NEW mint \in Mints,
             NEW amount \in Amounts, NEW memo_len \in Memos, NEW slot \in U64,
             SplPay(signer, recipient, mint, amount, memo_len, slot)
      PROVE  /\ treasury \in Treasuries
             /\ treasury' \in Treasuries
             /\ treasury'.authority = treasury.authority
             /\ treasury'.pay_count = treasury.pay_count + 1
  <2>1. treasury \in Treasuries
    BY <1>3 DEF SplPay, PayIsAccepted, Unpaused, TypeOK
  <2>2. treasury.pay_count + 1 \in U64
    BY <1>3, <2>1, ConstantsAssumption
       DEF SplPay, PayIsAccepted, CheckedAdd1Fits, Treasuries, U64
  <2>3. treasury' = [treasury EXCEPT !.pay_count = @ + 1]
    BY <1>3 DEF SplPay, PayIsAccepted
  <2>4. QED
    BY <2>1, <2>2, <2>3 DEF Treasuries
<1>4. CASE DepositStep \/ WithdrawStep \/ TokenStep \/ UNCHANGED vars
  BY <1>4 DEF DepositStep, SplDeposit, SplDepositWithReceipt, WithdrawStep,
     SplWithdraw, SplWithdrawWithReceipt, TokenStep, CreateAta, CloseAta,
     DirectTransfer, vars
<1>5. CASE GovernanceStep
  BY <1>1, <1>2, <1>5 DEF GovernanceStep
<1>6. CASE PayStep
  BY <1>3, <1>6 DEF PayStep
<1>7. QED
  BY <1>4, <1>5, <1>6 DEF Next

\* At most one profile changes, by a saturating increment of its counter.
LEMMA StepProfiles ==
    ASSUME TypeOK, [Next]_vars
    PROVE  \/ profiles' = profiles
           \/ \E u \in Wallets :
                profiles' = [profiles EXCEPT ![u] =
                    [ProfileOf(u) EXCEPT !.tx_count = SaturatingAdd1(@)]]
<1>1. ASSUME GovernanceStep \/ DepositStep \/ PayStep \/ TokenStep \/ UNCHANGED vars
      PROVE  profiles' = profiles
  <2>1. CASE GovernanceStep
    BY <2>1 DEF GovernanceStep, InitializeTreasury, SetTreasuryPaused
  <2>2. CASE DepositStep
    BY <2>2 DEF DepositStep, SplDeposit, SplDepositWithReceipt
  <2>3. CASE PayStep
    BY <2>3 DEF PayStep, SplPay, PayIsAccepted
  <2>4. CASE TokenStep
    BY <2>4 DEF TokenStep, CreateAta, CloseAta, DirectTransfer
  <2>5. QED
    BY <1>1, <2>1, <2>2, <2>3, <2>4 DEF vars
<1>2. ASSUME NEW signer \in Wallets, NEW user \in Wallets, NEW mint \in Mints,
             NEW amount \in Amounts,
             SplWithdrawWithReceipt(signer, user, mint, amount)
      PROVE  profiles' = [profiles EXCEPT ![user] =
                 [ProfileOf(user) EXCEPT !.tx_count = SaturatingAdd1(@)]]
  BY <1>2 DEF SplWithdrawWithReceipt
<1>3. ASSUME NEW signer, NEW user, NEW mint, NEW amount,
             SplWithdraw(signer, user, mint, amount)
      PROVE  profiles' = profiles
  BY <1>3 DEF SplWithdraw
<1>4. CASE WithdrawStep
  <2>1. PICK signer \in Wallets, mint \in Mints, amount \in Amounts :
          \/ \E user \in Owners : SplWithdraw(signer, user, mint, amount)
          \/ \E user \in Wallets : SplWithdrawWithReceipt(signer, user, mint, amount)
    BY <1>4 DEF WithdrawStep
  <2>2. QED
    BY <1>2, <1>3, <2>1
<1>5. QED
  BY <1>1, <1>4 DEF Next

\* The balances after a transfer.
LEMMA TransferEffect ==
    ASSUME TypeOK, NEW from \in Owners, NEW to \in Owners, NEW mint \in Mints,
           NEW amount \in Nat, Transfer(from, to, mint, amount),
           NEW o \in Owners, NEW m \in Mints
    PROVE  balance'[o][m] =
             IF m # mint \/ from = to THEN balance[o][m]
             ELSE IF o = from THEN balance[o][m] - amount
             ELSE IF o = to THEN balance[o][m] + amount
             ELSE balance[o][m]
<1> DEFINE debited == [balance EXCEPT ![from][mint] = @ - amount]
<1>1. balance' = [debited EXCEPT ![to][mint] = @ + amount]
  BY DEF Transfer, CanTransfer, Moved
<1>2. \A p \in Owners, n \in Mints :
         debited[p][n] = IF p = from /\ n = mint THEN balance[p][n] - amount
                                                ELSE balance[p][n]
  BY DEF TypeOK
<1>3. debited \in [Owners -> [Mints -> Nat]]
  <2>1. balance[from][mint] - amount \in Nat
    BY DEF TypeOK, Transfer, CanTransfer
  <2>2. QED
    BY <2>1 DEF TypeOK
<1> HIDE DEF debited
<1>4. balance'[o][m] = IF o = to /\ m = mint THEN debited[o][m] + amount
                                            ELSE debited[o][m]
  BY <1>1, <1>3
<1>5. QED
  BY <1>2, <1>4 DEF TypeOK

-----------------------------------------------------------------------------
(* The theorems.                                                            *)

\* Receipts, counters and the authority form an append-only history: receipts
\* are created by `init` and never written again, counters only go up, and no
\* instruction changes the recorded authority.
THEOREM AuditTrailIsAppendOnly == Spec => AuditTrailAppendOnly
<1> DEFINE Kept ==
      /\ \A o \in Owners, i \in U64 :
            receipts[o][i] # None => receipts'[o][i] = receipts[o][i]
      /\ PayCount <= PayCount'
      /\ \A u \in Wallets : TxCount(u) <= TxCount(u)'
      /\ treasury # None => /\ treasury' # None
                           /\ treasury'.authority = treasury.authority
<1>1. ASSUME TypeOK, [Next]_vars PROVE Kept
  <2>1. \A o \in Owners, i \in U64 :
           receipts[o][i] # None => receipts'[o][i] = receipts[o][i]
    <3>1. CASE receipts' = receipts
      BY <3>1
    <3>2. ASSUME NEW p \in Owners, NEW j \in U64, NEW r \in Receipts,
                 CreateReceipt(p, j, r),
                 NEW o \in Owners, NEW i \in U64, receipts[o][i] # None
          PROVE  receipts'[o][i] = receipts[o][i]
      <4>1. receipts \in [Owners -> [U64 -> Receipts \cup {None}]]
        BY <1>1 DEF TypeOK
      <4>2. receipts' = [receipts EXCEPT ![p][j] = r] /\ receipts[p][j] = None
        BY <3>2 DEF CreateReceipt, IsFree
      <4>3. <<o, i>> # <<p, j>>
        BY <3>2, <4>2
      <4>4. QED
        BY <3>2, <4>1, <4>2, <4>3
    <3>3. QED
      BY <1>1, <3>1, <3>2, StepReceipts
  <2>2. PayCount <= PayCount'
    BY <1>1, StepTreasury, NoneAssumption, ConstantFacts
       DEF PayCount, Treasuries, TypeOK
  <2>3. ASSUME NEW u \in Wallets PROVE TxCount(u) <= TxCount(u)'
    <3>1. TxCount(u) \in Nat
      BY <1>1, ProfileOfTyped, ConstantFacts
    <3>2. CASE profiles' = profiles
      BY <3>1, <3>2 DEF TxCount
    <3>3. ASSUME NEW v \in Wallets,
                 profiles' = [profiles EXCEPT ![v] =
                     [ProfileOf(v) EXCEPT !.tx_count = SaturatingAdd1(@)]]
          PROVE  TxCount(u) <= TxCount(u)'
      <4> DEFINE q == [ProfileOf(v) EXCEPT !.tx_count = SaturatingAdd1(@)]
      <4>1. ProfileOf(v) \in UserProfiles /\ ProfileOf(v).tx_count = TxCount(v)
        BY <1>1, ProfileOfTyped
      <4>2. SaturatingAdd1(TxCount(v)) \in U64 /\ TxCount(v) <= SaturatingAdd1(TxCount(v))
        <5>1. TxCount(v) \in U64 /\ TxCount(v) \in Nat
          BY <1>1, ProfileOfTyped, ConstantFacts
        <5>2. CASE TxCount(v) = MaxU64
          BY <5>1, <5>2 DEF SaturatingAdd1
        <5>3. CASE TxCount(v) # MaxU64
          BY <5>1, <5>3, ConstantFacts DEF SaturatingAdd1
        <5>4. QED
          BY <5>2, <5>3
      <4>3. q \in UserProfiles /\ q.tx_count = SaturatingAdd1(TxCount(v))
        BY <4>1, <4>2 DEF UserProfiles
      <4>4. profiles'[u] = IF u = v THEN q ELSE profiles[u]
        BY <1>1, <3>3 DEF TypeOK
      <4>5. q # None
        BY <4>3, NoneAssumption
      <4> HIDE DEF q
      <4>6. CASE u = v
        BY <4>2, <4>3, <4>4, <4>5, <4>6 DEF TxCount
      <4>7. CASE u # v
        BY <3>1, <4>4, <4>7 DEF TxCount
      <4>8. QED
        BY <4>6, <4>7
    <3>4. QED
      BY <1>1, <3>2, <3>3, StepProfiles
  <2>4. treasury # None => treasury' # None /\ treasury'.authority = treasury.authority
    BY <1>1, StepTreasury, NoneAssumption
  <2>5. QED
    BY <2>1, <2>2, <2>3, <2>4
<1>2. QED
  BY <1>1, TypeCorrect, PTL DEF Spec, AuditTrailAppendOnly

Frozen ==
    /\ \A m \in Mints : balance[TreasuryPda][m] <= balance'[TreasuryPda][m]
    /\ UNCHANGED <<receipts, profiles>>
    /\ PayCount' = PayCount

LEMMA PausedStep ==
    ASSUME TypeOK, [Next]_vars, ~Unpaused
    PROVE  Frozen
<1> USE ConstantFacts
<1>1. ~(DepositStep \/ WithdrawStep \/ PayStep)
  <2>1. ~DepositStep
    BY DEF DepositStep, SplDeposit, SplDepositWithReceipt
  <2>2. ~WithdrawStep
    BY DEF WithdrawStep, SplWithdraw, SplWithdrawWithReceipt
  <2>3. ASSUME NEW signer \in Wallets, NEW recipient \in Owners,
               NEW mint \in Mints, NEW amount \in Amounts,
               NEW memo_len \in Memos, NEW slot \in U64
        PROVE  ~SplPay(signer, recipient, mint, amount, memo_len, slot)
    BY DEF SplPay, PayIsAccepted
  <2>4. QED
    BY <2>1, <2>2, <2>3 DEF PayStep
<1>2. CASE GovernanceStep
  <2>1. UNCHANGED <<receipts, profiles, balance>>
    BY <1>2 DEF GovernanceStep, InitializeTreasury, SetTreasuryPaused
  <2>2. PayCount' = PayCount
    <3>1. ASSUME NEW signer \in Wallets, InitializeTreasury(signer)
          PROVE  PayCount' = 0 /\ PayCount = 0
      BY <3>1 DEF InitializeTreasury, PayCount
    <3>2. ASSUME NEW signer \in Wallets, NEW paused \in BOOLEAN,
                 SetTreasuryPaused(signer, paused)
          PROVE  PayCount' = PayCount
      <4>1. treasury \in Treasuries /\ treasury' \in Treasuries
            /\ treasury'.pay_count = treasury.pay_count
        BY <3>2 DEF SetTreasuryPaused, TypeOK, Treasuries
      <4>2. QED
        BY <4>1, NoneAssumption DEF PayCount
    <3>3. QED
      BY <1>2, <3>1, <3>2 DEF GovernanceStep
  <2>3. QED
    BY <2>1, <2>2 DEF TypeOK, Frozen
<1>3. CASE TokenStep
  <2>1. UNCHANGED <<receipts, profiles, treasury>>
    BY <1>3 DEF TokenStep, CreateAta, CloseAta, DirectTransfer
  <2>2. ASSUME NEW from \in Wallets, NEW to \in Owners, NEW mint \in Mints,
               NEW amount \in Amounts, DirectTransfer(from, to, mint, amount),
               NEW m \in Mints
        PROVE  balance[TreasuryPda][m] <= balance'[TreasuryPda][m]
    <3>1. balance'[TreasuryPda][m] \in
              {balance[TreasuryPda][m], balance[TreasuryPda][m] + amount}
      <4>1. Transfer(from, to, mint, amount)
        BY <2>2 DEF DirectTransfer
      <4>2. from \in Owners /\ amount \in Nat
        OBVIOUS
      <4>3. QED
        BY <4>1, <4>2, TransferEffect
    <3>2. balance[TreasuryPda][m] \in Nat /\ amount \in Nat
      BY DEF TypeOK
    <3>3. QED
      BY <3>1, <3>2
  <2>3. ASSUME UNCHANGED balance, NEW m \in Mints
        PROVE  balance[TreasuryPda][m] <= balance'[TreasuryPda][m]
    BY <2>3 DEF TypeOK
  <2>4. \A m \in Mints : balance[TreasuryPda][m] <= balance'[TreasuryPda][m]
    BY <1>3, <2>2, <2>3 DEF TokenStep, CreateAta, CloseAta
  <2>5. QED
    BY <2>1, <2>4 DEF PayCount, Frozen
<1>4. CASE UNCHANGED vars
  BY <1>4 DEF vars, PayCount, TypeOK, Frozen
<1>5. QED
  BY <1>1, <1>2, <1>3, <1>4 DEF Next

\* While the pause flag is up, or before initialization, nothing leaves the
\* treasury, no receipt is written and no counter moves.
THEOREM PauseIsFreeze == Spec => PauseFreezesTreasury
<1>1. treasury = None \/ treasury.paused <=> ~Unpaused
  BY DEF Unpaused
<1>2. TypeOK /\ [Next]_vars /\ ~Unpaused => Frozen
  BY PausedStep
<1>3. QED
  BY <1>1, <1>2, TypeCorrect, PTL DEF Spec, PauseFreezesTreasury, Frozen

\* Whatever leaves the treasury is announced by a withdraw or pay event of that
\* amount, naming the account that received it, signed by the authority.
THEOREM OutflowIsAnnounced == Spec => OutflowAnnounced
<1> DEFINE Announced(m) ==
      /\ event' \in ValueEvents
      /\ event'.name \in {"WithdrawEvent", "SplPayEvent"}
      /\ event'.authority = treasury.authority
      /\ event'.mint = m
      /\ balance[TreasuryPda][m] - balance'[TreasuryPda][m] = event'.amount
      /\ balance'[event'.user][m] - balance[event'.user][m] = event'.amount
<1>1. ASSUME TypeOK, [Next]_vars, NEW m \in Mints,
             balance'[TreasuryPda][m] < balance[TreasuryPda][m]
      PROVE  Announced(m)
  <2> USE ConstantFacts
  <2> balance[TreasuryPda][m] \in Nat /\ TypeOK'
    BY <1>1, StepTyped DEF TypeOK
  <2>1. ASSUME NEW signer \in Wallets, NEW to \in Owners, NEW mint \in Mints,
               NEW amount \in Nat \ {0}, IsAuthority(signer),
               Transfer(TreasuryPda, to, mint, amount),
               event'.name \in {"WithdrawEvent", "SplPayEvent"},
               event' \in ValueEvents,
               event'.authority = signer, event'.user = to,
               event'.mint = mint, event'.amount = amount
        PROVE  Announced(m)
    <3>1. mint = m /\ to # TreasuryPda
      BY <1>1, <2>1, TransferEffect
    <3>2. balance'[TreasuryPda][m] = balance[TreasuryPda][m] - amount
      BY <1>1, <2>1, <3>1, TransferEffect
    <3>3. balance'[to][m] = balance[to][m] + amount
      BY <1>1, <2>1, <3>1, TransferEffect
    <3>4. balance[to][m] \in Nat /\ amount \in Nat
      BY <1>1 DEF TypeOK
    <3>5. QED
      BY <2>1, <3>1, <3>2, <3>3, <3>4 DEF IsAuthority
  <2>2. ASSUME NEW name \in {"WithdrawEvent", "SplPayEvent"},
               NEW signer \in Wallets, NEW to \in Owners, NEW mint \in Mints,
               NEW amount \in Amounts, amount > 0, NEW direction \in PayDirections,
               NEW receipt \in ReceiptSeeds \cup {None}, NEW index \in U64,
               IsAuthority(signer), Transfer(TreasuryPda, to, mint, amount),
               event' = ValueEvent(name, signer, to, mint, amount, direction,
                                   receipt, index)
        PROVE  Announced(m)
    <3>1. amount \in Nat \ {0}
      <4>1. amount \in Nat
        BY ConstantFacts
      <4>2. amount > 0
        BY <2>2
      <4>3. QED
        BY <4>1, <4>2
    <3>2. event' \in ValueEvents
      BY <2>2, <3>1, ValueEventTyped
    <3>3. /\ event'.name = name
          /\ event'.authority = signer
          /\ event'.user = to
          /\ event'.mint = mint
          /\ event'.amount = amount
      BY <2>2 DEF ValueEvent
    <3>4. QED
      BY <2>1, <2>2, <3>1, <3>2, <3>3
  <2> HIDE DEF Announced
  <2>3. ASSUME NEW signer \in Wallets, NEW user \in Owners, NEW mint \in Mints,
               NEW amount \in Amounts, SplWithdraw(signer, user, mint, amount)
        PROVE  Announced(m)
    BY <2>2, <2>3 DEF SplWithdraw, PayDirections
  <2>4. ASSUME NEW signer \in Wallets, NEW user \in Wallets, NEW mint \in Mints,
               NEW amount \in Amounts,
               SplWithdrawWithReceipt(signer, user, mint, amount)
        PROVE  Announced(m)
    <3> DEFINE n == ProfileOf(user).tx_count
    <3>1. n \in U64 /\ <<user, n>> \in ReceiptSeeds
      BY <1>1, ProfileOfTyped DEF ReceiptSeeds
    <3>2. /\ IsAuthority(signer)
          /\ amount > 0
          /\ Transfer(TreasuryPda, user, mint, amount)
          /\ event' = ValueEvent("WithdrawEvent", signer, user, mint, amount,
                                 "UserToTreasury", <<user, n>>, n)
      BY <2>4 DEF SplWithdrawWithReceipt
    <3> HIDE DEF n
    <3>3. QED
      BY <2>2, <3>1, <3>2 DEF PayDirections
  <2>5. ASSUME NEW signer \in Wallets, NEW recipient \in Owners, NEW mint \in Mints,
               NEW amount \in Amounts, NEW memo_len \in Memos, NEW slot \in U64,
               SplPay(signer, recipient, mint, amount, memo_len, slot)
        PROVE  Announced(m)
    <3>1. <<TreasuryPda, slot>> \in ReceiptSeeds
      BY DEF ReceiptSeeds
    <3>2. QED
      BY <2>2, <2>5, <3>1 DEF SplPay, PayIsAccepted, PayDirections
  <2>6. ASSUME NEW from \in Wallets, NEW mint \in Mints, NEW amount \in Amounts,
               NEW to \in Owners, Transfer(from, to, mint, amount)
        PROVE  FALSE
    <3>1. balance'[TreasuryPda][m] \in
              {balance[TreasuryPda][m], balance[TreasuryPda][m] + amount}
      BY <1>1, <2>6, TransferEffect
    <3>2. amount \in Nat
      OBVIOUS
    <3>3. QED
      BY <1>1, <3>1, <3>2
  <2>7. ~DepositStep
    BY <2>6 DEF DepositStep, SplDeposit, SplDepositWithReceipt
  <2>8. ~TokenStep /\ ~GovernanceStep /\ ~UNCHANGED vars
    <3>1. ~UNCHANGED balance
      BY <1>1
    <3>2. ~TokenStep
      BY <2>6, <3>1 DEF TokenStep, CreateAta, CloseAta, DirectTransfer
    <3>3. ~GovernanceStep /\ ~UNCHANGED vars
      BY <3>1 DEF GovernanceStep, InitializeTreasury, SetTreasuryPaused, vars
    <3>4. QED
      BY <3>2, <3>3
  <2>9. CASE WithdrawStep
    <3>1. PICK signer \in Wallets, mint \in Mints, amount \in Amounts :
            \/ \E user \in Owners : SplWithdraw(signer, user, mint, amount)
            \/ \E user \in Wallets :
                 SplWithdrawWithReceipt(signer, user, mint, amount)
      BY <2>9 DEF WithdrawStep
    <3>2. QED
      BY <2>3, <2>4, <3>1
  <2>10. CASE PayStep
    BY <2>5, <2>10 DEF PayStep
  <2>11. QED
    BY <1>1, <2>7, <2>8, <2>9, <2>10 DEF Next
<1>2. ASSUME TypeOK, [Next]_vars
      PROVE  \A m \in Mints :
               balance'[TreasuryPda][m] < balance[TreasuryPda][m] => Announced(m)
  BY <1>1, <1>2
<1>3. QED
  BY <1>2, TypeCorrect, PTL DEF Spec, OutflowAnnounced

\* What a fresh receipt says when it is written in the step that transfers.
LEMMA WrittenReceiptTruthful ==
    ASSUME TypeOK, NEW o \in Owners, NEW i \in U64,
           NEW user \in Owners, NEW direction \in Directions, NEW mint \in Mints,
           NEW amount \in Nat \ {0}, NEW memo_len \in Nat,
           NEW from, NEW to,
           from = IF direction = "DIR_DEPOSIT" THEN user ELSE TreasuryPda,
           to = IF direction = "DIR_DEPOSIT" THEN TreasuryPda ELSE user,
           Transfer(from, to, mint, amount),
           CreateReceipt(o, i, NewReceipt(user, direction, mint, amount, i, memo_len)),
           NEW p \in Owners, NEW j \in U64,
           receipts[p][j] = None, receipts'[p][j] # None
    PROVE  Truthful(p, j)
<1> DEFINE r == NewReceipt(user, direction, mint, amount, i, memo_len)
<1>1. /\ r.user = user
      /\ r.direction = direction
      /\ r.mint = mint
      /\ r.amount = amount
  BY DEF NewReceipt
<1>2. receipts' = [receipts EXCEPT ![o][i] = r]
  BY DEF CreateReceipt, IsFree
<1> HIDE DEF r
<1>3. \A q \in Owners, k \in U64 :
         receipts'[q][k] = IF q = o /\ k = i THEN r ELSE receipts[q][k]
  BY <1>2 DEF TypeOK
<1>4. p = o /\ j = i /\ receipts'[p][j] = r
  BY <1>3
<1>5. balance[from][mint] >= amount /\ balance' = Moved(from, to, mint, amount)
  BY ConstantFacts DEF Transfer, CanTransfer, TypeOK
<1>6. QED
  BY <1>1, <1>3, <1>4, <1>5 DEF Truthful

\* A step creates at most one receipt, and what the receipt says is the
\* transfer the step made.
THEOREM ReceiptsAreTruthful == Spec => ReceiptsTruthful
<1>1. ASSUME TypeOK, [Next]_vars, NEW p \in Owners, NEW j \in U64,
             receipts[p][j] = None, receipts'[p][j] # None
      PROVE  Truthful(p, j)
  <2> USE ConstantFacts
  <2>1. ASSUME NEW user \in Wallets, NEW mint \in Mints, NEW amount \in Amounts,
               NEW nonce \in U64, SplDepositWithReceipt(user, mint, amount, nonce)
        PROVE  Truthful(p, j)
    <3>1. amount \in Nat \ {0} /\ 0 \in Nat
      BY <2>1 DEF SplDepositWithReceipt
    <3>2. /\ Transfer(user, TreasuryPda, mint, amount)
          /\ CreateReceipt(user, nonce,
                NewReceipt(user, "DIR_DEPOSIT", mint, amount, nonce, 0))
      BY <2>1 DEF SplDepositWithReceipt
    <3>3. QED
      BY <1>1, <3>1, <3>2, WrittenReceiptTruthful DEF Directions
  <2>2. ASSUME NEW signer \in Wallets, NEW user \in Wallets, NEW mint \in Mints,
               NEW amount \in Amounts,
               SplWithdrawWithReceipt(signer, user, mint, amount)
        PROVE  Truthful(p, j)
    <3> DEFINE n == ProfileOf(user).tx_count
    <3>1. n \in U64 /\ 0 \in Nat
      BY <1>1, ProfileOfTyped
    <3>2. amount \in Nat \ {0}
      BY <2>2 DEF SplWithdrawWithReceipt
    <3>3. /\ Transfer(TreasuryPda, user, mint, amount)
          /\ CreateReceipt(user, n,
                NewReceipt(user, "DIR_WITHDRAW", mint, amount, n, 0))
      BY <2>2 DEF SplWithdrawWithReceipt
    <3> HIDE DEF n
    <3>4. QED
      BY <1>1, <3>1, <3>2, <3>3, WrittenReceiptTruthful DEF Directions
  <2>3. ASSUME NEW signer \in Wallets, NEW recipient \in Owners, NEW mint \in Mints,
               NEW amount \in Amounts, NEW memo_len \in Memos, NEW slot \in U64,
               SplPay(signer, recipient, mint, amount, memo_len, slot)
        PROVE  Truthful(p, j)
    <3>1. amount \in Nat \ {0} /\ memo_len \in Nat
      BY <2>3 DEF SplPay, PayIsAccepted
    <3>2. /\ Transfer(TreasuryPda, recipient, mint, amount)
          /\ CreateReceipt(TreasuryPda, slot,
                NewReceipt(recipient, "DIR_PAY", mint, amount, slot, memo_len))
      BY <2>3 DEF SplPay, PayIsAccepted
    <3>3. QED
      BY <1>1, <3>1, <3>2, WrittenReceiptTruthful DEF Directions
  <2>4. receipts' # receipts
    BY <1>1
  <2>5. ~GovernanceStep /\ ~TokenStep /\ ~UNCHANGED vars
    BY <2>4 DEF GovernanceStep, InitializeTreasury, SetTreasuryPaused, TokenStep,
       CreateAta, CloseAta, DirectTransfer, vars
  <2>6. CASE DepositStep
    BY <2>1, <2>4, <2>6 DEF DepositStep, SplDeposit
  <2>7. CASE WithdrawStep
    BY <2>2, <2>4, <2>7 DEF WithdrawStep, SplWithdraw
  <2>8. CASE PayStep
    BY <2>3, <2>8 DEF PayStep
  <2>9. QED
    BY <1>1, <2>5, <2>6, <2>7, <2>8 DEF Next
<1>2. ASSUME TypeOK, [Next]_vars
      PROVE  \A o \in Owners, i \in U64 :
               receipts[o][i] = None /\ receipts'[o][i] # None => Truthful(o, i)
  BY <1>1, <1>2
<1>3. QED
  BY <1>2, TypeCorrect, PTL DEF Spec, ReceiptsTruthful, Truthful

\* A fresh receipt and the event of the step that writes it.
LEMMA WrittenReceiptAnnounced ==
    ASSUME TypeOK, NEW o \in Owners, NEW i \in U64,
           NEW user \in Owners, NEW direction \in Directions, NEW mint \in Mints,
           NEW amount \in Nat \ {0}, NEW memo_len \in Nat,
           NEW authority \in Wallets \cup {None}, NEW payDirection \in PayDirections,
           CreateReceipt(o, i, NewReceipt(user, direction, mint, amount, i, memo_len)),
           event' = ValueEvent(Announcement[direction], authority, user, mint,
                               amount, payDirection, <<o, i>>, i),
           NEW p \in Owners, NEW j \in U64
    PROVE  AnnouncedAt(p, j)
<1> DEFINE r == NewReceipt(user, direction, mint, amount, i, memo_len)
<1>1. /\ r.user = user /\ r.direction = direction /\ r.mint = mint
      /\ r.amount = amount /\ r.tx_count = i
  BY DEF NewReceipt
<1>2. receipts' = [receipts EXCEPT ![o][i] = r] /\ receipts[o][i] = None
  BY DEF CreateReceipt, IsFree
<1> HIDE DEF r
<1>3. \A q \in Owners, k \in U64 :
         receipts'[q][k] = IF q = o /\ k = i THEN r ELSE receipts[q][k]
  BY <1>2 DEF TypeOK
<1>4. /\ event'.name = Announcement[direction] /\ event'.user = user
      /\ event'.mint = mint /\ event'.amount = amount
      /\ event'.receipt = <<o, i>> /\ event'.index = i
  BY DEF ValueEvent
<1>5. event' \in ValueEvents
  <2>1. /\ Announcement[direction] \in {"DepositEvent", "WithdrawEvent", "SplPayEvent"}
        /\ <<o, i>> \in ReceiptSeeds \cup {None}
    BY DEF Directions, Announcement, ReceiptSeeds
  <2>2. QED
    BY <2>1, ValueEventTyped
<1>6. CASE p = o /\ j = i
  <2>1. r # None
    BY NewReceiptTyped, NoneAssumption, ConstantFacts DEF r
  <2>2. QED
    BY <1>1, <1>2, <1>3, <1>4, <1>5, <1>6, <2>1 DEF AnnouncedAt
<1>7. CASE ~(p = o /\ j = i)
  <2>1. receipts'[p][j] = receipts[p][j]
    BY <1>3, <1>7
  <2>2. event'.receipt # <<p, j>>
    BY <1>4, <1>7
  <2>3. QED
    BY <2>1, <2>2 DEF AnnouncedAt
<1>8. QED
  BY <1>6, <1>7

\* A step that writes no receipt and emits no event naming one.
LEMMA NothingAnnounced ==
    ASSUME receipts' = receipts,
           \/ event' = event
           \/ event' \in GovernanceEvents
           \/ event'.receipt = None,
           NEW p \in Owners, NEW j \in U64
    PROVE  AnnouncedAt(p, j)
<1>1. \A e \in GovernanceEvents : e \notin ValueEvents
  BY DEF GovernanceEvents, ValueEvents
<1>2. <<p, j>> # None
  BY NoneAssumption DEF ReceiptSeeds
<1>3. QED
  BY <1>1, <1>2 DEF AnnouncedAt

\* Every receipt is announced by the step that creates it, once, and the event
\* agrees with it, whatever the instruction (the emit! of every handler).
THEOREM ReceiptsAreAnnounced == Spec => ReceiptsAnnounced
<1>1. ASSUME TypeOK, [Next]_vars, NEW p \in Owners, NEW j \in U64
      PROVE  AnnouncedAt(p, j)
  <2> USE ConstantFacts
  <2>1. ASSUME NEW user \in Wallets, NEW mint \in Mints, NEW amount \in Amounts,
               NEW nonce \in U64, SplDepositWithReceipt(user, mint, amount, nonce)
        PROVE  AnnouncedAt(p, j)
    <3>1. /\ amount \in Nat \ {0} /\ 0 \in Nat /\ user \in Owners
          /\ None \in Wallets \cup {None} /\ "UserToTreasury" \in PayDirections
          /\ "DIR_DEPOSIT" \in Directions
          /\ Announcement["DIR_DEPOSIT"] = "DepositEvent"
      BY <2>1 DEF SplDepositWithReceipt, PayDirections, Directions, Announcement
    <3>2. /\ event' = ValueEvent(Announcement["DIR_DEPOSIT"], None, user, mint, amount,
                                "UserToTreasury", <<user, nonce>>, nonce)
          /\ CreateReceipt(user, nonce,
                NewReceipt(user, "DIR_DEPOSIT", mint, amount, nonce, 0))
      BY <2>1, <3>1 DEF SplDepositWithReceipt
    <3>3. QED
      BY <1>1, <3>1, <3>2, WrittenReceiptAnnounced
  <2>2. ASSUME NEW signer \in Wallets, NEW user \in Wallets, NEW mint \in Mints,
               NEW amount \in Amounts,
               SplWithdrawWithReceipt(signer, user, mint, amount)
        PROVE  AnnouncedAt(p, j)
    <3> DEFINE n == ProfileOf(user).tx_count
    <3>1. /\ n \in U64 /\ 0 \in Nat /\ user \in Owners
          /\ signer \in Wallets \cup {None} /\ "UserToTreasury" \in PayDirections
          /\ "DIR_WITHDRAW" \in Directions
          /\ Announcement["DIR_WITHDRAW"] = "WithdrawEvent"
      BY <1>1, ProfileOfTyped DEF PayDirections, Directions, Announcement
    <3>2. amount \in Nat \ {0}
      BY <2>2 DEF SplWithdrawWithReceipt
    <3>3. /\ event' = ValueEvent(Announcement["DIR_WITHDRAW"], signer, user, mint, amount,
                                "UserToTreasury", <<user, n>>, n)
          /\ CreateReceipt(user, n,
                NewReceipt(user, "DIR_WITHDRAW", mint, amount, n, 0))
      BY <2>2, <3>1 DEF SplWithdrawWithReceipt
    <3> HIDE DEF n
    <3>4. QED
      BY <1>1, <3>1, <3>2, <3>3, WrittenReceiptAnnounced
  <2>3. ASSUME NEW signer \in Wallets, NEW recipient \in Owners, NEW mint \in Mints,
               NEW amount \in Amounts, NEW memo_len \in Memos, NEW slot \in U64,
               SplPay(signer, recipient, mint, amount, memo_len, slot)
        PROVE  AnnouncedAt(p, j)
    <3>1. /\ amount \in Nat \ {0} /\ memo_len \in Nat
          /\ signer \in Wallets \cup {None} /\ "TreasuryToRecipient" \in PayDirections
          /\ "DIR_PAY" \in Directions
          /\ Announcement["DIR_PAY"] = "SplPayEvent"
      BY <2>3 DEF SplPay, PayIsAccepted, PayDirections, Directions, Announcement
    <3>2. /\ event' = ValueEvent(Announcement["DIR_PAY"], signer, recipient, mint, amount,
                                "TreasuryToRecipient", <<TreasuryPda, slot>>, slot)
          /\ CreateReceipt(TreasuryPda, slot,
                NewReceipt(recipient, "DIR_PAY", mint, amount, slot, memo_len))
      BY <2>3, <3>1 DEF SplPay, PayIsAccepted
    <3>3. QED
      BY <1>1, <3>1, <3>2, WrittenReceiptAnnounced
  <2>4. CASE GovernanceStep
    <3>1. ASSUME NEW signer \in Wallets, InitializeTreasury(signer)
          PROVE  receipts' = receipts /\ event' \in GovernanceEvents
      BY <3>1 DEF InitializeTreasury, GovernanceEvents
    <3>2. ASSUME NEW signer \in Wallets, NEW paused \in BOOLEAN,
                 SetTreasuryPaused(signer, paused)
          PROVE  receipts' = receipts /\ event' \in GovernanceEvents
      BY <3>2 DEF SetTreasuryPaused, GovernanceEvents
    <3>3. receipts' = receipts /\ event' \in GovernanceEvents
      BY <2>4, <3>1, <3>2 DEF GovernanceStep
    <3>4. QED
      BY <3>3, NothingAnnounced
  <2>5. CASE TokenStep \/ UNCHANGED vars
    <3>1. receipts' = receipts /\ event' = event
      BY <2>5 DEF TokenStep, CreateAta, CloseAta, DirectTransfer, vars
    <3>2. QED
      BY <3>1, NothingAnnounced
  <2>6. CASE DepositStep
    <3>1. ASSUME NEW user \in Wallets, NEW mint \in Mints, NEW amount \in Amounts,
                 SplDeposit(user, mint, amount)
          PROVE  AnnouncedAt(p, j)
      <4>1. receipts' = receipts /\ event'.receipt = None
        BY <3>1 DEF SplDeposit, ValueEvent
      <4>2. QED
        BY <4>1, NothingAnnounced
    <3>2. QED
      BY <2>1, <2>6, <3>1 DEF DepositStep
  <2>7. CASE WithdrawStep
    <3>1. ASSUME NEW signer \in Wallets, NEW user \in Owners, NEW mint \in Mints,
                 NEW amount \in Amounts, SplWithdraw(signer, user, mint, amount)
          PROVE  AnnouncedAt(p, j)
      <4>1. receipts' = receipts /\ event'.receipt = None
        BY <3>1 DEF SplWithdraw, ValueEvent
      <4>2. QED
        BY <4>1, NothingAnnounced
    <3>2. QED
      BY <2>2, <2>7, <3>1 DEF WithdrawStep
  <2>8. CASE PayStep
    BY <2>3, <2>8 DEF PayStep
  <2>9. QED
    BY <1>1, <2>4, <2>5, <2>6, <2>7, <2>8 DEF Next
<1>2. ASSUME TypeOK, [Next]_vars
      PROVE  \A o \in Owners, i \in U64 : AnnouncedAt(o, i)
  BY <1>1, <1>2
<1>3. QED
  BY <1>2, TypeCorrect, PTL DEF Spec, ReceiptsAnnounced

-----------------------------------------------------------------------------
(* Funds are in accounts that exist: whoever receives has an account by then, *)
(* and only an empty one is ever closed.                                     *)

LEMMA StepHoldings ==
    ASSUME TypeOK, [Next]_vars
    PROVE  \/ /\ balance' = balance
              /\ \A o \in Owners, m \in Mints :
                    <<o, m>> \in atas /\ balance[o][m] > 0 => <<o, m>> \in atas'
           \/ /\ atas \subseteq atas'
              /\ \E from, to \in Owners, mint \in Mints, amount \in Nat :
                    Transfer(from, to, mint, amount) /\ <<to, mint>> \in atas'
<1> USE ConstantFacts
<1> DEFINE Arrived == /\ atas \subseteq atas'
                      /\ \E from, to \in Owners, mint \in Mints, amount \in Nat :
                            Transfer(from, to, mint, amount) /\ <<to, mint>> \in atas'
<1>1. CASE DepositStep
  <2>1. ASSUME NEW user \in Wallets, NEW mint \in Mints, NEW amount \in Amounts,
               Transfer(user, TreasuryPda, mint, amount),
               <<TreasuryPda, mint>> \in atas', atas \subseteq atas'
        PROVE  Arrived
    BY <2>1
  <2> HIDE DEF Arrived
  <2>2. ASSUME NEW user \in Wallets, NEW mint \in Mints, NEW amount \in Amounts,
               SplDeposit(user, mint, amount)
        PROVE  Arrived
    BY <2>1, <2>2 DEF SplDeposit
  <2>3. ASSUME NEW user \in Wallets, NEW mint \in Mints, NEW amount \in Amounts,
               NEW nonce \in U64, SplDepositWithReceipt(user, mint, amount, nonce)
        PROVE  Arrived
    BY <2>1, <2>3 DEF SplDepositWithReceipt
  <2>4. Arrived
    BY <1>1, <2>2, <2>3 DEF DepositStep
  <2>5. QED
    BY <2>4 DEF Arrived
<1>2. CASE WithdrawStep
  <2>1. ASSUME NEW user \in Owners, NEW mint \in Mints, NEW amount \in Amounts,
               Transfer(TreasuryPda, user, mint, amount),
               <<user, mint>> \in atas', atas \subseteq atas'
        PROVE  Arrived
    BY <2>1
  <2> HIDE DEF Arrived
  <2>2. ASSUME NEW signer \in Wallets, NEW user \in Owners, NEW mint \in Mints,
               NEW amount \in Amounts, SplWithdraw(signer, user, mint, amount)
        PROVE  Arrived
    BY <2>1, <2>2 DEF SplWithdraw
  <2>3. ASSUME NEW signer \in Wallets, NEW user \in Wallets, NEW mint \in Mints,
               NEW amount \in Amounts,
               SplWithdrawWithReceipt(signer, user, mint, amount)
        PROVE  Arrived
    BY <2>1, <2>3 DEF SplWithdrawWithReceipt
  <2>4. Arrived
    BY <1>2, <2>2, <2>3 DEF WithdrawStep
  <2>5. QED
    BY <2>4 DEF Arrived
<1>3. CASE PayStep
  BY <1>3 DEF PayStep, SplPay
<1>4. ASSUME NEW owner \in Wallets, NEW mint \in Mints, CloseAta(owner, mint)
      PROVE  /\ balance' = balance
             /\ \A o \in Owners, m \in Mints :
                   <<o, m>> \in atas /\ balance[o][m] > 0 => <<o, m>> \in atas'
  BY <1>4 DEF CloseAta
<1>5. CASE TokenStep
  BY <1>4, <1>5 DEF TokenStep, CreateAta, DirectTransfer
<1>6. CASE GovernanceStep \/ UNCHANGED vars
  BY <1>6 DEF GovernanceStep, InitializeTreasury, SetTreasuryPaused, vars
<1>7. QED
  BY <1>1, <1>2, <1>3, <1>5, <1>6 DEF Next

LEMMA StepFunds ==
    ASSUME TypeOK, FundsAreHeld, [Next]_vars
    PROVE  FundsAreHeld'
<1>1. CASE /\ balance' = balance
           /\ \A o \in Owners, m \in Mints :
                 <<o, m>> \in atas /\ balance[o][m] > 0 => <<o, m>> \in atas'
  BY <1>1 DEF FundsAreHeld
<1>2. ASSUME atas \subseteq atas', NEW from \in Owners, NEW to \in Owners,
             NEW mint \in Mints, NEW amount \in Nat,
             Transfer(from, to, mint, amount), <<to, mint>> \in atas'
      PROVE  FundsAreHeld'
  <2> SUFFICES ASSUME NEW o \in Owners, NEW m \in Mints, balance'[o][m] > 0
               PROVE  <<o, m>> \in atas'
    BY DEF FundsAreHeld
  <2>1. CASE o = to /\ m = mint
    BY <1>2, <2>1
  <2>2. CASE ~(o = to /\ m = mint)
    <3> DEFINE debited == [balance EXCEPT ![from][mint] = @ - amount]
    <3>1. balance' = [debited EXCEPT ![to][mint] = @ + amount]
      BY <1>2 DEF Transfer, Moved
    <3>2. debited \in [Owners -> [Mints -> Int]] /\ debited[o][m] <= balance[o][m]
      BY <1>2 DEF TypeOK
    <3> HIDE DEF debited
    <3>3. balance'[o][m] = debited[o][m]
      BY <2>2, <3>1, <3>2
    <3>4. balance[o][m] > 0
      BY <3>2, <3>3 DEF TypeOK
    <3>5. QED
      BY <1>2, <3>4 DEF FundsAreHeld
  <2>3. QED
    BY <2>1, <2>2
<1>3. QED
  BY <1>1, <1>2, StepHoldings

LEMMA InitFunds == Init => FundsAreHeld
BY DEF Init, FundsAreHeld

\* No token is ever in an account that does not exist, for any order of the
\* instructions and of the token program's own (init_if_needed of the handlers).
THEOREM FundsAreAlwaysHeld == Spec => []FundsAreHeld
<1>1. TypeOK /\ FundsAreHeld /\ [Next]_vars => FundsAreHeld'
  BY StepFunds
<1>2. QED
  BY <1>1, InitFunds, TypeCorrect, PTL DEF Spec

-----------------------------------------------------------------------------
(* The program implements PaymentLedger: its initial states map to the      *)
(* ledger's, and every instruction maps to a step of the ledger or to a     *)
(* stutter.  The journal read off the receipts grows only at its end because*)
(* the receipts below pay_count exist (PayTrailContiguous), and a receipt   *)
(* that exists is never written again.                                      *)

ledgerOpen == treasury # None /\ ~treasury.paused
ledgerHeld == balance[TreasuryPda]
ledgerJournal == [n \in 1..PayCount |-> PaymentAt(n - 1)]

LEMMA InitImplements == Init => Ledger!Init
<1> SUFFICES ASSUME Init PROVE Ledger!Init
  OBVIOUS
<1>1. balance[TreasuryPda] = [m \in Mints |-> 0]
  BY ConstantFacts DEF Init
<1>2. [n \in 1..PayCount |-> PaymentAt(n - 1)] = <<>>
  BY DEF Init, PayCount
<1>3. (treasury # None /\ ~treasury.paused) = FALSE
  BY DEF Init
<1>4. QED
  BY <1>1, <1>2, <1>3 DEF Ledger!Init

\* A payment at a recorded index is never rewritten.
LEMMA JournalKept ==
    ASSUME TypeOK, Trails, [Next]_vars, NEW i \in U64, i < PayCount
    PROVE  PaymentAt(i)' = PaymentAt(i)
<1>1. receipts[TreasuryPda][i] # None
  BY DEF Trails, PayTrailContiguous
<1>2. receipts'[TreasuryPda][i] = receipts[TreasuryPda][i]
  <2>1. CASE receipts' = receipts
    BY <2>1
  <2>2. ASSUME NEW o \in Owners, NEW k \in U64, NEW r \in Receipts,
               CreateReceipt(o, k, r)
        PROVE  receipts'[TreasuryPda][i] = receipts[TreasuryPda][i]
    BY <1>1, <2>2, ConstantFacts DEF CreateReceipt, IsFree, TypeOK
  <2>3. QED
    BY <2>1, <2>2, StepReceipts
<1>3. QED
  BY <1>2 DEF PaymentAt

LEMMA JournalUnchanged ==
    ASSUME TypeOK, Trails, [Next]_vars, PayCount' = PayCount
    PROVE  UNCHANGED ledgerJournal
<1>1. PayCount \in Nat /\ \A n \in 1..PayCount : n - 1 \in U64 /\ n - 1 < PayCount
  BY PayCountTyped, ConstantsAssumption DEF U64
<1>2. \A n \in 1..PayCount : PaymentAt(n - 1)' = PaymentAt(n - 1)
  BY <1>1, JournalKept
<1>3. QED
  BY <1>2 DEF ledgerJournal

\* What a transfer does to what the ledger sees.
LEMMA HeldAfterTransfer ==
    ASSUME TypeOK, NEW from \in Owners, NEW to \in Owners, NEW mint \in Mints,
           NEW amount \in Nat, Transfer(from, to, mint, amount)
    PROVE  ledgerHeld' =
             IF from = to THEN ledgerHeld
             ELSE IF from = TreasuryPda
               THEN [ledgerHeld EXCEPT ![mint] = @ - amount]
             ELSE IF to = TreasuryPda
               THEN [ledgerHeld EXCEPT ![mint] = @ + amount]
             ELSE ledgerHeld
<1> USE ConstantFacts
<1>1. ledgerHeld \in [Mints -> Nat] /\ ledgerHeld' \in [Mints -> Nat]
  BY TransferTyped DEF TypeOK, ledgerHeld
<1>2. \A m \in Mints :
        ledgerHeld'[m] =
          IF m # mint \/ from = to THEN ledgerHeld[m]
          ELSE IF TreasuryPda = from THEN ledgerHeld[m] - amount
          ELSE IF TreasuryPda = to THEN ledgerHeld[m] + amount
          ELSE ledgerHeld[m]
  BY TransferEffect DEF ledgerHeld
<1> HIDE DEF ledgerHeld
<1>3. QED
  BY <1>1, <1>2

\* A transfer into or past the treasury, with its account and its trail kept,
\* is a receipt of value or nothing.
LEMMA InflowImplements ==
    ASSUME TypeOK, NEW from \in Wallets, NEW to \in Owners, NEW mint \in Mints,
           NEW amount \in Nat, Transfer(from, to, mint, amount),
           UNCHANGED <<treasury, ledgerJournal>>
    PROVE  [Ledger!Next]_(Ledger!vars)
<1> USE ConstantFacts
<1>1. UNCHANGED <<ledgerOpen, ledgerJournal>>
  BY DEF ledgerOpen
<1>2. CASE to # TreasuryPda
  BY <1>1, <1>2, HeldAfterTransfer
     DEF Ledger!vars, ledgerOpen, ledgerHeld, ledgerJournal
<1>3. CASE to = TreasuryPda
  <2>1. ledgerHeld' = [ledgerHeld EXCEPT ![mint] = @ + amount]
    BY <1>3, HeldAfterTransfer
  <2>2. ledgerHeld \in [Mints -> Nat]
    BY DEF TypeOK, ledgerHeld
  <2>3. CASE amount = 0
    <3>1. ledgerHeld' = ledgerHeld
      BY <2>1, <2>2, <2>3
    <3>2. QED
      BY <1>1, <3>1 DEF Ledger!vars, ledgerOpen, ledgerHeld, ledgerJournal
  <2>4. CASE amount # 0
    <3>1. ledgerHeld'[mint] > ledgerHeld[mint]
      BY <2>1, <2>2, <2>4
    <3>2. ledgerHeld' = [ledgerHeld EXCEPT ![mint] = ledgerHeld'[mint]]
      BY <2>1, <2>2
    <3>3. Ledger!Receive(mint)
      BY <1>1, <3>1, <3>2
         DEF Ledger!Receive, ledgerOpen, ledgerHeld, ledgerJournal
    <3>4. QED
      BY <3>3 DEF Ledger!Next
  <2>5. QED
    BY <2>3, <2>4
<1>4. QED
  BY <1>2, <1>3

\* A withdraw is a release of value, or nothing when the user is the treasury.
LEMMA ReleaseImplements ==
    ASSUME TypeOK, NEW to \in Owners, NEW mint \in Mints, NEW amount \in Nat \ {0},
           Unpaused, Transfer(TreasuryPda, to, mint, amount),
           UNCHANGED <<treasury, ledgerJournal>>
    PROVE  [Ledger!Next]_(Ledger!vars)
<1> USE ConstantFacts
<1>1. UNCHANGED <<ledgerOpen, ledgerJournal>> /\ ledgerOpen
  BY DEF ledgerOpen, Unpaused
<1>2. CASE to = TreasuryPda
  BY <1>1, <1>2, HeldAfterTransfer
     DEF Ledger!vars, ledgerOpen, ledgerHeld, ledgerJournal
<1>3. CASE to # TreasuryPda
  <2>1. ledgerHeld' = [ledgerHeld EXCEPT ![mint] = @ - amount]
    BY <1>3, HeldAfterTransfer
  <2>2. amount <= ledgerHeld[mint] /\ amount \in 1..ledgerHeld[mint]
    BY DEF TypeOK, Transfer, CanTransfer, ledgerHeld
  <2>3. Ledger!Release(mint, amount)
    BY <1>1, <2>1, <2>2 DEF Ledger!Release, ledgerOpen, ledgerHeld, ledgerJournal
  <2>4. QED
    BY <2>2, <2>3 DEF Ledger!Next, ledgerHeld
<1>4. QED
  BY <1>2, <1>3

\* A function on 1..c+1 that extends one on 1..c is that sequence with one more
\* element appended.
LEMMA ExtendedIsAppended ==
    ASSUME NEW S, NEW c \in Nat, NEW old \in [1..c -> S],
           NEW new \in [1..(c + 1) -> S], \A n \in 1..c : new[n] = old[n]
    PROVE  new = Append(old, new[c + 1])
<1>1. new[c + 1] \in S
  OBVIOUS
<1>2. new \in Seq(S) /\ Len(new) = c + 1 /\ old \in Seq(S) /\ Len(old) = c
  BY <1>1
<1>3. /\ Append(old, new[c + 1]) \in Seq(S)
      /\ Len(Append(old, new[c + 1])) = c + 1
      /\ \A n \in 1..c : Append(old, new[c + 1])[n] = old[n]
      /\ Append(old, new[c + 1])[c + 1] = new[c + 1]
  BY <1>1, <1>2, AppendProperties
<1>4. ASSUME NEW n \in 1..(c + 1) PROVE Append(old, new[c + 1])[n] = new[n]
  <2>1. n = c + 1 \/ n \in 1..c
    OBVIOUS
  <2>2. QED
    BY <1>3, <2>1
<1>5. QED
  BY <1>2, <1>3, <1>4, SeqEqual

\* spl_pay is a payment of the ledger: the receipt it writes at pay_count is
\* the entry the journal gains.
LEMMA PayImplements ==
    ASSUME TypeOK, Trails, [Next]_vars,
           NEW signer \in Wallets, NEW recipient \in Owners, NEW mint \in Mints,
           NEW amount \in Amounts, NEW memo_len \in Memos, NEW slot \in U64,
           SplPay(signer, recipient, mint, amount, memo_len, slot)
    PROVE  Ledger!Next
<1> USE ConstantFacts
<1> DEFINE payment == [to |-> recipient, mint |-> mint, amount |-> amount]
<1>1. treasury \in Treasuries /\ slot = PayCount /\ slot = treasury.pay_count
      /\ slot < MaxU64 /\ slot \in Nat
  BY NoneAssumption
     DEF SplPay, PayIsAccepted, Unpaused, TypeOK, PayCount, IsPayReceiptSlot, CheckedAdd1Fits
<1>2. treasury' = [treasury EXCEPT !.pay_count = @ + 1]
  BY DEF SplPay, PayIsAccepted
<1>3. treasury' \in Treasuries /\ treasury'.pay_count = slot + 1
      /\ treasury'.paused = treasury.paused
  BY <1>1, <1>2, ConstantsAssumption DEF Treasuries, U64
<1>4. PayCount' = slot + 1
  BY <1>3, NoneAssumption DEF PayCount
<1>5. UNCHANGED ledgerOpen /\ ledgerOpen
  BY <1>1, <1>3, NoneAssumption DEF SplPay, PayIsAccepted, ledgerOpen, Unpaused
<1>6. amount \in Nat \ {0} /\ Transfer(TreasuryPda, recipient, mint, amount)
  BY DEF SplPay, PayIsAccepted
<1>7. PaymentAt(slot)' = payment
  <2> DEFINE r == NewReceipt(recipient, "DIR_PAY", mint, amount, slot, memo_len)
  <2>1. receipts' = [receipts EXCEPT ![TreasuryPda][slot] = r]
    BY DEF SplPay, PayIsAccepted, CreateReceipt, IsFree
  <2>2. r.user = recipient /\ r.mint = mint /\ r.amount = amount
    BY DEF NewReceipt
  <2> HIDE DEF r
  <2>3. receipts'[TreasuryPda][slot] = r
    BY <2>1 DEF TypeOK
  <2>4. QED
    BY <2>2, <2>3 DEF PaymentAt
<1>8. ledgerJournal' = Append(ledgerJournal, payment)
  <2> DEFINE new == [n \in 1..(slot + 1) |-> PaymentAt(n - 1)']
             old == [n \in 1..slot |-> PaymentAt(n - 1)]
  <2>1. ledgerJournal' = new /\ ledgerJournal = old
    BY <1>1, <1>4 DEF ledgerJournal
  <2>2. \A n \in 1..slot : n - 1 \in U64 /\ n - 1 < PayCount
    BY <1>1, ConstantsAssumption DEF U64
  <2>3. \A n \in 1..slot : new[n] = old[n]
    BY <1>1, <2>2, JournalKept
  <2>4. new[slot + 1] = payment
    <3>1. (slot + 1) - 1 = slot /\ slot + 1 \in 1..(slot + 1)
      BY <1>1
    <3>2. new[slot + 1] = PaymentAt((slot + 1) - 1)'
      BY <3>1
    <3>3. QED
      BY <1>7, <3>1, <3>2
  <2> DEFINE S == {new[n] : n \in 1..(slot + 1)}
  <2>5. new \in [1..(slot + 1) -> S] /\ old \in [1..slot -> S]
    <3>1. new \in [1..(slot + 1) -> S]
      OBVIOUS
    <3>2. \A n \in 1..slot : n \in 1..(slot + 1)
      BY <1>1
    <3>3. \A n \in 1..slot : old[n] \in S
      <4> HIDE DEF new, old
      <4>1. QED
        BY <2>3, <3>2
    <3>4. old = [n \in 1..slot |-> old[n]]
      OBVIOUS
    <3> HIDE DEF new, old, S
    <3>5. QED
      BY <3>1, <3>3, <3>4
  <2> slot \in Nat
    BY <1>1
  <2> HIDE DEF new, old, payment, S
  <2>6. new = Append(old, new[slot + 1])
    BY <2>3, <2>5, ExtendedIsAppended
  <2>7. QED
    BY <2>1, <2>4, <2>6
<1>9. ledgerHeld' = IF recipient = TreasuryPda THEN ledgerHeld
                     ELSE [ledgerHeld EXCEPT ![mint] = @ - amount]
  BY <1>6, HeldAfterTransfer
<1>10. amount <= ledgerHeld[mint] /\ amount \in 1..ledgerHeld[mint]
  BY <1>6 DEF TypeOK, Transfer, CanTransfer, ledgerHeld
<1>11. Ledger!Pay(payment)
  BY <1>5, <1>8, <1>9, <1>10
     DEF Ledger!Pay, ledgerOpen, ledgerHeld, ledgerJournal
<1>12. QED
  BY <1>10, <1>11 DEF Ledger!Next, ledgerHeld

LEMMA StepImplements ==
    TypeOK /\ Trails /\ [Next]_vars => [Ledger!Next]_(Ledger!vars)
<1> SUFFICES ASSUME TypeOK, Trails, [Next]_vars
             PROVE  [Ledger!Next]_(Ledger!vars)
  OBVIOUS
<1> USE ConstantFacts
<1>1. UNCHANGED treasury => UNCHANGED ledgerJournal
  BY JournalUnchanged DEF PayCount
<1>2. CASE GovernanceStep
  <2>1. ledgerHeld' = ledgerHeld
    BY <1>2 DEF GovernanceStep, InitializeTreasury, SetTreasuryPaused, ledgerHeld
  <2>2. PayCount' = PayCount
    <3>1. CASE ledgerOpen
      <4>1. PICK signer \in Wallets, paused \in BOOLEAN :
              SetTreasuryPaused(signer, paused)
        BY <1>2, <3>1 DEF ledgerOpen, GovernanceStep, InitializeTreasury
      <4>2. treasury \in Treasuries /\ treasury' \in Treasuries
            /\ treasury'.pay_count = treasury.pay_count
        BY <4>1 DEF SetTreasuryPaused, TypeOK, Treasuries
      <4>3. QED
        BY <4>2, NoneAssumption DEF PayCount
    <3>2. CASE ~ledgerOpen
      BY <3>2, PausedStep DEF ledgerOpen, Unpaused, Frozen
    <3>3. QED
      BY <3>1, <3>2
  <2>3. ledgerJournal' = ledgerJournal
    BY <2>2, JournalUnchanged
  <2>4. ledgerOpen' \in BOOLEAN
    BY StepTyped, NoneAssumption DEF TypeOK, Treasuries, ledgerOpen
  <2>5. Ledger!Switch
    BY <2>1, <2>3, <2>4 DEF Ledger!Switch, ledgerOpen, ledgerHeld, ledgerJournal
  <2>6. QED
    BY <2>5 DEF Ledger!Next
<1>3. CASE DepositStep
  BY <1>1, <1>3, InflowImplements DEF DepositStep, SplDeposit, SplDepositWithReceipt
<1>4. ASSUME NEW signer \in Wallets, NEW user \in Owners, NEW mint \in Mints,
             NEW amount \in Amounts,
             SplWithdraw(signer, user, mint, amount)
             \/ SplWithdrawWithReceipt(signer, user, mint, amount)
      PROVE  [Ledger!Next]_(Ledger!vars)
  <2>1. /\ Unpaused
        /\ amount > 0
        /\ Transfer(TreasuryPda, user, mint, amount)
        /\ UNCHANGED treasury
    BY <1>4 DEF SplWithdraw, SplWithdrawWithReceipt
  <2>2. amount \in Nat \ {0}
    BY <2>1
  <2>3. QED
    BY <1>1, <2>1, <2>2, ReleaseImplements
<1>5. CASE WithdrawStep
  BY <1>4, <1>5 DEF WithdrawStep
<1>6. CASE PayStep
  BY <1>6, PayImplements DEF PayStep
<1>7. ASSUME UNCHANGED <<treasury, balance>>
      PROVE  UNCHANGED (Ledger!vars)
  BY <1>1, <1>7 DEF Ledger!vars, ledgerJournal
<1>8. CASE TokenStep
  BY <1>1, <1>7, <1>8, InflowImplements
     DEF TokenStep, CreateAta, CloseAta, DirectTransfer
<1>9. CASE UNCHANGED vars
  BY <1>7, <1>9 DEF vars
<1>10. QED
  BY <1>2, <1>3, <1>5, <1>6, <1>8, <1>9 DEF Next

\* The program implements the ledger: nothing leaves while it is closed, what
\* leaves was held, and the journal read off the receipts gains exactly one
\* entry with each payment (spl_pay.rs, set_treasury_paused.rs).
THEOREM ProgramImplementsLedger == Spec => ImplementsLedger
<1>1. Init => Ledger!Init
  BY InitImplements
<1>2. TypeOK /\ Trails /\ [Next]_vars => [Ledger!Next]_(Ledger!vars)
  BY StepImplements
<1>3. QED
  BY <1>1, <1>2, TypeCorrect, TrailsHold, PTL DEF Spec, ImplementsLedger, Ledger!Spec
=============================================================================
