------------------------ MODULE ProgramClientsProofs ------------------------
(***************************************************************************)
(* Theorems about those that use the on-chain program: the payment         *)
(* clients, for any number of calls, and the protocol lab, for any         *)
(* scenario.  Whatever they do to the program's accounts is one of the     *)
(* program's steps, so what is proved of the program holds under them,     *)
(* with whatever anybody else does at the same time.                       *)
(***************************************************************************)
EXTENDS PayClients, ProtocolLab, TreasuryProgramProofs, FiniteSetTheorems

-----------------------------------------------------------------------------
(* The payment clients. *)

ClientInv == TypeOK /\ ClientTypeOK /\ PaymentsAccountedFor

LEMMA InitClientInv == ClientInit => ClientInv
<1> SUFFICES ASSUME ClientInit PROVE ClientInv
  OBVIOUS
<1>1. TypeOK
  BY InitTyped DEF ClientInit
<1>2. ClientTypeOK
  BY ConstantFacts DEF ClientInit, ClientTypeOK, Stages, Fates
<1>3. PaymentsAccountedFor
  BY ConstantFacts DEF ClientInit, Init, PaymentsAccountedFor, PayCount, U64
<1>4. QED
  BY <1>1, <1>2, <1>3 DEF ClientInv

-----------------------------------------------------------------------------
(* The program under the clients. *)

\* A call in flight carries a request of the right type.
LEMMA InFlightRequest ==
    ASSUME ClientTypeOK, NEW c \in Calls, fate[c] # "unsent"
    PROVE  request[c] \in Requests /\ seen[c] \in U64
BY DEF ClientTypeOK

LEMMA LandIsPayStep ==
    ASSUME ClientTypeOK, NEW c \in Calls, Land(c)
    PROVE  PayStep
<1>1. request[c] \in Requests /\ seen[c] \in U64
  BY InFlightRequest DEF Land
<1>2. SplPay(Operator, request[c].recipient, request[c].mint, request[c].amount,
             0, seen[c])
  BY DEF Land, ReceiptSlot
<1>3. QED
  BY <1>1, <1>2, ClientsAssumption DEF PayStep, Requests

LEMMA CreateAtaIsTokenStep ==
    ASSUME NEW owner \in Owners, NEW mint \in Mints, CreateAta(owner, mint)
    PROVE  TokenStep
BY DEF TokenStep

\* GetOrCreateAta leaves the program's accounts alone but for a token account.
LEMMA GetOrCreateAtaStep ==
    ASSUME ClientTypeOK, NEW c \in Calls, GetOrCreateAta(c)
    PROVE  TokenStep \/ UNCHANGED vars
<1>1. request[c] \in Requests
  BY DEF GetOrCreateAta, ClientTypeOK
<1>2. CASE UNCHANGED vars
  BY <1>2
<1>3. CASE CreateAta(request[c].recipient, request[c].mint)
  BY <1>1, <1>3, CreateAtaIsTokenStep DEF Requests
<1>4. QED
  BY <1>2, <1>3 DEF GetOrCreateAta

\* Whatever the clients do to the program's accounts is a step of the program.
LEMMA ClientStepIsProgramStep ==
    ASSUME ClientTypeOK, [ClientNext]_allVars
    PROVE  [Next]_vars
<1>1. ASSUME NEW c \in Calls, Proceed(c) \/ Break(c) \/ Lose(c)
      PROVE  [Next]_vars
  <2>1. CASE GetOrCreateAta(c)
    BY <2>1, GetOrCreateAtaStep DEF Next
  <2>2. QED
    BY <1>1, <2>1 DEF Proceed, FetchTreasury, Send, Confirm, ReadBack,
       ConfirmTransfer, Break, Lose
<1>2. ASSUME NEW c \in Calls, NEW recipient \in Owners, NEW mint \in Mints,
             NEW amount \in Amounts, Request(c, recipient, mint, amount)
      PROVE  [Next]_vars
  BY <1>2 DEF Request
<1>3. ASSUME NEW c \in Calls, Land(c)
      PROVE  [Next]_vars
  BY <1>3, LandIsPayStep DEF Next
<1>4. CASE Others
  BY <1>4 DEF Others, Next
<1>5. CASE UNCHANGED allVars
  BY <1>5 DEF allVars, vars
<1>6. QED
  BY <1>1, <1>2, <1>3, <1>4, <1>5 DEF ClientNext

\* Only a payment moves the counter.
LEMMA PayCountKept ==
    ASSUME TypeOK,
           GovernanceStep \/ DepositStep \/ WithdrawStep \/ TokenStep \/ UNCHANGED vars
    PROVE  PayCount' = PayCount
<1>1. CASE UNCHANGED treasury
  BY <1>1 DEF PayCount
<1>2. ASSUME NEW signer \in Wallets, InitializeTreasury(signer)
      PROVE  PayCount' = PayCount
  <2>1. treasury' = [authority |-> signer, paused |-> FALSE, pay_count |-> 0]
    BY <1>2 DEF InitializeTreasury
  <2>2. treasury' \in Treasuries
    BY <2>1, ConstantFacts DEF Treasuries
  <2>3. treasury'.pay_count = 0
    BY <2>1
  <2>4. treasury' # None
    BY <2>2, NoneAssumption
  <2>5. QED
    BY <1>2, <2>3, <2>4 DEF PayCount, InitializeTreasury
<1>3. ASSUME NEW signer \in Wallets, NEW paused \in BOOLEAN,
             SetTreasuryPaused(signer, paused)
      PROVE  PayCount' = PayCount
  <2>1. treasury \in Treasuries /\ treasury' \in Treasuries
        /\ treasury'.pay_count = treasury.pay_count
    BY <1>3 DEF SetTreasuryPaused, TypeOK, Treasuries
  <2>2. QED
    BY <2>1, NoneAssumption DEF PayCount
<1>4. CASE GovernanceStep
  BY <1>2, <1>3, <1>4 DEF GovernanceStep
<1>5. CASE DepositStep \/ WithdrawStep \/ TokenStep \/ UNCHANGED vars
  BY <1>1, <1>5 DEF DepositStep, SplDeposit, SplDepositWithReceipt, WithdrawStep,
     SplWithdraw, SplWithdrawWithReceipt, TokenStep, CreateAta, CloseAta,
     DirectTransfer, vars
<1>6. QED
  BY <1>4, <1>5

\* A receipt of the treasury's family stays as it was written.
LEMMA PayReceiptKept ==
    ASSUME TypeOK, [Next]_vars, NEW i \in U64, receipts[TreasuryPda][i] # None
    PROVE  receipts'[TreasuryPda][i] = receipts[TreasuryPda][i]
<1>1. CASE receipts' = receipts
  BY <1>1
<1>2. ASSUME NEW o \in Owners, NEW j \in U64, NEW r \in Receipts, CreateReceipt(o, j, r)
      PROVE  receipts'[TreasuryPda][i] = receipts[TreasuryPda][i]
  <2>1. receipts[o][j] = None /\ receipts' = [receipts EXCEPT ![o][j] = r]
    BY <1>2 DEF CreateReceipt, IsFree
  <2>2. o # TreasuryPda \/ j # i
    BY <2>1
  <2>3. receipts \in [Owners -> [U64 -> Receipts \cup {None}]] /\ TreasuryPda \in Owners
    BY ConstantFacts DEF TypeOK
  <2>4. QED
    BY <2>1, <2>2, <2>3
<1>3. QED
  BY <1>1, <1>2, StepReceipts

LEMMA HasReceiptKept ==
    ASSUME TypeOK, ClientTypeOK, [Next]_vars, NEW c \in Calls, HasReceipt(c),
           request'[c] = request[c], seen'[c] = seen[c]
    PROVE  HasReceipt(c)'
<1>1. seen[c] \in U64
  BY DEF ClientTypeOK
<1>2. receipts'[TreasuryPda][seen[c]] = receipts[TreasuryPda][seen[c]]
  BY <1>1, PayReceiptKept DEF HasReceipt
<1>3. QED
  BY <1>2 DEF HasReceipt

-----------------------------------------------------------------------------
(* Preservation. *)

\* As long as no transaction lands and no landed call is rewritten, what was
\* accounted for stays so.
LEMMA AccountsKept ==
    ASSUME ClientInv, [Next]_vars, PayCount' = PayCount,
           \A c \in Calls : fate'[c] = "landed" <=> fate[c] = "landed",
           \A c \in Calls : fate[c] = "landed" =>
                                request'[c] = request[c] /\ seen'[c] = seen[c]
    PROVE  PaymentsAccountedFor'
<1>1. \A c \in Calls : fate[c] = "landed" => HasReceipt(c)'
  BY HasReceiptKept DEF ClientInv, PaymentsAccountedFor
<1>2. QED
  BY <1>1 DEF ClientInv, PaymentsAccountedFor

LEMMA LandAccounted ==
    ASSUME ClientInv, NEW c \in Calls, Land(c)
    PROVE  PaymentsAccountedFor'
<1> DEFINE q == request[c]
           n == seen[c]
<1>1. q \in Requests /\ n \in U64
  BY InFlightRequest DEF Land, ClientInv
<1>2. SplPay(Operator, q.recipient, q.mint, q.amount, 0, n)
  BY DEF Land, ReceiptSlot
<1>3. UNCHANGED <<stage, request, seen>> /\ fate' = [fate EXCEPT ![c] = "landed"]
  BY DEF Land
<1>4. fate \in [Calls -> Fates] /\ fate[c] = "inflight"
  BY DEF Land, ClientInv, ClientTypeOK
<1>5. [Next]_vars
  BY LandIsPayStep DEF ClientInv, Next
<1>6. PayCount = n /\ PayCount' = n + 1
  <2>1. treasury \in Treasuries /\ treasury.pay_count = n
    BY <1>2 DEF SplPay, PayIsAccepted, Unpaused, IsPayReceiptSlot, ClientInv, TypeOK
  <2>2. treasury' \in Treasuries \cup {None}
    BY <1>5, StepTyped DEF ClientInv, TypeOK
  <2>3. treasury' = [treasury EXCEPT !.pay_count = @ + 1]
    BY <1>2 DEF SplPay, PayIsAccepted
  <2>4. treasury'.pay_count = n + 1 /\ n < MaxU64 /\ treasury' \in Treasuries
    BY <1>1, <1>2, <2>1, <2>3, ConstantFacts
       DEF Treasuries, SplPay, PayIsAccepted, CheckedAdd1Fits
  <2>5. QED
    BY <2>1, <2>4, NoneAssumption DEF PayCount
<1>7. HasReceipt(c)'
  <2>1. CreateReceipt(TreasuryPda, n,
            NewReceipt(q.recipient, "DIR_PAY", q.mint, q.amount, n, 0))
    BY <1>2 DEF SplPay, PayIsAccepted
  <2>2. NewReceipt(q.recipient, "DIR_PAY", q.mint, q.amount, n, 0) \in Receipts
    <3>1. q.recipient \in Owners /\ q.mint \in Mints /\ q.amount \in Nat \ {0}
      BY <1>1, <1>2, ConstantFacts DEF Requests, SplPay, PayIsAccepted
    <3>2. QED
      BY <1>1, <3>1, NewReceiptTyped DEF Directions
  <2>3. receipts'[TreasuryPda][n]
          = NewReceipt(q.recipient, "DIR_PAY", q.mint, q.amount, n, 0)
    BY <1>1, <2>1, ConstantFacts DEF CreateReceipt, IsFree, ClientInv, TypeOK
  <2>4. receipts'[TreasuryPda][n] # None
    BY <2>2, <2>3, NoneAssumption
  <2>5. QED
    BY <1>3, <2>3, <2>4 DEF HasReceipt, NewReceipt
<1> HIDE DEF q, n
<1>8. \A d \in Calls : d # c /\ fate'[d] = "landed" =>
          fate[d] = "landed" /\ seen[d] \in U64 /\ seen[d] < n /\ HasReceipt(d)'
  <2> SUFFICES ASSUME NEW d \in Calls, d # c, fate'[d] = "landed"
               PROVE  fate[d] = "landed" /\ seen[d] \in U64 /\ seen[d] < n
                      /\ HasReceipt(d)'
    OBVIOUS
  <2>1. fate[d] = "landed"
    BY <1>3, <1>4
  <2>2. seen[d] \in U64 /\ seen[d] < n /\ HasReceipt(d)
    BY <1>6, <2>1 DEF ClientInv, ClientTypeOK, PaymentsAccountedFor
  <2>3. HasReceipt(d)'
    BY <1>3, <1>5, <2>2, HasReceiptKept DEF ClientInv
  <2>4. QED
    BY <2>1, <2>2, <2>3
<1>9. fate'[c] = "landed" /\ seen[c] = n /\ n \in Nat
  BY <1>1, <1>3, <1>4, ConstantFacts DEF n
<1>10. \A d \in Calls : fate'[d] = "landed" => seen'[d] < PayCount' /\ HasReceipt(d)'
  <2> SUFFICES ASSUME NEW d \in Calls, fate'[d] = "landed"
               PROVE  seen'[d] < PayCount' /\ HasReceipt(d)'
    OBVIOUS
  <2>1. CASE d = c
    BY <1>3, <1>6, <1>7, <1>9, <2>1
  <2>2. CASE d # c
    <3>1. seen[d] \in Nat /\ seen[d] < n /\ HasReceipt(d)'
      BY <1>8, <2>2, ConstantFacts
    <3>2. seen'[d] = seen[d]
      BY <1>3
    <3>3. QED
      BY <1>6, <1>9, <3>1, <3>2
  <2>3. QED
    BY <2>1, <2>2
<1>11. \A d, e \in Calls :
          fate'[d] = "landed" /\ fate'[e] = "landed" /\ seen'[d] = seen'[e] => d = e
  BY <1>3, <1>8, <1>9, ConstantFacts DEF ClientInv, PaymentsAccountedFor
<1>12. \A i \in U64 : i < PayCount' =>
          \E d \in Calls : fate'[d] = "landed" /\ seen'[d] = i
  <2> SUFFICES ASSUME NEW i \in U64, i < PayCount'
               PROVE  \E d \in Calls : fate'[d] = "landed" /\ seen'[d] = i
    OBVIOUS
  <2>1. CASE i = n
    BY <1>3, <1>9, <2>1
  <2>2. CASE i < n
    <3>1. PICK d \in Calls : fate[d] = "landed" /\ seen[d] = i
      BY <1>6, <2>2 DEF ClientInv, PaymentsAccountedFor
    <3>2. QED
      BY <1>3, <1>4, <3>1
  <2>3. QED
    BY <1>6, <1>9, <2>1, <2>2, ConstantFacts
<1>13. QED
  BY <1>10, <1>11, <1>12 DEF PaymentsAccountedFor

LEMMA StepAccounted ==
    ASSUME ClientInv, [ClientNext]_allVars
    PROVE  PaymentsAccountedFor'
<1>1. [Next]_vars
  BY ClientStepIsProgramStep DEF ClientInv
<1>2. ASSUME NEW c \in Calls, Land(c)
      PROVE  PaymentsAccountedFor'
  BY <1>2, LandAccounted
<1>3. ASSUME NEW c \in Calls, NEW recipient \in Owners, NEW mint \in Mints,
             NEW amount \in Amounts, Request(c, recipient, mint, amount)
      PROVE  PaymentsAccountedFor'
  <2>1. PayCount' = PayCount
    BY <1>3, PayCountKept DEF Request, ClientInv
  <2>2. \A d \in Calls : fate[d] = "landed" => request'[d] = request[d]
    BY <1>3 DEF Request, ClientInv, ClientTypeOK
  <2>3. QED
    BY <1>1, <1>3, <2>1, <2>2, AccountsKept DEF Request
<1>4. ASSUME NEW c \in Calls, Proceed(c) \/ Break(c) \/ Lose(c)
      PROVE  PaymentsAccountedFor'
  <2>1. PayCount' = PayCount
    <3>1. TokenStep \/ UNCHANGED vars
      BY <1>4, GetOrCreateAtaStep DEF Proceed, FetchTreasury, Send, Confirm,
         ReadBack, ConfirmTransfer, Break, Lose, ClientInv
    <3>2. QED
      BY <3>1, PayCountKept DEF ClientInv
  <2>2. UNCHANGED request
    BY <1>4 DEF Proceed, FetchTreasury, GetOrCreateAta, Send, Confirm, ReadBack,
       ConfirmTransfer, Break, Lose
  <2>3. \A d \in Calls : fate[d] = "landed" => seen'[d] = seen[d]
    BY <1>4 DEF Proceed, FetchTreasury, GetOrCreateAta, Send, Confirm, ReadBack,
       ConfirmTransfer, Break, Lose, ClientInv, ClientTypeOK
  <2>4. \A d \in Calls : fate'[d] = "landed" <=> fate[d] = "landed"
    BY <1>4 DEF Proceed, FetchTreasury, GetOrCreateAta, Send, Confirm, ReadBack,
       ConfirmTransfer, Break, Lose, ClientInv, ClientTypeOK
  <2>5. QED
    BY <1>1, <2>1, <2>2, <2>3, <2>4, AccountsKept
<1>5. CASE Others
  <2>1. PayCount' = PayCount
    BY <1>5, PayCountKept DEF Others, ClientInv
  <2>2. QED
    BY <1>1, <1>5, <2>1, AccountsKept DEF Others, clientVars
<1>6. CASE UNCHANGED allVars
  BY <1>1, <1>6, AccountsKept DEF allVars, PayCount
<1>7. QED
  BY <1>2, <1>3, <1>4, <1>5, <1>6 DEF ClientNext

LEMMA StepClientTyped ==
    ASSUME ClientInv, [ClientNext]_allVars
    PROVE  ClientTypeOK'
<1> USE DEF ClientInv, ClientTypeOK, Stages, Running, Fates
<1>1. ASSUME NEW c \in Calls, NEW recipient \in Owners, NEW mint \in Mints,
             NEW amount \in Amounts, Request(c, recipient, mint, amount)
      PROVE  ClientTypeOK'
  <2>1. [recipient |-> recipient, mint |-> mint, amount |-> amount] \in Requests
    BY DEF Requests
  <2>2. QED
    BY <1>1, <2>1, ClientsAssumption DEF Request, Goto
<1>2. ASSUME NEW c \in Calls, FetchTreasury(c)
      PROVE  ClientTypeOK'
  <2>1. Unpaused => treasury.pay_count \in U64
    BY DEF Unpaused, TypeOK, Treasuries
  <2>2. QED
    BY <1>2, <2>1 DEF FetchTreasury, Goto, WhenNotPayable
<1>3. ASSUME NEW c \in Calls, GetOrCreateAta(c)
      PROVE  ClientTypeOK'
  BY <1>3 DEF GetOrCreateAta, Goto
<1>4. ASSUME NEW c \in Calls, Send(c) \/ Confirm(c)
      PROVE  ClientTypeOK'
  BY <1>4 DEF Send, Confirm, IsConfirmed, Goto
<1>5. ASSUME NEW c \in Calls, ReadBack(c) \/ ConfirmTransfer(c) \/ Break(c)
      PROVE  ClientTypeOK'
  BY <1>5 DEF ReadBack, ConfirmTransfer, Break, Goto
<1>6. ASSUME NEW c \in Calls, Land(c)
      PROVE  ClientTypeOK'
  <2>1. UNCHANGED <<stage, request, seen>> /\ fate' = [fate EXCEPT ![c] = "landed"]
        /\ fate[c] = "inflight"
    BY <1>6 DEF Land
  <2>2. QED
    BY <2>1
<1>7. ASSUME NEW c \in Calls, Lose(c)
      PROVE  ClientTypeOK'
  BY <1>7 DEF Lose
<1>8. CASE Others \/ UNCHANGED allVars
  BY <1>8 DEF Others, clientVars, allVars
<1>9. QED
  BY <1>1, <1>2, <1>3, <1>4, <1>5, <1>6, <1>7, <1>8 DEF ClientNext, Proceed

LEMMA ClientInvHolds == ClientSpec => []ClientInv
<1>1. ClientInv /\ [ClientNext]_allVars => ClientInv'
  <2> SUFFICES ASSUME ClientInv, [ClientNext]_allVars PROVE ClientInv'
    OBVIOUS
  <2>1. TypeOK'
    BY ClientStepIsProgramStep, StepTyped DEF ClientInv
  <2>2. QED
    BY <2>1, StepClientTyped, StepAccounted DEF ClientInv
<1>2. QED
  BY <1>1, InitClientInv, PTL DEF ClientSpec

\* What a call has requested and read, and what became of its transaction, fit the
\* await it stands at (type correctness of the clients).
THEOREM ClientsAreTyped == ClientSpec => []ClientTypeOK
BY ClientInvHolds, PTL DEF ClientInv

\* Whatever its clients do, and whatever happens to their calls and transactions
\* (executeZephyonDevnetSplPay.ts, pay_devnet.ts), the program behaves as it does alone: its theorems
\* hold under them, and its payments are those of the abstract ledger.
THEOREM ClientsKeepTheProgram == ClientSpec => Spec /\ ImplementsLedger
<1>1. ClientInit => Init
  BY DEF ClientInit
<1>2. ClientInv /\ [ClientNext]_allVars => [Next]_vars
  BY ClientStepIsProgramStep DEF ClientInv
<1>3. ClientSpec => Spec
  BY <1>1, <1>2, ClientInvHolds, PTL DEF ClientSpec, Spec
<1>4. QED
  BY <1>3, ProgramImplementsLedger, PTL

\* The treasury's payments and the calls that landed correspond one to one,
\* for any number of calls racing for an index, for any of them failing at any
\* await, and whatever anybody else does with the program.
THEOREM EveryPaymentIsAccountedFor == ClientSpec => []PaymentsAccountedFor
BY ClientInvHolds, PTL DEF ClientInv

\* A call that reports success has paid what it was asked to pay and names the
\* receipt of that payment.
THEOREM SuccessMeansPaid == ClientSpec => []SuccessIsPaid
<1>1. ClientInv => SuccessIsPaid
  BY DEF ClientInv, ClientTypeOK, PaymentsAccountedFor, SuccessIsPaid
<1>2. QED
  BY <1>1, ClientInvHolds, PTL

-----------------------------------------------------------------------------
(* The protocol lab. *)

(***************************************************************************)
(* The lab only reads the program's accounts, so what holds of the program *)
(* holds under it; the rest relates the stage of the run to what has been  *)
(* collected by then.  A simulation that is under way has an existing      *)
(* treasury and a positive amount because FetchPayCount ensures them,      *)
(* and a treasury that exists stays.                                       *)
(***************************************************************************)
Simulating == {"treasuryAta", "recipientAta", "simulate"}

LabInv ==
    /\ lab \in LabStages
    /\ verdict \in ValidationStatus \cup {None}
    /\ configured \in BOOLEAN
    /\ payCountBefore \in U64 /\ missing \in 0..1
    /\ results \in Seq(SimulationStatus)
    /\ lab \in {"idle", "validate", "rejected"} => results = <<>>
    /\ lab \in {"fetch"} \cup Simulating => Len(results) < Len(Scenario)
    /\ lab \in {"record", "finished"} => Len(results) = Len(Scenario)
    /\ lab # "recipientAta" => missing = 0
    /\ verdict = "green" => configured /\ treasury # None
    /\ ~configured => \A i \in DOMAIN results : results[i] = "blocked"
    /\ lab \in Simulating => configured /\ treasury # None /\ CurrentRequest.amount > 0
    /\ lab = "finished" =>
         ledger = [i \in DOMAIN Scenario |->
                     [amount |-> Scenario[i].amount, status |-> "simulated"]]

ProgramInv == TypeOK /\ Trails /\ FundsAreHeld

LEMMA LabFacts ==
    /\ Scenario \in Seq(LabRequests) /\ Len(Scenario) \in Nat /\ Len(Scenario) > 0
    /\ DOMAIN Scenario = 1..Len(Scenario)
    /\ LabWallet \in Wallets
<1>1. Scenario \in Seq(LabRequests) /\ Scenario # <<>> /\ LabWallet \in Wallets
  BY LabAssumption
<1>2. QED
  BY <1>1, LenProperties, EmptySeq

\* Whatever the lab does leaves the program's accounts alone.
LEMMA LabStepIsProgramStep ==
    ASSUME [LabNext]_allLabVars
    PROVE  [Next]_vars
BY DEF LabNext, StartLab, Continue, Validate, FetchPayCount, GetTreasuryAta,
   GetRecipientAta, SimulateTransaction, RecordEvents, RejectLab,
   allLabVars, vars

LEMMA ProgramInvHolds == LabSpec => []ProgramInv
<1>1. LabInit => ProgramInv
  BY InitTyped, InitTrails, InitFunds DEF LabInit, ProgramInv
<1>2. ProgramInv /\ [LabNext]_allLabVars => ProgramInv'
  BY LabStepIsProgramStep, StepTyped, StepTrails, StepFunds DEF ProgramInv
<1>3. QED
  BY <1>1, <1>2, PTL DEF LabSpec

\* A lab that simulates payments (simulateSplPayment) disturbs nobody: the program
\* behaves as it does without it, so a simulation is never a payment.
THEOREM LabKeepsTheProgram == LabSpec => Spec /\ ImplementsLedger
<1>1. LabInit => Init
  BY DEF LabInit
<1>2. [LabNext]_allLabVars => [Next]_vars
  BY LabStepIsProgramStep
<1>3. LabSpec => Spec
  BY <1>1, <1>2, PTL DEF LabSpec, Spec
<1>4. QED
  BY <1>3, ProgramImplementsLedger, PTL

\* A treasury that exists stays.
LEMMA TreasuryStays ==
    ASSUME TypeOK, [Next]_vars, treasury # None
    PROVE  treasury' # None
BY StepTreasury, NoneAssumption

-----------------------------------------------------------------------------
LEMMA InitLab == LabInit => LabInv
<1> SUFFICES ASSUME LabInit PROVE LabInv
  OBVIOUS
<1>1. <<>> \in Seq(SimulationStatus)
  BY EmptySeq
<1>2. QED
  BY <1>1, ConstantFacts, LabAssumption DEF LabInit, LabInv, LabStages, Simulating, ValidationStatus

\* A simulation's answer moves the batch on.
LEMMA AnswerKeepsLab ==
    ASSUME LabInv, NEW status \in SimulationStatus, Answer(status),
           lab \in {"fetch"} \cup Simulating, ~configured => status = "blocked",
           UNCHANGED <<treasury, verdict, configured, ledger>>
    PROVE  LabInv'
<1> USE LabFacts, ConstantFacts
<1> DEFINE n == Len(results)
           k == Len(Scenario)
<1>1. /\ results \in Seq(SimulationStatus) /\ results' = Append(results, status)
      /\ lab' = AfterSimulation /\ payCountBefore' = 0 /\ missing' = 0
  BY DEF LabInv, Answer
<1>2. /\ results' \in Seq(SimulationStatus) /\ Len(results') = n + 1 /\ n \in Nat
      /\ DOMAIN results = 1..n /\ DOMAIN results' = 1..(n + 1)
      /\ \A i \in 1..n : results'[i] = results[i]
      /\ results'[n + 1] = status
  BY <1>1, AppendProperties, LenProperties
<1>3. n < k /\ k \in Nat
  BY DEF LabInv
<1>4. lab' = IF n + 1 < k THEN "fetch" ELSE "record"
  BY <1>1 DEF AfterSimulation
<1> HIDE DEF n, k
<1>5. ~configured' => \A i \in DOMAIN results' : results'[i] = "blocked"
  <2> SUFFICES ASSUME ~configured, NEW i \in 1..(n + 1) PROVE results'[i] = "blocked"
    BY <1>2
  <2>1. i = n + 1 \/ i \in 1..n
    BY <1>2
  <2>2. QED
    BY <1>2, <2>1 DEF LabInv
<1>6. /\ verdict' \in ValidationStatus \cup {None} /\ configured' \in BOOLEAN
      /\ payCountBefore' \in U64 /\ missing' \in 0..1 /\ missing' = 0
      /\ verdict' = "green" => configured' /\ treasury' # None
  BY <1>1 DEF LabInv
<1>7. CASE n + 1 < k
  <2>1. lab' = "fetch" /\ Len(results') < Len(Scenario)
    BY <1>2, <1>4, <1>7 DEF k
  <2>2. QED
    BY <1>2, <1>5, <1>6, <2>1 DEF LabInv, LabStages, Simulating
<1>8. CASE ~(n + 1 < k)
  <2>1. n + 1 = k
    BY <1>2, <1>3, <1>8
  <2>2. lab' = "record" /\ Len(results') = Len(Scenario)
    BY <1>2, <1>4, <1>8, <2>1 DEF k
  <2>3. QED
    BY <1>2, <1>5, <1>6, <2>2 DEF LabInv, LabStages, Simulating
<1>9. QED
  BY <1>7, <1>8

LEMMA StepLab ==
    ASSUME ProgramInv, LabInv, [LabNext]_allLabVars
    PROVE  LabInv'
<1> USE LabFacts, ConstantFacts
<1>0. \A i \in DOMAIN <<>> : <<>>[i] = "blocked"
  OBVIOUS
<1>1. CASE StartLab
  BY <1>1 DEF StartLab, LabInv, LabStages, Simulating, CurrentRequest, vars, simulationVars
<1>2. CASE Validate
  <2>1. PICK errors \in 0..4, hasBlockhash \in BOOLEAN, account \in BOOLEAN,
             program \in ProgramStatus :
          verdict' = DetermineStatus(RpcStatus(errors, hasBlockhash),
                                     program, TreasuryStatus(account))
    BY <1>2 DEF Validate
  <2>2. verdict' \in ValidationStatus /\ (verdict' = "green" => TreasuryStatus(account) = "valid")
    BY <2>1 DEF DetermineStatus, ValidationStatus, TreasuryStatus
  <2>3. TreasuryStatus(account) = "valid" => configured /\ treasury # None
    BY DEF TreasuryStatus
  <2>4. QED
    BY <1>2, <2>2, <2>3
       DEF Validate, LabInv, LabStages, Simulating, CurrentRequest, vars, simulationVars
<1>3. CASE FetchPayCount
  <2>1. treasury # None => treasury.pay_count \in U64
    BY DEF ProgramInv, TypeOK, Treasuries
  <2>2. <<>> \in Seq(SimulationStatus)
    BY EmptySeq
  <2>3. CASE ~configured /\ Answer("blocked")
    BY <1>3, <2>3, AnswerKeepsLab DEF FetchPayCount, SimulationStatus, vars
  <2>4. CASE /\ configured /\ treasury # None /\ CurrentRequest.amount > 0
             /\ lab' = "treasuryAta"
             /\ payCountBefore' = treasury.pay_count
             /\ UNCHANGED <<missing, results>>
    BY <1>3, <2>1, <2>4
       DEF FetchPayCount, LabInv, LabStages, Simulating, CurrentRequest, vars
  <2>5. CASE /\ configured /\ lab' = "rejected"
             /\ results' = <<>>
             /\ UNCHANGED <<payCountBefore, missing>>
    BY <1>0, <1>3, <2>2, <2>5
       DEF FetchPayCount, LabInv, LabStages, Simulating, CurrentRequest, vars
  <2>6. QED
    BY <1>3, <2>3, <2>4, <2>5 DEF FetchPayCount
<1>4. CASE GetTreasuryAta
  <2>1. missing' \in 0..1
    BY <1>4 DEF GetTreasuryAta, GetAccount
  <2>2. QED
    BY <1>4, <2>1 DEF GetTreasuryAta, LabInv, LabStages, Simulating, CurrentRequest, vars
<1>5. CASE GetRecipientAta
  <2>1. PICK errors \in GetAccount(CurrentRequest.recipient) :
          \/ missing + errors > 0 /\ Answer("blocked")
          \/ missing + errors = 0 /\ lab' = "simulate" /\ UNCHANGED simulationVars
    BY <1>5 DEF GetRecipientAta
  <2>2. CASE Answer("blocked")
    BY <1>5, <2>2, AnswerKeepsLab DEF GetRecipientAta, Simulating, SimulationStatus, vars
  <2>3. CASE missing + errors = 0 /\ lab' = "simulate" /\ UNCHANGED simulationVars
    <3>1. errors \in {0, 1} /\ missing \in {0, 1}
      BY <2>1 DEF GetAccount, LabInv
    <3>2. missing = 0
      BY <2>3, <3>1
    <3>3. QED
      BY <1>5, <2>3, <3>2
         DEF GetRecipientAta, simulationVars, LabInv, LabStages, Simulating, CurrentRequest, vars
  <2>4. QED
    BY <2>1, <2>2, <2>3
<1>6. CASE SimulateTransaction
  <2> DEFINE answer == IF Executes(CurrentRequest) THEN "simulated" ELSE "failed"
  <2>1. answer \in SimulationStatus
    BY DEF SimulationStatus
  <2>2. lab = "simulate" /\ Answer(answer) /\ UNCHANGED <<treasury, verdict, configured, ledger>>
    BY <1>6 DEF SimulateTransaction, vars
  <2>3. configured
    BY <2>2 DEF LabInv, Simulating
  <2> HIDE DEF answer
  <2>4. QED
    BY <2>1, <2>2, <2>3, AnswerKeepsLab DEF Simulating
<1>7. CASE RecordEvents
  BY <1>7 DEF RecordEvents, LabInv, LabStages, Simulating, vars, simulationVars
<1>8. CASE RejectLab
  <2>1. <<>> \in Seq(SimulationStatus)
    BY EmptySeq
  <2>2. QED
    BY <1>0, <1>8, <2>1 DEF RejectLab, LabInv, LabStages, LabRunning, Simulating, vars
<1>9. CASE [Next]_vars /\ UNCHANGED labVars
  <2>1. treasury # None => treasury' # None
    BY <1>9, TreasuryStays DEF ProgramInv
  <2>2. QED
    BY <1>9, <2>1 DEF LabInv, labVars, CurrentRequest
<1>10. QED
  BY <1>1, <1>2, <1>3, <1>4, <1>5, <1>6, <1>7, <1>8, <1>9
     DEF LabNext, Continue, allLabVars, labVars, vars

LEMMA LabInvHolds == LabSpec => [](ProgramInv /\ LabInv)
<1>1. LabSpec => []LabInv
  BY InitLab, StepLab, ProgramInvHolds, PTL DEF LabSpec
<1>2. QED
  BY <1>1, ProgramInvHolds, PTL

-----------------------------------------------------------------------------
(* The counts of a batch: every result has one of the three statuses, and   *)
(* none has two.                                                            *)

LEMMA CountsAddUp ==
    ASSUME results \in Seq(SimulationStatus)
    PROVE  CountOf("simulated") + CountOf("blocked") + CountOf("failed") = Len(results)
<1> DEFINE Of(status) == {i \in DOMAIN results : results[i] = status}
<1>1. Len(results) \in Nat /\ DOMAIN results = 1..Len(results)
      /\ \A i \in DOMAIN results : results[i] \in SimulationStatus
  BY LenProperties, ElementOfSeq
<1>2. IsFiniteSet(DOMAIN results) /\ Cardinality(DOMAIN results) = Len(results)
  BY <1>1, FS_Interval
<1>3. IsFiniteSet(Of("simulated")) /\ IsFiniteSet(Of("blocked")) /\ IsFiniteSet(Of("failed"))
  BY <1>2, FS_Subset
<1>4. Of("simulated") \cap Of("blocked") = {}
      /\ (Of("simulated") \cup Of("blocked")) \cap Of("failed") = {}
      /\ (Of("simulated") \cup Of("blocked")) \cup Of("failed") = DOMAIN results
  BY <1>1 DEF SimulationStatus
<1>5. /\ Cardinality(Of("simulated")) = CountOf("simulated")
      /\ Cardinality(Of("blocked")) = CountOf("blocked")
      /\ Cardinality(Of("failed")) = CountOf("failed")
  BY DEF CountOf
<1>6. CountOf("simulated") \in Nat /\ CountOf("blocked") \in Nat /\ CountOf("failed") \in Nat
  BY <1>3, <1>5, FS_CardinalityType
<1> HIDE DEF Of
<1>7. Cardinality({}) = 0
  BY FS_EmptySet
<1>8. IsFiniteSet(Of("simulated") \cup Of("blocked"))
      /\ Cardinality(Of("simulated") \cup Of("blocked"))
           = Cardinality(Of("simulated")) + Cardinality(Of("blocked"))
             - Cardinality(Of("simulated") \cap Of("blocked"))
  BY <1>3, FS_Union
<1>9. Cardinality((Of("simulated") \cup Of("blocked")) \cup Of("failed"))
        = Cardinality(Of("simulated") \cup Of("blocked")) + Cardinality(Of("failed"))
          - Cardinality((Of("simulated") \cup Of("blocked")) \cap Of("failed"))
  BY <1>3, <1>8, FS_Union
<1>10. Len(results) = Cardinality((Of("simulated") \cup Of("blocked")) \cup Of("failed"))
  BY <1>2, <1>4
<1>11. Cardinality(Of("simulated") \cup Of("blocked"))
         = CountOf("simulated") + CountOf("blocked")
  <2>1. Cardinality(Of("simulated") \cap Of("blocked")) = 0
    BY <1>4, <1>7
  <2>2. CountOf("simulated") + CountOf("blocked") - 0
          = CountOf("simulated") + CountOf("blocked")
    BY <1>6
  <2>3. QED
    BY <1>5, <1>8, <2>1, <2>2
<1>12. Cardinality((Of("simulated") \cup Of("blocked")) \cap Of("failed")) = 0
  BY <1>4, <1>7
<1>13. QED
  BY <1>5, <1>6, <1>9, <1>10, <1>11, <1>12

\* A run that is recorded has a result for every payment, its counts add up to the
\* batch, and its ledger has the scenario's volume, for a scenario of any length
\* (batchPaymentSimulator.ts, ledgerAnalytics.ts).
THEOREM LabBooksAddUp == LabSpec => []LabTypeOK
<1>1. LabInv => LabTypeOK
  <2> SUFFICES ASSUME LabInv PROVE LabTypeOK
    OBVIOUS
  <2> USE LabFacts
  <2>1. Len(results) <= Len(Scenario)
    <3>1. lab \in LabStages
      BY DEF LabInv
    <3>2. CASE results = <<>>
      BY <3>2, LenProperties, EmptySeq
    <3>3. CASE lab \notin {"idle", "validate", "rejected"}
      <4>1. Len(results) \in Nat
        BY LenProperties DEF LabInv
      <4>2. QED
        BY <3>1, <3>3, <4>1 DEF LabInv, LabStages, Simulating
    <3>4. QED
      BY <3>1, <3>2, <3>3 DEF LabInv
  <2>2. lab \in {"record", "finished"} =>
          CountOf("simulated") + CountOf("blocked") + CountOf("failed") = Len(Scenario)
    BY CountsAddUp DEF LabInv
  <2>3. lab = "finished" =>
          TotalRawVolume = SumFunction([i \in DOMAIN Scenario |-> Scenario[i].amount])
    <3> SUFFICES ASSUME lab = "finished"
                 PROVE  [i \in DOMAIN ledger |-> ledger[i].amount]
                          = [i \in DOMAIN Scenario |-> Scenario[i].amount]
      BY DEF TotalRawVolume
    <3>1. ledger = [i \in DOMAIN Scenario |->
                      [amount |-> Scenario[i].amount, status |-> "simulated"]]
      BY DEF LabInv
    <3>2. QED
      BY <3>1
  <2>4. ~configured => Range(results) \subseteq {"blocked"}
    BY DEF LabInv, Range
  <2>5. QED
    BY <2>1, <2>2, <2>3, <2>4 DEF LabInv, LabTypeOK
<1>2. QED
  BY <1>1, LabInvHolds, PTL

-----------------------------------------------------------------------------
\* What the program requires of the payment that is simulated comes down to the
\* pause, the authority, the funds and the counter.
LEMMA WhatExecutes ==
    ASSUME ProgramInv, LabInv, lab = "simulate"
    PROVE  Executes(CurrentRequest) <=>
             /\ ~treasury.paused /\ treasury.authority = LabWallet
             /\ balance[TreasuryPda][CurrentRequest.mint] >= CurrentRequest.amount
             /\ payCountBefore = PayCount /\ PayCount < MaxU64
<1> USE LabFacts, ConstantFacts
<1>1. /\ treasury # None /\ CurrentRequest.amount > 0
      /\ Len(results) < Len(Scenario) /\ Len(results) \in Nat
  BY LenProperties DEF LabInv, Simulating
<1>2. CurrentRequest \in LabRequests
  <2>1. Len(results) + 1 \in 1..Len(Scenario)
    BY <1>1
  <2>2. QED
    BY <2>1, ElementOfSeq DEF CurrentRequest
<1>3. CurrentRequest.mint \in Mints /\ CurrentRequest.amount \in Nat
  BY <1>2 DEF LabRequests
<1>4. PayCount = treasury.pay_count /\ PayCount \in U64
  BY <1>1, PayCountTyped DEF PayCount, ProgramInv
<1>5. IsFree(TreasuryPda, PayCount)
  <2> DEFINE n == PayCount
  <2>1. n \in Nat
    BY <1>4
  <2> HIDE DEF n
  <2>2. ~(n < n)
    BY <2>1
  <2>3. QED
    BY <1>4, <2>2 DEF n, IsFree, ProgramInv, Trails, PayTrailContiguous
<1>6. balance[TreasuryPda][CurrentRequest.mint] \in Nat
  BY <1>3 DEF ProgramInv, TypeOK
<1>7. CanTransfer(TreasuryPda, CurrentRequest.mint, CurrentRequest.amount)
        <=> balance[TreasuryPda][CurrentRequest.mint] >= CurrentRequest.amount
  BY <1>1, <1>3, <1>6 DEF CanTransfer, ProgramInv, FundsAreHeld
<1>8. 0 <= MemoMax
  BY ConstantsAssumption
<1>9. QED
  BY <1>1, <1>4, <1>5, <1>7, <1>8
     DEF Executes, PayIsAccepted, Unpaused, IsPayReceiptSlot, IsAuthority, CheckedAdd1Fits

\* Every result but a blocked one is a simulation's.
LEMMA OnlySimulationsAnswer ==
    ASSUME LabInv, [LabNext]_allLabVars, Answered, Result # "blocked"
    PROVE  SimulateTransaction
<1>1. results \in Seq(SimulationStatus) /\ Len(results) \in Nat
  BY LenProperties DEF LabInv
<1>2. results' # results
  BY <1>1 DEF Answered
<1>3. results' # <<>>
  BY <1>1, EmptySeq DEF Answered
<1>4. ~Answer("blocked")
  <2> SUFFICES ASSUME Answer("blocked") PROVE FALSE
    OBVIOUS
  <2>1. results' = Append(results, "blocked") /\ "blocked" \in SimulationStatus
    BY DEF Answer, SimulationStatus
  <2>2. Len(results') = Len(results) + 1 /\ results'[Len(results) + 1] = "blocked"
    BY <1>1, <2>1, AppendProperties
  <2>3. QED
    BY <2>2 DEF Result
<1>5. QED
  BY <1>2, <1>3, <1>4 DEF LabNext, StartLab, Continue, Validate, FetchPayCount,
     GetTreasuryAta, GetRecipientAta, RecordEvents, RejectLab,
     allLabVars, labVars, simulationVars

\* A payment is said to be simulated exactly when the treasury can make it at that
\* moment, whatever others did since the counter and the accounts were read:
\* the receipt's address is then free and the treasury's account exists
\* (paymentSimulator.ts, simulateSplPayment).
THEOREM LabVerdictsAreExplained == LabSpec => VerdictsAreExplained
<1>1. ASSUME ProgramInv, LabInv, [LabNext]_allLabVars, Answered, Result # "blocked"
      PROVE  Result = "simulated" <=>
               /\ ~treasury.paused /\ treasury.authority = LabWallet
               /\ balance[TreasuryPda][Scenario[Len(results')].mint]
                    >= Scenario[Len(results')].amount
               /\ payCountBefore = PayCount /\ PayCount < MaxU64
  <2>1. SimulateTransaction
    BY <1>1, OnlySimulationsAnswer
  <2> DEFINE answer == IF Executes(CurrentRequest) THEN "simulated" ELSE "failed"
  <2>2. lab = "simulate" /\ results' = Append(results, answer)
    BY <2>1 DEF SimulateTransaction, Answer
  <2>3. answer \in SimulationStatus /\ results \in Seq(SimulationStatus)
    BY <1>1 DEF LabInv, SimulationStatus
  <2> HIDE DEF answer
  <2>4. Len(results') = Len(results) + 1 /\ results'[Len(results) + 1] = answer
        /\ Len(results) \in Nat
    BY <2>2, <2>3, AppendProperties, LenProperties
  <2>5. Result = answer /\ Scenario[Len(results')] = CurrentRequest
    BY <2>4 DEF Result, CurrentRequest
  <2>6. Result = "simulated" <=> Executes(CurrentRequest)
    BY <1>1, <2>5 DEF answer
  <2>7. QED
    BY <1>1, <2>2, <2>5, <2>6, WhatExecutes
<1>2. ProgramInv /\ LabInv /\ [LabNext]_allLabVars =>
        (Answered /\ Result # "blocked" =>
           (Result = "simulated" <=>
               /\ ~treasury.paused /\ treasury.authority = LabWallet
               /\ balance[TreasuryPda][Scenario[Len(results')].mint]
                    >= Scenario[Len(results')].amount
               /\ payCountBefore = PayCount /\ PayCount < MaxU64))
  BY <1>1
<1>3. QED
  BY <1>2, LabInvHolds, PTL DEF LabSpec, VerdictsAreExplained
=============================================================================
