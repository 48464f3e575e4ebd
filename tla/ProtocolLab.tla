---------------------------- MODULE ProtocolLab ----------------------------
(***************************************************************************)
(* The protocol lab: a scenario's payments are simulated one after another *)
(* against the on-chain program, each from its own readings of the         *)
(* treasury and of the token accounts, while anybody else uses the         *)
(* program; then every payment is recorded in the lab's ledger.  Before    *)
(* it, the environment is validated.                                       *)
(***************************************************************************)
EXTENDS TreasuryProgram, Sequences, FiniteSets, Functions

CONSTANTS
    LabWallet,      \* the wallet whose keypair the lab loads
    Scenario        \* the payments to simulate, in order

LabRequests == [recipient : Wallets, mint : Mints, amount : Nat]

LabStages == {"idle", "validate", "fetch", "treasuryAta", "recipientAta", "simulate",
              "record", "finished", "rejected"}
LabRunning == LabStages \ {"idle", "finished", "rejected"}
SimulationStatus == {"simulated", "blocked", "failed"}
ValidationStatus == {"green", "yellow", "red"}

ASSUME LabAssumption ==
    /\ LabWallet \in Wallets
    /\ Scenario \in Seq(LabRequests) /\ Scenario # <<>>
    /\ 0 \in Memos
    /\ None \notin ValidationStatus

VARIABLES
    lab,            \* where the run is in its sequence of awaits
    verdict,        \* the status of validateProtocolEnvironment, or None
    configured,     \* environment.treasuryPda is given
    payCountBefore, \* the pay_count the present simulation read, or 0
    missing,        \* how many errors the present simulation has collected
    results,        \* the statuses of the simulations so far
    ledger          \* EconomicLedger.entries: request numbers and statuses

simulationVars == <<payCountBefore, missing, results>>
labVars == <<lab, verdict, configured, payCountBefore, missing, results, ledger>>
allLabVars == <<treasury, profiles, receipts, atas, balance, event,
                lab, verdict, configured, payCountBefore, missing, results, ledger>>

LabInit ==
    /\ Init
    /\ lab = "idle" /\ verdict = None
    /\ configured \in BOOLEAN
    /\ payCountBefore = 0 /\ missing = 0
    /\ results = <<>> /\ ledger = <<>>

-----------------------------------------------------------------------------
(* Mistakes: see TreasuryProgram. *)

\* The receipt's address is derived from the counter as it is, not as it was read.
MistakeFreshCounter(request) ==
    PayIsAccepted(LabWallet, request.mint, request.amount, 0, treasury.pay_count)

\* The pause between payments decides what follows: the last two are one.
MistakeOffByOne == IF Len(results) + 2 < Len(Scenario) THEN "fetch" ELSE "record"

\* The account is waited for.
MistakeAwaitAccount(owner) ==
    IF <<owner, Scenario[Len(results) + 1].mint>> \in atas THEN {0} ELSE {}

-----------------------------------------------------------------------------
(* validateProtocolEnvironment. *)

\* checkRpcHealth of the lab asks four questions; the third may lack a hash.
RpcStatus(errors, hasBlockhash) ==
    IF errors >= 3 THEN "unreachable"
    ELSE IF errors > 0 \/ ~hasBlockhash THEN "degraded" ELSE "healthy"

\* validateTreasuryAccount: the account exists, and is not executable.
TreasuryStatus(answered) ==
    IF ~configured THEN "unconfigured"
    ELSE IF ~answered THEN "unavailable"
    ELSE IF treasury = None THEN "invalid" ELSE "valid"

\* validateProgramAccount: the program may be deployed at the environment's
\* address or not, or be something else.
ProgramStatus == {"valid", "invalid", "not_found", "unavailable"}

DetermineStatus(rpc, program, account) ==
    IF \/ rpc = "unreachable"
       \/ program \in {"unavailable", "not_found"}
       \/ account \in {"unavailable", "invalid"}
    THEN "red"
    ELSE IF rpc = "degraded" \/ account = "unconfigured" \/ program = "invalid"
    THEN "yellow"
    ELSE "green"

StartLab ==
    /\ lab = "idle"
    /\ lab' = "validate"
    /\ UNCHANGED <<vars, verdict, configured, simulationVars, ledger>>

\* The three checks run at once and never reject; the run goes on whatever they
\* say.
Validate ==
    /\ lab = "validate"
    /\ \E errors \in 0..4, hasBlockhash, account \in BOOLEAN, program \in ProgramStatus :
         verdict' = DetermineStatus(RpcStatus(errors, hasBlockhash),
                                    program, TreasuryStatus(account))
    /\ lab' = "fetch"
    /\ UNCHANGED <<vars, configured, simulationVars, ledger>>

-----------------------------------------------------------------------------
(* simulateSplPayment. *)

CurrentRequest == Scenario[Len(results) + 1]

\* The batch goes on with the next payment, or ends.
AfterSimulation == IF Len(results) + 1 < Len(Scenario) THEN "fetch" ELSE "record"

Answer(status) ==
    /\ results' = Append(results, status)
    /\ lab' = AfterSimulation
    /\ payCountBefore' = 0 /\ missing' = 0

\* Fetching an account that does not exist rejects, and so does building an
\* instruction of a zero amount; the whole batch rejects with it.
FetchPayCount ==
    /\ lab = "fetch"
    /\ \/ ~configured /\ Answer("blocked")
       \/ /\ configured /\ treasury # None /\ CurrentRequest.amount > 0
          /\ lab' = "treasuryAta"
          /\ payCountBefore' = treasury.pay_count
          /\ UNCHANGED <<missing, results>>
       \/ /\ configured /\ (treasury = None \/ CurrentRequest.amount = 0)
          /\ lab' = "rejected"
          /\ results' = <<>>
          /\ UNCHANGED <<payCountBefore, missing>>
    /\ UNCHANGED <<vars, verdict, configured, ledger>>

\* The errors that getAccount may add: an account that could not be read is one
\* that does not exist.
GetAccount(owner) == IF <<owner, CurrentRequest.mint>> \in atas THEN {0, 1} ELSE {1}

GetTreasuryAta ==
    /\ lab = "treasuryAta"
    /\ missing' \in GetAccount(TreasuryPda)
    /\ lab' = "recipientAta"
    /\ UNCHANGED <<vars, verdict, configured, payCountBefore, results, ledger>>

GetRecipientAta ==
    /\ lab = "recipientAta"
    /\ \E errors \in GetAccount(CurrentRequest.recipient) :
         \/ missing + errors > 0 /\ Answer("blocked")
         \/ missing + errors = 0 /\ lab' = "simulate" /\ UNCHANGED simulationVars
    /\ UNCHANGED <<vars, verdict, configured, ledger>>

\* simulateTransaction: what the program would do with the transaction now.
Executes(request) ==
    PayIsAccepted(LabWallet, request.mint, request.amount, 0, payCountBefore)

SimulateTransaction ==
    /\ lab = "simulate"
    /\ Answer(IF Executes(CurrentRequest) THEN "simulated" ELSE "failed")
    /\ UNCHANGED <<vars, verdict, configured, ledger>>

\* Any other await may reject; nothing is recorded then, and the results are lost.
RejectLab ==
    /\ lab \in LabRunning \ {"validate", "record"}
    /\ lab = "fetch" => configured
    /\ lab' = "rejected"
    /\ payCountBefore' = 0 /\ missing' = 0 /\ results' = <<>>
    /\ UNCHANGED <<vars, verdict, configured, ledger>>

\* recordEconomicEvent for every request of the scenario: its status is a
\* constant of the script.
RecordEvents ==
    /\ lab = "record"
    /\ ledger' = [i \in DOMAIN Scenario |->
                    [amount |-> Scenario[i].amount, status |-> "simulated"]]
    /\ lab' = "finished"
    /\ UNCHANGED <<vars, verdict, configured, simulationVars>>

-----------------------------------------------------------------------------
Continue ==
    \/ Validate \/ FetchPayCount \/ GetTreasuryAta \/ GetRecipientAta
    \/ SimulateTransaction \/ RecordEvents

LabNext ==
    \/ StartLab \/ Continue \/ RejectLab
    \/ Next /\ UNCHANGED labVars

\* The event loop runs every continuation; nobody else need act.
LabSpec == LabInit /\ [][LabNext]_allLabVars /\ WF_allLabVars(Continue)

-----------------------------------------------------------------------------
(* The batch's counts, and summarizeLedger. *)

CountOf(status) == Cardinality({i \in DOMAIN results : results[i] = status})

TotalRawVolume == SumFunction([i \in DOMAIN ledger |-> ledger[i].amount])

-----------------------------------------------------------------------------
(* Properties *)

\* A run that is recorded has a result for every payment, its counts add up to the
\* batch, and its ledger has the scenario's volume.  An environment without a
\* treasury is never green, and has blocked payments only.
LabTypeOK ==
    /\ lab \in LabStages
    /\ verdict \in ValidationStatus \cup {None}
    /\ configured \in BOOLEAN
    /\ payCountBefore \in U64 /\ missing \in 0..1
    /\ results \in Seq(SimulationStatus) /\ Len(results) <= Len(Scenario)
    /\ lab \in {"record", "finished"} =>
         CountOf("simulated") + CountOf("blocked") + CountOf("failed") = Len(Scenario)
    /\ verdict = "green" => configured /\ treasury # None
    /\ ~configured => Range(results) \subseteq {"blocked"}
    /\ lab = "finished" =>
         TotalRawVolume = SumFunction([i \in DOMAIN Scenario |-> Scenario[i].amount])

Answered == Len(results') > Len(results)
Result == results'[Len(results')]

\* A payment said to be simulated is one that the treasury, as it is then, can
\* make: it is not paused, belongs to the lab's wallet, holds the amount, and
\* nobody has paid since the counter was read.  One said to have failed could not
\* be made for one of these reasons, or because the counter is at its end: never
\* for an address that is taken, or an account that is missing.
VerdictsAreExplained ==
    [][Answered /\ Result # "blocked" =>
         LET payment == Scenario[Len(results')]
             canPay  == /\ ~treasury.paused /\ treasury.authority = LabWallet
                        /\ balance[TreasuryPda][payment.mint] >= payment.amount
             isNext  == payCountBefore = PayCount /\ PayCount < MaxU64
         IN  Result = "simulated" <=> canPay /\ isNext]_allLabVars

\* A run that has begun ends, recorded or rejected, whatever others do to the
\* accounts it reads.
EveryBatchEnds == lab \in LabRunning ~> lab \in {"finished", "rejected"}
=============================================================================
