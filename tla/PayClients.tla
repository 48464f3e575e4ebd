----------------------------- MODULE PayClients -----------------------------
(***************************************************************************)
(* Clients of the on-chain program that pay from the treasury: each call   *)
(* of executeZephyonDevnetSplPay behind the Solana adapter, and each run   *)
(* of scripts/pay_devnet.ts behind POST /send of the backend.  All of them *)
(* hold the same keypair, the treasury's authority.  A call reads the      *)
(* treasury once and derives the receipt address from that reading; by the *)
(* time its transaction executes, others may have paid.                    *)
(***************************************************************************)
EXTENDS TreasuryProgram

CONSTANTS
    Calls,          \* the calls made of the clients
    ScriptCalls,    \* those made through the script; the others, the adapter
    Operator        \* the wallet whose keypair the clients load

Requests == [recipient : Owners, mint : Mints, amount : Amounts]

ASSUME ClientsAssumption ==
    /\ ScriptCalls \subseteq Calls
    /\ Operator \in Wallets
    /\ 0 \in Memos
    /\ None \notin Requests

Running == {"fetch", "accounts", "send", "confirm", "status", "settle"}
Stages == {"new", "succeeded", "failed"} \cup Running
Fates == {"unsent", "inflight", "landed", "lost"}

VARIABLES
    stage,      \* where each call is in its sequence of awaits
    request,    \* what each call was asked to pay
    seen,       \* the pay_count each call read
    fate        \* what has become of each call's transaction

clientVars == <<stage, request, seen, fate>>
allVars == <<treasury, profiles, receipts, atas, balance, event,
             stage, request, seen, fate>>

ClientInit ==
    /\ Init
    /\ stage = [c \in Calls |-> "new"]
    /\ request = [c \in Calls |-> None]
    /\ seen = [c \in Calls |-> 0]
    /\ fate = [c \in Calls |-> "unsent"]

-----------------------------------------------------------------------------
(* Mistakes: see TreasuryProgram. *)

\* A signature is taken for a payment.
MistakeSentIsPaid(c) == fate[c] # "unsent"

\* A paused treasury is polled instead of reported.
MistakeWaitWhilePaused == "fetch"

\* The receipt's index is settled when the transaction executes.
MistakeLateSlot(c) == treasury.pay_count

-----------------------------------------------------------------------------
Goto(c, next) == stage' = [stage EXCEPT ![c] = next]

\* The stage a call goes to when it finds the treasury missing or paused.
WhenNotPayable == "failed"

\* rpc() resolves when the cluster confirms the transaction.
IsConfirmed(c) == fate[c] = "landed"

\* The index from which a call derived the receipt address it passes.
ReceiptSlot(c) == seen[c]

\* The arguments are checked before anything is read.
Request(c, recipient, mint, amount) ==
    /\ stage[c] = "new"
    /\ request' = [request EXCEPT
                     ![c] = [recipient |-> recipient, mint |-> mint, amount |-> amount]]
    /\ Goto(c, IF amount > 0 THEN "fetch" ELSE "failed")
    /\ UNCHANGED <<vars, seen, fate>>

\* The one reading of the treasury account.
FetchTreasury(c) ==
    /\ stage[c] = "fetch"
    /\ IF Unpaused
         THEN /\ seen' = [seen EXCEPT ![c] = treasury.pay_count]
              /\ Goto(c, "accounts")
         ELSE /\ UNCHANGED seen
              /\ Goto(c, WhenNotPayable)
    /\ UNCHANGED <<vars, request, fate>>

\* getOrCreateAssociatedTokenAccount, which refuses an owner off the curve.
GetOrCreateAta(c) ==
    LET owner == request[c].recipient
        mint == request[c].mint
    IN  /\ stage[c] = "accounts"
        /\ IF owner \in Wallets
             THEN /\ IF <<owner, mint>> \in atas THEN UNCHANGED vars
                                                 ELSE CreateAta(owner, mint)
                  /\ Goto(c, "send")
             ELSE /\ UNCHANGED vars
                  /\ Goto(c, "failed")
        /\ UNCHANGED <<request, seen, fate>>

\* rpc() signs the transaction and sends it.
Send(c) ==
    /\ stage[c] = "send"
    /\ Goto(c, "confirm")
    /\ fate' = [fate EXCEPT ![c] = "inflight"]
    /\ UNCHANGED <<vars, request, seen>>

\* The confirmation arrives: with an execution, or with an error or the
\* expiry of the transaction.
Confirm(c) ==
    /\ stage[c] = "confirm"
    /\ \/ IsConfirmed(c) /\ Goto(c, "status")
       \/ fate[c] = "lost" /\ Goto(c, "failed")
    /\ UNCHANGED <<vars, request, seen, fate>>

\* What is read once the transaction is confirmed (the signature's status, the
\* balances and the counter) only fills the answer.
ReadBack(c) ==
    /\ stage[c] = "status"
    /\ Goto(c, IF c \in ScriptCalls THEN "succeeded" ELSE "settle")
    /\ UNCHANGED <<vars, request, seen, fate>>

\* The adapter's confirmTransfer asks for the status; the node may have none.
ConfirmTransfer(c) ==
    /\ stage[c] = "settle"
    /\ \/ IsConfirmed(c) /\ Goto(c, "succeeded")
       \/ Goto(c, "failed")
    /\ UNCHANGED <<vars, request, seen, fate>>

\* An await rejects (the node refuses the simulation or is out of reach, the
\* answer to a send is lost) or the backend's timeout kills the script.  The
\* call fails; its transaction may be on its way.
Break(c) ==
    /\ stage[c] \in Running
    /\ Goto(c, "failed")
    /\ \/ UNCHANGED fate
       \/ stage[c] = "send" /\ fate' = [fate EXCEPT ![c] = "inflight"]
    /\ UNCHANGED <<vars, request, seen>>

-----------------------------------------------------------------------------
(* External: the cluster, and everybody else's instructions. *)

Land(c) ==
    /\ fate[c] = "inflight"
    /\ SplPay(Operator, request[c].recipient, request[c].mint, request[c].amount,
              0, ReceiptSlot(c))
    /\ fate' = [fate EXCEPT ![c] = "landed"]
    /\ UNCHANGED <<stage, request, seen>>

\* The transaction fails when it is executed, or is never included.
Lose(c) ==
    /\ fate[c] = "inflight"
    /\ fate' = [fate EXCEPT ![c] = "lost"]
    /\ UNCHANGED <<vars, stage, request, seen>>

Others ==
    /\ GovernanceStep \/ DepositStep \/ WithdrawStep \/ TokenStep
    /\ UNCHANGED clientVars

-----------------------------------------------------------------------------
Proceed(c) ==
    \/ FetchTreasury(c) \/ GetOrCreateAta(c) \/ Send(c) \/ Confirm(c)
    \/ ReadBack(c) \/ ConfirmTransfer(c)

ClientNext ==
    \/ \E c \in Calls :
          \/ \E recipient \in Owners, mint \in Mints, amount \in Amounts :
                Request(c, recipient, mint, amount)
          \/ Proceed(c)
          \/ Break(c)
          \/ Land(c)
          \/ Lose(c)
    \/ Others

\* The event loop runs every continuation, and the cluster executes a
\* transaction or drops it when its blockhash expires.  Nothing obliges a node
\* to fail, the timeout to fire, or anybody else to act.
Fairness ==
    \A c \in Calls : WF_allVars(Proceed(c)) /\ WF_allVars(Land(c) \/ Lose(c))

ClientSpec == ClientInit /\ [][ClientNext]_allVars

FairClientSpec == ClientSpec /\ Fairness

-----------------------------------------------------------------------------
(* Properties *)

\* The receipt the call's address holds is of the payment it was asked for.
HasReceipt(c) ==
    LET r == receipts[TreasuryPda][seen[c]]
    IN  /\ r # None
        /\ r.user = request[c].recipient
        /\ r.mint = request[c].mint
        /\ r.amount = request[c].amount

\* Every variable has its type, and a call's stage agrees with the fate of its
\* transaction, also when awaits reject and answers are lost.
ClientTypeOK ==
    /\ stage \in [Calls -> Stages]
    /\ request \in [Calls -> Requests \cup {None}]
    /\ seen \in [Calls -> U64]
    /\ fate \in [Calls -> Fates]
    /\ \A c \in Calls :
          /\ stage[c] # "new" => request[c] # None
          /\ stage[c] \in {"new", "fetch", "accounts", "send"} => fate[c] = "unsent"
          /\ stage[c] = "confirm" => fate[c] # "unsent"
          /\ stage[c] \in {"status", "settle", "succeeded"} => fate[c] = "landed"

\* A call that reports success has paid what it was asked to pay, to whom it
\* was asked, and holds the address of the receipt that says so, whatever the
\* other calls with the same reading of pay_count did.
SuccessIsPaid == \A c \in Calls : stage[c] = "succeeded" => HasReceipt(c)

\* The treasury's payments and the calls that landed correspond one to one:
\* a call pays at most once, no two calls share a receipt, and no payment is
\* made that no call asked for, also among the calls that reported failure.
PaymentsAccountedFor ==
    /\ \A c \in Calls : fate[c] = "landed" => seen[c] < PayCount /\ HasReceipt(c)
    /\ \A c, d \in Calls :
          fate[c] = "landed" /\ fate[d] = "landed" /\ seen[c] = seen[d] => c = d
    /\ \A i \in U64 : i < PayCount => \E c \in Calls : fate[c] = "landed" /\ seen[c] = i

\* Every call is answered, also when the treasury is paused under it, when it
\* loses the race for an index, or when its transaction expires.
EveryCallAnswered ==
    \A c \in Calls : stage[c] = "fetch" ~> stage[c] \in {"succeeded", "failed"}
=============================================================================
