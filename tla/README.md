# Zephyon Protocol: formal specification

TLA+ specifications of Zephyon Protocol, the TLC runs that check them and the
TLAPS proofs about them.  The reference is the repository's source; every
definition that models code is mapped to its lines in `PROJECT.json`.

## 1. The system

Zephyon moves SPL tokens between users, a shared treasury and recipients.  An
Anchor program on Solana keeps the treasury, a counter of payments, per-user
profiles and immutable receipts.  A TypeScript runtime decides about payments,
executes them over a *rail* (Solana or an internal ledger), retries, and reports
events; scripts and a small backend drive the program directly.

| Component | State | Operations | Hard behaviours | What makes it correct |
|---|---|---|---|---|
| On-chain program (`programs/protocol`) | treasury (authority, paused, pay_count), user profiles (tx_count), receipts, token balances, events | the seven instructions | instructions of many wallets in any order; counters at their limit; self-payments; accounts closed and recreated | receipt trails without gap or overwrite, every receipt announced, pause freezes, only the authority pays out |
| Payment clients (`src/adapters/solana`, `scripts`, `devnet-backend`) | one view of `pay_count` per call, a signature in flight | fetch, create account, send and confirm, read status; POST /send with a 120 s timeout | stale counter, confirmation lost after broadcast, timeout racing the answer | at most one payment per index; what is reported agrees with the chain or is known not to |
| Orchestrator (`src/shared`) | a payment transaction and its status, a history | execute, lifecycle hooks, finalize | a hook, the receipt factory or the history throwing after settlement | result, transaction status and history agree |
| Payment runtime (`src/runtime`) | the context, the event stream | decide, orchestrate, emit | events of concurrent payments; completion event after a failed result | every start has one end and the end is the truth |
| Resilience (`src/resilience`) | breaker state and counters, attempts | canAttempt, recordSuccess, recordFailure, execute with retry and timeout | late results, several half-open probes, retry of an operation that is still running | no attempt while open, bounded attempts, no double payment |
| Rail execution v0.2 (`src/execution`) | prepared submission, outcome, observation | prepare, submit, reconcile, recommend recovery | crash between submit and answer, unknown outcomes, dropped signatures | unknown is never called failed; no second submission after contact; reconciliation ends |
| Decision pipeline (`src/runtime`) | the decisions so far, the stage events | ask five engines in turn, combine | an engine or listener that throws between two events; decisions carried by the request | no money against a verdict; every stage that began has an end |
| RPC infrastructure (`src/infrastructure`, `src/config`) | the registry of endpoints; one validation's listing, answers and selection | register, upsert, remove; check, score, select | the registry changing while checks are awaited, time limits racing answers | the fastest that answered is selected; a silent one only as a last resort; every validation reports |
| Telemetry (`src/telemetry`) | the bus's listeners and events, a bounded buffer | subscribe, publish, attach, detach, record, clear | the limit, attaching again, a listener that throws before the recorder | the newest kept, once, in order |
| Living registry (`src/living`) | participants, and the copies their clients hold | create, onboard, register, activate, suspend, close, update, remove, pay | copies written back late | every entry a copy somebody made of that very participant |
| Economics and trust (`src/economics`, `src/trust`) | bucket balances, analytics, evidence | fee, allocation, signals, assessment, benefits | floating-point shares and sums; thresholds of several measures, clamped sums | buckets hold the fees, but for rounding; trust kept as it grows |
| Protocol lab (`src/protocolLab`, `scripts`) | the results of a batch, a ledger | validate, simulate, record | the program changing between a simulation's readings | a verdict is that of its moment; every batch ends |
| Decision services (identity, compliance, policy, risk, settlement) | none | interfaces and constants | none | not modelled; their verdicts are the pipeline's inputs |

Interactions: the runtime calls the pipeline, then the orchestrator; the
orchestrator calls a rail adapter; the Solana adapter calls the client code; the
client reads program accounts and sends one transaction.  The program's accounts
are the only state that the clients share, and the event bus the only one that
the runtime's parts share.

## 2. Modules

| Module | What it is |
|---|---|
| `TreasuryProgram` | the on-chain program: one action per instruction, and the token program's own operations as external actions |
| `PaymentLedger` | the abstract specification: a custodian that is open or closed, what it holds, and a journal of payments |
| `TreasuryRefinement` | the refinement mapping: the journal is read off the treasury's receipts in index order |
| `MCTreasuryProgram` | symmetry and view for TLC |
| `PayClients` | clients that pay from the treasury, over `TreasuryProgram`: the awaits of each call, the cluster and everybody else |
| `MCPayClients` | a view for TLC |
| `PaymentRuntime` | `PaymentRuntime.execute` over `PaymentOrchestrator.execute` over a rail: one action per await |
| `ResilientRuntime` | `ResilienceEngine.execute` around it: attempts, timeouts, retries |
| `MCResilientRuntime` | the executions and failures for TLC |
| `ResilientClaims` | statements of messages and comments that the runtime does not keep |
| `RailExecution` | one payment over the canonical rail (v0.2): facade, Solana adapter, and the caller that drives them |
| `SinglePayment` | its abstract specification: money moves at most once and a verdict is final |
| `TreasuryClaims` | statements of comments, docs and tests that the program does not keep |
| `DecisionPipeline` | `PaymentDecisionPipeline.evaluate` in its place in `PaymentRuntime`, which serves as its abstract specification |
| `CircuitBreaker` | the breaker under concurrent callers, a service that goes up and down, and a clock |
| `BreakerPolicy` | its abstract specification: what a breaker promises to callers |
| `RpcInfrastructure` | the registry of endpoints and a validation: listing, checks, scores, selection |
| `EventTelemetry` | event buses, the recorder, snapshot and timelines |
| `LivingEconomy` | participants, their payments, the economy's books and trust |
| `ProtocolLab` | simulated payments over `TreasuryProgram`, and the lab's ledger |
| `MCDecisionPipeline`, `MCCircuitBreaker`, `MCRpcInfrastructure`, `MCEventTelemetry`, `MCLivingEconomy`, `MCProtocolLab` | constants and views for TLC |
| `SumLemmas` | induction over a finite set, least numbers, cardinalities, and sums of functions: how they change with one value, split in two, and scale |
| `TreasuryProgramProofs` | the on-chain program: types, receipt trails and held funds (inductive invariants), the action properties, and the refinement of the ledger |
| `ProgramClientsProofs` | the program's users: payments and calls correspond one to one, a success is a payment; the lab's verdicts and books |
| `RuntimeProofs` | the runtime under the engine, the pipeline in the runtime, and the breaker, with their refinements |
| `RailExecutionProofs` | the rail's safety properties and its refinement of `SinglePayment` |
| `RpcInfrastructureProofs` | what a validation reports and selects |
| `EventTelemetryProofs` | the recorder's tail; snapshot and timelines |
| `LivingEconomyProofs` | participants, money, evidence and trust |

### TreasuryProgram and the code

An instruction is atomic on Solana: a failed account constraint, a failed
`require!` or a failed transfer undoes everything.  So a failing call is a step
that is not taken, and each check of the code is a conjunct of the action.  The
account constraints (seeds, `init`, `init_if_needed`, `constraint = !paused`)
count as checks, in addition to the handler's.

| Variable | Code |
|---|---|
| `treasury` | the `Treasury` account, or `None` before `initialize_treasury` |
| `profiles[u]` | `UserProfile` at `["user_profile", u]` |
| `receipts[o][i]` | `Receipt` at `["receipt", o, i]`; `o` is the treasury for payments and a user otherwise, `i` is `pay_count`, `tx_count` or the deposit's nonce |
| `atas`, `balance` | which token accounts exist, and what they hold |
| `event` | the event of the last instruction |

What is abstracted: one token account per owner and mint, the associated one,
which every instruction asks for; lamports, rent, bumps, clocks; the receipt fields
that are constant (`fee`, `pre_balance`, `post_balance`) or opaque (`reference`);
a memo is its length.  A counter is bounded by `MaxU64`, a constant that TLC sets
to 1 or 2 and the proofs leave arbitrary; overflow is what `saturating_add` and
`checked_add` do at that bound.  Balances are unbounded naturals.  That tokens are
conserved and balances fit u64 is the SPL token program's promise (`Moved` is
external), so no property here claims it for the handlers.

The "Mistakes" block of the module holds forms that definitions could have taken
by a slip.  They are substituted one at a time, and each property must then fail.

### PayClients and the code

A call is one execution of `executeZephyonDevnetSplPay` behind the Solana
adapter, or one run of `scripts/pay_devnet.ts`, which the backend starts for each
POST /send.  Its `stage` is the await it stands at; between two awaits anything
may happen to the program's accounts.

| Stage | Code |
|---|---|
| `fetch` | `treasury.fetch`, the only reading of `pay_count` and of the pause flag |
| `accounts` | `getOrCreateAssociatedTokenAccount` (refuses an owner off the curve) |
| `send`, `confirm` | `rpc()`: the transaction leaves, then the confirmation comes |
| `status` | what is read afterwards to fill the answer |
| `settle` | the adapter's `confirmTransfer`; the script has no such stage |

`fate` is what the cluster does with the transaction: a transaction in flight
lands, as the program's own `SplPay` with the index the call derived, or is lost
(it fails, or its blockhash expires).  `Break` is an await that rejects or the
backend's timeout; from `send` it may leave a transaction behind whose answer was
lost.  What the code does not do is as much part of the model: a failed call does
not look at its transaction again, nothing is cancelled, nothing is resent.

### PaymentRuntime, ResilientRuntime and the code

An execution is one call of `PaymentRuntime.execute`; its `stage` is the await it
stands at, and the statements up to the next await are one step.

| Stage | Code |
|---|---|
| `deciding` | the decision pipeline, reduced to its outcomes: approved, declined, throws |
| `resolving` | `resolveRail`, before the orchestrator's try block |
| `validating`, `executing`, `settling`, `receipting` | the awaits of the orchestrator's try block |
| `submitted` ... `receipted` | the five lifecycle hooks, awaited one by one; each publishes its event |
| `finishing` | `finalize`, whose rejection escapes the catch block: it is returned, not awaited |

The constant `Faults` names the kinds of step that may throw.  A listener of the
event bus is called synchronously, so one that throws makes the publishing code
throw: `listener` is a kind too, and each prefix of the events that a step
publishes is a way in which it can end.  `transaction` is the status of the
execution's own transaction object, `emitted` the events it has published and
`outcome` what its promise became.

`transfer` is the rail's side, and external: unsent, in flight once the adapter
was called, landed.  The adapter answers for a transfer that was accepted and
confirms one that landed, or throws whatever became of it, so a transfer may land
long after its execution has failed.

A call of the engine runs its attempts one after the other; attempt `n` of
payment `p` is execution `<<p, n>>`.  A timeout abandons the execution without
stopping it (`Promise.race` has no cancellation), and the abandoned execution
keeps taking steps beside the next attempt.  `Fallback` is the call's
`failureFallback`, `ThrownFailures` the `RuntimeFailure`s that steps throw.  Not
modelled: delays, failure texts, receipt and history contents; failure codes that
fall into the default branches are represented by `UNKNOWN_RUNTIME_FAILURE`.

### RailExecution and the code

`RuntimeExecutionFacade` and `CanonicalSolanaPaymentRailAdapter` keep no state, so
two executions share nothing and the module follows one.  What the facade answers
is kept by its caller, a backend outside this repository.  Caller and cluster are
modelled from the interfaces and from `docs/runtime-execution-v0.2.md`: the caller
persists before it submits (migration step 3), reconciles by the persisted
signature what a lost worker left (step 6), and otherwise follows the
recommendations it is given; a transport is trusted about what it claims to know
(accepted, settled, contact not started) and may throw at any other time.

| Variable | Meaning |
|---|---|
| `phase` | the caller's record: requested, prepared, submitting, then the last outcome; `open` is accepted or unknown |
| `attempt` | the current preparation; each signs a transaction of its own |
| `reference` | whether the reconciliation reference names a signature (`solana:...`) or only the execution (`runtime:...`, from the facade's catch block) |
| `recovery` | the last recommendation |
| `waiting` | a worker awaits `submitExecution` |
| `contact[s]` | the transport's request for signature `s`: called, made, or ended before contact; it goes on when its worker is gone |
| `chain[s]` | what the cluster made of `s` |

`prepareExecution` and `reconcileExecution` are single steps: their answers depend
on nothing that the code reads before an await and uses after it, and a node that
lags is an answer of its own (`Observable`).  A failing preparation changes
nothing and is no step.

### DecisionPipeline and the code

`at[x]` is the engine whose answer execution `x` awaits; `decision[x]` holds what
counts as each engine's answer so far.  An engine is asked if it is configured and
the request has its input (`asked`); otherwise the decision that the request
carries stands.  Four engines are asked inside `emitter.measure`, whose events are
`noted`: started before the try block, completed inside it, failed in the catch.
So a listener that throws on a started event leaves the stage without an end, and
one that throws on a completed event leaves it with two.  `Conclude` is the code
of `PaymentRuntime.execute` after the await.

### CircuitBreaker and the code

Each public method is an action: `CanAttempt` when it admits, `RecordSuccess`,
`RecordFailure`, `Reset`; a refused caller changes nothing.  Every method reads
the clock, `now`.  Callers, service and clock are external: nothing in the
repository calls the breaker yet, and its interface suggests this use.  A caller's
result is recorded when it comes, in whatever state the breaker is by then.  A
call during which the service went up or down (`crossed`) may end either way, so
that a failure may be recorded when the service is up again, and a success when it
is down.

### RpcInfrastructure and the code

`registry` is `RpcRegistry`'s map.  `validation` is the latest call of
`validateRpcInfrastructure`: what it `listed` (a copy, as the endpoints are passed
on by value while the registry changes), the `health` each check came to (a
latency, unreachable, or pending), and its `selection`.  Ids are numbers in the
order of the endpoints' names, which break the last tie.  A tie between all
criteria is impossible since ids are unique, so a selection is a set of one.

### EventTelemetry and the code

`listeners[b]` is the set of a bus, in order of subscription, which is the order
in which `publish` calls them; the recorder's callback is named `recorder`.
`since` is a history variable: where on its bus the recorder's unbroken stretch
begins.  A sort is stable in JavaScript, and so is `SortByTime`.  Lists are filtered
and sorted by the places that an order gives to chosen positions (`Listed`,
`Filtered`): the library's filters and folds have no definition that the prover
can open.  `SetClock` sets `now` to any time, later or earlier: events bear the
dates of `new Date()`, which may be set back, and ids in the order of publication.

### LivingEconomy and the code

`registry` is the map of `ParticipantRegistry`; `copies` are the participants
anybody made, for the code's functions return changed copies and the registry
stores whatever it is given.  `CreateParticipant` makes a pending one that nobody
has registered, `Onboard` an active one that is registered at once; `Update`, which
is `register` too, writes any copy, so a pending or stale one may be in the registry.  A
payment reads the copies, not the registry, as `processParticipantPayment` does.
`Pay` joins it with what `economics/simulation.ts` keeps of a payment: buckets,
analytics and signals.  Evidence is how many signals a participant has and their
weight; `PastEvidence` lets it start just below a level, as a history of hundreds
of payments would.

The code computes money in floating point and rounds nothing itself.  Amounts are
integers of some unit, rates are in basis points, and each operation of the code
(the fee, the five shares of it, the five new balances) is the exact one off by an
error of at most `Grain`, within what IEEE rounding allows: `Product` and `Sum`
say so.  The error is a parameter of the payment, so that any rounding may occur.
The analytics keep the fees that were computed; that their snapshot sums them in
floating point again is left out.

### ProtocolLab and the code

`lab` is the await a run stands at: the validation, then for each payment the
treasury, two token accounts and the simulation.  `configured` says whether the
environment has a treasury address, which those for testnet and mainnet lack: a
payment is then blocked before anything is read.  `simulateTransaction` answers
what the program would do now, which is `PayIsAccepted`, the guards of `SplPay`
(the action uses the same operator), with the index read before.  `getAccount`
errors are caught and count as missing accounts; any other rejection loses the
batch.  The ledger is written afterwards, with the status "simulated" for each
request, whatever its simulation said.

## 3. Runs

| Run | Question | Bounds |
|---|---|---|
| `program` | do receipts and counters form a gap-free append-only trail, is value that leaves announced, is each receipt, does a pause freeze the treasury, and does the program implement the ledger? | 2 wallets with 1 token each, amounts 0, 1, 3 (zero, exact, excessive), memo within and beyond the limit, counters 0..2 and the calls after the last value |
| `clients` | when calls race for an index and fail at any await, do payments and calls correspond, is a success a payment, and is every call answered? | a script call and an adapter call, amounts 0 and 1, counter 0..2: both land, or one loses its index |
| `runtime` | when any step throws and any timeout fires, do status, result, events and money agree, when does the engine send money twice, and does it answer? | one payment, two attempts, every kind of fault, failures that are retried and failures that are not |
| `rail_execution` | when workers, requests and answers are lost at any point, is a payment made at most once, are verdicts true and final, and is the cluster's decision learnt? | three preparations: a first, a retry, and one more |
| `breaker` | does the breaker open, admit and close as its policy says when results come late, and does it recover? | three callers, thresholds 3 and 2, a cool-down of 2 ticks |
| `pipeline` | does money ever move against a verdict, do the events account for every stage, and is the pipeline what the runtime takes it for? | one execution, five requests: all engines, some, none, with decisions carried beside them; every fault |
| `telemetry` | is what the recorder holds the newest events without gap or repetition, and do snapshot and timelines agree, each timeline by time? | two buses, three runtimes, a recorder of two events, up to four events, completed and failed, a listener that may throw, a clock of two values that goes either way |
| `infrastructure` | is the fastest endpoint selected, a silent one only as a last resort, and does every validation report? | two ids, five endpoints over two networks and three statuses, four latencies: two of one band, and two at which the penalty starts or ends |
| `living` | does the registry hold what somebody made of each participant, is money lost beyond rounding, do evidence and analytics agree, is trust kept? | three participants of three types, two statuses that clients set, two payments, amounts 0 and 3, rates below, within and above what is accepted, four patterns of rounding, evidence just below each level |
| `lab` | is a simulation's verdict that of its moment, and does every batch end? | the operator and a shop, two payments of which the treasury may afford one, counter 0..2, at most two receipts, with and without a configured treasury |
| `claim_event_direction` | do event and receipt agree about the direction? (no) | 1 wallet |
| `claim_completed_event` | does PAYMENT_COMPLETED follow a completed payment? (no) | one execution, which may find its payment invalid or have its rail throw |

Two wallets suffice because an instruction involves at most a signer and one
other owner, beside the treasury; wallets are symmetric.  One mint suffices for
TLC because no instruction mentions two; the proofs hold for any set.  Three
indexes show a first, a middle and a last value.  The last event is left out of
the fingerprint: nothing reads it except the properties of the step that emits
it, and TLC evaluates those on every step.

The breaker's counters and clock grow without bound.  Its view keeps the streak
that the present state counts and the time since it opened, up to the cool-down;
nothing the breaker does next depends on more, which is what the refinement of
`BreakerPolicy`, proved for all values, says of the counters.  Three callers are
the least at which late results meet a trial of two.  One execution suffices for
the pipeline, as for the runtime, because executions share only the bus they
write.  Two endpoints suffice for the selection because it compares pairs; the
proof holds for any number.  One validation at a time stands for many: they share
the registry only, which they do not change.  Two payments show a participant on
both sides of a level, and a batch of two the stale reading of the second.

The economy's money and trust depend on no registry and no status, so the view of
`living` tells these apart before the first payment only.  Its roundings are none,
all up, all down, and shares up with balances down: the widest drifts of the buckets,
which reach the bound of `FeesAreAccountedFor`.  The view of `telemetry` keeps of a
bus's log the ids of its events, which determine them.

In `lab` the counter has a middle value, so that another's payment between two
readings makes a simulation fail where the counter as it is would not.  A constraint
stops others once two receipts are written, which leaves room for one payment
between the readings of each simulation; the lab itself writes none, so that within
that bound every run of it is followed to its end.

Every type invariant is a theorem (section 4).  Most runs leave it to the proof, as
`runtime` does `DeclinedIsNeverSent` (`RefusalIsFinal`); `telemetry`, `living` and
`lab` check theirs as well, since these say more than types.

The program alone has no liveness: it reacts to calls that nobody is obliged to
make.  For `EveryCallAnswered`, `clients` assumes two things of each call.  Its
next await settles: the event loop runs every continuation, and each of these
awaits ends by an answer or a rejection.  Its transaction lands or is lost: a
blockhash expires, and confirmation by block height notices.  It does not assume
that a transaction is ever included, that nodes fail, that the timeout fires, or
that the operator unpauses.

One payment suffices for the resilient runtime because two engine calls share no
state: an execution has a transaction object of its own, and the event bus is
only written.  Two attempts are the least at which an abandoned execution meets
its successor.  For `EngineAnswers`, `runtime` assumes that the engine's
continuations and timers run, and nothing of anybody else: decision services, rail
and history may hang for ever, and it is the timeout that makes the call end.

`rail_execution` assumes that an awaited submission ends, by an answer or by the
loss of its worker; that the caller takes up what a lost worker left; and that a
node asked again and again tells one day what the cluster decided.  It does not
assume that the cluster decides: a transaction that expired stays pending for
ever, which the documentation accepts.

`breaker` assumes for `RecoversWhenUp` that time passes, that calls end and that
callers ask again, and concludes only for a service that is up for good.
`infrastructure` assumes that the timer of each check fires, which it does unless
cleared by an answer, and that a validation goes on when all have settled; no
endpoint has to answer.  `lab` assumes that the lab's awaits settle, and nothing
of those who use the program meanwhile.

## 4. Theorems

For all constants that satisfy `ConstantsAssumption` (the treasury is not a
wallet, amounts, memo lengths and bounds are natural numbers) and
`NoneAssumption` (`None` is not an account's value), and where noted for those
of the other modules:

| Theorem | Property |
|---|---|
| `TypeCorrect` | `TypeOK` |
| `PayTrailIsContiguous`, `WithdrawTrailIsContiguous`, `ReceiptAddressIsRecoverable` | the receipt trails |
| `AuditTrailIsAppendOnly`, `ReceiptsAreTruthful`, `PauseIsFreeze`, `OutflowIsAnnounced`, `ReceiptsAreAnnounced` | the action properties |
| `FundsAreAlwaysHeld` | only an account that exists holds tokens |
| `ProgramImplementsLedger` | `Spec => Ledger!Spec` |
| `ClientsKeepTheProgram`, `LabKeepsTheProgram` | `ClientSpec => Spec /\ ImplementsLedger`, and the same for `LabSpec`: all of the above holds under clients and lab |
| `ClientsAreTyped`, `EveryPaymentIsAccountedFor`, `SuccessMeansPaid` | the clients' safety properties, for any number of calls |
| `LabBooksAddUp`, `LabVerdictsAreExplained` | a batch's counts and ledger, and what an environment without a treasury comes to; what a verdict says of the program (from `LabAssumption`), for any scenario |
| `EngineKeepsTheRuntime` | `ResilientSpec => RuntimeSpec` |
| `TypesAreKept`, `RuntimeClaimsAreTrue`, `RefusalIsFinal`, `TransactionsMoveForward`, `EventsFollow` | the runtime's safety properties, for any number of executions and any kinds of fault |
| `NoKnownDoublePayment`, `EngineAnswersTruly` | the engine's, for any number of payments and attempts |
| `RecordIsWellFormed`, `OneOfferAtMost`, `ConclusionsAreTrue` | the rail's safety properties, for any number of preparations (from `RailAssumption`) |
| `RailImplementsSinglePayment` | `Spec => Payment!PaymentSpec` |
| `BreakerIsConsistent` | the breaker's fields agree, for any callers and thresholds (from `BreakerAssumption`) |
| `BreakerImplementsPolicy` | `Spec => Policy!PolicySpec` |
| `PipelineIsTyped`, `VerdictsAreObeyed`, `StagesAreAlwaysAccounted` | the pipeline's safety properties, for any requests and faults (from `PipelineAssumption`) |
| `PipelineImplementsRuntime` | `PipelineSpec => RuntimeSpec` |
| `ValidationIsTyped`, `SelectionIsFastest`, `SilentIsFallback` | a validation's report, for any endpoints and latencies (from `RpcAssumption`) |
| `TelemetryTypeCorrect`, `TailIsAlwaysComplete`, `TimelinesAlwaysAgree` | the recorder, the snapshot and the timelines, for any buses, listeners, limit and number of events (from `TelemetryAssumption`) |
| `LivingTypeCorrect`, `FeesAreAlwaysAccountedFor`, `EvidenceAlwaysMatches`, `TrustIsNeverLost` | registry, money, evidence and trust, for any participants, amounts, rates, rounding errors and number of payments (from `LivingAssumption`) |

`TypeOK` is inductive alone.  The trails are inductive together with it: a
payment is written at `pay_count`, which contiguity says is the first free index;
a receipted withdraw is written at `tx_count`, below which every index is taken
by withdraws, so a deposit's nonce can fall above the counter only; the
exception at the saturated counter is part of the invariant because the code
reaches it.  `ReceiptAddressRecoverable` needs that receipts of wallets are never
payments, which the instructions' directions give.

The action properties follow from `TypeOK` and four lemmas on what a step does to
the receipts, the treasury account, the profiles and the balances.
`ReceiptsAreAnnounced` needs in addition that an event names the address its
instruction wrote, at which there was nothing: an event of an earlier instruction
that names it would have been announced too early.  The refinement needs the trails too: reading the journal off the receipts gives a
sequence that grows at its end only because every index below `pay_count` is
taken (and a receipt that exists is never written).

The clients' theorems also need `ClientsAssumption` (the operator is a wallet,
payments carry no memo, `None` is not a request).  Every client action is a step
of the program or leaves its accounts alone, so `TypeOK` and the permanence of
receipts carry over.  `ClientTypeOK` ties each stage to the fate of the
transaction and is needed because only it says that a landed call has a request
and a reading of its own.  `PaymentsAccountedFor` is inductive with it: a landing
call holds `seen = pay_count`, and every landed call's reading lies below.

The runtime's theorems assume `RuntimeAssumption` (`None` is neither a status nor
an outcome) and `ResilienceAssumption` (executions are payments' attempts).
Executions share nothing, so the invariant is one of each execution,
`ExecutionInv`: its stage determines its transaction's status, bounds what the
rail has done and says whether it has an outcome.  It is needed because the
checked properties speak of statuses and outcomes only: that the next hook cannot
complete a transaction whose money did not land is known from the stage alone.
`EngineInv` adds, for each call, that every attempt the engine went past was
abandoned or rejected; with `LateThrow`, which says when a promise can reject
beside a transfer, this gives `ResentOnlyBlindly`.

The rail's properties follow from one invariant, `RailInv`.  The checked
properties alone are not inductive: that a second transaction is never offered
needs that a retry is recommended only to a rejected payment, that a rejection
means that the call ended before contact, and that the cluster knows nothing it
was not contacted with.  These are its three further conjuncts.  In the
refinement, a transaction settling is the abstract transfer and a recorded
verdict the abstract conclusion; that a failed payment stays unpaid is the reason
why failed must mean an error of the chain.

`EventsFollow` needs a second invariant beside `ExecutionInv`: `EventsByStage`
says which hooks have published by the time the stage is past them.

The breaker's `TypeOK` is inductive alone; what makes it so is that a closed
breaker is below its threshold and an open one has a time of opening, at most the
present.  The refinement maps the counter that the present state counts to the
policy's streak, so each transition must reset the counter its new state will
count, and one that resets a counter too few is no step of the policy.

The pipeline's theorems rest on `ApprovedFirst` (an execution that went on had an
approving decision behind it) and on the events of each stage being those its
position in the pipeline implies.  The refinement of the runtime is one of
restriction: forgetting the pipeline's variables, its steps are the runtime's
decision or a stutter.

The validation's `RpcInv` says that what is listed is usable and of the network,
that every listed endpoint has a check, and that a selection is that of the
present answers, which no later step changes.  `SelectionIsFastest` then follows
from a fact about the scores: a slower answer never has a higher score, the
penalty included, because the bands descend and the penalty begins at a band's
edge.  A finite set of ids has a first member in the order of the comparison.

Sums need an induction over the finite set that is summed over, and the library's
induction theorems take an operator, which the installed prover cannot instantiate.
`SumLemmas` states a fact as the set of the numbers, or subsets, that have it: a
set of naturals that is not empty has a least member, so a set that has 0 and the
successor of each of its members has every number, and likewise for subsets and
one more element.  A sum is computed by a function that is defined recursively on
the subsets of its index set and takes their elements in an arbitrary order; that
this function exists, and that the order does not matter, is proved first.
`LivingAssumption` says that the set of ids is finite, as those that exist at any
time are.

`FundsAreHeld` is inductive with `TypeOK`; an account is closed only when it is
empty, and the instructions credit existing accounts.

The lab's `LabInv` says of each stage how many results there are, whether the
environment has a treasury and it was seen, and how many errors were collected.  That a verdict never means
a taken address or a missing account needs the program's own invariants: the
trails, by which the next index is free, and `FundsAreHeld`, by which a treasury
that can afford the payment has its account.

`LivingInv` adds to `TypeOK` that every copy is a whole participant, as created but
for its status, and that the analytics hold finitely many different results, each
of which has a fee no larger than its amount.  The totals of the analytics are sums
over a bag; a payment adds one copy of one result, and each total grows by that
result's share.  `BucketsTrackFees` is what is kept of the money: a bucket grows by
its share of the fee, but for the rounding of a product and of a sum, so that its
drift grows by at most two grains with each payment.  The drift of all buckets
together is the sum of theirs, since the five rates add up to one.  In
`EvidenceMatchesAnalytics` a payment gives its sender and its receiver their
signals, which is one index twice when a participant pays itself.
`TrustIsNeverLost` reads no analytics: it compares `EvaluateTrust` of evidence
and of more evidence, level by level, and holds for any evidence whatever.  It
claims no more than `TrustIsKept`, which names the two places where the code takes
trust back.

`TelemetryInv` has four parts.  `BusesTyped` bounds each log by the number of
publications.  `ListensOnce` says on which bus the recorder's callback is, which
limits the calls of `record` to one per event.  `RecordsInOrder` orders the ids in
the buffer and keeps them within the number of publications, so that an event that
is appended is the newest.  `HoldsNewest` says,
position by position from the end, that the buffer ends as the bus's log does; the
checked property says it of subsequences, in which an append moves every position.
Of the timestamps nothing is known, as the clock may be set back: the order of a
timeline, by time and then by place in the buffer, is shown to be a strict one, a
listing in a strict order to take every place once, and so a timeline to hold each
event of its runtime, sorted.  What is left is that the events of the runtimes
divide the buffer, a sum over runtimes.

Model-checked only: `EveryCallAnswered`, `EngineAnswers`, `DecisionIsLearnt`,
`RecoversWhenUp`, `EveryValidationReports` and `EveryBatchEnds`.  They are liveness
properties under fairness, whose proofs need `ENABLED`, which the installed prover
does not support.  Every invariant, action property and refinement that a passing
run checks is also a theorem.

## 5. Disagreements with the repository's own statements

Two are shown by a run:

* `claim_event_direction`: `spl_withdraw_with_receipt` emits a `WithdrawEvent`
  whose direction is `UserToTreasury`; its receipt, the docs and the sibling
  handler say treasury to user.
* `claim_completed_event`: the runtime announces "Payment completed
  successfully." for every orchestration that resolved, also for one whose status
  is failed.

Others were met while modelling and have no run of their own:

* `tx_count` is documented as a count of deposits and withdraws
  (`state/user_profile.rs:10`); only receipted withdraws move it.
* The tests keep deposit and withdraw nonces "disjoint forever"
  (`tests/_helpers.ts:43`); the program lets a deposit take the address of the
  user's next withdraw receipt, and `WithdrawTrailContiguous` has to allow for it:
  that user's receipted withdraws then fail for good.
* Recovery from a settlement timeout is to "retry settlement confirmation before
  resubmitting payment" (`recovery.ts:54`); the engine starts the whole operation
  again, which is the first case of `ResentOnlyBlindly`.
* "Trust should become stronger as participants demonstrate consistent
  reliability" (`docs/tokenomics/ZTS_FRAMEWORK.md:35`): at its tenth signal a
  participant stops being new and its risk goes from medium to high
  (`trust/engine.ts:30`), and at its hundredth it leaves the level that has access
  to the beta.  `TrustIsKept` excepts both.
* The mini economy's ledger says "simulated" of every payment
  (`simulate_mini_economy.ts:89`), also of those that failed or were blocked.

## 6. Plan

The plan of the first survey is carried out: the program, its ledger and clients;
the runtime and its resilience; the canonical rail; the breaker, the decision
pipeline, the RPC infrastructure, telemetry, the living economy and the lab, each
with its properties, and with a theorem for every safety property.  Two abstract
specifications are left to state and to prove: the engine as a payment made at
most once unless an attempt is abandoned, and the recorder as a bounded queue.
What could follow in the models:

1. The breaker and the RPC selection in the runtime's path, once the code calls
   them from there.
2. The facade over the deterministic mock rail, which has outcomes of its own.
3. The floating-point sums of the analytics' own snapshot, beside those of the
   buckets.

## 7. Not modelled

* Program `utils`: dead code, not declared by `lib.rs`.
* `providerHistory`, `providerReputation`, trust `history`, the economy's
  discounts: nothing calls them, or nothing passes their conditions.
* The decision services' own rules: interfaces, types and constants.  The pipeline
  lets each engine give every verdict of its type.
* The internal ledger adapter: it always succeeds; the rail of `PaymentRuntime`
  does so too, among other things.
* `execution/executionContext.ts`, `identifiers.ts`, `exactValues.ts`, `json.ts`:
  validation and encoding of inputs; only that they may throw matters here.
* The assessment that `processParticipantPayment` returns with a payment: it is
  computed from that payment's own signals, at most two, so that it is always that
  of a new participant.  `LivingEconomy` assesses the evidence that accumulates,
  as `economics/simulation.ts` does.
* Report texts, explanations, recommendations, messages, and files written.
* The devnet scripts that send one instruction: `TreasuryProgram` has the
  instruction.  Smoke tests drive modules modelled here.
* Environment variables, except which RPC endpoints they configure.
