--------------------------- MODULE LivingEconomy ---------------------------
(***************************************************************************)
(* The living participants and what their payments do to the economy: a    *)
(* registry of participants that clients read and write by copies, the     *)
(* payment event of two participants, the fee and its allocation to the    *)
(* treasury's buckets, the analytics, and the trust evidence from which a  *)
(* participant is assessed.  Calls are synchronous; what is hard is that a *)
(* client's copy outlives the registry's, that money must not be lost on   *)
(* the way to the buckets, and that trust must be kept as it grows.        *)
(* The code computes money in floating point.  Here amounts are integers   *)
(* of some unit, rates are in basis points, fees in 1/10000 of the unit,   *)
(* shares in 1/100 of a fee's, and every operation of the code is off by a *)
(* rounding error of at most Grain, within what IEEE rounding allows: it   *)
(* is monotone, so a product with a factor of at most 1 is at most the     *)
(* other factor, and a sum of two numbers is no less than either.          *)
(***************************************************************************)
EXTENDS Integers, FiniteSets, FiniteSetsExt, Functions, Bags

CONSTANTS
    Ids,            \* the participants that may be onboarded
    TypeOf,         \* their participant types
    Statuses,       \* the statuses that clients set
    Amounts,        \* the payments' amounts
    Rates,          \* the protocol fee rates asked for, in basis points
    Grain,          \* the most by which one operation is rounded
    Roundings,      \* the rounding errors that a payment may meet
    PastEvidence,   \* the evidence participants may start with
    MaxPayments     \* bound: the payments in a run

ParticipantTypes == {"human", "merchant", "business", "ai_agent"}
Evidence == [count : Nat, weight : Nat]

RevenueBuckets == {"treasuryOperations", "ecosystemExpansion", "strategicReserve",
                   "buybackAndBurn", "buildersAndContributors"}

\* The rounding errors of one payment: of its fee, of each bucket's share of it,
\* and of each bucket's new balance.
Errors == -Grain..Grain
RoundingErrors == [fee : Errors, share : [RevenueBuckets -> Errors],
                   balance : [RevenueBuckets -> Errors]]

ASSUME LivingAssumption ==
    /\ IsFiniteSet(Ids)
    /\ Statuses \subseteq {"active", "suspended", "closed"}
    /\ TypeOf \in [Ids -> ParticipantTypes]
    /\ Amounts \subseteq Int /\ Rates \subseteq Int
    /\ Grain \in Nat /\ Roundings \subseteq RoundingErrors
    /\ PastEvidence \subseteq Evidence
    \* Every signal has weight 1 or 2.
    /\ \A e \in PastEvidence : e.count <= e.weight /\ e.weight <= 2 * e.count
    /\ MaxPayments \in Nat

VARIABLES
    registry,       \* ParticipantRegistry.participants: ids to participants
    copies,         \* every participant anybody made: clients may hold any of them
    treasury,       \* the balances of the revenue buckets
    analytics,      \* AnalyticsEngine.events, as a bag: nothing reads their order
    past,           \* history: the evidence each participant started with
    evidence        \* the signals of each participant: how many, and their weight

vars == <<registry, copies, treasury, analytics, past, evidence>>
economyVars == <<treasury, analytics, past, evidence>>

-----------------------------------------------------------------------------
(* Mistakes: see TreasuryProgram. *)

\* The type that was asked for is not taken over.
MistakeDefaultType(id, status) == [id |-> id, type |-> "human", status |-> status]

\* The shares do not add up.
MistakeRates ==
    [treasuryOperations |-> 45, ecosystemExpansion |-> 20, strategicReserve |-> 15,
     buybackAndBurn |-> 10, buildersAndContributors |-> 15]

\* The receiver of any payment but a merchant's has weight 1.
MistakeReceiverWeight(type) == IF type = "MERCHANT_PAYMENT_COMPLETED" THEN 2 ELSE 1

\* The score counts from the participant's next level.
MistakeScore(e) == e.weight % 100

-----------------------------------------------------------------------------
(* Participants. *)

Participant(id, status) == [id |-> id, type |-> TypeOf[id], status |-> status]

With(id, participant) ==
    [x \in DOMAIN registry \cup {id} |-> IF x = id THEN participant ELSE registry[x]]

\* Ids are random: no two participants are created with the same.
IsFresh(id) == \A p \in copies : p.id # id

\* createParticipant, which registers nothing.
CreateParticipant(id) ==
    /\ IsFresh(id)
    /\ copies' = copies \cup {Participant(id, "pending")}
    /\ UNCHANGED <<registry, economyVars>>

\* onboardParticipant creates, activates and registers in one.
Onboard(id) ==
    /\ IsFresh(id)
    /\ copies' = copies \cup {Participant(id, "active")}
    /\ registry' = With(id, Participant(id, "active"))
    /\ UNCHANGED economyVars

\* activateParticipant, suspendParticipant and closeParticipant make a changed
\* copy of whatever participant they are given.
SetStatus(participant, status) ==
    /\ copies' = copies \cup {[participant EXCEPT !.status = status]}
    /\ UNCHANGED <<registry, economyVars>>

\* register and update: either overwrites the entry, or makes one, with whatever
\* copy it is given.  What getById and list return is one of the copies.
Update(participant) ==
    /\ registry' = With(participant.id, participant)
    /\ UNCHANGED <<copies, economyVars>>

\* remove, and clear for all ids.
Remove(ids) ==
    /\ registry' = [x \in DOMAIN registry \ ids |-> registry[x]]
    /\ UNCHANGED <<copies, economyVars>>

-----------------------------------------------------------------------------
(* The payment event and its economic result. *)

TrustSubjectType(participantType) ==
    CASE participantType = "ai_agent"               -> "agent"
      [] participantType \in {"merchant", "business"} -> "merchant"
      [] OTHER                                      -> "human"

PaymentEventTypes ==
    {"P2P_PAYMENT_COMPLETED", "MERCHANT_PAYMENT_COMPLETED", "AGENT_PAYMENT_COMPLETED"}

DeterminePaymentEventType(sender, receiver) ==
    IF "agent" \in {TrustSubjectType(sender.type), TrustSubjectType(receiver.type)}
    THEN "AGENT_PAYMENT_COMPLETED"
    ELSE IF TrustSubjectType(receiver.type) = "merchant"
         THEN "MERCHANT_PAYMENT_COMPLETED"
         ELSE "P2P_PAYMENT_COMPLETED"

\* applyEconomicPolicy: the engine passes none of the discounts' conditions.
EffectiveRate(baseRate) == Max({baseRate, 0})

\* calculateProtocolFee and allocateRevenue throw on what is left out here; no
\* fee is negative.
IsChargeable(amount, baseRate) == amount > 0 /\ EffectiveRate(baseRate) <= 10000

\* The product of whole with a factor between 0 and 1, rounded.
Product(whole, exact, error) == Max({0, Min({whole, exact + error})})

\* The sum of two numbers that are not negative, rounded.
Sum(old, added, error) == Max({old, old + added + error})

ProtocolFee(amount, baseRate, error) ==
    Product(10000 * amount, amount * EffectiveRate(baseRate), error)

\* In percent.
REVENUE_ALLOCATION_RATES ==
    [treasuryOperations |-> 45, ecosystemExpansion |-> 20, strategicReserve |-> 15,
     buybackAndBurn |-> 10, buildersAndContributors |-> 10]

AllocateRevenue(protocolFee, errors) ==
    [b \in RevenueBuckets |->
        Product(100 * protocolFee, REVENUE_ALLOCATION_RATES[b] * protocolFee, errors[b])]

ApplyRevenueAllocation(balances, allocation, errors) ==
    [b \in RevenueBuckets |-> Sum(balances[b], allocation[b], errors[b])]

\* The economic result, without the allocation and what follows from these.
EconomicResult(type, amount, baseRate, error) ==
    [type |-> type, amount |-> amount, fee |-> ProtocolFee(amount, baseRate, error)]

-----------------------------------------------------------------------------
(* Trust. *)

SenderWeight(type) == IF type = "AGENT_PAYMENT_COMPLETED" THEN 2 ELSE 1

ReceiverWeight(type) ==
    IF type \in {"MERCHANT_PAYMENT_COMPLETED", "AGENT_PAYMENT_COMPLETED"} THEN 2 ELSE 1

\* The evidence that one payment's signals are of a participant; who pays itself
\* is the subject of both.
SignalsOf(id, sender, receiver, type) ==
    [count  |-> (IF id = sender THEN 1 ELSE 0) + (IF id = receiver THEN 1 ELSE 0),
     weight |-> (IF id = sender THEN SenderWeight(type) ELSE 0)
                  + (IF id = receiver THEN ReceiverWeight(type) ELSE 0)]

Gather(e, signals) ==
    [count |-> e.count + signals.count, weight |-> e.weight + signals.weight]

WeightedScore(e) == Max({0, Min({e.weight, 100})})

MaturityLevel(count) ==
    IF count >= 100 THEN "veteran"
    ELSE IF count >= 50 THEN "established"
    ELSE IF count >= 10 THEN "emerging" ELSE "new"

RiskLevel(score, maturity) ==
    IF maturity = "new" THEN "medium"
    ELSE IF score >= 80 THEN "low"
    ELSE IF score >= 50 THEN "medium" ELSE "high"

\* evaluateTrust, without explanations and recommendations; confidence in percent.
EvaluateTrust(e) ==
    LET score    == WeightedScore(e)
        maturity == MaturityLevel(e.count)
    IN  [score |-> score, maturity |-> maturity, risk |-> RiskLevel(score, maturity),
         confidence |-> Min({e.count, 100})]

DeriveTrustBenefits(a) ==
    LET If(condition, benefits) == IF condition THEN benefits ELSE {}
    IN  If(a.risk = "low" /\ a.score >= 80,
           {"higher_payment_limits", "reduced_review_frequency"})
        \cup If(a.risk = "low" /\ a.maturity = "veteran",
                {"instant_settlement_eligible", "lower_protocol_fee_eligible"})
        \cup If(a.maturity = "established", {"beta_feature_access"})
        \cup If(a.maturity = "veteran",
                {"merchant_priority_routing", "agent_autonomy_increase"})

\* The payments that the analytics has.
PaymentCount == SumFunction(analytics)

\* A payment between two participants, each as some client holds it, and what
\* the economy keeps of it: neither their status nor the registry is asked.
Pay(sender, receiver, amount, baseRate, rounding) ==
    /\ PaymentCount < MaxPayments
    /\ IsChargeable(amount, baseRate)
    /\ LET type   == DeterminePaymentEventType(sender, receiver)
           result == EconomicResult(type, amount, baseRate, rounding.fee)
       IN  /\ treasury' = ApplyRevenueAllocation(treasury,
                             AllocateRevenue(result.fee, rounding.share), rounding.balance)
           /\ analytics' = analytics (+) SetToBag({result})
           /\ evidence' = [id \in Ids |->
                 Gather(evidence[id], SignalsOf(id, sender.id, receiver.id, type))]
    /\ UNCHANGED <<registry, copies, past>>

-----------------------------------------------------------------------------
Init ==
    /\ registry = [id \in {} |-> Participant(id, "pending")]
    /\ copies = {}
    /\ treasury = [b \in RevenueBuckets |-> 0]
    /\ analytics = EmptyBag
    /\ \E e \in PastEvidence : past = [id \in Ids |-> e]
    /\ evidence = past

Next ==
    \/ \E id \in Ids : CreateParticipant(id) \/ Onboard(id)
    \/ \E participant \in copies :
         \/ Update(participant)
         \/ \E status \in Statuses : SetStatus(participant, status)
    \/ \E ids \in {{id} : id \in Ids} \cup {Ids} : Remove(ids)
    \/ \E sender, receiver \in copies, amount \in Amounts, rate \in Rates,
          rounding \in Roundings :
         Pay(sender, receiver, amount, rate, rounding)

Spec == Init /\ [][Next]_vars

-----------------------------------------------------------------------------
(* AnalyticsEngine.snapshot: the sums of what was recorded, without the    *)
(* snapshot's own rounding of them.                                        *)

Total(field) ==
    SumFunction([result \in BagToSet(analytics) |->
                    analytics[result] * result[field]])

Volume == Total("amount")
Fees == Total("fee")

CountByType(type) ==
    SumFunction([result \in {r \in BagToSet(analytics) : r.type = type} |->
                    analytics[result]])

-----------------------------------------------------------------------------
(* Properties *)

\* Every copy is of a participant as it was created but for its status, and an
\* entry of the registry is a copy somebody made of that very participant, however
\* stale it is.
TypeOK ==
    /\ \A p \in copies : p.id \in Ids /\ p.type = TypeOf[p.id]
                         /\ p.status \in Statuses \cup {"pending", "active"}
    /\ \A id \in DOMAIN registry : registry[id] \in copies /\ registry[id].id = id
    /\ treasury \in [RevenueBuckets -> Nat]
    /\ IsABag(analytics)
    /\ past \in [Ids -> Evidence] /\ evidence \in [Ids -> Evidence]

\* Bounds a number from above and below.
Within(x, bound) == -bound <= x /\ x <= bound

\* The buckets hold the fees that the analytics recorded, and each its share of
\* them, but for the rounding: two operations for each bucket and payment.  No
\* more is lost or made, whatever rates were asked for, and the fees are no more
\* than the payments.
FeesAreAccountedFor ==
    /\ Within(SumFunction(treasury) - 100 * Fees, 10 * Grain * PaymentCount)
    /\ \A b \in RevenueBuckets :
         Within(treasury[b] - REVENUE_ALLOCATION_RATES[b] * Fees,
                2 * Grain * PaymentCount)
    /\ Fees <= 10000 * Volume

\* What all participants together have gained since the start.
Gained(field) == SumFunction([id \in Ids |-> evidence[id][field] - past[id][field]])

\* The trust evidence and the analytics tell of the same payments: each payment
\* has a signal for each side, weighted by its type.
EvidenceMatchesAnalytics ==
    /\ Gained("count") = 2 * PaymentCount
    /\ Gained("weight") = 2 * CountByType("P2P_PAYMENT_COMPLETED")
                          + 3 * CountByType("MERCHANT_PAYMENT_COMPLETED")
                          + 4 * CountByType("AGENT_PAYMENT_COMPLETED")

MaturityRank(a) == [new |-> 0, emerging |-> 1, established |-> 2, veteran |-> 3][a.maturity]
RiskRank(a) == [low |-> 0, medium |-> 1, high |-> 2][a.risk]

\* The score, the maturity and the confidence are no lower.  The one benefit lost
\* is access to the beta, on becoming a veteran; the risk is higher only on ceasing
\* to be new with a score below 50.
IsNoWorse(before, after) ==
    LET lost == DeriveTrustBenefits(before) \ DeriveTrustBenefits(after)
    IN  /\ before.score <= after.score /\ before.confidence <= after.confidence
        /\ MaturityRank(before) <= MaturityRank(after)
        /\ lost # {} => /\ lost = {"beta_feature_access"}
                        /\ before.maturity = "established" /\ after.maturity = "veteran"
        /\ RiskRank(before) < RiskRank(after) =>
             before.maturity = "new" /\ after.maturity # "new" /\ after.score < 50

\* As its payments succeed a participant keeps what trust it earned, but for the
\* two thresholds at which the code takes some of it back.
TrustIsKept ==
    [][\A id \in Ids :
         IsNoWorse(EvaluateTrust(evidence[id]), EvaluateTrust(evidence'[id]))]_evidence
=============================================================================
