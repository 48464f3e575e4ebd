------------------------ MODULE LivingEconomyProofs ------------------------
(* Theorems about the living participants and their economy, for any        *)
(* participants, amounts, rates, rounding errors and evidence, and any      *)
(* number of payments.                                                      *)
EXTENDS LivingEconomy, SumLemmas

Participants == [id : Ids, type : ParticipantTypes,
                 status : Statuses \cup {"pending", "active"}]

\* A whole participant, as it was created but for its status.
Genuine(p) == p \in Participants /\ p.type = TypeOf[p.id]

Results == [type : PaymentEventTypes, amount : Nat, fee : Nat]

\* The type invariant with what it rests on: the copies are whole participants,
\* and the analytics has finitely many results, none with a fee above its amount.
LivingInv ==
    /\ TypeOK
    /\ \A p \in copies : Genuine(p)
    /\ IsFiniteSet(DOMAIN analytics)
    /\ \A r \in DOMAIN analytics : r \in Results /\ r.fee <= 10000 * r.amount

-----------------------------------------------------------------------------
(* Participants. *)

LEMMA ParticipantGenuine ==
    ASSUME NEW id \in Ids, NEW status \in {"pending", "active"}
    PROVE  Genuine(Participant(id, status)) /\ Participant(id, status).id = id
BY LivingAssumption DEF Participant, Participants, Genuine

LEMMA StatusGenuine ==
    ASSUME NEW p, Genuine(p), NEW status \in Statuses
    PROVE  Genuine([p EXCEPT !.status = status])
BY DEF Genuine, Participants

\* Steps that change the participants alone.
LEMMA MapsStep ==
    ASSUME LivingInv, UNCHANGED economyVars,
           \A p \in copies' : Genuine(p),
           \A id \in DOMAIN registry' :
              registry'[id] \in copies' /\ registry'[id].id = id
    PROVE  LivingInv'
<1>1. \A p \in copies' : p.id \in Ids /\ p.type = TypeOf[p.id]
                         /\ p.status \in Statuses \cup {"pending", "active"}
  BY DEF Genuine, Participants
<1>2. /\ treasury' = treasury /\ analytics' = analytics
      /\ past' = past /\ evidence' = evidence
  BY DEF economyVars
<1>3. TypeOK'
  BY <1>1, <1>2 DEF TypeOK, LivingInv
<1>4. QED
  BY <1>2, <1>3 DEF LivingInv

-----------------------------------------------------------------------------
(* Payments. *)

LEMMA EffectiveRateBounds ==
    ASSUME NEW rate \in Int
    PROVE  EffectiveRate(rate) \in Nat
<1> DEFINE S == {rate, 0}
<1>1. \E m \in S : \A y \in S : m >= y
  OBVIOUS
<1>2. Max(S) \in S /\ \A y \in S : Max(S) >= y
  BY <1>1 DEF Max
<1>3. QED
  BY <1>2 DEF EffectiveRate

LEMMA MinOfTwo ==
    ASSUME NEW a \in Int, NEW b \in Int
    PROVE  Min({a, b}) = IF a <= b THEN a ELSE b
<1> DEFINE S == {a, b}
<1>1. \E m \in S : \A y \in S : m <= y
  OBVIOUS
<1>2. Min(S) \in S /\ \A y \in S : Min(S) <= y
  BY <1>1 DEF Min
<1>3. QED
  BY <1>2

LEMMA MaxOfTwo ==
    ASSUME NEW a \in Int, NEW b \in Int
    PROVE  Max({a, b}) = IF a >= b THEN a ELSE b
<1> DEFINE S == {a, b}
<1>1. \E m \in S : \A y \in S : m >= y
  OBVIOUS
<1>2. Max(S) \in S /\ \A y \in S : Max(S) >= y
  BY <1>1 DEF Max
<1>3. QED
  BY <1>2

\* A rounded product is within one rounding of the exact one, and no more than
\* the whole it is a part of.
LEMMA ProductBounds ==
    ASSUME NEW whole \in Nat, NEW exact \in Nat, exact <= whole, NEW error \in Errors
    PROVE  /\ Product(whole, exact, error) \in Nat
           /\ Product(whole, exact, error) <= whole
           /\ Within(Product(whole, exact, error) - exact, Grain)
<1>1. error \in Int /\ -Grain <= error /\ error <= Grain /\ Grain \in Nat
  BY LivingAssumption DEF Errors
<1> DEFINE least == Min({whole, exact + error})
<1>2. least = IF whole <= exact + error THEN whole ELSE exact + error
  BY <1>1, MinOfTwo
<1>3. least \in Int
  BY <1>1, <1>2
<1> HIDE DEF least
<1>4. Max({0, least}) = IF 0 >= least THEN 0 ELSE least
  BY <1>3, MaxOfTwo
<1>5. Product(whole, exact, error) = Max({0, least})
  BY Zenon DEF Product, least
<1>6. QED
  BY <1>1, <1>2, <1>3, <1>4, <1>5 DEF Within

\* So is a rounded sum, and it is no less than what was added to.
LEMMA RoundedSumBounds ==
    ASSUME NEW old \in Nat, NEW added \in Nat, NEW error \in Errors
    PROVE  /\ Sum(old, added, error) \in Nat
           /\ old <= Sum(old, added, error)
           /\ Within(Sum(old, added, error) - (old + added), Grain)
<1>1. error \in Int /\ -Grain <= error /\ error <= Grain /\ Grain \in Nat
  BY LivingAssumption DEF Errors
<1>2. Max({old, old + added + error})
        = IF old >= old + added + error THEN old ELSE old + added + error
  BY <1>1, MaxOfTwo
<1>3. QED
  BY <1>1, <1>2 DEF Sum, Within

\* A chargeable payment has a fee that is not negative and at most its amount.
LEMMA FeeIsPart ==
    ASSUME NEW type \in PaymentEventTypes, NEW amount \in Int, NEW rate \in Int,
           NEW error \in Errors, IsChargeable(amount, rate)
    PROVE  LET result == EconomicResult(type, amount, rate, error)
           IN  result \in Results /\ result.fee <= 10000 * result.amount
<1> DEFINE e == EffectiveRate(rate)
<1>1. e \in 0..10000 /\ amount \in Nat
  <2>1. e \in Nat
    BY EffectiveRateBounds
  <2>2. e <= 10000 /\ amount > 0
    BY DEF IsChargeable
  <2> HIDE DEF e
  <2>3. QED
    BY <2>1, <2>2
<1>2. amount * e \in Nat /\ amount * e <= 10000 * amount
  <2> HIDE DEF e
  <2>1. amount * e \in Nat
    BY <1>1
  <2>2. amount * (10000 - e) >= 0
    BY <1>1
  <2>3. amount * (10000 - e) = 10000 * amount - amount * e
    BY <1>1
  <2>4. QED
    BY <1>1, <2>1, <2>2, <2>3
<1>3. ProtocolFee(amount, rate, error) = Product(10000 * amount, amount * e, error)
  BY DEF ProtocolFee
<1> HIDE DEF e
<1>4. 10000 * amount \in Nat
  BY <1>1
<1>5. /\ Product(10000 * amount, amount * e, error) \in Nat
      /\ Product(10000 * amount, amount * e, error) <= 10000 * amount
  BY <1>2, <1>4, ProductBounds
<1>6. QED
  BY <1>1, <1>3, <1>5 DEF EconomicResult, Results

LEMMA EventTypeTyped ==
    ASSUME NEW sender, NEW receiver
    PROVE  DeterminePaymentEventType(sender, receiver) \in PaymentEventTypes
BY DEF DeterminePaymentEventType, PaymentEventTypes

LEMMA SignalsTyped ==
    ASSUME NEW id, NEW sender, NEW receiver, NEW type
    PROVE  SignalsOf(id, sender, receiver, type) \in Evidence
BY DEF SignalsOf, Evidence, SenderWeight, ReceiverWeight

LEMMA GatherTyped ==
    ASSUME NEW e \in Evidence, NEW s \in Evidence
    PROVE  Gather(e, s) \in Evidence
BY DEF Gather, Evidence

\* One more copy of a result in the analytics.
LEMMA Recorded ==
    ASSUME NEW bag, IsABag(bag), NEW r
    PROVE  LET more == bag (+) SetToBag({r})
           IN  /\ IsABag(more)
               /\ DOMAIN more = DOMAIN bag \cup {r}
               /\ \A x \in DOMAIN bag \ {r} : more[x] = bag[x]
               /\ more[r] = (IF r \in DOMAIN bag THEN bag[r] ELSE 0) + 1
<1> DEFINE one == SetToBag({r})
           more == [x \in DOMAIN bag \cup {r} |->
                      (IF x \in DOMAIN bag THEN bag[x] ELSE 0) + (IF x = r THEN 1 ELSE 0)]
<1>1. DOMAIN one = {r} /\ \A x \in {r} : one[x] = 1
  BY DEF SetToBag
<1>2. bag (+) one = more
  <2> HIDE DEF one
  <2>1. QED
    BY <1>1 DEF (+)
<1>3. \A x \in DOMAIN bag : bag[x] \in Nat /\ bag[x] > 0
  BY DEF IsABag
<1>4. IsABag(more)
  BY <1>3 DEF IsABag
<1>5. /\ DOMAIN more = DOMAIN bag \cup {r}
      /\ \A x \in DOMAIN bag \ {r} : more[x] = bag[x]
      /\ more[r] = (IF r \in DOMAIN bag THEN bag[r] ELSE 0) + 1
  BY <1>3
<1> HIDE DEF more
<1>6. QED
  BY <1>2, <1>4, <1>5 DEF one

-----------------------------------------------------------------------------
(* The invariant. *)

LEMMA InitLiving == Init => LivingInv
<1> SUFFICES ASSUME Init PROVE LivingInv
  OBVIOUS
<1>1. DOMAIN registry = {} /\ copies = {}
  BY DEF Init
<1>2. treasury \in [RevenueBuckets -> Nat]
  BY DEF Init
<1>3. IsABag(analytics) /\ DOMAIN analytics = {}
  BY DEF Init, EmptyBag, SetToBag, IsABag
<1>4. past \in [Ids -> Evidence] /\ evidence = past
  BY LivingAssumption DEF Init
<1>5. IsFiniteSet(DOMAIN analytics)
  BY <1>3, FS_EmptySet
<1>6. TypeOK
  BY <1>1, <1>2, <1>3, <1>4 DEF TypeOK
<1>7. QED
  BY <1>1, <1>3, <1>5, <1>6 DEF LivingInv

\* What a payment does: the result it adds to the analytics decides the rest.
PayMade(sender, receiver, result, rounding) ==
    /\ result \in Results
    /\ result.fee <= 10000 * result.amount
    /\ treasury' = ApplyRevenueAllocation(treasury,
                      AllocateRevenue(result.fee, rounding.share), rounding.balance)
    /\ analytics' = analytics (+) SetToBag({result})
    /\ evidence' = [id \in Ids |->
          Gather(evidence[id], SignalsOf(id, sender, receiver, result.type))]
    /\ UNCHANGED <<registry, copies, past>>

\* Some payment between two participants is made.
Payment ==
    \E sender, receiver \in Ids, result \in Results, rounding \in RoundingErrors :
        PayMade(sender, receiver, result, rounding)

LEMMA PayEffect ==
    ASSUME LivingInv, NEW sender \in copies, NEW receiver \in copies,
           NEW amount \in Amounts, NEW rate \in Rates, NEW rounding \in Roundings,
           Pay(sender, receiver, amount, rate, rounding)
    PROVE  Payment
<1> DEFINE type == DeterminePaymentEventType(sender, receiver)
           result == EconomicResult(type, amount, rate, rounding.fee)
<1>1. type \in PaymentEventTypes
  BY EventTypeTyped
<1>2. /\ amount \in Int /\ rate \in Int /\ rounding \in RoundingErrors
      /\ rounding.fee \in Errors
  BY LivingAssumption DEF RoundingErrors
<1>3. IsChargeable(amount, rate)
  BY DEF Pay
<1>4. result.type = type
  BY DEF EconomicResult
<1>5. /\ treasury' = ApplyRevenueAllocation(treasury,
                        AllocateRevenue(result.fee, rounding.share), rounding.balance)
      /\ analytics' = analytics (+) SetToBag({result})
      /\ evidence' = [id \in Ids |->
            Gather(evidence[id], SignalsOf(id, sender.id, receiver.id, type))]
      /\ UNCHANGED <<registry, copies, past>>
  BY DEF Pay
<1> HIDE DEF type
<1>6. result \in Results /\ result.fee <= 10000 * result.amount
  BY <1>1, <1>2, <1>3, FeeIsPart
<1> HIDE DEF result
<1>7. PayMade(sender.id, receiver.id, result, rounding)
  BY <1>4, <1>5, <1>6 DEF PayMade
<1>8. sender.id \in Ids /\ receiver.id \in Ids
  BY DEF LivingInv, TypeOK
<1>9. QED
  BY <1>2, <1>6, <1>7, <1>8 DEF Payment

\* What a fee does to one bucket: its share of the fee arrives within two roundings.
LEMMA BucketAfter ==
    ASSUME treasury \in [RevenueBuckets -> Nat], NEW fee \in Nat,
           NEW rounding \in RoundingErrors, NEW b \in RevenueBuckets
    PROVE  LET after == ApplyRevenueAllocation(treasury,
                          AllocateRevenue(fee, rounding.share), rounding.balance)[b]
           IN  /\ after \in Nat
               /\ Within(after - (treasury[b] + REVENUE_ALLOCATION_RATES[b] * fee),
                         2 * Grain)
<1> DEFINE rate  == REVENUE_ALLOCATION_RATES[b]
           share == Product(100 * fee, rate * fee, rounding.share[b])
           after == Sum(treasury[b], share, rounding.balance[b])
<1>1. rate \in {10, 15, 20, 45}
  BY DEF REVENUE_ALLOCATION_RATES, RevenueBuckets
<1>2. rounding.share[b] \in Errors /\ rounding.balance[b] \in Errors
  BY DEF RoundingErrors
<1>3. ApplyRevenueAllocation(treasury, AllocateRevenue(fee, rounding.share),
                             rounding.balance)[b] = after
  BY DEF ApplyRevenueAllocation, AllocateRevenue
<1> HIDE DEF rate
<1>4. rate * fee \in Nat /\ 100 * fee \in Nat /\ rate * fee <= 100 * fee
  BY <1>1
<1>5. share \in Nat /\ Within(share - rate * fee, Grain)
  BY <1>2, <1>4, ProductBounds
<1> HIDE DEF share
<1>6. treasury[b] \in Nat
  OBVIOUS
<1>7. after \in Nat /\ Within(after - (treasury[b] + share), Grain)
  BY <1>2, <1>5, <1>6, RoundedSumBounds
<1> HIDE DEF after
<1>8. Within(after - (treasury[b] + rate * fee), 2 * Grain)
  BY <1>4, <1>5, <1>6, <1>7, LivingAssumption DEF Within
<1>9. QED
  BY <1>3, <1>7, <1>8 DEF rate

LEMMA PayKeepsInv == ASSUME LivingInv, Payment PROVE LivingInv'
<1> PICK sender \in Ids, receiver \in Ids, result \in Results,
         rounding \in RoundingErrors : PayMade(sender, receiver, result, rounding)
  BY DEF Payment
<1>1. treasury' \in [RevenueBuckets -> Nat]
  <2>1. treasury \in [RevenueBuckets -> Nat] /\ result.fee \in Nat
    BY DEF LivingInv, TypeOK, Results
  <2>2. treasury' = ApplyRevenueAllocation(treasury,
                      AllocateRevenue(result.fee, rounding.share), rounding.balance)
    BY DEF PayMade
  <2>3. \A b \in RevenueBuckets : treasury'[b] \in Nat
    BY <2>1, <2>2, BucketAfter
  <2>4. QED
    BY <2>2, <2>3 DEF ApplyRevenueAllocation
<1>2. IsABag(analytics') /\ DOMAIN analytics' = DOMAIN analytics \cup {result}
  <2>1. IsABag(analytics) /\ analytics' = analytics (+) SetToBag({result})
    BY DEF LivingInv, TypeOK, PayMade
  <2>2. QED
    BY <2>1, Recorded
<1>3. evidence' \in [Ids -> Evidence]
  BY SignalsTyped, GatherTyped DEF PayMade, LivingInv, TypeOK
<1>4. TypeOK'
  BY <1>1, <1>2, <1>3 DEF PayMade, LivingInv, TypeOK
<1>5. \A p \in copies' : Genuine(p)
  BY DEF PayMade, LivingInv
<1>6. IsFiniteSet(DOMAIN analytics')
  BY <1>2, FS_AddElement DEF LivingInv
<1>7. \A r \in DOMAIN analytics' : r \in Results /\ r.fee <= 10000 * r.amount
  BY <1>2 DEF LivingInv, PayMade
<1>8. QED
  BY <1>4, <1>5, <1>6, <1>7 DEF LivingInv

\* A step that is not a payment changes none of the economy.
LEMMA OnlyPaymentsCount ==
    ASSUME LivingInv, [Next]_vars
    PROVE  UNCHANGED economyVars \/ Payment
<1>1. \/ UNCHANGED economyVars
      \/ \E sender, receiver \in copies, amount \in Amounts, rate \in Rates,
            rounding \in Roundings : Pay(sender, receiver, amount, rate, rounding)
  BY DEF Next, CreateParticipant, Onboard, Update, SetStatus, Remove, economyVars, vars
<1>2. QED
  BY <1>1, PayEffect

LEMMA StepLiving == LivingInv /\ [Next]_vars => LivingInv'
<1> SUFFICES ASSUME LivingInv, [Next]_vars PROVE LivingInv'
  OBVIOUS
<1>0. /\ \A p \in copies : Genuine(p)
      /\ \A id \in DOMAIN registry : registry[id] \in copies /\ registry[id].id = id
  BY DEF LivingInv, TypeOK
<1>1. ASSUME NEW id \in Ids, CreateParticipant(id)
      PROVE  LivingInv'
  <2>1. copies' = copies \cup {Participant(id, "pending")} /\ registry' = registry
    BY <1>1 DEF CreateParticipant
  <2>2. \A p \in copies' : Genuine(p)
    BY <1>0, <2>1, ParticipantGenuine
  <2>3. QED
    BY <1>0, <1>1, <2>1, <2>2, MapsStep DEF CreateParticipant
<1>2. ASSUME NEW id \in Ids, Onboard(id)
      PROVE  LivingInv'
  <2> DEFINE new == Participant(id, "active")
  <2>1. copies' = copies \cup {new} /\ registry' = With(id, new)
    BY <1>2 DEF Onboard
  <2>2. Genuine(new) /\ new.id = id
    BY ParticipantGenuine
  <2> HIDE DEF new
  <2>3. \A p \in copies' : Genuine(p)
    BY <1>0, <2>1, <2>2
  <2>4. \A x \in DOMAIN registry' : registry'[x] \in copies' /\ registry'[x].id = x
    BY <1>0, <2>1, <2>2 DEF With
  <2>5. QED
    BY <1>2, <2>3, <2>4, MapsStep DEF Onboard
<1>3. ASSUME NEW participant \in copies, Update(participant)
      PROVE  LivingInv'
  <2>1. \A x \in DOMAIN registry' : registry'[x] \in copies' /\ registry'[x].id = x
    BY <1>0, <1>3 DEF Update, With
  <2>2. \A p \in copies' : Genuine(p)
    BY <1>0, <1>3 DEF Update
  <2>3. QED
    BY <1>3, <2>1, <2>2, MapsStep DEF Update
<1>4. ASSUME NEW participant \in copies, NEW status \in Statuses,
             SetStatus(participant, status)
      PROVE  LivingInv'
  <2>1. /\ copies' = copies \cup {[participant EXCEPT !.status = status]}
        /\ registry' = registry
    BY <1>4 DEF SetStatus
  <2>2. \A p \in copies' : Genuine(p)
    BY <1>0, <2>1, StatusGenuine
  <2>3. QED
    BY <1>0, <1>4, <2>1, <2>2, MapsStep DEF SetStatus
<1>5. ASSUME NEW ids, Remove(ids)
      PROVE  LivingInv'
  <2>1. \A x \in DOMAIN registry' : registry'[x] \in copies' /\ registry'[x].id = x
    BY <1>0, <1>5 DEF Remove
  <2>2. \A p \in copies' : Genuine(p)
    BY <1>0, <1>5 DEF Remove
  <2>3. QED
    BY <1>5, <2>1, <2>2, MapsStep DEF Remove
<1>6. CASE UNCHANGED vars
  BY <1>0, <1>6, MapsStep DEF vars, economyVars
<1>7. ASSUME NEW sender \in copies, NEW receiver \in copies, NEW amount \in Amounts,
             NEW rate \in Rates, NEW rounding \in Roundings,
             Pay(sender, receiver, amount, rate, rounding)
      PROVE  LivingInv'
  BY <1>7, PayEffect, PayKeepsInv
<1>8. QED
  BY <1>1, <1>2, <1>3, <1>4, <1>5, <1>6, <1>7 DEF Next

LEMMA LivingInvHolds == Spec => []LivingInv
BY InitLiving, StepLiving, PTL DEF Spec

\* Every entry of the registry is a copy of that very participant, as it was created
\* but for its status, whatever copies clients write back (registry.ts).
THEOREM LivingTypeCorrect == Spec => []TypeOK
<1>1. LivingInv => TypeOK
  BY DEF LivingInv
<1>2. QED
  BY <1>1, LivingInvHolds, PTL

-----------------------------------------------------------------------------
(* Trust. *)

\* The assessment, field by field.
LEMMA Assessed ==
    ASSUME NEW e \in Evidence
    PROVE  /\ EvaluateTrust(e).score = IF e.weight <= 100 THEN e.weight ELSE 100
           /\ EvaluateTrust(e).confidence = IF e.count <= 100 THEN e.count ELSE 100
           /\ EvaluateTrust(e).maturity = MaturityLevel(e.count)
           /\ EvaluateTrust(e).risk =
                RiskLevel(EvaluateTrust(e).score, EvaluateTrust(e).maturity)
<1>1. e.weight \in Nat /\ e.count \in Nat
  BY DEF Evidence
<1>2. Min({e.weight, 100}) = IF e.weight <= 100 THEN e.weight ELSE 100
  BY <1>1, MinOfTwo
<1>3. Min({e.count, 100}) = IF e.count <= 100 THEN e.count ELSE 100
  BY <1>1, MinOfTwo
<1>4. Max({0, Min({e.weight, 100})}) = Min({e.weight, 100})
  <2> DEFINE least == Min({e.weight, 100})
  <2>1. least \in Nat
    BY <1>1, <1>2
  <2> HIDE DEF least
  <2>2. Max({0, least}) = least
    BY <2>1, MaxOfTwo
  <2>3. QED
    BY <2>2 DEF least
<1>5. WeightedScore(e) = IF e.weight <= 100 THEN e.weight ELSE 100
  BY <1>2, <1>4, Zenon DEF WeightedScore
<1>6. QED
  BY <1>3, <1>5 DEF EvaluateTrust

\* Evidence that grows makes for an assessment that is no worse.
LEMMA MoreEvidence ==
    ASSUME NEW e \in Evidence, NEW d \in Evidence,
           e.count <= d.count, e.weight <= d.weight
    PROVE  IsNoWorse(EvaluateTrust(e), EvaluateTrust(d))
<1> DEFINE before == EvaluateTrust(e)
           after  == EvaluateTrust(d)
<1>1. /\ e.count \in Nat /\ e.weight \in Nat
      /\ d.count \in Nat /\ d.weight \in Nat
  BY DEF Evidence
<1>2. /\ before.score = (IF e.weight <= 100 THEN e.weight ELSE 100)
      /\ before.confidence = (IF e.count <= 100 THEN e.count ELSE 100)
      /\ before.maturity = MaturityLevel(e.count)
      /\ before.risk = RiskLevel(before.score, before.maturity)
  BY Assessed
<1>3. /\ after.score = (IF d.weight <= 100 THEN d.weight ELSE 100)
      /\ after.confidence = (IF d.count <= 100 THEN d.count ELSE 100)
      /\ after.maturity = MaturityLevel(d.count)
      /\ after.risk = RiskLevel(after.score, after.maturity)
  BY Assessed
<1> HIDE DEF before, after
<1>4. /\ before.score \in Nat /\ after.score \in Nat /\ before.score <= after.score
      /\ before.confidence <= after.confidence
  BY <1>1, <1>2, <1>3
<1>5. /\ before.maturity \in {"new", "emerging", "established", "veteran"}
      /\ after.maturity \in {"new", "emerging", "established", "veteran"}
  BY <1>2, <1>3 DEF MaturityLevel
<1>6. MaturityRank(before) <= MaturityRank(after)
  BY <1>1, <1>2, <1>3 DEF MaturityRank, MaturityLevel
<1>7. /\ before.maturity # "new" => after.maturity # "new"
      /\ before.maturity = "veteran" => after.maturity = "veteran"
  BY <1>1, <1>2, <1>3 DEF MaturityLevel
<1>8. RiskRank(before) < RiskRank(after) =>
        before.maturity = "new" /\ after.maturity # "new" /\ after.score < 50
  BY <1>2, <1>3, <1>4, <1>7 DEF RiskRank, RiskLevel
<1>9. before.risk = "low" /\ before.maturity # "new" => after.risk = "low"
  BY <1>2, <1>3, <1>4, <1>7 DEF RiskLevel
<1>10. before.risk = "low" => before.maturity # "new" /\ before.score >= 80
  BY <1>2 DEF RiskLevel
<1> DEFINE lost == DeriveTrustBenefits(before) \ DeriveTrustBenefits(after)
<1>11. lost \subseteq {"beta_feature_access"}
  BY <1>4, <1>7, <1>9, <1>10 DEF DeriveTrustBenefits
<1>12. "beta_feature_access" \in lost =>
         before.maturity = "established" /\ after.maturity # "established"
  BY DEF DeriveTrustBenefits
<1>13. before.maturity = "established" /\ after.maturity # "established" =>
         after.maturity = "veteran"
  BY <1>5, <1>6 DEF MaturityRank
<1> HIDE DEF lost
<1>14. lost # {} => /\ lost = {"beta_feature_access"}
                   /\ before.maturity = "established" /\ after.maturity = "veteran"
  BY <1>11, <1>12, <1>13
<1>15. QED
  BY <1>4, <1>6, <1>8, <1>14 DEF IsNoWorse, lost, before, after

\* As its payments succeed a participant keeps what trust it earned: score, maturity
\* and confidence never fall, no benefit is lost but access to the beta on becoming a
\* veteran, and the risk rises only on ceasing to be new with a score below 50
\* (trust/engine.ts, trust/benefits.ts).
THEOREM TrustIsNeverLost == Spec => TrustIsKept
<1>1. ASSUME LivingInv, [Next]_vars, NEW id \in Ids
      PROVE  IsNoWorse(EvaluateTrust(evidence[id]), EvaluateTrust(evidence'[id]))
  <2>1. evidence[id] \in Evidence /\ evidence'[id] \in Evidence
    BY <1>1, StepLiving DEF LivingInv, TypeOK
  <2>2. /\ evidence[id].count <= evidence'[id].count
        /\ evidence[id].weight <= evidence'[id].weight
    <3>1. CASE evidence' = evidence
      BY <2>1, <3>1 DEF Evidence
    <3>2. CASE Payment
      <4>1. PICK sender \in Ids, receiver \in Ids, result \in Results,
                 rounding \in RoundingErrors :
              PayMade(sender, receiver, result, rounding)
        BY <3>2 DEF Payment
      <4>2. evidence'[id] =
              Gather(evidence[id], SignalsOf(id, sender, receiver, result.type))
        BY <4>1 DEF PayMade
      <4>3. SignalsOf(id, sender, receiver, result.type) \in Evidence
        BY SignalsTyped
      <4>4. QED
        BY <2>1, <4>2, <4>3 DEF Gather, Evidence
    <3>3. QED
      BY <1>1, <3>1, <3>2, OnlyPaymentsCount DEF economyVars
  <2>3. QED
    BY <2>1, <2>2, MoreEvidence
<1>2. LivingInv /\ [Next]_vars =>
        [\A id \in Ids :
           IsNoWorse(EvaluateTrust(evidence[id]), EvaluateTrust(evidence'[id]))]_evidence
  BY <1>1
<1>3. QED
  BY <1>2, LivingInvHolds, PTL DEF Spec, TrustIsKept

-----------------------------------------------------------------------------
(* Sums over the analytics.  Its results are finitely many, and a payment    *)
(* adds one copy of one.                                                     *)

Fields == {"amount", "fee"}

LEMMA FieldsTyped ==
    ASSUME NEW r \in Results, NEW field \in Fields
    PROVE  r[field] \in Nat
BY DEF Results, Fields

LEMMA SumsTyped ==
    ASSUME LivingInv
    PROVE  /\ \A field \in Fields : Total(field) \in Nat
           /\ PaymentCount \in Nat
           /\ \A type : CountByType(type) \in Nat
<1> DEFINE D == DOMAIN analytics
<1>1. /\ IsFiniteSet(D)
      /\ \A r \in D : analytics[r] \in Nat /\ r \in Results
  BY DEF LivingInv, TypeOK, IsABag
<1>2. ASSUME NEW field \in Fields
      PROVE  Total(field) \in Nat
  <2> DEFINE f == [r \in D |-> analytics[r] * r[field]]
  <2>1. \A r \in D : f[r] \in Nat
    BY <1>1, FieldsTyped
  <2>2. SumFunctionOnSet(f, D) \in Nat
    <3> HIDE DEF f
    <3>1. QED
      BY <1>1, <2>1, SumInteger
  <2>3. Total(field) = SumFunctionOnSet(f, D)
    BY DEF Total, SumFunction, BagToSet
  <2>4. QED
    BY <2>2, <2>3
<1>3. PaymentCount \in Nat
  BY <1>1, SumInteger DEF PaymentCount, SumFunction
<1>4. ASSUME NEW type
      PROVE  CountByType(type) \in Nat
  <2> DEFINE E == {r \in D : r.type = type}
             f == [r \in E |-> analytics[r]]
  <2>1. \A r \in E : f[r] \in Nat
    BY <1>1
  <2>2. IsFiniteSet(E)
    BY <1>1, FS_Subset
  <2>3. SumFunctionOnSet(f, E) \in Nat
    <3> HIDE DEF f, E
    <3>1. QED
      BY <2>1, <2>2, SumInteger
  <2>4. CountByType(type) = SumFunctionOnSet(f, E)
    BY DEF CountByType, SumFunction, BagToSet
  <2>5. QED
    BY <2>3, <2>4
<1>5. QED
  BY <1>2, <1>3, <1>4

LEMMA TotalAfter ==
    ASSUME LivingInv, NEW result \in Results, NEW field \in Fields,
           analytics' = analytics (+) SetToBag({result})
    PROVE  Total(field)' = Total(field) + result[field]
<1> DEFINE D == DOMAIN analytics
           f == [r \in D |-> analytics[r] * r[field]]
           g == [r \in DOMAIN analytics' |-> analytics'[r] * r[field]]
<1>1. /\ IsFiniteSet(D) /\ IsABag(analytics)
      /\ \A r \in D : analytics[r] \in Nat /\ r \in Results
  BY DEF LivingInv, TypeOK, IsABag
<1>2. /\ DOMAIN analytics' = D \cup {result}
      /\ \A r \in D \ {result} : analytics'[r] = analytics[r]
      /\ analytics'[result] = (IF result \in D THEN analytics[result] ELSE 0) + 1
  BY <1>1, Recorded
<1>3. \A r \in D : f[r] \in Int
  BY <1>1, FieldsTyped
<1>4. \A r \in D \ {result} : g[r] = f[r]
  BY <1>2
<1>5. result[field] \in Int
  BY FieldsTyped
<1>6. g[result] = (IF result \in D THEN f[result] ELSE 0) + result[field]
  <2>1. g[result] = analytics'[result] * result[field]
    BY <1>2
  <2>2. CASE result \in D
    <3>1. (analytics[result] + 1) * result[field]
            = analytics[result] * result[field] + result[field]
      BY <1>1, <1>5, <2>2
    <3>2. QED
      BY <1>2, <2>1, <2>2, <3>1
  <2>3. CASE result \notin D
    BY <1>2, <1>5, <2>1, <2>3
  <2>4. QED
    BY <2>2, <2>3
<1>7. Total(field) = SumFunctionOnSet(f, D)
  BY DEF Total, SumFunction, BagToSet
<1>8. Total(field)' = SumFunctionOnSet(g, D \cup {result})
  BY <1>2 DEF Total, SumFunction, BagToSet
<1> HIDE DEF f, g, D
<1>9. QED
  <2>1. g[result] \in Int
    BY <1>3, <1>5, <1>6
  <2>2. Total(field)' = Total(field) + (g[result] - IF result \in D THEN f[result] ELSE 0)
    BY <1>1, <1>3, <1>4, <1>7, <1>8, <2>1, SumExtend
  <2>3. QED
    BY <1>3, <1>5, <1>6, <2>2

LEMMA CountsAfter ==
    ASSUME LivingInv, NEW result \in Results,
           analytics' = analytics (+) SetToBag({result})
    PROVE  /\ PaymentCount' = PaymentCount + 1
           /\ \A type : CountByType(type)' =
                 CountByType(type) + IF result.type = type THEN 1 ELSE 0
<1> DEFINE D == DOMAIN analytics
<1>1. /\ IsFiniteSet(D) /\ IsABag(analytics)
      /\ \A r \in D : analytics[r] \in Nat
  BY DEF LivingInv, TypeOK, IsABag
<1>2. /\ DOMAIN analytics' = D \cup {result}
      /\ \A r \in D \ {result} : analytics'[r] = analytics[r]
      /\ analytics'[result] = (IF result \in D THEN analytics[result] ELSE 0) + 1
  BY <1>1, Recorded
<1>3. PaymentCount' = PaymentCount + 1
  <2>1. analytics'[result] \in Int /\ \A r \in D : analytics[r] \in Int
    BY <1>1, <1>2
  <2>2. SumFunctionOnSet(analytics', D \cup {result})
          = SumFunctionOnSet(analytics, D)
              + (analytics'[result] - IF result \in D THEN analytics[result] ELSE 0)
    <3> HIDE DEF D
    <3>1. QED
      BY <1>1, <1>2, <2>1, SumExtend
  <2>3. PaymentCount' = SumFunctionOnSet(analytics', D \cup {result})
        /\ PaymentCount = SumFunctionOnSet(analytics, D)
    BY <1>2 DEF PaymentCount, SumFunction
  <2>4. analytics'[result] - (IF result \in D THEN analytics[result] ELSE 0) = 1
    BY <1>1, <1>2
  <2>5. QED
    BY <2>2, <2>3, <2>4
<1>4. ASSUME NEW type
      PROVE  CountByType(type)' = CountByType(type) + IF result.type = type THEN 1 ELSE 0
  <2> DEFINE E == {r \in D : r.type = type}
             F == {r \in DOMAIN analytics' : r.type = type}
             f == [r \in E |-> analytics[r]]
             g == [r \in F |-> analytics'[r]]
  <2>1. IsFiniteSet(E) /\ \A r \in E : f[r] \in Int
    BY <1>1, FS_Subset
  <2>2. CountByType(type) = SumFunctionOnSet(f, E)
    BY DEF CountByType, SumFunction, BagToSet
  <2>3. CountByType(type)' = SumFunctionOnSet(g, F)
    BY DEF CountByType, SumFunction, BagToSet
  <2>4. CASE result.type = type
    <3>1. F = E \cup {result}
      BY <1>2, <2>4
    <3>2. \A r \in E \ {result} : g[r] = f[r]
      BY <1>2
    <3>3. g[result] = (IF result \in E THEN f[result] ELSE 0) + 1
      BY <1>2, <2>4
    <3> HIDE DEF E, F, f, g
    <3>4. g[result] \in Int
      BY <2>1, <3>3
    <3>5. SumFunctionOnSet(g, E \cup {result})
            = SumFunctionOnSet(f, E) + (g[result] - IF result \in E THEN f[result] ELSE 0)
      BY <2>1, <3>2, <3>4, SumExtend
    <3>6. g[result] - (IF result \in E THEN f[result] ELSE 0) = 1
      BY <2>1, <3>3
    <3>7. QED
      BY <2>2, <2>3, <2>4, <3>1, <3>5, <3>6
  <2>5. CASE result.type # type
    <3>1. F = E
      BY <1>2, <2>5
    <3>2. \A r \in E : g[r] = f[r]
      BY <1>2, <2>5
    <3>3. CountByType(type) \in Int
      BY SumsTyped
    <3> HIDE DEF E, F, f, g
    <3>4. QED
      BY <2>1, <2>2, <2>3, <2>5, <3>1, <3>2, <3>3, SumSame
  <2>6. QED
    BY <2>4, <2>5
<1>5. QED
  BY <1>3, <1>4

\* Before the first payment there is nothing to sum.
LEMMA NothingRecorded ==
    ASSUME Init
    PROVE  /\ \A field \in Fields : Total(field) = 0
           /\ PaymentCount = 0
           /\ \A type : CountByType(type) = 0
<1>1. DOMAIN analytics = {}
  BY DEF Init, EmptyBag, SetToBag
<1>2. ASSUME NEW f, DOMAIN f = {}
      PROVE  SumFunction(f) = 0
  BY <1>2, SumEmpty DEF SumFunction
<1>3. QED
  BY <1>1, <1>2 DEF Total, PaymentCount, CountByType, BagToSet

-----------------------------------------------------------------------------
(* Money. *)

LEMMA BucketsFinite == IsFiniteSet(RevenueBuckets)
<1>1. IsFiniteSet({"treasuryOperations"})
  BY FS_Singleton
<1>2. IsFiniteSet({"treasuryOperations"} \cup {"ecosystemExpansion"})
  BY <1>1, FS_AddElement
<1>3. IsFiniteSet({"strategicReserve"})
  BY FS_Singleton
<1>4. IsFiniteSet({"strategicReserve"} \cup {"buybackAndBurn"})
  BY <1>3, FS_AddElement
<1>5. IsFiniteSet({"buildersAndContributors"})
  BY FS_Singleton
<1>6. RevenueBuckets = (({"treasuryOperations"} \cup {"ecosystemExpansion"})
                         \cup ({"strategicReserve"} \cup {"buybackAndBurn"}))
                       \cup {"buildersAndContributors"}
  BY DEF RevenueBuckets
<1>7. QED
  BY <1>2, <1>4, <1>5, <1>6, FS_Union

\* What the buckets hold together.
LEMMA SumOfBuckets ==
    ASSUME NEW f, \A b \in RevenueBuckets : f[b] \in Int
    PROVE  SumFunctionOnSet(f, RevenueBuckets)
             = f["buildersAndContributors"] + (f["buybackAndBurn"]
                 + (f["strategicReserve"] + (f["ecosystemExpansion"]
                 + f["treasuryOperations"])))
<1> DEFINE B1 == {"treasuryOperations"}
           B2 == B1 \cup {"ecosystemExpansion"}
           B3 == B2 \cup {"strategicReserve"}
           B4 == B3 \cup {"buybackAndBurn"}
<1>1. /\ IsFiniteSet({}) /\ IsFiniteSet(B1) /\ IsFiniteSet(B2)
      /\ IsFiniteSet(B3) /\ IsFiniteSet(B4)
  <2>1. {{}, B1, B2, B3, B4} \subseteq SUBSET RevenueBuckets
    BY DEF RevenueBuckets
  <2> HIDE DEF B1, B2, B3, B4
  <2>2. QED
    BY <2>1, BucketsFinite, FS_Subset
<1>2. /\ "treasuryOperations" \notin {} /\ "ecosystemExpansion" \notin B1
      /\ "strategicReserve" \notin B2 /\ "buybackAndBurn" \notin B3
      /\ "buildersAndContributors" \notin B4
  OBVIOUS
<1>3. RevenueBuckets = B4 \cup {"buildersAndContributors"}
  BY DEF RevenueBuckets
<1>4. {} \cup {"treasuryOperations"} = B1
  OBVIOUS
<1>5. SumFunctionOnSet(f, {} \cup {"treasuryOperations"})
        = f["treasuryOperations"] + SumFunctionOnSet(f, {})
  <2>1. \A b \in {} \cup {"treasuryOperations"} : f[b] \in Int
    BY DEF RevenueBuckets
  <2>2. QED
    BY <1>1, <1>2, <2>1, SumAdd
<1>6. f["treasuryOperations"] \in Int
  BY DEF RevenueBuckets
<1>7. SumFunctionOnSet(f, B1) = f["treasuryOperations"]
  BY <1>4, <1>5, <1>6, SumEmpty
<1>8. SumFunctionOnSet(f, B2) = f["ecosystemExpansion"] + SumFunctionOnSet(f, B1)
  <2>1. \A b \in B1 \cup {"ecosystemExpansion"} : f[b] \in Int
    BY DEF RevenueBuckets
  <2>2. QED
    BY <1>1, <1>2, <2>1, SumAdd
<1>9. SumFunctionOnSet(f, B3) = f["strategicReserve"] + SumFunctionOnSet(f, B2)
  <2>1. \A b \in B2 \cup {"strategicReserve"} : f[b] \in Int
    BY DEF RevenueBuckets
  <2> HIDE DEF B2
  <2>2. QED
    BY <1>1, <1>2, <2>1, SumAdd
<1>10. SumFunctionOnSet(f, B4) = f["buybackAndBurn"] + SumFunctionOnSet(f, B3)
  <2>1. \A b \in B3 \cup {"buybackAndBurn"} : f[b] \in Int
    BY DEF RevenueBuckets
  <2> HIDE DEF B3
  <2>2. QED
    BY <1>1, <1>2, <2>1, SumAdd
<1>11. SumFunctionOnSet(f, RevenueBuckets)
         = f["buildersAndContributors"] + SumFunctionOnSet(f, B4)
  <2>1. \A b \in B4 \cup {"buildersAndContributors"} : f[b] \in Int
    BY <1>3
  <2> HIDE DEF B4
  <2>2. QED
    BY <1>1, <1>2, <1>3, <2>1, SumAdd
<1> HIDE DEF B1, B2, B3, B4
<1>12. QED
  BY <1>7, <1>8, <1>9, <1>10, <1>11, Zenon

\* Each bucket has its share of the fees, but for what is rounded, and the fees
\* are at most the payments.
BucketsTrackFees ==
    /\ \A b \in RevenueBuckets :
         Within(treasury[b] - REVENUE_ALLOCATION_RATES[b] * Fees,
                2 * Grain * PaymentCount)
    /\ Fees <= 10000 * Volume

LEMMA RatesTyped ==
    ASSUME NEW b \in RevenueBuckets
    PROVE  REVENUE_ALLOCATION_RATES[b] \in Nat
BY DEF REVENUE_ALLOCATION_RATES, RevenueBuckets

LEMMA MoneyTyped ==
    ASSUME LivingInv
    PROVE  /\ Fees \in Nat /\ Volume \in Nat /\ PaymentCount \in Nat
           /\ treasury \in [RevenueBuckets -> Nat]
BY SumsTyped DEF Fees, Volume, Fields, LivingInv, TypeOK

LEMMA InitMoney == Init => BucketsTrackFees
<1> SUFFICES ASSUME Init PROVE BucketsTrackFees
  OBVIOUS
<1>1. Fees = 0 /\ Volume = 0 /\ PaymentCount = 0
  BY NothingRecorded DEF Fees, Volume, Fields
<1>2. \A b \in RevenueBuckets : treasury[b] = 0
  BY DEF Init
<1>3. QED
  BY <1>1, <1>2, RatesTyped, LivingAssumption DEF BucketsTrackFees, Within

\* One more payment may add two roundings to the drift of a bucket.
LEMMA DriftGrows ==
    ASSUME NEW t \in Nat, NEW u \in Nat, NEW rate \in Nat, NEW fees \in Nat,
           NEW fee \in Nat, NEW n \in Nat,
           Within(t - rate * fees, 2 * Grain * n),
           Within(u - (t + rate * fee), 2 * Grain)
    PROVE  Within(u - rate * (fees + fee), 2 * Grain * (n + 1))
<1> DEFINE k == Grain * n
           s == rate * fees
           d == rate * fee
<1>1. Grain \in Nat /\ k \in Nat /\ s \in Nat /\ d \in Nat
  BY LivingAssumption
<1>2. 2 * Grain * n = 2 * k /\ 2 * Grain * (n + 1) = 2 * k + 2 * Grain
  BY LivingAssumption
<1>3. rate * (fees + fee) = s + d
  OBVIOUS
<1>4. Within(t - s, 2 * k) /\ Within(u - (t + d), 2 * Grain)
  BY <1>2
<1> HIDE DEF k, s, d
<1>5. Within(u - (s + d), 2 * k + 2 * Grain)
  BY <1>1, <1>4 DEF Within
<1>6. QED
  BY <1>2, <1>3, <1>5

LEMMA StepMoney == LivingInv /\ BucketsTrackFees /\ [Next]_vars => BucketsTrackFees'
<1> SUFFICES ASSUME LivingInv, BucketsTrackFees, [Next]_vars PROVE BucketsTrackFees'
  OBVIOUS
<1>1. CASE UNCHANGED economyVars
  BY <1>1 DEF economyVars, BucketsTrackFees, Fees, Volume, Total, PaymentCount
<1>2. CASE Payment
  <2>0. PICK sender \in Ids, receiver \in Ids, result \in Results,
             rounding \in RoundingErrors : PayMade(sender, receiver, result, rounding)
    BY <1>2 DEF Payment
  <2>1. analytics' = analytics (+) SetToBag({result})
    BY <2>0 DEF PayMade
  <2>2. Fees' = Fees + result.fee /\ Volume' = Volume + result.amount
    BY <2>1, TotalAfter DEF Fees, Volume, Fields
  <2>3. PaymentCount' = PaymentCount + 1
    BY <2>1, CountsAfter
  <2>4. /\ Fees \in Nat /\ Volume \in Nat /\ PaymentCount \in Nat
        /\ treasury \in [RevenueBuckets -> Nat]
    BY MoneyTyped
  <2>5. result.fee \in Nat /\ result.amount \in Nat /\ result.fee <= 10000 * result.amount
    BY <2>0 DEF PayMade, Results
  <2>6. ASSUME NEW b \in RevenueBuckets
        PROVE  Within(treasury'[b] - REVENUE_ALLOCATION_RATES[b] * Fees',
                      2 * Grain * PaymentCount')
    <3>1. treasury' = ApplyRevenueAllocation(treasury,
                        AllocateRevenue(result.fee, rounding.share), rounding.balance)
      BY <2>0 DEF PayMade
    <3>2. /\ treasury'[b] \in Nat
          /\ Within(treasury'[b] - (treasury[b] + REVENUE_ALLOCATION_RATES[b] * result.fee),
                    2 * Grain)
      BY <2>4, <2>5, <3>1, BucketAfter
    <3>3. Within(treasury[b] - REVENUE_ALLOCATION_RATES[b] * Fees,
                 2 * Grain * PaymentCount)
      BY DEF BucketsTrackFees
    <3>4. REVENUE_ALLOCATION_RATES[b] \in Nat /\ treasury[b] \in Nat
      BY <2>4, RatesTyped
    <3> DEFINE u == treasury'[b]
               t == treasury[b]
               rate == REVENUE_ALLOCATION_RATES[b]
               fee == result.fee
               n == PaymentCount
    <3>5. /\ t \in Nat /\ u \in Nat /\ rate \in Nat /\ Fees \in Nat /\ fee \in Nat
          /\ n \in Nat
          /\ Within(t - rate * Fees, 2 * Grain * n)
          /\ Within(u - (t + rate * fee), 2 * Grain)
      BY <2>4, <2>5, <3>2, <3>3, <3>4
    <3> HIDE DEF u, t, rate, fee, n
    <3>6. Within(u - rate * (Fees + fee), 2 * Grain * (n + 1))
      BY <3>5, DriftGrows, Zenon
    <3>7. QED
      BY <2>2, <2>3, <3>6 DEF u, rate, fee, n
  <2>7. Fees' <= 10000 * Volume'
    BY <2>2, <2>4, <2>5 DEF BucketsTrackFees
  <2>8. QED
    BY <2>6, <2>7 DEF BucketsTrackFees, Within
<1>3. QED
  BY <1>1, <1>2, OnlyPaymentsCount

\* No part of a fee is lost or made but by rounding: each bucket drifts from its
\* share of the fees that the analytics recorded by at most two roundings a payment,
\* and all of them from the fees by at most ten, for any amounts, rates and errors
\* (economics/feeEngine.ts, revenueAllocator.ts, treasury.ts).
THEOREM FeesAreAlwaysAccountedFor == Spec => []FeesAreAccountedFor
<1>1. ASSUME LivingInv, BucketsTrackFees
      PROVE  FeesAreAccountedFor
  <2> DEFINE k == Grain * PaymentCount
             F == Fees
             n == PaymentCount
             t == treasury
  <2>1. F \in Nat /\ n \in Nat /\ t \in [RevenueBuckets -> Nat] /\ Grain \in Nat
    BY <1>1, MoneyTyped, LivingAssumption
  <2>2. \A b \in RevenueBuckets :
           Within(t[b] - REVENUE_ALLOCATION_RATES[b] * F, 2 * Grain * n)
    BY <1>1 DEF BucketsTrackFees
  <2>3. SumFunction(t) = SumFunctionOnSet(t, RevenueBuckets)
    BY <2>1 DEF SumFunction
  <2> DEFINE a == t["treasuryOperations"]
             b == t["ecosystemExpansion"]
             c == t["strategicReserve"]
             d == t["buybackAndBurn"]
             e == t["buildersAndContributors"]
  <2>4. SumFunctionOnSet(t, RevenueBuckets) = e + (d + (c + (b + a)))
    <3>1. \A x \in RevenueBuckets : t[x] \in Int
      BY <2>1
    <3>2. QED
      BY <3>1, SumOfBuckets
  <2>5. a \in Nat /\ b \in Nat /\ c \in Nat /\ d \in Nat /\ e \in Nat
    BY <2>1 DEF RevenueBuckets
  <2>6. /\ Within(a - 45 * F, 2 * Grain * n) /\ Within(b - 20 * F, 2 * Grain * n)
        /\ Within(c - 15 * F, 2 * Grain * n) /\ Within(d - 10 * F, 2 * Grain * n)
        /\ Within(e - 10 * F, 2 * Grain * n)
    BY <2>2 DEF RevenueBuckets, REVENUE_ALLOCATION_RATES
  <2> HIDE DEF a, b, c, d, e, F, n, t
  <2>7. k \in Nat /\ 2 * Grain * n = 2 * k /\ 10 * Grain * n = 10 * k
    BY <2>1 DEF n
  <2> HIDE DEF k
  <2>8. Within(e + (d + (c + (b + a))) - 100 * F, 10 * k)
    BY <2>1, <2>5, <2>6, <2>7 DEF Within
  <2>9. Within(SumFunction(t) - 100 * F, 10 * Grain * n)
    <3>1. SumFunction(t) = e + (d + (c + (b + a)))
      BY <2>3, <2>4, Zenon
    <3>2. 10 * Grain * n = 10 * k
      BY <2>7
    <3> DEFINE T == SumFunction(t)
               K == 10 * Grain * n
               S == e + (d + (c + (b + a)))
    <3>3. T = S
      BY <3>1
    <3>4. K = 10 * k
      BY <3>2
    <3>5. Within(S - 100 * F, 10 * k)
      BY <2>1, <2>5, <2>8, <3>1 DEF Within
    <3> HIDE DEF T, K, S
    <3>6. Within(T - 100 * F, K)
      BY <3>3, <3>4, <3>5
    <3>7. QED
      BY <3>6 DEF T, K
  <2>10. QED
    BY <1>1, <2>9 DEF FeesAreAccountedFor, BucketsTrackFees, F, n, t
<1>2. QED
  BY <1>1, InitMoney, StepMoney, LivingInvHolds, PTL DEF Spec

-----------------------------------------------------------------------------
(* Evidence. *)

\* What the signals of a payment add up to: one share for each side.
LEMMA SignalsAddUp ==
    ASSUME NEW sender \in Ids, NEW receiver \in Ids, NEW w \in Nat, NEW v \in Nat,
           NEW sig, \A id \in Ids :
              sig[id] = (IF id = sender THEN w ELSE 0) + (IF id = receiver THEN v ELSE 0)
    PROVE  SumFunctionOnSet(sig, Ids) = w + v
<1> DEFINE a == [id \in Ids |-> IF id = sender THEN w ELSE 0]
           b == [id \in Ids |-> IF id = receiver THEN v ELSE 0]
<1>1. IsFiniteSet(Ids)
  BY LivingAssumption
<1>2. \A id \in Ids : a[id] \in Int /\ b[id] \in Int /\ sig[id] = a[id] + 1 * b[id]
  OBVIOUS
<1>3. /\ a[sender] = w /\ \A id \in Ids \ {sender} : a[id] = 0
      /\ b[receiver] = v /\ \A id \in Ids \ {receiver} : b[id] = 0
  OBVIOUS
<1> HIDE DEF a, b
<1>4. SumFunctionOnSet(sig, Ids)
        = SumFunctionOnSet(a, Ids) + 1 * SumFunctionOnSet(b, Ids)
  BY <1>1, <1>2, SumTermByTerm
<1>5. SumFunctionOnSet(a, Ids) = w /\ SumFunctionOnSet(b, Ids) = v
  BY <1>1, <1>3, SumSingle
<1>6. QED
  BY <1>4, <1>5

\* What all participants together gain from a payment.
LEMMA GainedAfter ==
    ASSUME LivingInv, NEW sender \in Ids, NEW receiver \in Ids, NEW result \in Results,
           NEW rounding, PayMade(sender, receiver, result, rounding),
           NEW field \in {"count", "weight"}
    PROVE  Gained(field)' = Gained(field) +
             IF field = "count" THEN 2
             ELSE SenderWeight(result.type) + ReceiverWeight(result.type)
<1> DEFINE f == [id \in Ids |-> evidence[id][field] - past[id][field]]
           g == [id \in Ids |-> evidence'[id][field] - past[id][field]]
           sig == [id \in Ids |-> SignalsOf(id, sender, receiver, result.type)[field]]
           w == IF field = "count" THEN 1 ELSE SenderWeight(result.type)
           v == IF field = "count" THEN 1 ELSE ReceiverWeight(result.type)
<1>1. IsFiniteSet(Ids)
  BY LivingAssumption
<1>2. \A id \in Ids : evidence[id] \in Evidence /\ past[id] \in Evidence
  BY DEF LivingInv, TypeOK
<1>3. w \in Nat /\ v \in Nat
  BY DEF SenderWeight, ReceiverWeight
<1>4. \A id \in Ids : sig[id] =
         (IF id = sender THEN w ELSE 0) + (IF id = receiver THEN v ELSE 0)
  BY DEF SignalsOf
<1>5. \A id \in Ids : evidence'[id][field] = evidence[id][field] + sig[id]
  BY DEF PayMade, Gather
<1>6. \A id \in Ids : evidence[id][field] \in Int /\ past[id][field] \in Int
  BY <1>2 DEF Evidence
<1>7. \A id \in Ids : sig[id] \in Int
  BY <1>3, <1>4
<1>8. \A id \in Ids : f[id] \in Int /\ g[id] = f[id] + 1 * sig[id]
  <2> HIDE DEF sig
  <2>1. QED
    BY <1>5, <1>6, <1>7
<1>9. Gained(field) = SumFunctionOnSet(f, Ids) /\ Gained(field)' = SumFunctionOnSet(g, Ids)
  BY DEF Gained, SumFunction, PayMade
<1> HIDE DEF f, g, sig
<1>10. SumFunctionOnSet(g, Ids)
         = SumFunctionOnSet(f, Ids) + 1 * SumFunctionOnSet(sig, Ids)
  BY <1>1, <1>7, <1>8, SumTermByTerm
<1>11. SumFunctionOnSet(sig, Ids) = w + v
  <2> HIDE DEF w, v
  <2>1. QED
    BY <1>3, <1>4, SignalsAddUp
<1>12. SumFunctionOnSet(f, Ids) \in Int
  BY <1>1, <1>8, SumInteger
<1>13. w + v = IF field = "count" THEN 2
               ELSE SenderWeight(result.type) + ReceiverWeight(result.type)
  OBVIOUS
<1> HIDE DEF w, v
<1>14. w + v \in Int
  BY <1>3
<1>15. QED
  BY <1>9, <1>10, <1>11, <1>12, <1>13, <1>14

LEMMA InitEvidence == Init => EvidenceMatchesAnalytics
<1> SUFFICES ASSUME Init PROVE EvidenceMatchesAnalytics
  OBVIOUS
<1>1. IsFiniteSet(Ids)
  BY LivingAssumption
<1>2. ASSUME NEW field \in {"count", "weight"}
      PROVE  Gained(field) = 0
  <2> DEFINE f == [id \in Ids |-> evidence[id][field] - past[id][field]]
  <2>1. \A id \in Ids : evidence[id] = past[id] /\ past[id] \in Evidence
    BY LivingAssumption DEF Init
  <2>2. \A id \in Ids : f[id] = 0
    BY <2>1 DEF Evidence
  <2>3. Gained(field) = SumFunctionOnSet(f, Ids)
    BY DEF Gained, SumFunction
  <2> HIDE DEF f
  <2>4. SumFunctionOnSet(f, Ids) = 0 * Cardinality(Ids) /\ Cardinality(Ids) \in Nat
    BY <1>1, <2>2, SumConstant, FS_CardinalityType
  <2>5. QED
    BY <2>3, <2>4
<1>3. QED
  BY <1>2, NothingRecorded DEF EvidenceMatchesAnalytics

LEMMA StepEvidence ==
    LivingInv /\ EvidenceMatchesAnalytics /\ [Next]_vars => EvidenceMatchesAnalytics'
<1> SUFFICES ASSUME LivingInv, EvidenceMatchesAnalytics, [Next]_vars
             PROVE  EvidenceMatchesAnalytics'
  OBVIOUS
<1>1. CASE UNCHANGED economyVars
  BY <1>1 DEF economyVars, EvidenceMatchesAnalytics, Gained, PaymentCount, CountByType
<1>2. CASE Payment
  <2>0. PICK sender \in Ids, receiver \in Ids, result \in Results,
             rounding \in RoundingErrors : PayMade(sender, receiver, result, rounding)
    BY <1>2 DEF Payment
  <2>1. analytics' = analytics (+) SetToBag({result})
    BY <2>0 DEF PayMade
  <2>2. /\ PaymentCount' = PaymentCount + 1
        /\ \A type : CountByType(type)' =
              CountByType(type) + IF result.type = type THEN 1 ELSE 0
    BY <2>1, CountsAfter
  <2>3. PaymentCount \in Nat /\ \A type : CountByType(type) \in Nat
    BY SumsTyped
  <2>4. Gained("count")' = Gained("count") + 2
    BY <2>0, GainedAfter
  <2>5. Gained("weight")' =
          Gained("weight") + (SenderWeight(result.type) + ReceiverWeight(result.type))
    BY <2>0, GainedAfter
  <2> DEFINE p == CountByType("P2P_PAYMENT_COMPLETED")
             m == CountByType("MERCHANT_PAYMENT_COMPLETED")
             a == CountByType("AGENT_PAYMENT_COMPLETED")
  <2>6. /\ Gained("count") = 2 * PaymentCount
        /\ Gained("weight") = 2 * p + 3 * m + 4 * a
    BY DEF EvidenceMatchesAnalytics
  <2>7. /\ p' = p + (IF result.type = "P2P_PAYMENT_COMPLETED" THEN 1 ELSE 0)
        /\ m' = m + (IF result.type = "MERCHANT_PAYMENT_COMPLETED" THEN 1 ELSE 0)
        /\ a' = a + (IF result.type = "AGENT_PAYMENT_COMPLETED" THEN 1 ELSE 0)
    BY <2>2
  <2>8. p \in Nat /\ m \in Nat /\ a \in Nat
    BY <2>3
  <2>9. result.type \in PaymentEventTypes
    BY DEF Results
  <2>10. EvidenceMatchesAnalytics' <=>
           /\ Gained("count")' = 2 * PaymentCount'
           /\ Gained("weight")' = 2 * p' + 3 * m' + 4 * a'
    BY DEF EvidenceMatchesAnalytics
  <2> HIDE DEF p, m, a
  <2>11. Gained("count")' = 2 * PaymentCount'
    BY <2>2, <2>3, <2>4, <2>6
  <2>12. Gained("weight")' = 2 * p' + 3 * m' + 4 * a'
    BY <2>5, <2>6, <2>7, <2>8, <2>9 DEF PaymentEventTypes, SenderWeight, ReceiverWeight
  <2>13. QED
    BY <2>10, <2>11, <2>12
<1>3. QED
  BY <1>1, <1>2, OnlyPaymentsCount

\* The trust evidence and the analytics tell of the same payments: each payment has
\* a signal for each side, weighted by its type (trust/translators/economic.ts,
\* economics/analytics.ts).
THEOREM EvidenceAlwaysMatches == Spec => []EvidenceMatchesAnalytics
BY InitEvidence, StepEvidence, LivingInvHolds, PTL DEF Spec
=============================================================================
