---------------------- MODULE RpcInfrastructureProofs ----------------------
(***************************************************************************)
(* For any endpoints, any latencies and any changes of the registry during *)
(* a validation: what a validation reports is typed, it selects the        *)
(* fastest of the endpoints that answered, and a silent one only when none *)
(* answered.                                                               *)
(***************************************************************************)
EXTENDS RpcInfrastructure, TLAPS

HealthValues == Latencies \cup {Pending, Unreachable}

-----------------------------------------------------------------------------
(* Scores: a slower answer never scores higher, and every answer scores.    *)

Bands == 1 .. 11

LEMMA BandFacts ==
    /\ DOMAIN LatencyBands = Bands
    /\ \A i \in Bands : LatencyBands[i] \in Nat
    /\ \A i \in Bands : BandScores[i] \in 45 .. 100
    /\ \A i, j \in Bands : i <= j => BandScores[i] >= BandScores[j]
<1>1. DOMAIN LatencyBands = Bands /\ \A i \in Bands : LatencyBands[i] \in Nat
  BY DEF LatencyBands, Bands
<1>2. \A i \in Bands : BandScores[i] \in 45 .. 100
  BY DEF BandScores, Bands
<1>3. \A i \in 1 .. 10 : BandScores[i] >= BandScores[i + 1]
  BY DEF BandScores
<1>4. \A i, j \in Bands : i <= j => BandScores[i] >= BandScores[j]
  BY SMTT(60) DEF BandScores, Bands
<1>5. QED
  BY <1>1, <1>2, <1>4

\* Min of a set of bands is its least member.
LEMMA LeastBand ==
    ASSUME NEW S \in SUBSET Bands, S # {}
    PROVE  Min(S) \in S /\ \A y \in S : Min(S) <= y
<1>1. \E x \in S : \A y \in S : x <= y
  <2>1. SUFFICES ASSUME \A x \in S : \E y \in S : y < x
                 PROVE  FALSE
    <3>1. \A x \in S, y \in S : ~(y < x) => x <= y
      BY DEF Bands
    <3>2. QED
      BY <3>1
  <2>2. S \cap 1 .. 4 = {}
    <3>1. 1 \notin S
      BY <2>1 DEF Bands
    <3>2. 2 \notin S
      BY <2>1, <3>1 DEF Bands
    <3>3. 3 \notin S /\ 4 \notin S
      BY <2>1, <3>1, <3>2 DEF Bands
    <3>4. QED
      BY <3>1, <3>2, <3>3 DEF Bands
  <2>3. S \cap 5 .. 8 = {}
    BY <2>1, <2>2 DEF Bands
  <2>4. S \cap 9 .. 11 = {}
    BY <2>1, <2>2, <2>3 DEF Bands
  <2>5. \A x \in Bands : x \in 1 .. 4 \/ x \in 5 .. 8 \/ x \in 9 .. 11
    BY DEF Bands
  <2>6. QED
    BY <2>2, <2>3, <2>4, <2>5
<1>2. QED
  BY <1>1 DEF Min

\* scoreLatency never rises with the latency.
LEMMA SlowerScoresNoHigher ==
    ASSUME NEW a \in Nat, NEW b \in Nat, a <= b
    PROVE  /\ ScoreLatency(a) \in 25 .. 100
           /\ ScoreLatency(b) \in 25 .. 100
           /\ ScoreLatency(a) >= ScoreLatency(b)
<1> DEFINE Within(l) == {i \in DOMAIN LatencyBands : l <= LatencyBands[i]}
<1>1. Within(b) \subseteq Within(a) /\ Within(a) \subseteq Bands
  BY BandFacts
<1>2. \A l \in {a, b} : Within(l) # {} =>
         /\ Min(Within(l)) \in Bands
         /\ Min(Within(l)) \in Within(l)
         /\ \A y \in Within(l) : Min(Within(l)) <= y
  BY <1>1, LeastBand
<1>3. \A l \in {a, b} :
         ScoreLatency(l) = IF Within(l) = {} THEN 25 ELSE BandScores[Min(Within(l))]
  BY DEF ScoreLatency
<1> HIDE DEF Within
<1>4. \A l \in {a, b} : ScoreLatency(l) \in 25 .. 100
  BY <1>2, <1>3, BandFacts
<1>5. CASE Within(b) = {}
  BY <1>3, <1>4, <1>5
<1>6. CASE Within(b) # {}
  <2>1. Within(a) # {} /\ Min(Within(a)) <= Min(Within(b))
    BY <1>1, <1>2, <1>6
  <2>2. QED
    BY <1>2, <1>3, <1>4, <1>6, <2>1, BandFacts
<1>7. QED
  BY <1>4, <1>5, <1>6

\* Neither does the score, and every endpoint that answered is rankable.
LEMMA SlowerRanksNoHigher ==
    ASSUME NEW a \in Latencies, NEW b \in Latencies
    PROVE  /\ IsRankable(a)
           /\ ScoreRpcHealth(a) \in Nat /\ ScoreRpcHealth(b) \in Nat
           /\ a <= b => ScoreRpcHealth(a) >= ScoreRpcHealth(b)
<1>1. a \in Nat /\ b \in Nat /\ a # Unreachable /\ b # Unreachable
  BY RpcAssumption
<1>2. /\ ScoreLatency(a) \in 25 .. 100 /\ ScoreLatency(b) \in 25 .. 100
      /\ a <= b => ScoreLatency(a) >= ScoreLatency(b)
  BY <1>1, SlowerScoresNoHigher
<1>3. /\ ScoreRpcHealth(a) \in {ScoreLatency(a), ScoreLatency(a) - 10}
      /\ ScoreRpcHealth(b) \in {ScoreLatency(b), ScoreLatency(b) - 10}
  BY <1>1, <1>2 DEF ScoreRpcHealth, DegradedPenalty, HealthStatus
<1>4. ScoreRpcHealth(a) \in 15 .. 100 /\ ScoreRpcHealth(b) \in 15 .. 100
  BY <1>2, <1>3
<1>5. a <= b => ScoreRpcHealth(a) >= ScoreRpcHealth(b)
  BY <1>1, <1>2 DEF ScoreRpcHealth, DegradedPenalty, HealthStatus
<1>6. QED
  BY <1>1, <1>4, <1>5 DEF IsRankable

-----------------------------------------------------------------------------
(* The selection. *)

\* What the checked properties say of a selection among listed endpoints.
WellChosen(listed, health, selection) ==
    LET answered == {id \in DOMAIN health : health[id] \in Latencies}
        active == {id \in DOMAIN listed : listed[id].status = "active"}
        chosen == selection.endpoint
    IN  /\ chosen \in DOMAIN listed \cup {None}
        /\ selection.reason \in SelectionReasons
        /\ answered # {} =>
             /\ chosen \in answered
             /\ \A id \in answered :
                  /\ health[chosen] <= health[id]
                  /\ health[chosen] = health[id] =>
                       listed[chosen].priority <= listed[id].priority
        /\ answered = {} =>
             /\ chosen = None <=> active = {}
             /\ chosen # None =>
                  /\ chosen \in active
                  /\ \A id \in active : listed[chosen].priority <= listed[id].priority

\* Of one validation: its records, and that it listed usable endpoints of the
\* network it was asked for.
Listed(v, D) ==
    /\ D \subseteq EndpointIds
    /\ v \in [network   : Networks \cup {AnyNetwork},
              listed    : [D -> EndpointSample],
              health    : [D -> HealthValues],
              selection : [endpoint : D \cup {None}, reason : SelectionReasons] \cup {None}]
    /\ \A id \in D : /\ IsRpcEndpointUsable(v.listed[id])
                     /\ v.network \in {AnyNetwork, v.listed[id].network}

LEMMA ListedFacts ==
    ASSUME NEW v, NEW D, Listed(v, D), \A id \in D : v.health[id] # Pending
    PROVE  /\ D \subseteq Nat /\ None \notin D
           /\ DOMAIN v.listed = D /\ DOMAIN v.health = D
           /\ \A id \in D : v.listed[id].priority \in Nat
           /\ \A id \in D : v.health[id] \in Latencies \cup {Unreachable}
<1>1. D \subseteq Nat /\ None \notin D
  BY RpcAssumption DEF Listed
<1>2. v.listed \in [D -> EndpointSample] /\ v.health \in [D -> HealthValues]
  BY DEF Listed
<1>3. \A e \in EndpointSample : e.priority \in Nat
  BY RpcAssumption
<1>4. QED
  BY <1>1, <1>2, <1>3 DEF HealthValues

\* The selection among endpoints that answered.
LEMMA FirstIsFastest ==
    ASSUME NEW v, NEW D, Listed(v, D), \A id \in D : v.health[id] # Pending,
           Candidates(v) # {}, NEW selection \in SelectBestRpcEndpoint(v)
    PROVE  /\ WellChosen(v.listed, v.health, selection)
           /\ selection \in [endpoint : D \cup {None}, reason : SelectionReasons]
<1>1. /\ D \subseteq Nat
      /\ DOMAIN v.listed = D /\ DOMAIN v.health = D
      /\ \A id \in D : v.listed[id].priority \in Nat
      /\ \A id \in D : v.health[id] \in Latencies \cup {Unreachable}
  BY ListedFacts
<1>2. Candidates(v) = {id \in D : v.health[id] \in Latencies}
  <2>1. \A id \in D : v.health[id] = Unreachable => ~IsRankable(v.health[id])
    BY DEF IsRankable
  <2>2. \A id \in D : v.health[id] \in Latencies => IsRankable(v.health[id])
    BY SlowerRanksNoHigher
  <2>3. \A id \in D : IsRankable(v.health[id]) <=> v.health[id] \in Latencies
    BY <1>1, <2>1, <2>2
  <2>4. QED
    BY <1>1, <2>3 DEF Candidates
<1>3. PICK best \in First(Candidates(v), v, ComesBefore) :
         selection = Selection(best, SelectionReason(v, best))
  BY DEF SelectBestRpcEndpoint
<1>4. best \in Candidates(v) /\ \A b \in Candidates(v) \ {best} : ComesBefore(v, best, b)
  BY <1>3 DEF First
<1>5. ASSUME NEW b \in Candidates(v), b # best
      PROVE  /\ v.health[best] <= v.health[b]
             /\ v.health[best] = v.health[b] => v.listed[best].priority <= v.listed[b].priority
  <2>1. v.health[best] \in Nat /\ v.health[b] \in Nat
        /\ v.health[best] \in Latencies /\ v.health[b] \in Latencies
    BY <1>2, <1>4, RpcAssumption
  <2>2. /\ ScoreRpcHealth(v.health[best]) \in Nat /\ ScoreRpcHealth(v.health[b]) \in Nat
        /\ v.health[b] <= v.health[best] =>
             ScoreRpcHealth(v.health[b]) >= ScoreRpcHealth(v.health[best])
    BY <2>1, SlowerRanksNoHigher
  <2>3. ComesBefore(v, best, b)
    BY <1>4, <1>5
  <2>4. \/ ScoreRpcHealth(v.health[best]) > ScoreRpcHealth(v.health[b])
        \/ v.health[best] < v.health[b]
        \/ v.health[best] = v.health[b] /\ HasPriority(v, best, b)
    BY <2>3 DEF ComesBefore
  <2>5. v.listed[best].priority \in Nat /\ v.listed[b].priority \in Nat
    BY <1>1, <1>2, <1>4
  <2>6. HasPriority(v, best, b) => v.listed[best].priority <= v.listed[b].priority
    BY <2>5 DEF HasPriority
  <2>7. ASSUME NEW x \in Nat, NEW y \in Nat, NEW sx \in Nat, NEW sy \in Nat,
               y <= x => sy >= sx, sx > sy \/ x < y \/ x = y
        PROVE  x <= y /\ (x = y => ~(sx > sy) /\ ~(x < y))
    BY <2>7
  <2>8. v.health[best] <= v.health[b] /\
        (v.health[best] = v.health[b] => HasPriority(v, best, b))
    BY <2>1, <2>2, <2>4, <2>7
  <2>9. QED
    BY <2>6, <2>8
<1>6. v.health[best] <= v.health[best] /\ v.listed[best].priority <= v.listed[best].priority
  <2>1. best \in D /\ v.health[best] \in Nat
    BY <1>2, <1>4, RpcAssumption
  <2>2. \A n \in Nat : n <= n
    OBVIOUS
  <2>3. QED
    BY <1>1, <2>1, <2>2
<1>7. /\ selection.endpoint = best
      /\ selection \in [endpoint : D \cup {None}, reason : SelectionReasons]
  BY <1>2, <1>3, <1>4 DEF Selection, SelectionReason, SelectionReasons
<1>8. QED
  BY <1>1, <1>2, <1>4, <1>5, <1>6, <1>7 DEF WellChosen

\* The selection when no endpoint answered.
LEMMA FallbackIsActive ==
    ASSUME NEW v, NEW D, Listed(v, D), \A id \in D : v.health[id] # Pending,
           Candidates(v) = {}, NEW selection \in SelectBestRpcEndpoint(v)
    PROVE  /\ WellChosen(v.listed, v.health, selection)
           /\ selection \in [endpoint : D \cup {None}, reason : SelectionReasons]
<1>1. /\ D \subseteq Nat /\ None \notin D
      /\ DOMAIN v.listed = D /\ DOMAIN v.health = D
      /\ \A id \in D : v.listed[id].priority \in Nat
  BY ListedFacts
<1>2. {id \in DOMAIN v.health : v.health[id] \in Latencies} = {}
  BY <1>1, SlowerRanksNoHigher DEF Candidates
<1>3. FallbackCandidates(v) = {id \in D : v.listed[id].status = "active"}
  BY <1>1 DEF FallbackCandidates
<1>4. CASE FallbackCandidates(v) = {}
  <2>1. selection = Selection(None, "no-available-endpoint")
    BY <1>4 DEF SelectBestRpcEndpoint
  <2>2. QED
    BY <1>1, <1>2, <1>3, <1>4, <2>1 DEF WellChosen, Selection, SelectionReasons
<1>5. CASE FallbackCandidates(v) # {}
  <2>1. PICK best \in First(FallbackCandidates(v), v, HasPriority) :
           selection = Selection(best, "priority-fallback")
    BY <1>5 DEF SelectBestRpcEndpoint
  <2>2. /\ best \in FallbackCandidates(v)
        /\ \A b \in FallbackCandidates(v) \ {best} : HasPriority(v, best, b)
    BY <2>1 DEF First
  <2>3. ASSUME NEW b \in FallbackCandidates(v)
        PROVE  v.listed[best].priority <= v.listed[b].priority
    <3>1. v.listed[best].priority \in Nat /\ v.listed[b].priority \in Nat
      BY <1>1, <1>3, <2>2
    <3>2. b # best => HasPriority(v, best, b)
      BY <2>2
    <3>3. HasPriority(v, best, b) => v.listed[best].priority <= v.listed[b].priority
      <4>1. HasPriority(v, best, b) => \/ v.listed[best].priority < v.listed[b].priority
                                       \/ v.listed[best].priority = v.listed[b].priority
        BY DEF HasPriority
      <4>2. QED
        BY <3>1, <4>1
    <3>4. b = best => v.listed[best].priority <= v.listed[b].priority
      BY <3>1
    <3>5. QED
      BY <3>2, <3>3, <3>4
  <2>4. /\ selection.endpoint = best
        /\ selection \in [endpoint : D \cup {None}, reason : SelectionReasons]
        /\ selection.reason \in SelectionReasons
    BY <1>3, <2>1, <2>2 DEF Selection, SelectionReasons
  <2>5. QED
    BY <1>1, <1>2, <1>3, <2>2, <2>3, <2>4 DEF WellChosen
<1>6. QED
  BY <1>4, <1>5

-----------------------------------------------------------------------------
(* The inductive invariant. *)

\* What Report decides stays true of the listing and the answers it was decided
\* on: they are copies, which no change of the registry touches.
ValidationInv(v) ==
    /\ Listed(v, DOMAIN v.listed)
    /\ v.selection # None => /\ \A id \in DOMAIN v.health : v.health[id] # Pending
                             /\ WellChosen(v.listed, v.health, v.selection)

RpcInv ==
    /\ DOMAIN registry \subseteq EndpointIds
    /\ \A id \in DOMAIN registry : registry[id] \in EndpointSample
    /\ validation # None => ValidationInv(validation)

LEMMA StartKeeps ==
    ASSUME RpcInv, NEW network \in Networks \cup {AnyNetwork}, StartValidation(network)
    PROVE  ValidationInv(validation')
<1> DEFINE usable == ListUsable(network)
<1>1. validation' = [network   |-> network,
                     listed    |-> [id \in usable |-> registry[id]],
                     health    |-> [id \in usable |-> Pending],
                     selection |-> None]
  BY DEF StartValidation
<1>2. /\ usable \subseteq DOMAIN registry
      /\ \A id \in usable : /\ network \in {AnyNetwork, registry[id].network}
                            /\ IsRpcEndpointUsable(registry[id])
  BY DEF ListUsable
<1> HIDE DEF usable
<1>3. /\ usable \subseteq EndpointIds
      /\ [id \in usable |-> registry[id]] \in [usable -> EndpointSample]
      /\ [id \in usable |-> Pending] \in [usable -> HealthValues]
  BY <1>2 DEF RpcInv, HealthValues
<1>4. DOMAIN validation'.listed = usable
  BY <1>1
<1>5. validation' \in
        [network   : Networks \cup {AnyNetwork},
         listed    : [usable -> EndpointSample],
         health    : [usable -> HealthValues],
         selection : [endpoint : usable \cup {None}, reason : SelectionReasons] \cup {None}]
  BY <1>1, <1>3
<1>6. \A id \in usable : validation'.listed[id] = registry[id]
  BY <1>1
<1>7. validation'.network = network /\ validation'.selection = None
  BY <1>1
<1>8. Listed(validation', usable)
  BY <1>2, <1>3, <1>5, <1>6, <1>7 DEF Listed
<1>9. QED
  BY <1>4, <1>7, <1>8 DEF ValidationInv

LEMMA SettleKeeps ==
    ASSUME RpcInv, NEW id, NEW health \in HealthValues, Settle(id, health)
    PROVE  ValidationInv(validation')
<1> DEFINE D == DOMAIN validation.listed
<1>1. Listed(validation, D) /\ validation.selection = None
  BY DEF RpcInv, ValidationInv, Settle, IsChecking
<1>2. validation' = [validation EXCEPT !.health[id] = health]
  BY DEF Settle
<1> HIDE DEF D
<1>3. /\ validation'.listed = validation.listed
      /\ validation'.network = validation.network
      /\ validation'.selection = None
  BY <1>1, <1>2 DEF Listed
<1>4. validation'.health = [validation.health EXCEPT ![id] = health]
  BY <1>1, <1>2 DEF Listed
<1>5. [validation.health EXCEPT ![id] = health] \in [D -> HealthValues]
  BY <1>1 DEF Listed
<1>6. validation' \in
        [network   : Networks \cup {AnyNetwork},
         listed    : [D -> EndpointSample],
         health    : [D -> HealthValues],
         selection : [endpoint : D \cup {None}, reason : SelectionReasons] \cup {None}]
  BY <1>1, <1>2, <1>4, <1>5 DEF Listed
<1>7. Listed(validation', D)
  BY <1>1, <1>3, <1>6 DEF Listed
<1>8. QED
  BY <1>3, <1>7 DEF ValidationInv, D

LEMMA ReportKeeps ==
    ASSUME RpcInv, Report
    PROVE  ValidationInv(validation')
<1> DEFINE D == DOMAIN validation.listed
<1>1. Listed(validation, D)
  BY DEF RpcInv, ValidationInv, Report, IsChecking
<1>2. \A id \in DOMAIN validation.health : validation.health[id] # Pending
  BY DEF Report
<1>3. PICK selection \in SelectBestRpcEndpoint(validation) :
         validation' = [validation EXCEPT !.selection = selection]
  BY DEF Report
<1> HIDE DEF D
<1>4. DOMAIN validation.health = D
  BY <1>1 DEF Listed
<1>5. \A id \in D : validation.health[id] # Pending
  BY <1>2, <1>4
<1>6. /\ WellChosen(validation.listed, validation.health, selection)
      /\ selection \in [endpoint : D \cup {None}, reason : SelectionReasons]
  <2>1. CASE Candidates(validation) = {}
    BY <1>1, <1>5, <2>1, FallbackIsActive
  <2>2. CASE Candidates(validation) # {}
    BY <1>1, <1>5, <2>2, FirstIsFastest
  <2>3. QED
    BY <2>1, <2>2
<1>7. /\ validation'.listed = validation.listed
      /\ validation'.health = validation.health
      /\ validation'.network = validation.network
      /\ validation'.selection = selection
  BY <1>1, <1>3 DEF Listed
<1>8. validation' \in
        [network   : Networks \cup {AnyNetwork},
         listed    : [D -> EndpointSample],
         health    : [D -> HealthValues],
         selection : [endpoint : D \cup {None}, reason : SelectionReasons] \cup {None}]
  BY <1>1, <1>3, <1>6 DEF Listed
<1>9. Listed(validation', D)
  BY <1>1, <1>7, <1>8 DEF Listed
<1>10. QED
  BY <1>2, <1>6, <1>7, <1>9 DEF ValidationInv, D

LEMMA RegistrySteps ==
    ASSUME RpcInv, NEW id \in EndpointIds, NEW endpoint \in EndpointSample,
           Register(id, endpoint) \/ Upsert(id, endpoint) \/ Remove(id)
    PROVE  RpcInv'
<1>1. validation' = validation
  BY DEF Register, Upsert, Remove
<1>2. /\ DOMAIN registry' \subseteq EndpointIds
      /\ \A x \in DOMAIN registry' : registry'[x] \in EndpointSample
  <2>1. CASE registry' = With(registry, id, endpoint)
    BY <2>1 DEF With, RpcInv
  <2>2. CASE registry' = Without(registry, id)
    BY <2>2 DEF Without, RpcInv
  <2>3. QED
    BY <2>1, <2>2 DEF Register, Upsert, Remove
<1>3. QED
  BY <1>1, <1>2 DEF RpcInv

LEMMA RpcStep ==
    ASSUME RpcInv, [Next]_vars
    PROVE  RpcInv'
<1>1. ASSUME NEW id \in EndpointIds, NEW endpoint \in EndpointSample,
             Register(id, endpoint) \/ Upsert(id, endpoint)
      PROVE  RpcInv'
  BY <1>1, RegistrySteps
<1>2. ASSUME NEW id \in EndpointIds, Remove(id)
      PROVE  RpcInv'
  <2>1. validation' = validation /\ registry' = Without(registry, id)
    BY <1>2 DEF Remove
  <2>2. QED
    BY <2>1 DEF Without, RpcInv
<1>3. ASSUME NEW id \in EndpointIds, Answer(id) \/ TimeOut(id)
      PROVE  RpcInv'
  <2>1. PICK health \in HealthValues : Settle(id, health)
    BY <1>3 DEF Answer, TimeOut, HealthValues
  <2>2. registry' = registry
    BY <2>1 DEF Settle
  <2>3. QED
    BY <2>1, <2>2, SettleKeeps DEF RpcInv
<1>4. ASSUME NEW network \in Networks \cup {AnyNetwork}, StartValidation(network)
      PROVE  RpcInv'
  <2>1. registry' = registry
    BY <1>4 DEF StartValidation
  <2>2. QED
    BY <1>4, <2>1, StartKeeps DEF RpcInv
<1>5. CASE Report
  <2>1. registry' = registry
    BY <1>5 DEF Report
  <2>2. QED
    BY <1>5, <2>1, ReportKeeps DEF RpcInv
<1>6. CASE UNCHANGED vars
  BY <1>6 DEF vars, RpcInv
<1>7. QED
  BY <1>1, <1>2, <1>3, <1>4, <1>5, <1>6 DEF Next

LEMMA RpcInit == Init => RpcInv
<1>1. SUFFICES ASSUME Init PROVE RpcInv
  OBVIOUS
<1>2. PICK providers \in SUBSET DOMAIN ProviderConfigs :
         registry = ConfiguredRegistry(providers)
  BY <1>1 DEF Init
<1>3. \A config \in {DefaultEndpoints, ProviderConfigs} :
        /\ DOMAIN config \subseteq EndpointIds
        /\ \A id \in DOMAIN config : config[id] \in EndpointSample
  BY RpcAssumption
<1>4. /\ DOMAIN registry = DOMAIN DefaultEndpoints \cup providers
      /\ \A id \in DOMAIN registry :
           registry[id] = IF id \in providers THEN ProviderConfigs[id] ELSE DefaultEndpoints[id]
  BY <1>2 DEF ConfiguredRegistry
<1>5. validation = None
  BY <1>1 DEF Init
<1>6. QED
  BY <1>3, <1>4, <1>5 DEF RpcInv

LEMMA RpcInvariant == Spec => []RpcInv
<1>1. RpcInv /\ [Next]_vars => RpcInv'
  BY RpcStep
<1>2. QED
  BY <1>1, RpcInit, PTL DEF Spec

-----------------------------------------------------------------------------
(* The theorems. *)

\* validateRpcInfrastructure checks usable endpoints of the network it was asked
\* for, whatever is registered, replaced and removed in the meantime, and
\* reports on no check that is pending.
THEOREM ValidationIsTyped == Spec => []TypeOK
<1>1. RpcInv => TypeOK
  <2>1. SUFFICES ASSUME RpcInv, validation # None
                 PROVE  /\ DOMAIN validation.health = DOMAIN validation.listed
                        /\ \A id \in DOMAIN validation.listed :
                             /\ validation.listed[id] \in EndpointSample
                             /\ IsRpcEndpointUsable(validation.listed[id])
                             /\ validation.network \in {AnyNetwork, validation.listed[id].network}
                             /\ validation.health[id] \in HealthValues
                             /\ Reported => validation.health[id] # Pending
                        /\ Reported => /\ Chosen \in DOMAIN validation.listed \cup {None}
                                       /\ validation.selection.reason \in SelectionReasons
    BY DEF TypeOK, HealthValues, RpcInv
  <2>2. ValidationInv(validation) /\ Listed(validation, DOMAIN validation.listed)
    BY <2>1 DEF RpcInv, ValidationInv
  <2>3. /\ validation.listed \in [DOMAIN validation.listed -> EndpointSample]
        /\ validation.health \in [DOMAIN validation.listed -> HealthValues]
    BY <2>2 DEF Listed
  <2>4. Reported => /\ \A id \in DOMAIN validation.health : validation.health[id] # Pending
                    /\ WellChosen(validation.listed, validation.health, validation.selection)
    BY <2>2 DEF ValidationInv, Reported
  <2>5. QED
    BY <2>2, <2>3, <2>4 DEF Listed, WellChosen, Chosen
<1>2. QED
  BY <1>1, RpcInvariant, PTL

\* selectBestRpcEndpoint selects an endpoint that answered first, whatever band
\* its latency falls in, and among these one of the smallest priority.
THEOREM SelectionIsFastest == Spec => []FastestIsSelected
<1>1. RpcInv => FastestIsSelected
  BY DEF RpcInv, ValidationInv, WellChosen, FastestIsSelected, Reported, Answered, Chosen
<1>2. QED
  BY <1>1, RpcInvariant, PTL

\* Its fallback selects a silent endpoint only if no other answered, only if it
\* was active, and none only if none was.
THEOREM SilentIsFallback == Spec => []SilentOnlyAsFallback
<1>1. RpcInv => SilentOnlyAsFallback
  BY DEF RpcInv, ValidationInv, WellChosen, SilentOnlyAsFallback, Reported, Answered, Chosen
<1>2. QED
  BY <1>1, RpcInvariant, PTL
=============================================================================
