------------------------- MODULE RpcInfrastructure -------------------------
(***************************************************************************)
(* RpcRegistry and validateRpcInfrastructure: the endpoints a network's    *)
(* clients may use, and the validation that lists the usable ones, checks  *)
(* the health of all of them at once, scores the answers and selects one.  *)
(* While the checks are awaited the registry may change.                   *)
(***************************************************************************)
EXTENDS Naturals, FiniteSets, Sequences, FiniteSetsExt

CONSTANTS
    EndpointIds,    \* numbers, in the order of the endpoints' names
    Networks,
    EndpointSample, \* the endpoints [network, status, priority] that are registered
    DefaultEndpoints, \* createDefaultRpcRegistry: from some ids to their endpoints
    ProviderConfigs, \* RPC_PROVIDER_ENV_CONFIGS: from some ids to their endpoints
    Latencies,      \* the latencies that occur, in ms
    AnyNetwork,     \* the option network left out
    Pending,        \* a health check under way
    Unreachable,    \* a health check that failed
    None

RpcEndpointStatus == {"active", "disabled", "degraded", "maintenance"}

ASSUME RpcAssumption ==
    /\ EndpointIds \subseteq Nat /\ IsFiniteSet(EndpointIds)
    /\ EndpointSample \subseteq [network : Networks, status : RpcEndpointStatus, priority : Nat]
    /\ \A config \in {DefaultEndpoints, ProviderConfigs} :
         /\ DOMAIN config \subseteq EndpointIds
         /\ \A id \in DOMAIN config : config[id] \in EndpointSample
    /\ Latencies \subseteq Nat
    /\ AnyNetwork \notin Networks /\ None \notin Networks
    /\ Cardinality({Pending, Unreachable, None}) = 3
    /\ Latencies \cap {Pending, Unreachable} = {}
    /\ None \notin EndpointIds

VARIABLES
    registry,       \* RpcRegistry.endpoints: the registered ids and their endpoints
    validation      \* the latest call of validateRpcInfrastructure, or None

vars == <<registry, validation>>

-----------------------------------------------------------------------------
(* Mistakes: see TreasuryProgram. *)

\* The fallback is any endpoint that was listed.
MistakeAnyStatus(v) == DOMAIN v.listed

\* The time limit settles nothing.
MistakeNoTimer(id) == FALSE

-----------------------------------------------------------------------------
(* The registry. *)

IsRpcEndpointUsable(endpoint) == endpoint.status \in {"active", "degraded"}

ListUsable(network) ==
    {id \in DOMAIN registry :
        /\ network \in {AnyNetwork, registry[id].network}
        /\ IsRpcEndpointUsable(registry[id])}

\* A partial function with one more entry, or one replaced.
With(f, id, endpoint) ==
    [x \in DOMAIN f \cup {id} |-> IF x = id THEN endpoint ELSE f[x]]

Without(f, id) == [x \in DOMAIN f \ {id} |-> f[x]]

\* createConfiguredRpcRegistry: the default endpoints, and those of the providers
\* whose URL is in the environment.
ConfiguredRegistry(providers) ==
    [id \in DOMAIN DefaultEndpoints \cup providers |->
        IF id \in providers THEN ProviderConfigs[id] ELSE DefaultEndpoints[id]]

Init ==
    /\ \E providers \in SUBSET DOMAIN ProviderConfigs :
         registry = ConfiguredRegistry(providers)
    /\ validation = None

\* Registering an id again throws.
Register(id, endpoint) ==
    /\ id \notin DOMAIN registry
    /\ registry' = With(registry, id, endpoint)
    /\ UNCHANGED validation

Upsert(id, endpoint) ==
    /\ registry' = With(registry, id, endpoint)
    /\ UNCHANGED validation

Remove(id) ==
    /\ registry' = Without(registry, id)
    /\ UNCHANGED validation

-----------------------------------------------------------------------------
(* Health and its score. *)

HealthStatus(latency) == IF latency <= 750 THEN "healthy" ELSE "degraded"

LatencyBands == <<50, 100, 150, 200, 250, 300, 400, 500, 750, 1000, 2500>>
BandScores == <<100, 98, 96, 94, 92, 90, 87, 83, 75, 65, 45>>

ScoreLatency(latency) ==
    LET within == {i \in DOMAIN LatencyBands : latency <= LatencyBands[i]}
    IN  IF within = {} THEN 25 ELSE BandScores[Min(within)]

DegradedPenalty == 10

\* An endpoint that answered gave a latency, a slot and a block height.
ScoreRpcHealth(health) ==
    IF health = Unreachable THEN 0
    ELSE ScoreLatency(health)
           - (IF HealthStatus(health) = "degraded" THEN DegradedPenalty ELSE 0)

IsRankable(health) == health # Unreachable /\ ScoreRpcHealth(health) > 0

-----------------------------------------------------------------------------
(* The selection. *)

\* The order by priority and name.
HasPriority(v, a, b) ==
    \/ v.listed[a].priority < v.listed[b].priority
    \/ v.listed[a].priority = v.listed[b].priority /\ a < b

Candidates(v) == {id \in DOMAIN v.listed : IsRankable(v.health[id])}

\* Mistake: equal scores are told apart by priority.
MistakePriorityFirst(v, a, b) ==
    \/ ScoreRpcHealth(v.health[a]) > ScoreRpcHealth(v.health[b])
    \/ /\ ScoreRpcHealth(v.health[a]) = ScoreRpcHealth(v.health[b])
       /\ HasPriority(v, a, b)

\* compareCandidates: the score, then the latency, the priority and the name.
ComesBefore(v, a, b) ==
    \/ ScoreRpcHealth(v.health[a]) > ScoreRpcHealth(v.health[b])
    \/ /\ ScoreRpcHealth(v.health[a]) = ScoreRpcHealth(v.health[b])
       /\ \/ v.health[a] < v.health[b]
          \/ v.health[a] = v.health[b] /\ HasPriority(v, a, b)

\* The order is total: the set has one member, or none if there are no ids.
First(ids, v, Precedes(_, _, _)) ==
    {a \in ids : \A b \in ids \ {a} : Precedes(v, a, b)}

FallbackCandidates(v) == {id \in DOMAIN v.listed : v.listed[id].status = "active"}

\* determineSelectionReason compares the best candidate with the second: those
\* with its score come next, and of these those with its latency first.
SelectionReason(v, best) ==
    LET tied == {id \in Candidates(v) \ {best} :
                    ScoreRpcHealth(v.health[id]) = ScoreRpcHealth(v.health[best])}
    IN  IF tied = {} THEN "highest-score"
        ELSE IF \A id \in tied : v.health[id] # v.health[best]
             THEN "lowest-latency-tiebreak"
             ELSE "configured-priority-tiebreak"

Selection(id, reason) == [endpoint |-> id, reason |-> reason]

\* The one selection, as a set.
SelectBestRpcEndpoint(v) ==
    IF Candidates(v) # {}
    THEN {Selection(id, SelectionReason(v, id)) : id \in First(Candidates(v), v, ComesBefore)}
    ELSE IF FallbackCandidates(v) # {}
    THEN {Selection(id, "priority-fallback") : id \in First(FallbackCandidates(v), v, HasPriority)}
    ELSE {Selection(None, "no-available-endpoint")}

-----------------------------------------------------------------------------
(* One validation.  Validations share nothing but the registry, which they do *)
(* not change, so one at a time stands for many.                            *)

IsChecking == validation # None /\ validation.selection = None

\* The endpoints are listed once; every check begins at once.
StartValidation(network) ==
    /\ ~IsChecking
    /\ LET usable == ListUsable(network)
       IN  validation' = [network   |-> network,
                          listed    |-> [id \in usable |-> registry[id]],
                          health    |-> [id \in usable |-> Pending],
                          selection |-> None]
    /\ UNCHANGED registry

\* checkRpcHealth settles once and never throws: an answer after the timeout is
\* dropped.
Settle(id, health) ==
    /\ IsChecking
    /\ id \in DOMAIN validation.health
    /\ validation.health[id] = Pending
    /\ validation' = [validation EXCEPT !.health[id] = health]
    /\ UNCHANGED registry

Answer(id) == \E latency \in Latencies : Settle(id, latency)

\* The time limit, or an error of the connection.
TimeOut(id) == Settle(id, Unreachable)

\* When every check has settled they are scored and one endpoint is selected.
Report ==
    /\ IsChecking
    /\ \A id \in DOMAIN validation.health : validation.health[id] # Pending
    /\ \E selection \in SelectBestRpcEndpoint(validation) :
         validation' = [validation EXCEPT !.selection = selection]
    /\ UNCHANGED registry

Next ==
    \/ \E id \in EndpointIds :
         \/ \E endpoint \in EndpointSample : Register(id, endpoint) \/ Upsert(id, endpoint)
         \/ Remove(id) \/ Answer(id) \/ TimeOut(id)
    \/ \E network \in Networks \cup {AnyNetwork} : StartValidation(network)
    \/ Report

\* The timer of a check fires, and the validation goes on when all have settled.
Fairness == WF_vars(Report) /\ \A id \in EndpointIds : WF_vars(TimeOut(id))

Spec == Init /\ [][Next]_vars /\ Fairness

-----------------------------------------------------------------------------
(* Properties *)

Reported == validation # None /\ validation.selection # None
Answered == {id \in DOMAIN validation.health : validation.health[id] \in Latencies}
Chosen == validation.selection.endpoint

SelectionReasons == {"highest-score", "lowest-latency-tiebreak",
    "configured-priority-tiebreak", "priority-fallback", "no-available-endpoint"}

\* A validation checks the endpoints it listed, all of them usable and of the
\* network asked for, and reports on no check that is still pending.
TypeOK ==
    /\ DOMAIN registry \subseteq EndpointIds
    /\ \A id \in DOMAIN registry : registry[id] \in EndpointSample
    /\ validation # None =>
         /\ DOMAIN validation.health = DOMAIN validation.listed
         /\ \A id \in DOMAIN validation.listed :
              /\ validation.listed[id] \in EndpointSample
              /\ IsRpcEndpointUsable(validation.listed[id])
              /\ validation.network \in {AnyNetwork, validation.listed[id].network}
              /\ validation.health[id] \in Latencies \cup {Pending, Unreachable}
              /\ Reported => validation.health[id] # Pending
         /\ Reported => /\ Chosen \in DOMAIN validation.listed \cup {None}
                        /\ validation.selection.reason \in SelectionReasons

\* However the bands, the penalty and the tie breaks fall, the endpoint selected
\* among those that answered is one that answered first, and among these one
\* of the smallest priority.
FastestIsSelected ==
    (Reported /\ Answered # {}) =>
        /\ Chosen \in Answered
        /\ \A id \in Answered :
             /\ validation.health[Chosen] <= validation.health[id]
             /\ validation.health[Chosen] = validation.health[id] =>
                  validation.listed[Chosen].priority <= validation.listed[id].priority

\* An endpoint that did not answer is selected only when none did, only if it was
\* active, and then by priority; none is selected only if no endpoint listed was
\* active, as when all of them are degraded and down.
SilentOnlyAsFallback ==
    (Reported /\ Answered = {}) =>
        LET active == {id \in DOMAIN validation.listed : validation.listed[id].status = "active"}
        IN  /\ Chosen = None <=> active = {}
            /\ Chosen # None =>
                 /\ Chosen \in active
                 /\ \A id \in active :
                      validation.listed[Chosen].priority <= validation.listed[id].priority

\* Whatever its endpoints do, a validation reports: no check stays pending.
EveryValidationReports == IsChecking ~> Reported
=============================================================================
