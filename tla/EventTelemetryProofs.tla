------------------------ MODULE EventTelemetryProofs ------------------------
(***************************************************************************)
(* Theorems about the event bus and its recorder, for any buses, runtimes, *)
(* listeners and limits: what the recorder holds, and what the snapshot    *)
(* and the timelines say of it.                                            *)
(***************************************************************************)
EXTENDS EventTelemetry, SumLemmas, SequenceTheorems

(***************************************************************************)
(* Listing the elements of a list at chosen positions.  In a strict total  *)
(* order on finitely many positions, the number of those that precede a    *)
(* position is its place, and every place is taken once.                   *)
(***************************************************************************)
IsStrictOrder(D, B) ==
    /\ B \subseteq D \X D
    /\ \A i \in D : <<i, i>> \notin B
    /\ \A i, j, k \in D : <<i, j>> \in B /\ <<j, k>> \in B => <<i, k>> \in B
    /\ \A i, j \in D : i = j \/ <<i, j>> \in B \/ <<j, i>> \in B

\* pos tells from which position each element of t, a list of s at D, is.
IsListing(s, t, D, B, pos) ==
    /\ pos \in [1..Cardinality(D) -> D]
    /\ Cardinality(D) \in Nat
    /\ t = [k \in 1..Cardinality(D) |-> s[pos[k]]]
    /\ \A k, l \in 1..Cardinality(D) : k < l => <<pos[k], pos[l]>> \in B
    /\ \A i \in D : \E k \in 1..Cardinality(D) : pos[k] = i

LEMMA ListedIsListing ==
    ASSUME NEW s, NEW D, IsFiniteSet(D), NEW B, IsStrictOrder(D, B)
    PROVE  \E pos : IsListing(s, Listed(s, D, B), D, B, pos)
<1> DEFINE n == Cardinality(D)
           below(i) == {j \in D : <<j, i>> \in B}
           place == [i \in D |-> Cardinality(below(i)) + 1]
           pos == [k \in 1..n |-> CHOOSE i \in D :
                                    Cardinality({j \in D : <<j, i>> \in B}) + 1 = k]
<1>1. n \in Nat
  BY FS_CardinalityType
<1>2. ASSUME NEW i \in D
      PROVE  /\ IsFiniteSet(below(i)) /\ Cardinality(below(i)) \in Nat
             /\ IsFiniteSet(below(i) \cup {i})
             /\ Cardinality(below(i) \cup {i}) = Cardinality(below(i)) + 1
  <2>1. IsFiniteSet(below(i)) /\ i \notin below(i)
    BY FS_Subset DEF IsStrictOrder
  <2> HIDE DEF below
  <2>2. QED
    BY <2>1, FS_CardinalityType, FS_AddElement
<1>3. ASSUME NEW i \in D, NEW j \in D, <<i, j>> \in B
      PROVE  place[i] < place[j]
  <2>1. below(i) \cup {i} \subseteq below(j)
    BY <1>3 DEF IsStrictOrder
  <2> HIDE DEF below
  <2>2. Cardinality(below(i) \cup {i}) <= Cardinality(below(j))
    BY <1>2, <2>1, FS_Subset
  <2>3. place[i] = Cardinality(below(i)) + 1 /\ place[j] = Cardinality(below(j)) + 1
    OBVIOUS
  <2>4. /\ Cardinality(below(i)) \in Nat /\ Cardinality(below(j)) \in Nat
        /\ Cardinality(below(i) \cup {i}) = Cardinality(below(i)) + 1
    BY <1>2
  <2> HIDE DEF place
  <2>5. QED
    BY <2>2, <2>3, <2>4
<1>4. ASSUME NEW i \in D
      PROVE  place[i] \in 1..n
  <2>1. below(i) \cup {i} \subseteq D
    OBVIOUS
  <2> HIDE DEF below
  <2>2. Cardinality(below(i) \cup {i}) <= n
    BY <2>1, FS_Subset
  <2> HIDE DEF n
  <2>3. QED
    BY <1>1, <1>2, <2>2
<1> HIDE DEF n
<1>5. place \in Injection(D, 1..n)
  <2>1. place \in [D -> 1..n]
    BY <1>4
  <2>2. \A i, j \in D : i # j => place[i] # place[j]
    <3> SUFFICES ASSUME NEW i \in D, NEW j \in D, i # j, place[i] = place[j]
                 PROVE  FALSE
      OBVIOUS
    <3>1. place[i] \in 1..n /\ place[j] \in 1..n
      BY <1>4
    <3>2. place[i] < place[j] \/ place[j] < place[i]
      BY <1>3 DEF IsStrictOrder
    <3> HIDE DEF place
    <3>3. QED
      BY <1>1, <3>1, <3>2
  <2> HIDE DEF place
  <2>3. QED
    BY <2>1, <2>2 DEF Injection, IsInjective
<1>6. \A k \in 1..n : \E i \in D : place[i] = k
  <2>1. IsFiniteSet(1..n) /\ Cardinality(1..n) = n
    BY <1>1, FS_Interval
  <2> HIDE DEF place
  <2>2. place \in Surjection(D, 1..n)
    BY <1>5, <2>1, FS_Injection DEF n
  <2>3. QED
    BY <2>2 DEF Surjection
<1>7. ASSUME NEW k \in 1..n
      PROVE  pos[k] \in D /\ place[pos[k]] = k
  <2>1. \E i \in D : Cardinality({j \in D : <<j, i>> \in B}) + 1 = k
    BY <1>6
  <2>2. QED
    BY <2>1
<1>8. Listed(s, D, B) = [k \in 1..n |-> s[pos[k]]]
  BY DEF Listed, n
<1>9. \A k, l \in 1..n : k < l => <<pos[k], pos[l]>> \in B
  <2> SUFFICES ASSUME NEW k \in 1..n, NEW l \in 1..n, k < l
               PROVE  <<pos[k], pos[l]>> \in B
    OBVIOUS
  <2>1. /\ pos[k] \in D /\ pos[l] \in D
        /\ place[pos[k]] = k /\ place[pos[l]] = l
    BY <1>7
  <2> HIDE DEF pos, place
  <2>2. pos[k] # pos[l] /\ ~(l < k)
    BY <1>1, <2>1
  <2>3. CASE <<pos[l], pos[k]>> \in B
    BY <1>3, <2>1, <2>2, <2>3
  <2>4. QED
    BY <2>1, <2>2, <2>3 DEF IsStrictOrder
<1>10. \A i \in D : \E k \in 1..n : pos[k] = i
  <2> SUFFICES ASSUME NEW i \in D
               PROVE  pos[place[i]] = i
    BY <1>4
  <2>1. place[i] \in 1..n
    BY <1>4
  <2>2. pos[place[i]] \in D /\ place[pos[place[i]]] = place[i]
    BY <1>7, <2>1
  <2> HIDE DEF pos
  <2>3. QED
    BY <1>5, <2>2 DEF Injection, IsInjective
<1>11. pos \in [1..n -> D]
  BY <1>7
<1> HIDE DEF pos
<1>12. IsListing(s, Listed(s, D, B), D, B, pos)
  BY <1>1, <1>8, <1>9, <1>10, <1>11 DEF IsListing, n
<1>13. QED
  BY <1>12
-----------------------------------------------------------------------------
(* Filtering, and removing an element, keep the order of a list. *)

LEMMA PositionsOrder ==
    ASSUME NEW D \in SUBSET Nat
    PROVE  IsStrictOrder(D, {p \in D \X D : p[1] < p[2]})
BY DEF IsStrictOrder

\* Positions in a list are finitely many.
LEMMA PositionsFinite ==
    ASSUME NEW X, NEW s \in Seq(X), NEW D \in SUBSET DOMAIN s
    PROVE  /\ DOMAIN s = 1..Len(s) /\ Len(s) \in Nat
           /\ IsFiniteSet(DOMAIN s) /\ Cardinality(DOMAIN s) = Len(s)
           /\ IsFiniteSet(D) /\ Cardinality(D) \in Nat /\ D \subseteq Nat
           /\ \A i \in DOMAIN s : s[i] \in X
<1>1. DOMAIN s = 1..Len(s) /\ Len(s) \in Nat /\ \A i \in DOMAIN s : s[i] \in X
  BY LenProperties, ElementOfSeq
<1>2. IsFiniteSet(DOMAIN s) /\ Cardinality(DOMAIN s) = Len(s)
  <2> DEFINE n == Len(s)
  <2>1. n \in Nat /\ DOMAIN s = 1..n
    BY <1>1
  <2> HIDE DEF n
  <2>2. IsFiniteSet(1..n) /\ Cardinality(1..n) = IF 1 > n THEN 0 ELSE n - 1 + 1
    BY <2>1, FS_Interval
  <2>3. Cardinality(1..n) = n
    BY <2>1, <2>2
  <2>4. QED
    BY <2>1, <2>2, <2>3 DEF n
<1>3. IsFiniteSet(D)
  BY <1>2, FS_Subset
<1>4. QED
  BY <1>1, <1>2, <1>3, FS_CardinalityType

\* A listing of a list is a list of the chosen elements.
LEMMA ListingTyped ==
    ASSUME NEW X, NEW s \in Seq(X), NEW D \in SUBSET DOMAIN s, NEW B, NEW t, NEW pos,
           IsListing(s, t, D, B, pos)
    PROVE  /\ t \in Seq(X) /\ Len(t) = Cardinality(D)
           /\ Range(t) = {s[i] : i \in D}
<1> DEFINE n == Cardinality(D)
<1>1. n \in Nat /\ t = [k \in 1..n |-> s[pos[k]]] /\ pos \in [1..n -> D]
  BY DEF IsListing
<1>2. \A k \in 1..n : t[k] \in X
  BY <1>1, PositionsFinite
<1> HIDE DEF n
<1>3. t \in [1..n -> X]
  BY <1>1, <1>2
<1>4. t \in Seq(X) /\ Len(t) = n
  BY <1>1, <1>3, IsASeq, LenProperties
<1>5. Range(t) = {s[i] : i \in D}
  BY <1>1 DEF Range, IsListing, n
<1>6. QED
  BY <1>4, <1>5 DEF n

LEMMA FilteredIsListing ==
    ASSUME NEW X, NEW s \in Seq(X), NEW D \in SUBSET DOMAIN s
    PROVE  /\ \E pos : IsListing(s, Filtered(s, D), D, {p \in D \X D : p[1] < p[2]}, pos)
           /\ Filtered(s, D) \in Seq(X)
           /\ Len(Filtered(s, D)) = Cardinality(D)
           /\ Range(Filtered(s, D)) = {s[i] : i \in D}
<1> DEFINE B == {p \in D \X D : p[1] < p[2]}
<1>1. IsFiniteSet(D) /\ D \in SUBSET Nat
  BY PositionsFinite
<1>2. IsStrictOrder(D, B)
  BY <1>1, PositionsOrder
<1> DEFINE t == Listed(s, D, B)
<1>3. Filtered(s, D) = t
  BY DEF Filtered
<1> HIDE DEF B
<1>4. \A pos : IsListing(s, t, D, B, pos) =>
          /\ t \in Seq(X) /\ Len(t) = Cardinality(D)
          /\ Range(t) = {s[i] : i \in D}
  <2> HIDE DEF t
  <2>1. QED
    BY ListingTyped
<1>5. PICK pos : IsListing(s, t, D, B, pos)
  BY <1>1, <1>2, ListedIsListing
<1> HIDE DEF t
<1>6. QED
  BY <1>3, <1>4, <1>5 DEF B

LEMMA DeleteFacts ==
    ASSUME NEW X, NEW s \in Seq(X), IsInjective(s), NEW l
    PROVE  /\ Delete(s, l) \in Seq(X)
           /\ IsInjective(Delete(s, l))
           /\ Range(Delete(s, l)) = Range(s) \ {l}
<1> DEFINE D == {i \in DOMAIN s : s[i] # l}
           t == Filtered(s, D)
           B == {p \in D \X D : p[1] < p[2]}
<1>1. Delete(s, l) = t
  BY DEF Delete
<1>2. D \in SUBSET DOMAIN s
  OBVIOUS
<1>3. {s[i] : i \in D} = Range(s) \ {l}
  BY DEF Range
<1>4. D \subseteq Nat
  BY <1>2, PositionsFinite
<1> HIDE DEF D, t, B
<1>5. PICK pos : IsListing(s, t, D, B, pos)
  BY <1>2, FilteredIsListing DEF t, B
<1>6. t \in Seq(X) /\ Range(t) = {s[i] : i \in D}
  BY <1>2, FilteredIsListing DEF t
<1>7. IsInjective(t)
  <2> SUFFICES ASSUME NEW k \in DOMAIN t, NEW m \in DOMAIN t, k # m, t[k] = t[m]
               PROVE  FALSE
    BY DEF IsInjective
  <2>1. k \in 1..Cardinality(D) /\ m \in 1..Cardinality(D) /\ Cardinality(D) \in Nat
        /\ pos[k] \in D /\ pos[m] \in D /\ s[pos[k]] = s[pos[m]]
    BY <1>5 DEF IsListing
  <2>2. pos[k] = pos[m]
    BY <1>2, <2>1 DEF IsInjective
  <2>3. k < m \/ m < k
    BY <2>1
  <2>4. <<pos[k], pos[m]>> \in B \/ <<pos[m], pos[k]>> \in B
    BY <1>5, <2>1, <2>3 DEF IsListing
  <2>5. pos[k] < pos[k]
    BY <2>2, <2>4 DEF B
  <2> DEFINE x == pos[k]
  <2>6. x \in Nat /\ x < x
    BY <1>4, <2>1, <2>5
  <2> HIDE DEF x
  <2>7. QED
    BY <2>6
<1>8. QED
  BY <1>1, <1>3, <1>6, <1>7

LEMMA AppendFacts ==
    ASSUME NEW X, NEW s \in Seq(X), NEW l \in X
    PROVE  /\ Append(s, l) \in Seq(X)
           /\ Range(Append(s, l)) = Range(s) \cup {l}
           /\ IsInjective(s) /\ l \notin Range(s) => IsInjective(Append(s, l))
<1> DEFINE n == Len(s)
           t == Append(s, l)
<1>1. /\ n \in Nat /\ DOMAIN s = 1..n
      /\ t \in Seq(X) /\ DOMAIN t = 1..(n + 1)
      /\ t[n + 1] = l /\ \A i \in 1..n : t[i] = s[i]
  BY AppendProperties, LenProperties
<1> HIDE DEF n, t
<1>2. \A i \in 1..(n + 1) : i = n + 1 \/ i \in 1..n
  BY <1>1
<1>3. n + 1 \in 1..(n + 1) /\ 1..n \subseteq 1..(n + 1)
  BY <1>1
<1>4. Range(t) = Range(s) \cup {l}
  BY <1>1, <1>2, <1>3 DEF Range
<1>5. IsInjective(s) /\ l \notin Range(s) => IsInjective(t)
  BY <1>1, <1>2 DEF Range, IsInjective
<1>6. QED
  BY <1>1, <1>4, <1>5 DEF t
-----------------------------------------------------------------------------
(* One publication.  The calls of record are a recursive function on the    *)
(* listeners reached; with one subscription at most there is one call, so   *)
(* that the function is known, exists and is the only one.                  *)

CallStep(reached, e, g, k) ==
    IF k = 0 THEN recorded
    ELSE IF reached[k] = "recorder" THEN Record(g[k - 1], e) ELSE g[k - 1]

IsCallTable(reached, e, g) ==
    g = [k \in 0..Len(reached) |-> CallStep(reached, e, g, k)]

CalledBy(reached, e, k) ==
    IF \E p \in 1..k : reached[p] = "recorder" THEN Record(recorded, e) ELSE recorded

LEMMA RecordReachedIsFromTable ==
    ASSUME NEW b, NEW i, NEW e
    PROVE  RecordReached(b, i, e)
             = (CHOOSE g : IsCallTable(Reached(b, i), e, g))[Len(Reached(b, i))]
BY DEF RecordReached, IsCallTable, CallStep

LEMMA CallsStepByStep ==
    ASSUME NEW X, NEW reached \in Seq(X), IsInjective(reached), NEW e, NEW g,
           NEW k \in 0..Len(reached), k # 0 => g[k - 1] = CalledBy(reached, e, k - 1)
    PROVE  CallStep(reached, e, g, k) = CalledBy(reached, e, k)
<1> DEFINE n == Len(reached)
<1>1. n \in Nat /\ DOMAIN reached = 1..n
  BY LenProperties
<1> HIDE DEF n
<1>2. k \in 0..n
  BY DEF n
<1>3. CASE k = 0
  BY <1>3 DEF CallStep, CalledBy
<1>4. CASE k # 0 /\ reached[k] = "recorder"
  <2>1. \A p \in 1..(k - 1) : reached[p] # "recorder"
    BY <1>1, <1>2, <1>4 DEF IsInjective
  <2>2. CalledBy(reached, e, k - 1) = recorded
    BY <2>1 DEF CalledBy
  <2>3. k \in 1..k
    BY <1>1, <1>2, <1>4
  <2>4. CalledBy(reached, e, k) = Record(recorded, e)
    BY <1>4, <2>3 DEF CalledBy
  <2>5. QED
    BY <1>4, <2>2, <2>4 DEF CallStep
<1>5. CASE k # 0 /\ reached[k] # "recorder"
  <2>1. \A p : p \in 1..k => p = k \/ p \in 1..(k - 1)
    BY <1>1, <1>2, <1>5
  <2>2. 1..(k - 1) \subseteq 1..k
    BY <1>1, <1>2, <1>5
  <2>3. CalledBy(reached, e, k) = CalledBy(reached, e, k - 1)
    BY <1>5, <2>1, <2>2 DEF CalledBy
  <2>4. QED
    BY <1>5, <2>3 DEF CallStep
<1>6. QED
  BY <1>3, <1>4, <1>5

LEMMA CallTableExists ==
    ASSUME NEW X, NEW reached \in Seq(X), IsInjective(reached), NEW e
    PROVE  \E g : IsCallTable(reached, e, g)
<1> DEFINE g == [k \in 0..Len(reached) |-> CalledBy(reached, e, k)]
<1>1. ASSUME NEW k \in 0..Len(reached)
      PROVE  g[k] = CallStep(reached, e, g, k)
  <2>1. k # 0 => k - 1 \in 0..Len(reached)
    BY LenProperties
  <2>2. k # 0 => g[k - 1] = CalledBy(reached, e, k - 1)
    BY <2>1
  <2>3. g[k] = CalledBy(reached, e, k)
    OBVIOUS
  <2> HIDE DEF g
  <2>4. CallStep(reached, e, g, k) = CalledBy(reached, e, k)
    BY <2>2, CallsStepByStep
  <2>5. QED
    BY <2>3, <2>4
<1>2. g = [k \in 0..Len(reached) |-> g[k]]
  OBVIOUS
<1> HIDE DEF g
<1>3. IsCallTable(reached, e, g)
  BY <1>1, <1>2, Zenon DEF IsCallTable
<1>4. QED
  BY <1>3

LEMMA CallTableIsKnown ==
    ASSUME NEW X, NEW reached \in Seq(X), IsInjective(reached), NEW e,
           NEW g, IsCallTable(reached, e, g)
    PROVE  g[Len(reached)] = CalledBy(reached, e, Len(reached))
<1> DEFINE n == Len(reached)
           G == {k \in Nat : k <= n => g[k] = CalledBy(reached, e, k)}
<1>1. n \in Nat
  BY LenProperties
<1>2. ASSUME NEW k \in 0..n
      PROVE  g[k] = CallStep(reached, e, g, k)
  <2> DEFINE gg == [j \in 0..Len(reached) |-> CallStep(reached, e, g, j)]
  <2>1. gg[k] = CallStep(reached, e, g, k)
    OBVIOUS
  <2>2. g = gg
    BY DEF IsCallTable
  <2> HIDE DEF gg
  <2>3. QED
    BY <2>1, <2>2
<1>3. 0 \in G
  <2>1. 0 \in 0..n
    BY <1>1
  <2>2. CallStep(reached, e, g, 0) = CalledBy(reached, e, 0)
    BY DEF CallStep, CalledBy
  <2>3. QED
    BY <1>2, <2>1, <2>2
<1>4. ASSUME NEW k \in Nat, k \in G
      PROVE  k + 1 \in G
  <2> SUFFICES ASSUME k + 1 <= n
               PROVE  g[k + 1] = CalledBy(reached, e, k + 1)
    OBVIOUS
  <2>1. g[k] = CalledBy(reached, e, k)
    BY <1>1, <1>4
  <2>2. k + 1 \in 0..n /\ k + 1 # 0 /\ (k + 1) - 1 = k
    BY <1>1
  <2>3. CallStep(reached, e, g, k + 1) = CalledBy(reached, e, k + 1)
    BY <2>1, <2>2, CallsStepByStep
  <2>4. QED
    BY <1>2, <2>2, <2>3
<1>5. Nat \subseteq G
  <2> HIDE DEF G
  <2>1. QED
    BY <1>3, <1>4, NumbersByInduction
<1>6. QED
  BY <1>1, <1>5

\* A listener set holds the recorder's subscription once, so an event that reaches
\* it is recorded once.
LEMMA RecordedOnce ==
    ASSUME NEW X, NEW b, NEW i, Reached(b, i) \in Seq(X), IsInjective(Reached(b, i)), NEW e
    PROVE  RecordReached(b, i, e) =
             IF "recorder" \in Range(Reached(b, i)) THEN Record(recorded, e) ELSE recorded
<1> DEFINE reached == Reached(b, i)
           g == CHOOSE g : IsCallTable(reached, e, g)
<1>1. RecordReached(b, i, e) = g[Len(reached)]
  BY RecordReachedIsFromTable
<1>2. DOMAIN reached = 1..Len(reached)
  BY LenProperties
<1> HIDE DEF reached
<1>3. reached \in Seq(X) /\ IsInjective(reached)
  BY DEF reached
<1>4. IsCallTable(reached, e, g)
  BY <1>3, CallTableExists, Zenon
<1> HIDE DEF g
<1>5. g[Len(reached)] = CalledBy(reached, e, Len(reached))
  BY <1>3, <1>4, CallTableIsKnown
<1>6. "recorder" \in Range(reached) <=> \E p \in 1..Len(reached) : reached[p] = "recorder"
  BY <1>2 DEF Range
<1>7. QED
  BY <1>1, <1>5, <1>6 DEF CalledBy, reached
-----------------------------------------------------------------------------
(* The inductive invariant: besides the types, the recorder's events are in *)
(* the order of their ids, and since the recorder has been on its bus it    *)
(* holds the end of the bus's log.                                           *)

\* s ends with the newest of the events that log has had after the first since.
HoldsTail(s, log, from) ==
    LET fresh == Len(log) - from
        kept  == IF fresh < MaxEvents THEN fresh ELSE MaxEvents
    IN  /\ kept <= Len(s)
        /\ \A k \in 0..(kept - 1) : log[Len(log) - k] = s[Len(s) - k]

\* Each log has fewer events than were published.
BusesTyped ==
    /\ events \in [Buses -> Seq(Events)]
    /\ published \in 0..MaxPublished /\ now \in 1..MaxTime
    /\ \A b \in Buses : Len(events[b]) <= published

\* The recorder listens on the bus it would leave, once, and on no other.
ListensOnce ==
    /\ listeners \in [Buses -> Seq(Others \cup {"recorder"})]
    /\ subscribed \in Buses \cup {None}
    /\ \A b \in Buses :
         /\ IsInjective(listeners[b])
         /\ "recorder" \in Range(listeners[b]) <=> subscribed = b

RecordsInOrder ==
    /\ recorded \in Seq(Events) /\ Len(recorded) <= MaxEvents
    /\ IsPublishOrder(recorded)
    /\ \A i \in DOMAIN recorded : recorded[i].eventId <= published

\* Since it has been on its bus, the recorder holds the end of its log.
HoldsNewest ==
    /\ since \in Nat
    /\ IF subscribed = None THEN since = 0
       ELSE /\ since <= Len(events[subscribed])
            /\ HoldsTail(recorded, events[subscribed], since)

TelemetryInv == BusesTyped /\ ListensOnce /\ RecordsInOrder /\ HoldsNewest

LEMMA InvariantHasTypes == TelemetryInv => TypeOK
<1> SUFFICES ASSUME TelemetryInv PROVE TypeOK
  OBVIOUS
<1>0. MaxPublished \in Nat
  BY TelemetryAssumption
<1>1. CASE subscribed = None
  BY <1>0, <1>1 DEF TelemetryInv, BusesTyped, ListensOnce, RecordsInOrder, HoldsNewest, TypeOK
<1>2. CASE subscribed # None
  <2>1. subscribed \in Buses
    BY <1>2 DEF TelemetryInv, ListensOnce
  <2> DEFINE n == Len(events[subscribed])
  <2>2. n \in Nat
    BY <2>1, LenProperties DEF TelemetryInv, BusesTyped
  <2>3. since \in Nat /\ since <= n /\ n <= published /\ published \in 0..MaxPublished
    BY <1>2, <2>1 DEF TelemetryInv, BusesTyped, HoldsNewest
  <2> HIDE DEF n
  <2>4. since \in 0..MaxPublished
    BY <1>0, <2>2, <2>3
  <2>5. QED
    BY <2>4 DEF TelemetryInv, BusesTyped, ListensOnce, RecordsInOrder, TypeOK
<1>3. QED
  BY <1>1, <1>2

\* A recorder that has nothing new to hold.
LEMMA HoldsNothing ==
    ASSUME NEW s, NEW log, Len(log) \in Nat, Len(s) \in Nat
    PROVE  HoldsTail(s, log, Len(log))
<1> DEFINE n == Len(log)
           m == Len(s)
           fresh == n - n
           kept == IF fresh < MaxEvents THEN fresh ELSE MaxEvents
<1>1. MaxEvents \in Nat /\ MaxEvents # 0
  BY TelemetryAssumption
<1>2. n \in Nat /\ m \in Nat
  OBVIOUS
<1> HIDE DEF n, m
<1>3. kept = 0 /\ kept <= m /\ 0..(kept - 1) = {}
  BY <1>1, <1>2
<1>4. QED
  BY <1>3 DEF HoldsTail, n, m
-----------------------------------------------------------------------------
(* What one call of record does. *)

\* t is s with e at its end, and without the first of s when d is 1.
IsPushed(s, e, t, d) ==
    /\ Len(t) = (Len(s) + 1) - d
    /\ d = 0 => Len(s) < MaxEvents
    /\ d = 1 => Len(s) = MaxEvents
    /\ \A i \in 1..Len(t) :
         /\ i + d \in 1..(Len(s) + 1)
         /\ i + d = Len(s) + 1 => t[i] = e
         /\ i + d # Len(s) + 1 => t[i] = s[i + d]

LEMMA RecordFacts ==
    ASSUME NEW X, NEW s \in Seq(X), Len(s) <= MaxEvents, NEW e \in X
    PROVE  /\ Record(s, e) \in Seq(X)
           /\ Len(Record(s, e)) \in Nat /\ Len(Record(s, e)) <= MaxEvents
           /\ \E d \in {0, 1} : IsPushed(s, e, Record(s, e), d)
<1> DEFINE n == Len(s)
           a == Append(s, e)
           t == Record(s, e)
<1>0. MaxEvents \in Nat /\ MaxEvents # 0
  BY TelemetryAssumption
<1>1. n \in Nat /\ n <= MaxEvents
  BY LenProperties
<1>2. /\ a \in Seq(X) /\ Len(a) = n + 1 /\ a[n + 1] = e
      /\ \A i \in 1..n : a[i] = s[i]
  BY AppendProperties
<1>3. CASE n < MaxEvents
  <2>1. ~(Len(a) > MaxEvents)
    BY <1>0, <1>1, <1>2, <1>3
  <2>2. t = a
    BY <2>1 DEF Record, DropOldest
  <2> HIDE DEF n, a, t
  <2>3. /\ (n + 1) - 0 = n + 1 /\ n + 1 \in Nat /\ n + 1 <= MaxEvents /\ n # MaxEvents
        /\ \A i \in 1..(n + 1) : i + 0 = i /\ (i # n + 1 => i \in 1..n)
    BY <1>0, <1>1, <1>3
  <2>4. Len(t) = (n + 1) - 0
    BY <1>2, <2>2, <2>3
  <2>5. \A i \in 1..Len(t) :
          /\ i + 0 \in 1..(n + 1)
          /\ i + 0 = n + 1 => t[i] = e
          /\ i + 0 # n + 1 => t[i] = s[i + 0]
    BY <1>2, <2>2, <2>3
  <2>6. IsPushed(s, e, t, 0)
    BY <1>3, <2>4, <2>5 DEF IsPushed, n
  <2>7. QED
    BY <1>2, <2>2, <2>3, <2>6 DEF t
<1>4. CASE n = MaxEvents
  <2>1. Len(a) > MaxEvents /\ a # <<>>
    BY <1>0, <1>1, <1>2, <1>4
  <2>2. t = Tail(a)
    BY <2>1 DEF Record, DropOldest
  <2>3. /\ t \in Seq(X) /\ Len(t) = Len(a) - 1
        /\ \A i \in 1..Len(t) : t[i] = a[i + 1]
    BY <1>2, <2>1, <2>2, HeadTailProperties
  <2> HIDE DEF n, a, t
  <2>4. /\ (n + 1) - 1 = n /\ n # 0
        /\ \A i \in 1..n : /\ i + 1 \in 1..(n + 1)
                           /\ i + 1 # n + 1 => i + 1 \in 1..n
    BY <1>0, <1>1, <1>4
  <2>5. Len(t) = n
    BY <1>2, <2>3, <2>4
  <2>6. \A i \in 1..Len(t) :
          /\ i + 1 \in 1..(n + 1)
          /\ i + 1 = n + 1 => t[i] = e
          /\ i + 1 # n + 1 => t[i] = s[i + 1]
    BY <1>2, <2>3, <2>4, <2>5
  <2>7. IsPushed(s, e, t, 1)
    BY <1>4, <2>4, <2>5, <2>6 DEF IsPushed, n
  <2>8. QED
    BY <1>1, <2>3, <2>5, <2>7 DEF t
<1>5. QED
  BY <1>0, <1>1, <1>3, <1>4

\* What an event that comes last of all keeps of the order.
LEMMA RecordKeepsOrder ==
    ASSUME NEW s \in Seq(Events), Len(s) <= MaxEvents, NEW e \in Events,
           IsPublishOrder(s),
           \A i \in DOMAIN s : s[i].eventId < e.eventId
    PROVE  /\ IsPublishOrder(Record(s, e))
           /\ \A i \in DOMAIN Record(s, e) : Record(s, e)[i].eventId <= e.eventId
<1> DEFINE n == Len(s)
           t == Record(s, e)
           m == Len(t)
<1>1. t \in Seq(Events) /\ m \in Nat
  BY RecordFacts
<1>2. PICK d \in {0, 1} : IsPushed(s, e, t, d)
  BY RecordFacts
<1>3. DOMAIN s = 1..n /\ n \in Nat /\ DOMAIN t = 1..m
  BY <1>1, LenProperties
<1> HIDE DEF n, t, m
<1>4. e.eventId \in Int
  BY DEF Events
<1>5. ASSUME NEW i \in 1..m
      PROVE  \/ i + d = n + 1 /\ t[i] = e
             \/ i + d \in 1..n /\ t[i] = s[i + d]
  <2>1. /\ i + d \in 1..(n + 1)
        /\ i + d = n + 1 => t[i] = e
        /\ i + d # n + 1 => t[i] = s[i + d]
    BY <1>2 DEF IsPushed, m, n
  <2>2. i + d # n + 1 => i + d \in 1..n
    BY <1>3, <2>1
  <2>3. QED
    BY <2>1, <2>2
<1>6. \A i \in DOMAIN t : t[i].eventId <= e.eventId
  <2> SUFFICES ASSUME NEW i \in 1..m
               PROVE  t[i].eventId <= e.eventId
    BY <1>3
  <2>1. CASE t[i] = e
    BY <1>4, <2>1
  <2>2. CASE i + d \in 1..n /\ t[i] = s[i + d]
    <3>1. s[i + d] \in Events /\ s[i + d].eventId < e.eventId
      BY <1>3, <2>2, ElementOfSeq DEF n
    <3>2. s[i + d].eventId \in Int
      BY <3>1 DEF Events
    <3>3. QED
      BY <1>4, <2>2, <3>1, <3>2
  <2>3. QED
    BY <1>5, <2>1, <2>2
<1>7. IsPublishOrder(t)
  <2> SUFFICES ASSUME NEW i \in 1..m, NEW j \in 1..m, i < j
               PROVE  t[i].eventId < t[j].eventId
    BY <1>3 DEF IsPublishOrder
  <2>1. i + d < j + d /\ ~(i + d = n + 1 /\ j + d \in 1..n) /\ ~(i + d = n + 1 /\ j + d = n + 1)
    BY <1>1, <1>3
  <2>2. i + d \in 1..n /\ t[i] = s[i + d]
    BY <1>5, <2>1
  <2>3. CASE t[j] = e
    BY <1>3, <2>2, <2>3
  <2>4. CASE j + d \in 1..n /\ t[j] = s[j + d]
    BY <1>3, <2>1, <2>2, <2>4 DEF IsPublishOrder
  <2>5. QED
    BY <1>5, <2>3, <2>4
<1>8. QED
  BY <1>6, <1>7 DEF t

\* What is published and recorded extends the end that the recorder holds.
LEMMA RecordKeepsTail ==
    ASSUME NEW X, NEW s \in Seq(X), Len(s) <= MaxEvents, NEW e \in X,
           NEW log \in Seq(X), NEW from \in Nat, from <= Len(log),
           HoldsTail(s, log, from)
    PROVE  HoldsTail(Record(s, e), Append(log, e), from)
<1> DEFINE n == Len(log)
           m == Len(s)
           a == Append(log, e)
           t == Record(s, e)
           fresh == n - from
           kept  == IF fresh < MaxEvents THEN fresh ELSE MaxEvents
           freshAfter == (n + 1) - from
           keptAfter == IF freshAfter < MaxEvents THEN freshAfter ELSE MaxEvents
           o == Len(t)
<1>0. MaxEvents \in Nat /\ MaxEvents # 0
  BY TelemetryAssumption
<1>1. n \in Nat /\ m \in Nat /\ m <= MaxEvents
  BY LenProperties
<1>2. Len(a) = n + 1 /\ a[n + 1] = e /\ \A i \in 1..n : a[i] = log[i]
  BY AppendProperties
<1>3. o \in Nat /\ o <= MaxEvents
  BY RecordFacts
<1>4. PICK d \in {0, 1} : IsPushed(s, e, t, d)
  BY RecordFacts
<1>5. kept <= m /\ \A k \in 0..(kept - 1) : log[n - k] = s[m - k]
  BY DEF HoldsTail
<1> HIDE DEF n, m, a, t, o
<1>6. /\ o = (m + 1) - d
      /\ d = 0 => m < MaxEvents
      /\ d = 1 => m = MaxEvents
      /\ \A i \in 1..o : /\ i + d = m + 1 => t[i] = e
                         /\ i + d # m + 1 => t[i] = s[i + d]
  BY <1>4 DEF IsPushed, o, m
<1>7. from <= n
  BY DEF n
<1>8. keptAfter <= o
  BY <1>0, <1>1, <1>3, <1>5, <1>6, <1>7
<1>9. ASSUME NEW k \in 0..(keptAfter - 1)
      PROVE  a[(n + 1) - k] = t[o - k]
  <2>1. keptAfter \in Int /\ keptAfter <= kept + 1 /\ keptAfter <= n + 1 /\ kept \in Int
    BY <1>0, <1>1, <1>7
  <2> HIDE DEF kept, keptAfter
  <2>2. o - k \in 1..o /\ (o - k) + d = (m + 1) - k
    BY <1>1, <1>3, <1>6, <1>8, <2>1
  <2>3. CASE k = 0
    <3>1. (m + 1) - k = m + 1 /\ (n + 1) - k = n + 1
      BY <1>1, <2>3
    <3>2. QED
      BY <1>2, <1>6, <2>2, <3>1
  <2>4. CASE k # 0
    <3>1. /\ (m + 1) - k # m + 1 /\ (n + 1) - k \in 1..n
          /\ k - 1 \in 0..(kept - 1)
          /\ (m + 1) - k = m - (k - 1) /\ (n + 1) - k = n - (k - 1)
      BY <1>1, <2>1, <2>4
    <3>2. a[(n + 1) - k] = log[(n + 1) - k]
      BY <1>2, <3>1
    <3>3. log[n - (k - 1)] = s[m - (k - 1)]
      BY <1>5, <3>1
    <3>4. t[o - k] = s[(m + 1) - k]
      BY <1>6, <2>2, <3>1
    <3>5. QED
      BY <3>1, <3>2, <3>3, <3>4
  <2>5. QED
    BY <2>3, <2>4
<1>10. QED
  BY <1>2, <1>8, <1>9 DEF HoldsTail, a, t, o
-----------------------------------------------------------------------------
(* The invariant is inductive. *)

\* What an event reaches is a part of the listeners.
LEMMA ReachedFacts ==
    ASSUME ListensOnce, NEW b \in Buses, NEW i \in MayThrow(b)
    PROVE  /\ Reached(b, i) \in Seq(Others \cup {"recorder"})
           /\ IsInjective(Reached(b, i))
           /\ Range(Reached(b, i)) \subseteq Range(listeners[b])
<1> DEFINE ls == listeners[b]
           n == Len(ls)
           X == Others \cup {"recorder"}
<1>1. ls \in Seq(X) /\ IsInjective(ls) /\ n \in Nat /\ DOMAIN ls = 1..n
  BY LenProperties DEF ListensOnce
<1>2. CASE i = 0
  BY <1>1, <1>2 DEF Reached
<1>3. CASE i # 0
  <2> DEFINE t == SubSeq(ls, 1, i)
  <2>1. Reached(b, i) = t
    BY <1>3 DEF Reached
  <2>2. i \in 1..n
    BY <1>1, <1>3 DEF MayThrow
  <2> HIDE DEF ls, n, X
  <2>3. i \in Int /\ 1 \in Int /\ 1 <= i /\ 1..i \subseteq 1..n /\ i - 1 + 1 = i
        /\ i \in Nat /\ \A j \in 1..i : 1 + j - 1 = j
    BY <1>1, <2>2
  <2>4. \A j \in 1..i : ls[j] \in X
    BY <1>1, <2>3, ElementOfSeq DEF n
  <2>5. /\ t \in Seq(X)
        /\ Len(t) = IF 1 <= i THEN i - 1 + 1 ELSE 0
        /\ \A j \in 1..(i - 1 + 1) : t[j] = ls[1 + j - 1]
    BY <2>3, <2>4, SubSeqProperties
  <2>6. Len(t) = i /\ \A j \in 1..i : t[j] = ls[j]
    BY <2>3, <2>5
  <2>7. DOMAIN t = 1..i
    BY <2>5, <2>6, LenProperties
  <2> HIDE DEF t
  <2>8. IsInjective(t) /\ Range(t) \subseteq Range(ls)
    BY <1>1, <2>3, <2>6, <2>7 DEF IsInjective, Range
  <2>9. QED
    BY <2>1, <2>5, <2>8 DEF X, ls
<1>4. QED
  BY <1>2, <1>3

LEMMA TelemetryInitially == Init => TelemetryInv
<1> SUFFICES ASSUME Init PROVE TelemetryInv
  OBVIOUS
<1>0. MaxPublished \in Nat /\ MaxTime \in Nat \ {0} /\ MaxEvents \in Nat /\ None \notin Buses
  BY TelemetryAssumption
<1>1. <<>> \in Seq(Events) /\ <<>> \in Seq(Others \cup {"recorder"}) /\ Len(<<>>) = 0
  BY EmptySeq
<1>2. DOMAIN <<>> = {}
  OBVIOUS
<1>3. IsInjective(<<>>) /\ Range(<<>>) = {} /\ IsPublishOrder(<<>>)
  BY <1>2 DEF IsInjective, Range, IsPublishOrder
<1>4. BusesTyped
  BY <1>0, <1>1 DEF Init, BusesTyped
<1>5. ListensOnce
  BY <1>0, <1>1, <1>3 DEF Init, ListensOnce
<1>6. RecordsInOrder
  BY <1>0, <1>1, <1>2, <1>3 DEF Init, RecordsInOrder
<1>7. HoldsNewest
  BY DEF Init, HoldsNewest
<1>8. QED
  BY <1>4, <1>5, <1>6, <1>7 DEF TelemetryInv

\* A bus that changes neither its log nor what it says to the recorder.
LEMMA PublishKeepsTelemetry ==
    ASSUME TelemetryInv, NEW r \in Runtimes, NEW status \in EventStatuses,
           Publish(r, status)
    PROVE  TelemetryInv'
<1> DEFINE b == BusOf[r]
           e == [eventId |-> published + 1, runtimeId |-> r, status |-> status,
                 timestamp |-> now]
           log == events[b]
<1>0. MaxPublished \in Nat /\ MaxTime \in Nat /\ MaxEvents \in Nat /\ b \in Buses
  BY TelemetryAssumption
<1>1. /\ published < MaxPublished /\ published' = published + 1
      /\ events' = [events EXCEPT ![b] = Append(log, e)]
      /\ UNCHANGED <<listeners, subscribed, now>>
  BY DEF Publish
<1>2. PICK i \in MayThrow(b) :
        /\ recorded' = RecordReached(b, i, e)
        /\ since' = IF KeptFromRecorder(b, i) THEN Len(events'[b]) ELSE since
  BY Zenon DEF Publish
<1>3. published \in Nat /\ now \in 1..MaxTime /\ e \in Events
  BY <1>0, <1>1 DEF TelemetryInv, BusesTyped, Events
<1>4. e.eventId = published + 1
  OBVIOUS
<1> HIDE DEF e
<1>5. /\ events \in [Buses -> Seq(Events)] /\ log \in Seq(Events) /\ Len(log) \in Nat
      /\ Len(log) <= published
  BY <1>0, LenProperties DEF TelemetryInv, BusesTyped
<1>6. Append(log, e) \in Seq(Events) /\ Len(Append(log, e)) = Len(log) + 1
  BY <1>3, <1>5, AppendProperties
<1>7. /\ events'[b] = Append(log, e)
      /\ \A c \in Buses : c # b => events'[c] = events[c]
  BY <1>0, <1>1, <1>5
<1>8. BusesTyped'
  <2>1. events' \in [Buses -> Seq(Events)]
    BY <1>0, <1>1, <1>5, <1>6
  <2>2. published' \in 0..MaxPublished /\ now' \in 1..MaxTime
    BY <1>0, <1>1, <1>3
  <2>3. \A c \in Buses : Len(events'[c]) <= published'
    <3> SUFFICES ASSUME NEW c \in Buses PROVE Len(events'[c]) <= published'
      OBVIOUS
    <3>1. Len(events[c]) \in Nat /\ Len(events[c]) <= published
      BY LenProperties DEF TelemetryInv, BusesTyped
    <3>2. CASE c = b
      BY <1>1, <1>3, <1>5, <1>6, <1>7, <3>2
    <3>3. CASE c # b
      BY <1>1, <1>3, <1>7, <3>1, <3>3
    <3>4. QED
      BY <3>2, <3>3
  <2>4. QED
    BY <2>1, <2>2, <2>3 DEF BusesTyped
<1>9. ListensOnce'
  BY <1>1 DEF TelemetryInv, ListensOnce
<1>10. recorded' = IF "recorder" \in Range(Reached(b, i)) THEN Record(recorded, e) ELSE recorded
  <2>1. Reached(b, i) \in Seq(Others \cup {"recorder"}) /\ IsInjective(Reached(b, i))
    BY <1>0, ReachedFacts DEF TelemetryInv
  <2>2. QED
    BY <1>2, <2>1, RecordedOnce
<1>11. /\ recorded \in Seq(Events) /\ Len(recorded) <= MaxEvents /\ IsPublishOrder(recorded)
       /\ \A j \in DOMAIN recorded :
            recorded[j].eventId <= published /\ recorded[j] \in Events
  BY ElementOfSeq, LenProperties DEF TelemetryInv, RecordsInOrder
<1>12. RecordsInOrder'
  <2>1. CASE recorded' = recorded
    <3>1. \A j \in DOMAIN recorded : recorded[j].eventId <= published + 1
      BY <1>3, <1>11 DEF Events
    <3>2. QED
      BY <1>1, <1>11, <2>1, <3>1 DEF RecordsInOrder
  <2>2. CASE recorded' = Record(recorded, e)
    <3>1. \A j \in DOMAIN recorded : recorded[j].eventId < e.eventId
      BY <1>3, <1>4, <1>11 DEF Events
    <3> DEFINE t == Record(recorded, e)
    <3>2. t \in Seq(Events) /\ Len(t) <= MaxEvents
      BY <1>3, <1>11, RecordFacts
    <3>3. IsPublishOrder(t) /\ \A j \in DOMAIN t : t[j].eventId <= e.eventId
      BY <1>3, <1>11, <3>1, RecordKeepsOrder
    <3> HIDE DEF t
    <3>4. recorded' = t
      BY <2>2 DEF t
    <3>5. QED
      BY <1>1, <1>4, <3>2, <3>3, <3>4 DEF RecordsInOrder
  <2>3. QED
    BY <1>10, <2>1, <2>2
<1>13. HoldsNewest'
  <2>0. subscribed' = subscribed
    BY <1>1
  <2>1. "recorder" \in Range(listeners[b]) <=> subscribed = b
    BY <1>0 DEF TelemetryInv, ListensOnce
  <2>2. Range(Reached(b, i)) \subseteq Range(listeners[b])
    BY <1>0, ReachedFacts DEF TelemetryInv
  <2>3. CASE subscribed # b
    <3>1. recorded' = recorded /\ since' = since
      BY <1>2, <1>10, <2>1, <2>2, <2>3 DEF KeptFromRecorder
    <3>2. subscribed # None => events'[subscribed] = events[subscribed]
      BY <1>7, <2>3 DEF TelemetryInv, ListensOnce
    <3>3. QED
      BY <2>0, <3>1, <3>2 DEF TelemetryInv, HoldsNewest
  <2>4. CASE subscribed = b /\ "recorder" \in Range(Reached(b, i))
    <3>1. recorded' = Record(recorded, e) /\ since' = since
      BY <1>2, <1>10, <2>4 DEF KeptFromRecorder
    <3>2. since \in Nat /\ since <= Len(log) /\ HoldsTail(recorded, log, since)
      BY <1>0, <2>4, TelemetryAssumption DEF TelemetryInv, HoldsNewest
    <3>3. HoldsTail(Record(recorded, e), Append(log, e), since)
      BY <1>3, <1>5, <1>11, <3>2, RecordKeepsTail
    <3>4. since <= Len(Append(log, e))
      BY <1>5, <1>6, <3>2
    <3>5. HoldsTail(recorded', events'[b], since') /\ since' \in Nat
          /\ since' <= Len(events'[b])
      BY <1>7, <3>1, <3>2, <3>3, <3>4
    <3>6. QED
      BY <1>0, <2>0, <2>4, <3>5, TelemetryAssumption DEF HoldsNewest
  <2>5. CASE subscribed = b /\ "recorder" \notin Range(Reached(b, i))
    <3>1. since' = Len(log) + 1 /\ since' = Len(events'[b])
      BY <1>2, <1>6, <1>7, <2>1, <2>5 DEF KeptFromRecorder
    <3>2. HoldsTail(recorded', events'[b], since')
      <4>1. recorded' = recorded /\ Len(recorded) \in Nat
        BY <1>10, <1>11, <2>5, LenProperties
      <4>2. QED
        BY <1>0, <1>5, <3>1, <4>1, HoldsNothing
    <3>3. since' \in Nat /\ since' <= Len(events'[b])
      BY <1>5, <3>1
    <3>4. QED
      BY <1>0, <2>0, <2>5, <3>2, <3>3, TelemetryAssumption DEF HoldsNewest
  <2>6. QED
    BY <2>3, <2>4, <2>5
<1>14. QED
  BY <1>8, <1>9, <1>12, <1>13 DEF TelemetryInv

\* The recorder leaves its bus.
LEMMA LeavingFacts ==
    ASSUME ListensOnce, subscribed # None,
           NEW left, left = [listeners EXCEPT ![subscribed] = WithoutRecorder(@)]
    PROVE  /\ left \in [Buses -> Seq(Others \cup {"recorder"})]
           /\ \A c \in Buses : IsInjective(left[c]) /\ "recorder" \notin Range(left[c])
<1> DEFINE X == Others \cup {"recorder"}
<1>1. subscribed \in Buses /\ listeners \in [Buses -> Seq(X)]
  BY DEF ListensOnce
<1>2. \A c \in Buses : left[c] = IF c = subscribed THEN WithoutRecorder(listeners[c])
                                 ELSE listeners[c]
  BY <1>1
<1>3. left \in [Buses -> Seq(X)]
  <2>1. listeners[subscribed] \in Seq(X) /\ IsInjective(listeners[subscribed])
    BY <1>1 DEF ListensOnce
  <2> HIDE DEF X
  <2>2. WithoutRecorder(listeners[subscribed]) \in Seq(X)
    BY <2>1, DeleteFacts DEF WithoutRecorder
  <2>3. QED
    BY <1>1, <2>2
<1>4. ASSUME NEW c \in Buses
      PROVE  IsInjective(left[c]) /\ "recorder" \notin Range(left[c])
  <2> DEFINE ls == listeners[c]
  <2>1. ls \in Seq(X) /\ IsInjective(ls) /\ ("recorder" \in Range(ls) <=> subscribed = c)
    BY DEF ListensOnce
  <2>2. CASE c = subscribed
    <3>1. left[c] = Delete(ls, "recorder")
      BY <1>2, <2>2 DEF WithoutRecorder
    <3> HIDE DEF ls, X
    <3>2. IsInjective(Delete(ls, "recorder"))
          /\ Range(Delete(ls, "recorder")) = Range(ls) \ {"recorder"}
      BY <2>1, DeleteFacts
    <3>3. QED
      BY <3>1, <3>2
  <2>3. CASE c # subscribed
    BY <1>2, <2>1, <2>3
  <2>4. QED
    BY <2>2, <2>3
<1>5. QED
  BY <1>3, <1>4

LEMMA AttachKeepsTelemetry ==
    ASSUME TelemetryInv, NEW b \in Buses, Attach(b)
    PROVE  TelemetryInv'
<1> DEFINE X == Others \cup {"recorder"}
           left == IF subscribed = None THEN listeners
                   ELSE [listeners EXCEPT ![subscribed] = WithoutRecorder(@)]
<1>1. /\ listeners' = [left EXCEPT ![b] = Append(@, "recorder")]
      /\ subscribed' = b /\ since' = Len(events[b])
      /\ UNCHANGED <<events, recorded, published, now>>
  BY DEF Attach
<1>2. /\ left \in [Buses -> Seq(X)]
      /\ \A c \in Buses : IsInjective(left[c]) /\ "recorder" \notin Range(left[c])
  <2>1. CASE subscribed = None
    BY <2>1, TelemetryAssumption DEF TelemetryInv, ListensOnce
  <2>2. CASE subscribed # None
    <3>1. left = [listeners EXCEPT ![subscribed] = WithoutRecorder(@)]
      BY <2>2
    <3> HIDE DEF left
    <3>2. QED
      BY <2>2, <3>1, LeavingFacts DEF TelemetryInv
  <2>3. QED
    BY <2>1, <2>2
<1> HIDE DEF left
<1>3. BusesTyped'
  BY <1>1 DEF TelemetryInv, BusesTyped
<1>4. ListensOnce'
  <2> DEFINE a == Append(left[b], "recorder")
  <2>1. "recorder" \in X /\ left[b] \in Seq(X)
    BY <1>2
  <2> HIDE DEF X
  <2>2. a \in Seq(X) /\ IsInjective(a) /\ Range(a) = Range(left[b]) \cup {"recorder"}
    BY <1>2, <2>1, AppendFacts
  <2> HIDE DEF a
  <2>3. /\ listeners' \in [Buses -> Seq(X)]
        /\ \A c \in Buses : listeners'[c] = IF c = b THEN a ELSE left[c]
    BY <1>1, <1>2, <2>2 DEF a
  <2>4. ASSUME NEW c \in Buses
        PROVE  IsInjective(listeners'[c]) /\ ("recorder" \in Range(listeners'[c]) <=> b = c)
    <3>1. CASE c = b
      BY <2>2, <2>3, <3>1
    <3>2. CASE c # b
      BY <1>2, <2>3, <3>2
    <3>3. QED
      BY <3>1, <3>2
  <2>5. QED
    BY <1>1, <2>3, <2>4 DEF ListensOnce, X
<1>5. RecordsInOrder'
  BY <1>1 DEF TelemetryInv, RecordsInOrder
<1>6. HoldsNewest'
  <2>1. Len(events[b]) \in Nat /\ Len(recorded) \in Nat
    BY LenProperties DEF TelemetryInv, BusesTyped, RecordsInOrder
  <2>2. HoldsTail(recorded, events[b], Len(events[b]))
    BY <2>1, HoldsNothing
  <2>3. since' \in Nat /\ since' <= Len(events'[b]) /\ HoldsTail(recorded', events'[b], since')
    BY <1>1, <2>1, <2>2
  <2>4. QED
    BY <1>1, <2>3, TelemetryAssumption DEF HoldsNewest
<1>7. QED
  BY <1>3, <1>4, <1>5, <1>6 DEF TelemetryInv

LEMMA DetachKeepsTelemetry ==
    ASSUME TelemetryInv, Detach
    PROVE  TelemetryInv'
<1>1. /\ subscribed # None /\ subscribed' = None /\ since' = 0
      /\ listeners' = [listeners EXCEPT ![subscribed] = WithoutRecorder(@)]
      /\ UNCHANGED <<events, recorded, published, now>>
  BY DEF Detach
<1>2. /\ listeners' \in [Buses -> Seq(Others \cup {"recorder"})]
      /\ \A c \in Buses : IsInjective(listeners'[c]) /\ "recorder" \notin Range(listeners'[c])
  <2> DEFINE left == [listeners EXCEPT ![subscribed] = WithoutRecorder(@)]
  <2>1. /\ left \in [Buses -> Seq(Others \cup {"recorder"})]
        /\ \A c \in Buses : IsInjective(left[c]) /\ "recorder" \notin Range(left[c])
    BY <1>1, LeavingFacts DEF TelemetryInv
  <2> HIDE DEF left
  <2>2. QED
    BY <1>1, <2>1 DEF left
<1>3. BusesTyped'
  BY <1>1 DEF TelemetryInv, BusesTyped
<1>4. ListensOnce'
  BY <1>1, <1>2, TelemetryAssumption DEF ListensOnce
<1>5. RecordsInOrder'
  BY <1>1 DEF TelemetryInv, RecordsInOrder
<1>6. HoldsNewest'
  BY <1>1 DEF HoldsNewest
<1>7. QED
  BY <1>3, <1>4, <1>5, <1>6 DEF TelemetryInv

LEMMA ClearRecorderKeepsTelemetry ==
    ASSUME TelemetryInv, ClearRecorder
    PROVE  TelemetryInv'
<1>1. /\ recorded' = <<>>
      /\ since' = IF subscribed = None THEN 0 ELSE Len(events[subscribed])
      /\ UNCHANGED <<events, listeners, subscribed, published, now>>
  BY DEF ClearRecorder
<1>2. BusesTyped' /\ ListensOnce'
  BY <1>1 DEF TelemetryInv, BusesTyped, ListensOnce
<1>3. RecordsInOrder'
  <2>1. <<>> \in Seq(Events) /\ Len(<<>>) = 0 /\ 0 <= MaxEvents
    BY EmptySeq, TelemetryAssumption
  <2>2. DOMAIN <<>> = {}
    OBVIOUS
  <2>3. QED
    BY <1>1, <2>1, <2>2 DEF RecordsInOrder, IsPublishOrder
<1>4. HoldsNewest'
  <2>1. CASE subscribed = None
    BY <1>1, <2>1 DEF HoldsNewest
  <2>2. CASE subscribed # None
    <3>1. Len(events[subscribed]) \in Nat
      BY <2>2, LenProperties DEF TelemetryInv, BusesTyped, ListensOnce
    <3>2. Len(<<>>) \in Nat
      BY EmptySeq
    <3>3. HoldsTail(<<>>, events[subscribed], Len(events[subscribed]))
      BY <3>1, <3>2, HoldsNothing
    <3>4. QED
      BY <1>1, <2>2, <3>1, <3>3 DEF HoldsNewest
  <2>3. QED
    BY <2>1, <2>2
<1>5. QED
  BY <1>2, <1>3, <1>4 DEF TelemetryInv

LEMMA ClearBusKeepsTelemetry ==
    ASSUME TelemetryInv, NEW b \in Buses, ClearBus(b)
    PROVE  TelemetryInv'
<1>1. /\ events' = [events EXCEPT ![b] = <<>>]
      /\ since' = IF b = subscribed THEN 0 ELSE since
      /\ UNCHANGED <<listeners, subscribed, recorded, published, now>>
  BY DEF ClearBus, recorderVars
<1>2. events \in [Buses -> Seq(Events)] /\ published \in Nat
  BY TelemetryAssumption DEF TelemetryInv, BusesTyped
<1>3. <<>> \in Seq(Events) /\ Len(<<>>) = 0
  BY EmptySeq
<1>4. /\ events' \in [Buses -> Seq(Events)]
      /\ \A c \in Buses : events'[c] = IF c = b THEN <<>> ELSE events[c]
  BY <1>1, <1>2, <1>3
<1>5. BusesTyped'
  BY <1>1, <1>2, <1>3, <1>4 DEF TelemetryInv, BusesTyped
<1>6. ListensOnce' /\ RecordsInOrder'
  BY <1>1 DEF TelemetryInv, ListensOnce, RecordsInOrder
<1>7. HoldsNewest'
  <2>1. CASE b = subscribed
    <3>1. HoldsTail(recorded, <<>>, 0)
      <4>1. Len(recorded) \in Nat /\ Len(<<>>) \in Nat
        BY <1>3, LenProperties DEF TelemetryInv, RecordsInOrder
      <4>2. QED
        BY <1>3, <4>1, HoldsNothing
    <3>2. events'[subscribed'] = <<>> /\ since' = 0 /\ recorded' = recorded
      BY <1>1, <1>4, <2>1
    <3>3. QED
      BY <1>3, <3>1, <3>2 DEF HoldsNewest
  <2>2. CASE b # subscribed
    <3>1. subscribed # None => events'[subscribed] = events[subscribed]
      BY <1>4, <2>2 DEF TelemetryInv, ListensOnce
    <3>2. QED
      BY <1>1, <2>2, <3>1 DEF TelemetryInv, HoldsNewest
  <2>3. QED
    BY <2>1, <2>2
<1>8. QED
  BY <1>5, <1>6, <1>7 DEF TelemetryInv

LEMMA SubscribeKeepsTelemetry ==
    ASSUME TelemetryInv, NEW b \in Buses, NEW l \in Others,
           Subscribe(b, l) \/ Unsubscribe(b, l)
    PROVE  TelemetryInv'
<1> DEFINE X == Others \cup {"recorder"}
           ls == listeners[b]
<1>1. UNCHANGED <<events, recorded, subscribed, published, now, since>>
  BY DEF Subscribe, Unsubscribe, recorderVars
<1>2. /\ ls \in Seq(X) /\ IsInjective(ls) /\ listeners \in [Buses -> Seq(X)]
      /\ l # "recorder" /\ l \in X
  BY TelemetryAssumption DEF TelemetryInv, ListensOnce
<1> HIDE DEF X
<1>3. PICK ms \in Seq(X) :
        /\ IsInjective(ms) /\ ("recorder" \in Range(ms) <=> "recorder" \in Range(ls))
        /\ listeners' = [listeners EXCEPT ![b] = ms]
  <2> HIDE DEF ls
  <2>1. CASE l \in Range(ls) /\ listeners' = [listeners EXCEPT ![b] = ls]
    BY <1>2, <2>1
  <2>2. CASE l \notin Range(ls) /\ listeners' = [listeners EXCEPT ![b] = Append(ls, l)]
    <3>1. /\ Append(ls, l) \in Seq(X) /\ IsInjective(Append(ls, l))
          /\ Range(Append(ls, l)) = Range(ls) \cup {l}
      BY <1>2, <2>2, AppendFacts
    <3>2. QED
      BY <1>2, <2>2, <3>1
  <2>3. CASE listeners' = [listeners EXCEPT ![b] = Delete(ls, l)]
    <3>1. /\ Delete(ls, l) \in Seq(X) /\ IsInjective(Delete(ls, l))
          /\ Range(Delete(ls, l)) = Range(ls) \ {l}
      BY <1>2, DeleteFacts
    <3>2. QED
      BY <1>2, <2>3, <3>1
  <2>4. QED
    BY <2>1, <2>2, <2>3 DEF Subscribe, Unsubscribe, ls
<1>4. /\ listeners' \in [Buses -> Seq(X)]
      /\ \A c \in Buses : listeners'[c] = IF c = b THEN ms ELSE listeners[c]
  BY <1>2, <1>3
<1>5. ListensOnce'
  <2>1. ASSUME NEW c \in Buses
        PROVE  IsInjective(listeners'[c]) /\ ("recorder" \in Range(listeners'[c])
                                              <=> subscribed = c)
    <3>1. IsInjective(listeners[c]) /\ ("recorder" \in Range(listeners[c]) <=> subscribed = c)
      BY DEF TelemetryInv, ListensOnce
    <3>2. CASE c = b
      BY <1>3, <1>4, <3>1, <3>2
    <3>3. CASE c # b
      BY <1>4, <3>1, <3>3
    <3>4. QED
      BY <3>2, <3>3
  <2>2. QED
    BY <1>1, <1>4, <2>1 DEF TelemetryInv, ListensOnce, X
<1>6. BusesTyped' /\ RecordsInOrder' /\ HoldsNewest'
  BY <1>1 DEF TelemetryInv, BusesTyped, RecordsInOrder, HoldsNewest
<1>7. QED
  BY <1>5, <1>6 DEF TelemetryInv

LEMMA SetClockKeepsTelemetry ==
    ASSUME TelemetryInv, SetClock
    PROVE  TelemetryInv'
<1>1. /\ now' \in 1..MaxTime
      /\ UNCHANGED <<events, listeners, subscribed, recorded, published, since>>
  BY DEF SetClock, recorderVars
<1>2. QED
  BY <1>1 DEF TelemetryInv, BusesTyped, ListensOnce, RecordsInOrder, HoldsNewest

LEMMA TelemetryIsInvariant == Spec => []TelemetryInv
<1>1. ASSUME TelemetryInv, [Next]_vars
      PROVE  TelemetryInv'
  <2>1. ASSUME NEW r \in Runtimes, NEW status \in EventStatuses, Publish(r, status)
        PROVE  TelemetryInv'
    BY <1>1, <2>1, PublishKeepsTelemetry
  <2>2. ASSUME NEW b \in Buses, Attach(b)
        PROVE  TelemetryInv'
    BY <1>1, <2>2, AttachKeepsTelemetry
  <2>3. ASSUME NEW b \in Buses, ClearBus(b)
        PROVE  TelemetryInv'
    BY <1>1, <2>3, ClearBusKeepsTelemetry
  <2>4. ASSUME NEW b \in Buses, NEW l \in Others, Subscribe(b, l) \/ Unsubscribe(b, l)
        PROVE  TelemetryInv'
    BY <1>1, <2>4, SubscribeKeepsTelemetry
  <2>5. CASE Detach
    BY <1>1, <2>5, DetachKeepsTelemetry
  <2>6. CASE ClearRecorder
    BY <1>1, <2>6, ClearRecorderKeepsTelemetry
  <2>7. CASE SetClock
    BY <1>1, <2>7, SetClockKeepsTelemetry
  <2>8. CASE UNCHANGED vars
    BY <1>1, <2>8 DEF vars, TelemetryInv, BusesTyped, ListensOnce, RecordsInOrder, HoldsNewest
  <2>9. QED
    BY <1>1, <2>1, <2>2, <2>3, <2>4, <2>5, <2>6, <2>7, <2>8 DEF Next
<1>2. QED
  BY <1>1, TelemetryInitially, PTL DEF Spec

\* The types, and that the recorder keeps its limit and listens once, on the bus it
\* would leave, whoever subscribes and unsubscribes (telemetryEventRecorder.ts and
\* runtimeEventBus.ts).
THEOREM TelemetryTypeCorrect == Spec => []TypeOK
BY TelemetryIsInvariant, InvariantHasTypes, PTL
-----------------------------------------------------------------------------
(* The recorder's tail, told by sequences. *)

\* Two parts of the same length that agree position by position.
LEMMA PartsAgree ==
    ASSUME NEW X, NEW s \in Seq(X), NEW t \in Seq(X), NEW p \in Nat, NEW q \in Nat,
           NEW k \in Nat, p + k <= Len(s), q + k <= Len(t),
           \A i \in 1..k : s[p + i] = t[q + i]
    PROVE  SubSeq(s, p + 1, p + k) = SubSeq(t, q + 1, q + k)
<1> DEFINE u == SubSeq(s, p + 1, p + k)
           v == SubSeq(t, q + 1, q + k)
           n == Len(s)
           m == Len(t)
<1>1. /\ n \in Nat /\ m \in Nat
      /\ \A i \in 1..n : s[i] \in X
      /\ \A i \in 1..m : t[i] \in X
  BY LenProperties, ElementOfSeq
<1>2. p + k <= n /\ q + k <= m
  OBVIOUS
<1> HIDE DEF n, m
<1>3. /\ (p + 1)..(p + k) \subseteq 1..n /\ (q + 1)..(q + k) \subseteq 1..m
      /\ p + 1 \in Int /\ p + k \in Int /\ q + 1 \in Int /\ q + k \in Int
      /\ (p + k) - (p + 1) + 1 = k /\ (q + k) - (q + 1) + 1 = k
      /\ (p + 1 <= p + k <=> 1 <= k) /\ (q + 1 <= q + k <=> 1 <= k)
      /\ (~(1 <= k) => k = 0)
      /\ \A i \in 1..k : (p + 1) + i - 1 = p + i /\ (q + 1) + i - 1 = q + i
  BY <1>1, <1>2
<1>4. \A i \in (p + 1)..(p + k) : s[i] \in X
  BY <1>1, <1>3
<1>5. \A i \in (q + 1)..(q + k) : t[i] \in X
  BY <1>1, <1>3
<1>6. /\ u \in Seq(X)
      /\ Len(u) = IF p + 1 <= p + k THEN (p + k) - (p + 1) + 1 ELSE 0
      /\ \A i \in 1..((p + k) - (p + 1) + 1) : u[i] = s[(p + 1) + i - 1]
  BY <1>3, <1>4, SubSeqProperties
<1>7. /\ v \in Seq(X)
      /\ Len(v) = IF q + 1 <= q + k THEN (q + k) - (q + 1) + 1 ELSE 0
      /\ \A i \in 1..((q + k) - (q + 1) + 1) : v[i] = t[(q + 1) + i - 1]
  BY <1>3, <1>5, SubSeqProperties
<1>8. Len(u) = k /\ \A i \in 1..k : u[i] = s[p + i]
  BY <1>3, <1>6
<1>9. Len(v) = k /\ \A i \in 1..k : v[i] = t[q + i]
  BY <1>3, <1>7
<1> HIDE DEF u, v
<1>10. u = v
  <2>1. u \in Seq(X) /\ v \in Seq(X) /\ Len(u) = Len(v) /\ \A i \in 1..Len(u) : u[i] = v[i]
    BY <1>6, <1>7, <1>8, <1>9, <1>1, <1>2
  <2>2. QED
    BY <2>1, SeqEqual
<1>11. QED
  BY <1>10 DEF u, v

LEMMA InvariantHasTail == TelemetryInv => TailIsComplete
<1> SUFFICES ASSUME TelemetryInv PROVE TailIsComplete
  OBVIOUS
<1>1. IsPublishOrder(recorded)
  BY DEF TelemetryInv, RecordsInOrder
<1>2. ASSUME subscribed # None
      PROVE  LET fresh == SubSeq(events[subscribed], since + 1, Len(events[subscribed]))
                 kept  == IF Len(fresh) < MaxEvents THEN Len(fresh) ELSE MaxEvents
             IN  /\ Len(recorded) >= kept
                 /\ SubSeq(fresh, Len(fresh) - kept + 1, Len(fresh)) =
                    SubSeq(recorded, Len(recorded) - kept + 1, Len(recorded))
  <2> DEFINE log   == events[subscribed]
             n     == Len(log)
             m     == Len(recorded)
             fresh == SubSeq(log, since + 1, n)
             f     == Len(fresh)
             kept  == IF f < MaxEvents THEN f ELSE MaxEvents
             d     == n - since
             keep  == IF d < MaxEvents THEN d ELSE MaxEvents
  <2>1. /\ log \in Seq(Events) /\ recorded \in Seq(Events) /\ n \in Nat /\ m \in Nat
        /\ \A i \in 1..n : log[i] \in Events
    BY <1>2, LenProperties, ElementOfSeq
    DEF TelemetryInv, BusesTyped, ListensOnce, RecordsInOrder
  <2>2. /\ since \in Nat /\ since <= n
        /\ keep <= m /\ \A k \in 0..(keep - 1) : log[n - k] = recorded[m - k]
    BY <1>2 DEF TelemetryInv, HoldsNewest, HoldsTail
  <2>3. MaxEvents \in Nat
    BY TelemetryAssumption
  <2> HIDE DEF log, n, m
  <2>4. /\ since + 1 \in Int /\ n \in Int /\ (since + 1)..n \subseteq 1..n
        /\ (since + 1 <= n => n - (since + 1) + 1 = d) /\ (~(since + 1 <= n) => d = 0)
        /\ n - (since + 1) + 1 = d
        /\ \A i \in 1..d : (since + 1) + i - 1 = since + i
    BY <2>1, <2>2
  <2>5. \A i \in (since + 1)..n : log[i] \in Events
    BY <2>1, <2>4
  <2>6. /\ fresh \in Seq(Events)
        /\ Len(fresh) = IF since + 1 <= n THEN n - (since + 1) + 1 ELSE 0
        /\ \A i \in 1..(n - (since + 1) + 1) : fresh[i] = log[(since + 1) + i - 1]
    BY <2>4, <2>5, SubSeqProperties
  <2>7. f = d /\ \A i \in 1..d : fresh[i] = log[since + i]
    BY <2>4, <2>6
  <2> HIDE DEF fresh, f, d
  <2>8. kept = keep
    BY <2>7
  <2> HIDE DEF kept
  <2>9. d \in Nat /\ keep \in Nat /\ keep <= d /\ d - keep \in Nat /\ m - keep \in Nat
        /\ (d - keep) + keep = d /\ (m - keep) + keep = m
        /\ d - keep + 1 = (d - keep) + 1 /\ m - keep + 1 = (m - keep) + 1
    BY <2>1, <2>2, <2>3 DEF d
  <2>10. ASSUME NEW i \in 1..keep
         PROVE  fresh[(d - keep) + i] = recorded[(m - keep) + i]
    <3>1. /\ (d - keep) + i \in 1..d /\ since + ((d - keep) + i) = n - (keep - i)
          /\ keep - i \in 0..(keep - 1) /\ (m - keep) + i = m - (keep - i)
      <4>1. d = n - since
        BY DEF d
      <4>2. keep \in Nat /\ keep <= d
        BY <2>9
      <4> HIDE DEF keep
      <4>3. QED
        BY <2>1, <2>2, <4>1, <4>2
    <3> HIDE DEF keep
    <3>2. QED
      BY <2>2, <2>7, <3>1
  <2> HIDE DEF keep
  <2>11. SubSeq(fresh, (d - keep) + 1, (d - keep) + keep)
           = SubSeq(recorded, (m - keep) + 1, (m - keep) + keep)
    <3> DEFINE p == d - keep
               q == m - keep
    <3>1. p + keep <= Len(fresh) /\ q + keep <= Len(recorded)
      BY <2>1, <2>7, <2>9 DEF f, m
    <3>2. p \in Nat /\ q \in Nat /\ \A i \in 1..keep : fresh[p + i] = recorded[q + i]
      BY <2>9, <2>10
    <3> HIDE DEF p, q
    <3>3. fresh \in Seq(Events) /\ recorded \in Seq(Events) /\ keep \in Nat
      BY <2>1, <2>6, <2>9
    <3>4. SubSeq(fresh, p + 1, p + keep) = SubSeq(recorded, q + 1, q + keep)
      BY <3>1, <3>2, <3>3, PartsAgree
    <3>5. QED
      BY <3>4 DEF p, q
  <2>12. m >= kept /\ SubSeq(fresh, f - kept + 1, f) = SubSeq(recorded, m - kept + 1, m)
    BY <2>1, <2>2, <2>7, <2>8, <2>9, <2>11
  <2>13. QED
    BY <2>12 DEF kept, fresh, f, m, n, log
<1>3. QED
  BY <1>1, <1>2 DEF TailIsComplete

\* However often it is attached again, detached and cleared, the recorder's events
\* are in the order of publication, and it has the newest of its bus without gaps
\* (telemetryEventRecorder.ts: attach, record, clear; runtimeEventBus.ts: publish).
THEOREM TailIsAlwaysComplete == Spec => []TailIsComplete
BY TelemetryIsInvariant, InvariantHasTail, PTL
-----------------------------------------------------------------------------
(* The snapshot and the timelines of a list in the order of publication. *)

\* The sizes of the parts that a key divides a set into add up to its size.
SizesOfParts(S, R, key) == [r \in R |-> Cardinality({i \in S : key[i] = r})]

LEMMA SumOfParts ==
    ASSUME NEW S, IsFiniteSet(S), NEW R, IsFiniteSet(R), NEW key \in [S -> R]
    PROVE  SumFunction(SizesOfParts(S, R, key)) = Cardinality(S)
<1> DEFINE part(T, r) == {i \in T : key[i] = r}
           sizes(T) == [r \in R |-> Cardinality(part(T, r))]
           G == {T \in SUBSET S : SumFunctionOnSet(sizes(T), R) = Cardinality(T)}
<1>1. ASSUME NEW T \in SUBSET S, NEW r \in R
      PROVE  IsFiniteSet(T) /\ IsFiniteSet(part(T, r)) /\ Cardinality(part(T, r)) \in Nat
             /\ Cardinality(T) \in Nat /\ sizes(T)[r] = Cardinality(part(T, r))
  BY FS_Subset, FS_CardinalityType
<1>2. {} \in G
  <2> DEFINE z == sizes({})
  <2>1. \A r \in R : part({}, r) = {}
    OBVIOUS
  <2>2. Cardinality({}) = 0
    BY FS_EmptySet
  <2>3. \A r \in R : z[r] = 0
    BY <2>1, <2>2
  <2> HIDE DEF z
  <2>4. SumFunctionOnSet(z, R) = 0 * Cardinality(R) /\ Cardinality(R) \in Nat
    BY <2>3, SumConstant, FS_CardinalityType
  <2>5. SumFunctionOnSet(z, R) = 0
    BY <2>4
  <2>6. QED
    BY <2>2, <2>5 DEF z
<1>3. ASSUME NEW T \in SUBSET S, NEW x \in S \ T, T \in G
      PROVE  T \cup {x} \in G
  <2> DEFINE before == sizes(T)
             after == sizes(T \cup {x})
             k == key[x]
  <2>0. k \in R /\ T \cup {x} \in SUBSET S
    OBVIOUS
  <2>1. /\ \A r \in R : before[r] \in Int /\ after[r] \in Int
        /\ before[k] = Cardinality(part(T, k)) /\ IsFiniteSet(part(T, k))
        /\ after[k] = Cardinality(part(T \cup {x}, k))
        /\ IsFiniteSet(T) /\ Cardinality(T) \in Nat
    <3>1. ASSUME NEW r \in R
          PROVE  before[r] \in Nat /\ after[r] \in Nat
                 /\ before[r] = Cardinality(part(T, r)) /\ IsFiniteSet(part(T, r))
                 /\ after[r] = Cardinality(part(T \cup {x}, r))
      <4> HIDE DEF part, sizes
      <4>1. QED
        BY <1>1, <2>0
    <3>2. IsFiniteSet(T) /\ Cardinality(T) \in Nat
      BY FS_Subset, FS_CardinalityType
    <3> HIDE DEF before, after, part, k
    <3>3. \A r \in R : before[r] \in Int /\ after[r] \in Int
      BY <3>1
    <3>4. /\ before[k] = Cardinality(part(T, k)) /\ IsFiniteSet(part(T, k))
          /\ after[k] = Cardinality(part(T \cup {x}, k))
      BY <2>0, <3>1, Zenon
    <3>5. QED
      BY <3>2, <3>3, <3>4, Zenon
  <2>2. \A r \in R \ {k} : after[r] = before[r]
    <3>1. \A r \in R \ {k} : part(T \cup {x}, r) = part(T, r)
      OBVIOUS
    <3>2. QED
      BY <3>1
  <2>3. Cardinality(part(T \cup {x}, k)) = Cardinality(part(T, k)) + 1
    <3>1. part(T \cup {x}, k) = part(T, k) \cup {x} /\ x \notin part(T, k)
      OBVIOUS
    <3> HIDE DEF part
    <3>2. QED
      BY <2>1, <3>1, FS_AddElement
  <2>4. SumFunctionOnSet(before, R) = Cardinality(T)
    BY <1>3, Zenon
  <2> HIDE DEF before, after, k, part
  <2>5. SumFunctionOnSet(after, R) = SumFunctionOnSet(before, R) + (after[k] - before[k])
    BY <2>0, <2>1, <2>2, SumChange
  <2>6. Cardinality(T \cup {x}) = Cardinality(T) + 1
    BY <2>1, FS_AddElement
  <2>7. after[k] - before[k] = 1
    <3>1. before[k] \in Int /\ after[k] = before[k] + 1
      BY <2>0, <2>1, <2>3
    <3>2. QED
      BY <3>1
  <2>8. SumFunctionOnSet(after, R) = Cardinality(T \cup {x})
    BY <2>4, <2>5, <2>6, <2>7
  <2>9. QED
    BY <2>0, <2>8 DEF after
<1> HIDE DEF G
<1>4. S \in G
  BY <1>2, <1>3, SubsetsByInduction
<1>5. sizes(S) = SizesOfParts(S, R, key) /\ DOMAIN sizes(S) = R
  BY DEF SizesOfParts
<1>6. SumFunctionOnSet(sizes(S), R) = Cardinality(S)
  BY <1>4 DEF G
<1>7. QED
  BY <1>5, <1>6 DEF SumFunction

\* A listing of a list counts what was chosen of it.
LEMMA ListingCount ==
    ASSUME NEW s \in Seq(Events), NEW D \in SUBSET DOMAIN s, NEW B, IsStrictOrder(D, B),
           NEW t, NEW pos, IsListing(s, t, D, B, pos), NEW status
    PROVE  Count(t, status) = Cardinality({i \in D : s[i].status = status})
<1> DEFINE n == Cardinality(D)
           K == {k \in DOMAIN t : t[k].status = status}
           I == {i \in D : s[i].status = status}
<1>1. n \in Nat
  BY PositionsFinite
<1>2. /\ t = [k \in 1..n |-> s[pos[k]]] /\ \A k \in 1..n : pos[k] \in D
      /\ \A k, l \in 1..n : k < l => pos[k] # pos[l]
      /\ \A i \in D : \E k \in 1..n : pos[k] = i
  BY DEF IsListing, IsStrictOrder
<1> HIDE DEF n
<1> DEFINE g == [k \in K |-> pos[k]]
<1>3. \A k \in K : k \in 1..n /\ g[k] \in I /\ g[k] = pos[k]
  BY <1>2
<1>4. ASSUME NEW k \in K, NEW l \in K, g[k] = g[l]
      PROVE  k = l
  <2>1. k \in 1..n /\ l \in 1..n /\ pos[k] = pos[l]
    BY <1>3, <1>4
  <2>2. ~(k < l) /\ ~(l < k)
    BY <1>2, <2>1
  <2>3. QED
    BY <1>1, <2>1, <2>2
<1>5. \A i \in I : \E k \in K : g[k] = i
  <2> SUFFICES ASSUME NEW i \in I PROVE \E k \in K : g[k] = i
    OBVIOUS
  <2>1. PICK k \in 1..n : pos[k] = i
    BY <1>2
  <2>2. k \in K
    BY <1>2, <2>1
  <2>3. QED
    BY <1>3, <2>1, <2>2
<1>6. g \in [K -> I] /\ DOMAIN g = K
  BY <1>3
<1> HIDE DEF g, K, I
<1>7. g \in Bijection(K, I)
  BY <1>4, <1>5, <1>6 DEF Bijection, Injection, Surjection, IsInjective
<1>8. IsFiniteSet(K)
  <2>1. K \subseteq 1..n
    BY <1>3
  <2>2. IsFiniteSet(1..n)
    BY <1>1, FS_Interval
  <2>3. QED
    BY <2>1, <2>2, FS_Subset
<1>9. Cardinality(I) = Cardinality(K)
  BY <1>7, <1>8, FS_Bijection DEF ExistsBijection
<1>10. QED
  BY <1>9 DEF Count, K, I

\* The events of a runtime, in the order they were recorded.
LEMMA EventsOfFacts ==
    ASSUME NEW s \in Seq(Events), IsPublishOrder(s), NEW r
    PROVE  /\ EventsOf(s, r) \in Seq(Events)
           /\ IsPublishOrder(EventsOf(s, r))
           /\ Len(EventsOf(s, r)) = Cardinality({i \in DOMAIN s : s[i].runtimeId = r})
           /\ Range(EventsOf(s, r)) = {e \in Range(s) : e.runtimeId = r}
           /\ \A status : Count(EventsOf(s, r), status) =
                Cardinality({i \in DOMAIN s : s[i].runtimeId = r /\ s[i].status = status})
<1> DEFINE D == {i \in DOMAIN s : s[i].runtimeId = r}
           B == {p \in D \X D : p[1] < p[2]}
           n == Cardinality(D)
           t == EventsOf(s, r)
<1>1. D \in SUBSET DOMAIN s
  OBVIOUS
<1>2. {s[i] : i \in D} = {e \in Range(s) : e.runtimeId = r}
  BY DEF Range
<1>3. \A status : {i \in D : s[i].status = status} =
                  {i \in DOMAIN s : s[i].runtimeId = r /\ s[i].status = status}
  OBVIOUS
<1>4. t = Filtered(s, D)
  BY DEF EventsOf
<1> HIDE DEF D, t
<1>5. /\ t \in Seq(Events) /\ Len(t) = n /\ Range(t) = {s[i] : i \in D}
      /\ \E pos : IsListing(s, t, D, B, pos)
  BY <1>1, <1>4, FilteredIsListing
<1>6. PICK pos : IsListing(s, t, D, B, pos)
  BY <1>5
<1>7. D \in SUBSET Nat
  BY <1>1, PositionsFinite
<1>8. IsStrictOrder(D, B)
  BY <1>7, PositionsOrder
<1>9. /\ t = [k \in 1..n |-> s[pos[k]]] /\ \A k \in 1..n : pos[k] \in D
      /\ \A k, l \in 1..n : k < l => pos[k] < pos[l]
  BY <1>6 DEF IsListing
<1>10. IsPublishOrder(t)
  <2> SUFFICES ASSUME NEW k \in DOMAIN t, NEW l \in DOMAIN t, k < l
               PROVE  t[k].eventId < t[l].eventId
    BY DEF IsPublishOrder
  <2>1. k \in 1..n /\ l \in 1..n /\ t[k] = s[pos[k]] /\ t[l] = s[pos[l]]
    BY <1>9
  <2>2. pos[k] \in DOMAIN s /\ pos[l] \in DOMAIN s /\ pos[k] < pos[l]
    BY <1>1, <1>9, <2>1
  <2>3. QED
    BY <2>1, <2>2 DEF IsPublishOrder
<1> HIDE DEF B
<1>11. \A status : Count(t, status) = Cardinality({i \in D : s[i].status = status})
  BY <1>1, <1>6, <1>8, ListingCount
<1>12. \A status : Count(t, status) =
         Cardinality({i \in DOMAIN s : s[i].runtimeId = r /\ s[i].status = status})
  BY <1>3, <1>11
<1>13. Len(t) = Cardinality({i \in DOMAIN s : s[i].runtimeId = r})
  BY <1>5 DEF D
<1>14. QED
  BY <1>2, <1>5, <1>10, <1>12, <1>13 DEF t

\* The pairs of positions of which the first goes before the second.
TimeOrder(s) ==
    {p \in (DOMAIN s) \X (DOMAIN s) : GoesBefore(s, p[1], p[2])}

\* The comparison, with what was recorded first going first among equals, orders
\* the positions of any list.
LEMMA TimeOrders ==
    ASSUME NEW s \in Seq(Events)
    PROVE  IsStrictOrder(DOMAIN s, TimeOrder(s))
<1> DEFINE all == DOMAIN s
           time == [i \in all |-> s[i].timestamp]
           B == TimeOrder(s)
<1>1. all \subseteq Nat /\ \A i \in all : s[i] \in Events
  BY PositionsFinite
<1>2. \A i \in all : i \in Int /\ time[i] \in Int
  BY <1>1 DEF Events
<1>3. ASSUME NEW i \in all, NEW j \in all
      PROVE  <<i, j>> \in B <=> time[i] <= time[j] /\ (time[j] <= time[i] => i < j)
  BY DEF TimeOrder, GoesBefore, InSequence
<1>4. B \subseteq all \X all
  BY DEF TimeOrder
<1> HIDE DEF B, time, all
<1>5. \A i \in all : <<i, i>> \notin B
  BY <1>2, <1>3
<1>6. ASSUME NEW i \in all, NEW j \in all, NEW k \in all, <<i, j>> \in B, <<j, k>> \in B
      PROVE  <<i, k>> \in B
  <2>1. /\ time[i] <= time[j] /\ (time[j] <= time[i] => i < j)
        /\ time[j] <= time[k] /\ (time[k] <= time[j] => j < k)
    BY <1>3, <1>6
  <2>2. time[i] <= time[k] /\ (time[k] <= time[i] => i < k)
    BY <1>2, <2>1
  <2>3. QED
    BY <1>3, <2>2
<1>7. ASSUME NEW i \in all, NEW j \in all
      PROVE  i = j \/ <<i, j>> \in B \/ <<j, i>> \in B
  BY <1>2, <1>3
<1>8. IsStrictOrder(all, B)
  BY <1>4, <1>5, <1>6, <1>7 DEF IsStrictOrder
<1>9. QED
  BY <1>8 DEF all, B

\* Sorting by time keeps what there is, and ties in the order of publication.
LEMMA SortFacts ==
    ASSUME NEW s \in Seq(Events), IsPublishOrder(s)
    PROVE  /\ SortByTime(s) \in Seq(Events)
           /\ IsTimeline(SortByTime(s))
           /\ Len(SortByTime(s)) = Len(s)
           /\ Range(SortByTime(s)) = Range(s)
           /\ \A status : Count(SortByTime(s), status) = Count(s, status)
<1> DEFINE all == DOMAIN s
           n == Cardinality(all)
           B == TimeOrder(s)
           t == SortByTime(s)
<1>1. /\ IsFiniteSet(all) /\ n = Len(s) /\ all \in SUBSET DOMAIN s
      /\ all \subseteq Nat /\ \A i \in all : s[i] \in Events
  BY PositionsFinite
<1>2. IsStrictOrder(all, B)
  BY TimeOrders
<1>3. t = Listed(s, all, B)
  BY DEF SortByTime, TimeOrder
<1> HIDE DEF all, t, B
<1>4. PICK pos : IsListing(s, t, all, B, pos)
  BY <1>1, <1>2, <1>3, ListedIsListing
<1>5. t \in Seq(Events) /\ Len(t) = n /\ Range(t) = {s[i] : i \in all}
  BY <1>1, <1>4, ListingTyped
<1>6. Range(t) = Range(s)
  BY <1>5 DEF Range, all
<1>7. \A status : Count(t, status) = Cardinality({i \in all : s[i].status = status})
  BY <1>1, <1>2, <1>4, ListingCount
<1>8. \A status : Count(t, status) = Count(s, status)
  BY <1>7 DEF Count, all
<1>9. /\ t = [k \in 1..n |-> s[pos[k]]] /\ \A k \in 1..n : pos[k] \in all
      /\ \A k, l \in 1..n : k < l => <<pos[k], pos[l]>> \in B
  BY <1>4 DEF IsListing
<1>10. IsTimeline(t)
  <2> SUFFICES ASSUME NEW k \in DOMAIN t, NEW l \in DOMAIN t, k < l
               PROVE  \/ t[k].timestamp < t[l].timestamp
                      \/ t[k].timestamp = t[l].timestamp /\ t[k].eventId < t[l].eventId
    BY DEF IsTimeline
  <2> DEFINE i == pos[k]
             j == pos[l]
  <2>1. /\ i \in all /\ j \in all /\ <<i, j>> \in B /\ t[k] = s[i] /\ t[l] = s[j]
    BY <1>9
  <2> HIDE DEF i, j
  <2>2. GoesBefore(s, i, j)
    BY <2>1 DEF B, TimeOrder
  <2> DEFINE x == s[i].timestamp
             y == s[j].timestamp
  <2>3. x \in Int /\ y \in Int
    BY <1>1, <2>1 DEF Events
  <2>4. x <= y /\ (y <= x => i < j)
    BY <2>2 DEF GoesBefore, InSequence
  <2>5. i < j => s[i].eventId < s[j].eventId
    BY <2>1 DEF IsPublishOrder, all
  <2> HIDE DEF x, y
  <2>6. x < y \/ (x = y /\ s[i].eventId < s[j].eventId)
    BY <2>3, <2>4, <2>5
  <2>7. QED
    BY <2>1, <2>6 DEF x, y
<1>11. QED
  BY <1>1, <1>5, <1>6, <1>8, <1>10 DEF t

\* A runtime's timeline tells of its events, by their time.
LEMMA TimelineFacts ==
    ASSUME NEW s \in Seq(Events), IsPublishOrder(s), NEW r \in DOMAIN Timelines(s)
    PROVE  /\ Timelines(s)[r] \in Seq(Events)
           /\ IsTimeline(Timelines(s)[r])
           /\ Len(Timelines(s)[r]) = Cardinality({i \in DOMAIN s : s[i].runtimeId = r})
           /\ Range(Timelines(s)[r]) = {e \in Range(s) : e.runtimeId = r}
           /\ \A status : Count(Timelines(s)[r], status) =
                Cardinality({i \in DOMAIN s : s[i].runtimeId = r /\ s[i].status = status})
<1> DEFINE t == EventsOf(s, r)
<1>1. Timelines(s)[r] = SortByTime(t)
  BY DEF Timelines
<1> HIDE DEF t
<1>2. /\ t \in Seq(Events) /\ IsPublishOrder(t)
      /\ Len(t) = Cardinality({i \in DOMAIN s : s[i].runtimeId = r})
      /\ Range(t) = {e \in Range(s) : e.runtimeId = r}
      /\ \A status : Count(t, status) =
           Cardinality({i \in DOMAIN s : s[i].runtimeId = r /\ s[i].status = status})
  BY EventsOfFacts DEF t
<1>3. /\ SortByTime(t) \in Seq(Events) /\ IsTimeline(SortByTime(t))
      /\ Len(SortByTime(t)) = Len(t) /\ Range(SortByTime(t)) = Range(t)
      /\ \A status : Count(SortByTime(t), status) = Count(t, status)
  BY <1>2, SortFacts
<1>4. QED
  BY <1>1, <1>2, <1>3

\* The runtimes that have timelines are finitely many.
LEMMA TimelinesFinite ==
    ASSUME NEW s \in Seq(Events)
    PROVE  /\ IsFiniteSet(DOMAIN Timelines(s))
           /\ \A i \in DOMAIN s : s[i].runtimeId \in DOMAIN Timelines(s)
<1> DEFINE R == DOMAIN Timelines(s)
           key == [i \in DOMAIN s |-> s[i].runtimeId]
<1>1. R = {e.runtimeId : e \in Range(s)}
  BY DEF Timelines
<1>2. \A i \in DOMAIN s : s[i].runtimeId \in R
  BY <1>1 DEF Range
<1>3. \A r \in R : \E i \in DOMAIN s : key[i] = r
  BY <1>1 DEF Range
<1> HIDE DEF R
<1>4. key \in [DOMAIN s -> R]
  BY <1>2
<1> HIDE DEF key
<1>5. key \in Surjection(DOMAIN s, R)
  BY <1>3, <1>4 DEF Surjection
<1>6. IsFiniteSet(DOMAIN s)
  BY PositionsFinite
<1>7. IsFiniteSet(R)
  BY <1>5, <1>6, FS_Surjection
<1>8. QED
  BY <1>2, <1>7 DEF R

\* The events of a status are those that the timelines tell of.
LEMMA TimelinesCount ==
    ASSUME NEW s \in Seq(Events), IsPublishOrder(s), NEW S \in SUBSET DOMAIN s,
           NEW f, f = [r \in DOMAIN Timelines(s) |->
                         Cardinality({i \in S : s[i].runtimeId = r})]
    PROVE  SumFunction(f) = Cardinality(S)
<1> DEFINE R == DOMAIN Timelines(s)
           key == [i \in S |-> s[i].runtimeId]
<1>1. IsFiniteSet(R) /\ \A i \in DOMAIN s : s[i].runtimeId \in R
  BY TimelinesFinite
<1>2. IsFiniteSet(S)
  BY PositionsFinite
<1> HIDE DEF R
<1>3. key \in [S -> R]
  BY <1>1
<1>4. f = SizesOfParts(S, R, key)
  <2>1. \A r \in R : {i \in S : s[i].runtimeId = r} = {i \in S : key[i] = r}
    OBVIOUS
  <2> HIDE DEF key
  <2>2. QED
    BY <2>1 DEF R, SizesOfParts
<1> HIDE DEF key
<1>5. QED
  BY <1>1, <1>2, <1>3, <1>4, SumOfParts

\* The last event of a runtime's timeline is the newest of all, or bears a later
\* time than that one.
LEMMA LatestEndsItsTimeline ==
    ASSUME NEW s \in Seq(Events), IsPublishOrder(s), s # <<>>
    PROVE  \E r \in DOMAIN Timelines(s) :
             LET last == Timelines(s)[r][Len(Timelines(s)[r])]
             IN  /\ last.runtimeId = s[Len(s)].runtimeId
                 /\ \/ s[Len(s)] = last
                    \/ last.timestamp > s[Len(s)].timestamp
<1> DEFINE n == Len(s)
           latest == s[n]
           r == latest.runtimeId
           t == Timelines(s)[r]
           m == Len(t)
           last == t[m]
<1>1. n \in Nat /\ DOMAIN s = 1..n /\ n # 0 /\ \A i \in DOMAIN s : s[i] \in Events
  BY EmptySeq, LenProperties, ElementOfSeq
<1>2. n \in DOMAIN s /\ latest \in Events /\ latest \in Range(s)
  BY <1>1 DEF Range
<1>3. r \in DOMAIN Timelines(s)
  BY <1>2, TimelinesFinite
<1> HIDE DEF r, n
<1>4. t \in Seq(Events) /\ IsTimeline(t) /\ Range(t) = {e \in Range(s) : e.runtimeId = r}
  BY <1>3, TimelineFacts
<1> HIDE DEF t, m
<1>5. m \in Nat /\ DOMAIN t = 1..m /\ \A k \in DOMAIN t : t[k] \in Events
  BY <1>4, LenProperties, ElementOfSeq DEF m
<1> HIDE DEF latest
<1>6. PICK k \in DOMAIN t : t[k] = latest
  <2>1. latest \in Range(t)
    BY <1>2, <1>4 DEF r
  <2>2. QED
    BY <2>1 DEF Range
<1>7. m \in DOMAIN t /\ k <= m
  BY <1>5, <1>6
<1>8. last \in Events /\ last \in Range(s) /\ last.runtimeId = r
  <2>1. last \in Range(t)
    BY <1>7 DEF Range
  <2>2. QED
    BY <1>4, <1>5, <1>7, <2>1
<1> HIDE DEF last
<1>9. last.eventId <= latest.eventId
  <2>1. PICK i \in DOMAIN s : s[i] = last
    BY <1>8 DEF Range
  <2>2. i = n \/ i < n
    BY <1>1, <2>1
  <2>3. last.eventId \in Int /\ latest.eventId \in Int
    BY <1>2, <1>8 DEF Events
  <2>4. CASE i = n
    BY <2>1, <2>3, <2>4 DEF latest
  <2>5. CASE i < n
    <3>1. s[i].eventId < s[n].eventId
      BY <1>2, <2>5 DEF IsPublishOrder
    <3>2. last.eventId < latest.eventId
      BY <2>1, <3>1 DEF latest
    <3>3. QED
      BY <2>3, <3>2
  <2>6. QED
    BY <2>2, <2>4, <2>5
<1>10. latest = last \/ last.timestamp > latest.timestamp
  <2>1. CASE k = m
    BY <1>6, <2>1 DEF last
  <2>2. CASE k # m
    <3>1. k < m
      BY <1>5, <1>6, <1>7, <2>2
    <3>2. \/ latest.timestamp < last.timestamp
          \/ latest.timestamp = last.timestamp /\ latest.eventId < last.eventId
      BY <1>4, <1>6, <1>7, <3>1 DEF IsTimeline, last
    <3>3. /\ last.eventId \in Int /\ latest.eventId \in Int
          /\ last.timestamp \in Int /\ latest.timestamp \in Int
      BY <1>2, <1>8 DEF Events
    <3>4. QED
      BY <1>9, <3>2, <3>3
  <2>3. QED
    BY <2>1, <2>2
<1>11. last.runtimeId = latest.runtimeId
  BY <1>8 DEF r
<1>12. QED
  BY <1>3, <1>10, <1>11 DEF last, latest, m, t, n

LEMMA InvariantHasTimelines == TelemetryInv => TimelinesAgreeWithSnapshot
<1> SUFFICES ASSUME TelemetryInv PROVE TimelinesAgreeWithSnapshot
  OBVIOUS
<1> DEFINE s == recorded
           timelines == Timelines(s)
           R == DOMAIN timelines
           all == DOMAIN s
           having(status) == {i \in all : s[i].status = status}
<1>1. s \in Seq(Events) /\ IsPublishOrder(s)
  BY DEF TelemetryInv, RecordsInOrder
<1>2. ASSUME NEW r \in R
      PROVE  /\ IsTimeline(timelines[r])
             /\ Range(timelines[r]) = {e \in Range(s) : e.runtimeId = r}
             /\ Len(timelines[r]) = Cardinality({i \in all : s[i].runtimeId = r})
             /\ \A status : Count(timelines[r], status) =
                  Cardinality({i \in having(status) : s[i].runtimeId = r})
  <2> DEFINE t == Timelines(s)[r]
  <2>1. /\ IsTimeline(t)
        /\ Len(t) = Cardinality({i \in all : s[i].runtimeId = r})
        /\ Range(t) = {e \in Range(s) : e.runtimeId = r}
        /\ \A status : Count(t, status) =
             Cardinality({i \in all : s[i].runtimeId = r /\ s[i].status = status})
    <3> HIDE DEF s
    <3>1. QED
      BY <1>1, TimelineFacts
  <2>3. \A status : {i \in all : s[i].runtimeId = r /\ s[i].status = status}
                    = {i \in having(status) : s[i].runtimeId = r}
    OBVIOUS
  <2>2. timelines[r] = t
    OBVIOUS
  <2> HIDE DEF t, timelines, having, s, all
  <2>4. \A status : Count(t, status) = Cardinality({i \in having(status) : s[i].runtimeId = r})
    BY <2>1, <2>3
  <2>5. QED
    BY <2>1, <2>2, <2>4
<1>3. Len(s) = SumFunction([r \in R |-> Len(timelines[r])])
  <2> DEFINE f == [r \in R |-> Cardinality({i \in all : s[i].runtimeId = r})]
  <2>1. f = [r \in R |-> Len(timelines[r])]
    BY <1>2
  <2>2. SumFunction(f) = Cardinality(all)
    <3>1. all \in SUBSET DOMAIN s
      OBVIOUS
    <3> HIDE DEF s, all
    <3>2. QED
      BY <1>1, <3>1, TimelinesCount
  <2>3. Cardinality(all) = Len(s)
    BY <1>1, PositionsFinite
  <2> HIDE DEF f
  <2>4. QED
    BY <2>1, <2>2, <2>3
<1>4. ASSUME NEW status
      PROVE  Count(s, status) = SumFunction([r \in R |-> Count(timelines[r], status)])
  <2> DEFINE f == [r \in R |-> Cardinality({i \in having(status) : s[i].runtimeId = r})]
  <2>1. f = [r \in R |-> Count(timelines[r], status)]
    <3> HIDE DEF timelines, having, s
    <3>1. QED
      BY <1>2
  <2>2. SumFunction(f) = Cardinality(having(status))
    <3>1. having(status) \in SUBSET DOMAIN s
      OBVIOUS
    <3> HIDE DEF s, all, having
    <3>2. QED
      BY <1>1, <3>1, TimelinesCount
  <2>3. Cardinality(having(status)) = Count(s, status)
    BY DEF Count
  <2> HIDE DEF f
  <2>4. QED
    BY <2>1, <2>2, <2>3
<1>5. Snapshot(s).latestEvent # None =>
        \E r \in R :
          LET last == timelines[r][Len(timelines[r])]
          IN  /\ last.runtimeId = Snapshot(s).latestEvent.runtimeId
              /\ \/ Snapshot(s).latestEvent = last
                 \/ last.timestamp > Snapshot(s).latestEvent.timestamp
  <2>1. Snapshot(s).latestEvent = IF s = <<>> THEN None ELSE s[Len(s)]
    BY DEF Snapshot
  <2>2. s # <<>> =>
          \E r \in R :
            LET last == timelines[r][Len(timelines[r])]
            IN  /\ last.runtimeId = s[Len(s)].runtimeId
                /\ s[Len(s)] = last \/ last.timestamp > s[Len(s)].timestamp
    <3> HIDE DEF s
    <3>1. QED
      BY <1>1, LatestEndsItsTimeline
  <2> HIDE DEF s, timelines
  <2>3. QED
    BY <2>1, <2>2
<1>6. /\ Snapshot(s).totalEvents = Len(s)
      /\ Snapshot(s).completedEvents = Count(s, "completed")
      /\ Snapshot(s).failedEvents = Count(s, "failed")
  BY DEF Snapshot
<1> HIDE DEF timelines, having, all
<1>7. /\ Snapshot(s).totalEvents = SumFunction([r \in R |-> Len(timelines[r])])
      /\ Snapshot(s).completedEvents =
           SumFunction([r \in R |-> Count(timelines[r], "completed")])
      /\ Snapshot(s).failedEvents = SumFunction([r \in R |-> Count(timelines[r], "failed")])
  BY <1>3, <1>4, <1>6
<1>8. QED
  BY <1>2, <1>5, <1>7 DEF TimelinesAgreeWithSnapshot, timelines

\* The timelines divide what the recorder holds: each runtime's events by their time,
\* even if the clock was set back, and together as many, completed and failed, as the snapshot counts
\* (telemetryTimeline.ts and telemetrySnapshot.ts).
THEOREM TimelinesAlwaysAgree == Spec => []TimelinesAgreeWithSnapshot
BY TelemetryIsInvariant, InvariantHasTimelines, PTL
=============================================================================
