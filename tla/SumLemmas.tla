----------------------------- MODULE SumLemmas -----------------------------
(***************************************************************************)
(* Induction, and sums over finite sets.  A sum is computed by a function  *)
(* defined recursively on the subsets of its index set; that the function  *)
(* exists, and what it is, follows by induction on their sizes.  Induction *)
(* is on sets, from the fact that every set of natural numbers has a least *)
(* element: a property is the set of the numbers that have it.             *)
(***************************************************************************)
EXTENDS Integers, FiniteSets, Functions, FiniteSetTheorems, WellFoundedInduction, TLAPS

\* Every set of natural numbers but the empty one has a least element.
LEMMA LeastNumber ==
  ASSUME NEW T \in SUBSET Nat, T # {}
  PROVE  \E x \in T : \A y \in T : x <= y
<1> DEFINE R == OpToRel(<, Nat)
<1>1. IsWellFoundedOn(R, Nat)
  BY NatLessThanWellFounded
<1>2. PICK x \in T : \A y \in T : ~ (<<y, x>> \in R)
  <2> HIDE DEF R
  <2> QED BY <1>1, WFMin
<1>3. ASSUME NEW y \in T
      PROVE  x <= y
  <2>1. ~ (y < x)
    BY <1>2 DEF OpToRel
  <2> QED BY <2>1
<1> QED BY <1>3

\* A set that has 0, and the successor of each number that it has, has them all.
LEMMA NumbersByInduction ==
  ASSUME NEW G, 0 \in G, \A n \in Nat : n \in G => n + 1 \in G
  PROVE  Nat \subseteq G
<1> DEFINE T == Nat \ G
<1> SUFFICES ASSUME T # {} PROVE FALSE
  OBVIOUS
<1>1. PICK x \in T : \A y \in T : x <= y
  BY LeastNumber
<1>2. x \in Nat /\ x # 0 /\ x - 1 \in Nat
  OBVIOUS
<1>3. x - 1 \in G
  BY <1>1, <1>2
<1>4. x \in G
  BY <1>2, <1>3
<1> QED BY <1>4

\* A set of subsets that has the empty set, and with each subset those of one
\* more element, has the whole finite set.
LEMMA SubsetsByInduction ==
  ASSUME NEW S, IsFiniteSet(S), NEW G, {} \in G,
         \A T \in SUBSET S : \A x \in S \ T : T \in G => T \cup {x} \in G
  PROVE  S \in G
<1> DEFINE H == {n \in Nat : \A T \in SUBSET S : Cardinality(T) = n => T \in G}
<1>0. \A T \in SUBSET S : IsFiniteSet(T) /\ Cardinality(T) \in Nat
  BY FS_Subset, FS_CardinalityType
<1>1. 0 \in H
  BY <1>0, FS_EmptySet
<1>2. ASSUME NEW n \in Nat, n \in H PROVE n + 1 \in H
  <2> SUFFICES ASSUME NEW T \in SUBSET S, Cardinality(T) = n + 1
               PROVE  T \in G
    OBVIOUS
  <2>1. T # {}
    <3>1. Cardinality({}) = 0
      BY FS_EmptySet
    <3> QED BY <3>1
  <2>2. PICK x \in T : TRUE
    BY <2>1
  <2>3. Cardinality(T \ {x}) = n
    <3>1. Cardinality(T \ {x}) = Cardinality(T) - 1
      BY <1>0, FS_RemoveElement
    <3> QED BY <3>1
  <2>4. T \ {x} \in G
    BY <1>2, <2>3
  <2>5. T = (T \ {x}) \cup {x} /\ T \ {x} \in SUBSET S /\ x \in S \ (T \ {x})
    OBVIOUS
  <2> QED BY <2>4, <2>5
<1>3. Nat \subseteq H
  <2> HIDE DEF H
  <2> QED BY <1>1, <1>2, NumbersByInduction
<1> QED BY <1>0, <1>3

-----------------------------------------------------------------------------
(* The function that computes a sum. *)

SumStep(f, g, s) ==
  IF s = {} THEN 0 ELSE LET x == CHOOSE x \in s : TRUE IN f[x] + g[s \ {x}]

IsSumTable(f, S, g) == g = [s \in SUBSET S |-> SumStep(f, g, s)]

Level(S, n) == {s \in SUBSET S : Cardinality(s) <= n}

LEMMA SumIsFromTable ==
  ASSUME NEW f, NEW S
  PROVE  SumFunctionOnSet(f, S) = (CHOOSE g : IsSumTable(f, S, g))[S]
BY DEF SumFunctionOnSet, FoldFunctionOnSet, MapThenFoldSet, IsSumTable, SumStep

\* What a step reads of the table is what it says of a set without an element.
LEMMA SumStepReads ==
  ASSUME NEW f, NEW g, NEW h, NEW s,
         \A x \in s : g[s \ {x}] = h[s \ {x}]
  PROVE  SumStep(f, g, s) = SumStep(f, h, s)
<1>1. CASE s = {}
  BY <1>1, Zenon DEF SumStep
<1>2. CASE s # {}
  <2> DEFINE x == CHOOSE x \in s : TRUE
  <2>1. x \in s
    BY <1>2
  <2>2. g[s \ {x}] = h[s \ {x}]
    BY <2>1
  <2> QED BY <1>2, <2>2, Zenon DEF SumStep
<1> QED BY <1>1, <1>2

LEMMA SumTableExists ==
  ASSUME NEW f, NEW S, IsFiniteSet(S)
  PROVE  \E g : IsSumTable(f, S, g)
<1> DEFINE Tab(n, g) == g = [s \in Level(S, n) |-> SumStep(f, g, s)]
           G == {n \in Nat : \E g : Tab(n, g)}
<1>0. \A s \in SUBSET S : IsFiniteSet(s) /\ Cardinality(s) \in Nat
  BY FS_Subset, FS_CardinalityType
<1>1. 0 \in G
  <2> DEFINE g == [s \in Level(S, 0) |-> 0]
  <2>1. \A s \in Level(S, 0) : s = {}
    BY <1>0, FS_EmptySet DEF Level
  <2>2. \A s \in Level(S, 0) : SumStep(f, g, s) = 0
    BY <2>1, Zenon DEF SumStep
  <2>3. g = [s \in Level(S, 0) |-> SumStep(f, g, s)]
    BY <2>2, Zenon
  <2> HIDE DEF g
  <2> QED BY <2>3
<1>2. ASSUME NEW n \in Nat, n \in G PROVE n + 1 \in G
  <2>1. PICK g : Tab(n, g)
    BY <1>2
  <2> DEFINE h == [s \in Level(S, n + 1) |-> SumStep(f, g, s)]
  <2>2. ASSUME NEW s \in Level(S, n) PROVE h[s] = g[s]
    <3>1. s \in Level(S, n + 1)
      BY <1>0 DEF Level
    <3>2. h[s] = SumStep(f, g, s)
      BY <3>1
    <3>3. g[s] = SumStep(f, g, s)
      <4> DEFINE gg == [t \in Level(S, n) |-> SumStep(f, g, t)]
      <4>1. gg[s] = SumStep(f, g, s)
        OBVIOUS
      <4>2. g = gg
        BY <2>1
      <4> QED BY <4>1, <4>2, Zenon
    <3> QED BY <3>2, <3>3, Zenon
  <2>3. ASSUME NEW s \in Level(S, n + 1) PROVE SumStep(f, g, s) = SumStep(f, h, s)
    <3>1. ASSUME NEW x \in s PROVE g[s \ {x}] = h[s \ {x}]
      <4>1. IsFiniteSet(s) /\ s \in SUBSET S /\ Cardinality(s) <= n + 1
        BY <1>0 DEF Level
      <4>2. Cardinality(s \ {x}) = Cardinality(s) - 1
        BY <4>1, FS_RemoveElement
      <4>3. s \ {x} \in Level(S, n)
        BY <4>1, <4>2, <1>0 DEF Level
      <4> HIDE DEF h
      <4> QED BY <2>2, <4>3
    <3> HIDE DEF h
    <3> QED BY <3>1, SumStepReads
  <2>4. h = [s \in Level(S, n + 1) |-> SumStep(f, h, s)]
    BY <2>3, Zenon
  <2> HIDE DEF h
  <2>5. Tab(n + 1, h)
    BY <2>4
  <2> QED BY <2>5
<1>3. Cardinality(S) \in G
  <2>1. Nat \subseteq G
    <3> HIDE DEF G
    <3> QED BY <1>1, <1>2, NumbersByInduction
  <2> QED BY <2>1, <1>0
<1>4. Level(S, Cardinality(S)) = SUBSET S
  BY FS_Subset, FS_CardinalityType DEF Level
<1> QED BY <1>3, <1>4 DEF IsSumTable

\* Tables of two index sets agree on the sets that both have.
LEMMA SumTablesAgree ==
  ASSUME NEW f, NEW S, IsFiniteSet(S), NEW g, IsSumTable(f, S, g),
         NEW T \in SUBSET S, NEW h, IsSumTable(f, T, h)
  PROVE  g[T] = h[T]
<1> DEFINE G == {s \in SUBSET T : \A t \in SUBSET s : g[t] = h[t]}
<1>1. ASSUME NEW s \in SUBSET T
      PROVE  g[s] = SumStep(f, g, s) /\ h[s] = SumStep(f, h, s)
  <2> DEFINE gg == [t \in SUBSET S |-> SumStep(f, g, t)]
             hh == [t \in SUBSET T |-> SumStep(f, h, t)]
  <2>1. gg[s] = SumStep(f, g, s) /\ hh[s] = SumStep(f, h, s)
    OBVIOUS
  <2>2. g = gg /\ h = hh
    BY DEF IsSumTable
  <2> QED BY <2>1, <2>2, Zenon
<1>2. ASSUME NEW s \in SUBSET T, \A x \in s : g[s \ {x}] = h[s \ {x}]
      PROVE  g[s] = h[s]
  BY <1>1, <1>2, SumStepReads
<1>3. {} \in G
  BY <1>2
<1>4. ASSUME NEW s \in SUBSET T, NEW x \in T \ s, s \in G
      PROVE  s \cup {x} \in G
  <2> DEFINE B == {t \in SUBSET (s \cup {x}) : g[t] # h[t]}
             K == {Cardinality(t) : t \in B}
  <2> SUFFICES ASSUME B # {} PROVE FALSE
    OBVIOUS
  <2>1. \A t \in SUBSET T : IsFiniteSet(t) /\ Cardinality(t) \in Nat
    BY FS_Subset, FS_CardinalityType
  <2>2. K \in SUBSET Nat /\ K # {}
    BY <2>1
  <2>3. PICK k \in K : \A j \in K : k <= j
    <3> HIDE DEF K
    <3> QED BY <2>2, LeastNumber
  <2>4. PICK t \in B : Cardinality(t) = k
    OBVIOUS
  <2>5. ASSUME NEW y \in t PROVE g[t \ {y}] = h[t \ {y}]
    <3>1. Cardinality(t \ {y}) = k - 1 /\ k \in Nat
      BY <2>1, <2>4, FS_RemoveElement
    <3>2. t \ {y} \notin B
      BY <2>3, <3>1
    <3> QED BY <3>2
  <2> QED BY <1>2, <2>5
<1>5. T \in G
  <2>1. IsFiniteSet(T)
    BY FS_Subset
  <2> HIDE DEF G
  <2> QED BY <1>3, <1>4, <2>1, SubsetsByInduction
<1> QED BY <1>5

-----------------------------------------------------------------------------
(* Sums. *)

LEMMA SumOfTable ==
  ASSUME NEW f, NEW S, IsFiniteSet(S), NEW g, IsSumTable(f, S, g),
         NEW T \in SUBSET S
  PROVE  SumFunctionOnSet(f, T) = g[T]
<1> DEFINE h == CHOOSE k : IsSumTable(f, T, k)
<1>1. IsFiniteSet(T)
  BY FS_Subset
<1>2. IsSumTable(f, T, h)
  BY <1>1, SumTableExists, Zenon
<1>3. SumFunctionOnSet(f, T) = h[T]
  BY SumIsFromTable, Zenon
<1> HIDE DEF h
<1> QED BY <1>2, <1>3, SumTablesAgree

\* The sum of nothing is 0.
LEMMA SumEmpty ==
  ASSUME NEW f
  PROVE  SumFunctionOnSet(f, {}) = 0
<1>1. IsFiniteSet({})
  BY FS_EmptySet
<1>2. PICK g : IsSumTable(f, {}, g)
  BY <1>1, SumTableExists, Zenon
<1>3. SumFunctionOnSet(f, {}) = g[{}]
  BY <1>1, <1>2, SumOfTable
<1>4. g[{}] = SumStep(f, g, {})
  <2> DEFINE gg == [t \in SUBSET {} |-> SumStep(f, g, t)]
  <2>1. gg[{}] = SumStep(f, g, {})
    OBVIOUS
  <2>2. g = gg
    BY <1>2 DEF IsSumTable
  <2> QED BY <2>1, <2>2, Zenon
<1>5. SumStep(f, g, {}) = 0
  BY Zenon DEF SumStep
<1> QED BY <1>3, <1>4, <1>5

\* Some element may be taken first.
LEMMA SumFirst ==
  ASSUME NEW f, NEW S, IsFiniteSet(S), S # {}
  PROVE  \E x \in S : SumFunctionOnSet(f, S) = f[x] + SumFunctionOnSet(f, S \ {x})
<1> DEFINE x == CHOOSE x \in S : TRUE
<1>1. PICK g : IsSumTable(f, S, g)
  BY SumTableExists, Zenon
<1>2. g[S] = SumStep(f, g, S)
  <2> DEFINE gg == [t \in SUBSET S |-> SumStep(f, g, t)]
  <2>1. gg[S] = SumStep(f, g, S)
    OBVIOUS
  <2>2. g = gg
    BY <1>1 DEF IsSumTable
  <2> QED BY <2>1, <2>2, Zenon
<1>3. SumStep(f, g, S) = f[x] + g[S \ {x}]
  BY Zenon DEF SumStep
<1>4. x \in S
  OBVIOUS
<1> HIDE DEF x
<1>5. SumFunctionOnSet(f, S) = g[S] /\ SumFunctionOnSet(f, S \ {x}) = g[S \ {x}]
  BY <1>1, SumOfTable
<1> QED BY <1>2, <1>3, <1>4, <1>5

\* A sum of integers is an integer, and one of natural numbers is one.
LEMMA SumInteger ==
  ASSUME NEW f, NEW S, IsFiniteSet(S), NEW N \in {Nat, Int}, \A x \in S : f[x] \in N
  PROVE  SumFunctionOnSet(f, S) \in N
<1> DEFINE G == {n \in Nat : \A T \in SUBSET S :
                     Cardinality(T) = n => SumFunctionOnSet(f, T) \in N}
<1>0. \A T \in SUBSET S : IsFiniteSet(T) /\ Cardinality(T) \in Nat
  BY FS_Subset, FS_CardinalityType
<1>1. 0 \in G
  <2>1. \A T \in SUBSET S : Cardinality(T) = 0 => T = {}
    BY <1>0, FS_EmptySet
  <2>2. SumFunctionOnSet(f, {}) \in N
    BY SumEmpty
  <2> QED BY <2>1, <2>2
<1>2. ASSUME NEW n \in Nat, n \in G PROVE n + 1 \in G
  <2> SUFFICES ASSUME NEW T \in SUBSET S, Cardinality(T) = n + 1
               PROVE  SumFunctionOnSet(f, T) \in N
    OBVIOUS
  <2>1. T # {}
    <3>1. Cardinality({}) = 0
      BY FS_EmptySet
    <3> QED BY <3>1
  <2>2. PICK y \in T : SumFunctionOnSet(f, T) = f[y] + SumFunctionOnSet(f, T \ {y})
    BY <1>0, <2>1, SumFirst
  <2>3. Cardinality(T \ {y}) = n
    <3>1. Cardinality(T \ {y}) = Cardinality(T) - 1
      BY <1>0, FS_RemoveElement
    <3> QED BY <3>1
  <2>4. SumFunctionOnSet(f, T \ {y}) \in N
    BY <1>2, <2>3
  <2>5. f[y] \in N
    OBVIOUS
  <2> QED BY <2>2, <2>4, <2>5
<1>3. Nat \subseteq G
  <2> HIDE DEF G
  <2> QED BY <1>1, <1>2, NumbersByInduction
<1> QED BY <1>0, <1>3

\* Any element may be taken first.
LEMMA SumElement ==
  ASSUME NEW f, NEW S, IsFiniteSet(S), \A x \in S : f[x] \in Int, NEW z \in S
  PROVE  SumFunctionOnSet(f, S) = f[z] + SumFunctionOnSet(f, S \ {z})
<1> DEFINE Q(T) == \A x \in T : SumFunctionOnSet(f, T) =
                                  f[x] + SumFunctionOnSet(f, T \ {x})
           G == {n \in Nat : \A T \in SUBSET S : Cardinality(T) = n => Q(T)}
<1>0. \A T \in SUBSET S : IsFiniteSet(T) /\ Cardinality(T) \in Nat
  BY FS_Subset, FS_CardinalityType
<1>1. 0 \in G
  <2>1. \A T \in SUBSET S : Cardinality(T) = 0 => T = {}
    BY <1>0, FS_EmptySet
  <2> QED BY <2>1
<1>2. ASSUME NEW n \in Nat, n \in G PROVE n + 1 \in G
  <2> SUFFICES ASSUME NEW T \in SUBSET S, Cardinality(T) = n + 1, NEW x \in T
               PROVE  SumFunctionOnSet(f, T) = f[x] + SumFunctionOnSet(f, T \ {x})
    OBVIOUS
  <2>1. PICK y \in T : SumFunctionOnSet(f, T) = f[y] + SumFunctionOnSet(f, T \ {y})
    BY <1>0, SumFirst
  <2>2. ASSUME NEW w \in T
        PROVE  Q(T \ {w})
    <3>1. Cardinality(T \ {w}) = Cardinality(T) - 1
      BY <1>0, FS_RemoveElement
    <3>2. Cardinality(T \ {w}) = n /\ T \ {w} \in SUBSET S
      BY <3>1
    <3> HIDE DEF Q
    <3> QED BY <1>2, <3>2
  <2>3. CASE x = y
    BY <2>1, <2>3
  <2>4. CASE x # y
    <3> DEFINE rest == SumFunctionOnSet(f, (T \ {y}) \ {x})
    <3>1. (T \ {x}) \ {y} = (T \ {y}) \ {x}
      OBVIOUS
    <3>2. SumFunctionOnSet(f, T \ {x}) = f[y] + rest
      BY <2>2, <2>4, <3>1
    <3>3. SumFunctionOnSet(f, T \ {y}) = f[x] + rest
      BY <2>2, <2>4
    <3>4. rest \in Int
      <4>1. IsFiniteSet((T \ {y}) \ {x}) /\ \A w \in (T \ {y}) \ {x} : f[w] \in Int
        BY <1>0
      <4> QED BY <4>1, SumInteger
    <3>5. f[x] \in Int /\ f[y] \in Int
      OBVIOUS
    <3> HIDE DEF rest
    <3> QED BY <2>1, <3>2, <3>3, <3>4, <3>5
  <2> QED BY <2>3, <2>4
<1>3. Nat \subseteq G
  <2> HIDE DEF G
  <2> QED BY <1>1, <1>2, NumbersByInduction
<1> QED BY <1>0, <1>3

\* What is added to a set is added to its sum.
LEMMA SumAdd ==
  ASSUME NEW f, NEW S, IsFiniteSet(S), NEW x, x \notin S,
         \A y \in S \cup {x} : f[y] \in Int
  PROVE  SumFunctionOnSet(f, S \cup {x}) = f[x] + SumFunctionOnSet(f, S)
<1>1. IsFiniteSet(S \cup {x}) /\ (S \cup {x}) \ {x} = S
  BY FS_AddElement
<1>2. x \in S \cup {x}
  OBVIOUS
<1> QED BY <1>1, <1>2, SumElement

\* A sum depends on the values of its elements only.
LEMMA SumSame ==
  ASSUME NEW f, NEW g, NEW S, IsFiniteSet(S), \A x \in S : f[x] \in Int /\ g[x] = f[x]
  PROVE  SumFunctionOnSet(g, S) = SumFunctionOnSet(f, S)
<1> DEFINE G == {T \in SUBSET S : SumFunctionOnSet(g, T) = SumFunctionOnSet(f, T)}
<1>1. {} \in G
  BY SumEmpty
<1>2. ASSUME NEW T \in SUBSET S, NEW x \in S \ T, T \in G
      PROVE  T \cup {x} \in G
  <2>1. IsFiniteSet(T)
    BY FS_Subset
  <2>2. \A y \in T \cup {x} : f[y] \in Int /\ g[y] \in Int
    OBVIOUS
  <2>3. SumFunctionOnSet(f, T \cup {x}) = f[x] + SumFunctionOnSet(f, T)
    BY <2>1, <2>2, SumAdd
  <2>4. SumFunctionOnSet(g, T \cup {x}) = g[x] + SumFunctionOnSet(g, T)
    BY <2>1, <2>2, SumAdd
  <2> QED BY <1>2, <2>3, <2>4
<1> HIDE DEF G
<1>3. S \in G
  BY <1>1, <1>2, SubsetsByInduction
<1> QED BY <1>3 DEF G

\* When one value changes, the sum changes by the difference.
LEMMA SumChange ==
  ASSUME NEW f, NEW g, NEW S, IsFiniteSet(S), NEW x \in S,
         \A y \in S : f[y] \in Int /\ g[y] \in Int,
         \A y \in S \ {x} : g[y] = f[y]
  PROVE  SumFunctionOnSet(g, S) = SumFunctionOnSet(f, S) + (g[x] - f[x])
<1>1. IsFiniteSet(S \ {x})
  BY FS_Subset
<1>2. SumFunctionOnSet(g, S \ {x}) = SumFunctionOnSet(f, S \ {x})
  BY <1>1, SumSame
<1>3. SumFunctionOnSet(f, S \ {x}) \in Int
  BY <1>1, SumInteger
<1>4. SumFunctionOnSet(f, S) = f[x] + SumFunctionOnSet(f, S \ {x})
  BY SumElement
<1>5. SumFunctionOnSet(g, S) = g[x] + SumFunctionOnSet(g, S \ {x})
  BY SumElement
<1>6. f[x] \in Int /\ g[x] \in Int
  OBVIOUS
<1> QED BY <1>2, <1>3, <1>4, <1>5, <1>6

\* The same value for every element.
LEMMA SumConstant ==
  ASSUME NEW f, NEW S, IsFiniteSet(S), NEW c \in Int, \A x \in S : f[x] = c
  PROVE  SumFunctionOnSet(f, S) = c * Cardinality(S)
<1> DEFINE G == {T \in SUBSET S : SumFunctionOnSet(f, T) = c * Cardinality(T)}
<1>1. {} \in G
  <2>1. c * 0 = 0
    OBVIOUS
  <2> QED BY <2>1, SumEmpty, FS_EmptySet
<1>2. ASSUME NEW T \in SUBSET S, NEW x \in S \ T, T \in G
      PROVE  T \cup {x} \in G
  <2>1. IsFiniteSet(T) /\ Cardinality(T) \in Nat
    BY FS_Subset, FS_CardinalityType
  <2>2. SumFunctionOnSet(f, T \cup {x}) = f[x] + SumFunctionOnSet(f, T)
    BY <2>1, SumAdd
  <2>3. Cardinality(T \cup {x}) = Cardinality(T) + 1
    BY <2>1, FS_AddElement
  <2>4. c * (Cardinality(T) + 1) = c * Cardinality(T) + c
    BY <2>1
  <2>5. c * Cardinality(T) \in Int
    BY <2>1
  <2> QED BY <1>2, <2>2, <2>3, <2>4, <2>5
<1> HIDE DEF G
<1>3. S \in G
  BY <1>1, <1>2, SubsetsByInduction
<1> QED BY <1>3 DEF G

\* One element is given another value, or is new.
LEMMA SumExtend ==
  ASSUME NEW f, NEW g, NEW S, IsFiniteSet(S), NEW x, g[x] \in Int,
         \A y \in S : f[y] \in Int,
         \A y \in S \ {x} : g[y] = f[y]
  PROVE  SumFunctionOnSet(g, S \cup {x})
           = SumFunctionOnSet(f, S) + (g[x] - IF x \in S THEN f[x] ELSE 0)
<1>0. SumFunctionOnSet(f, S) \in Int
  BY SumInteger
<1>1. CASE x \in S
  <2>1. S \cup {x} = S /\ \A y \in S : g[y] \in Int
    BY <1>1
  <2>2. SumFunctionOnSet(g, S) = SumFunctionOnSet(f, S) + (g[x] - f[x])
    BY <1>1, <2>1, SumChange
  <2> QED BY <1>1, <2>1, <2>2
<1>2. CASE x \notin S
  <2>1. \A y \in S : g[y] = f[y]
    BY <1>2
  <2>2. SumFunctionOnSet(g, S \cup {x}) = g[x] + SumFunctionOnSet(g, S)
    BY <1>2, <2>1, SumAdd
  <2>3. SumFunctionOnSet(g, S) = SumFunctionOnSet(f, S)
    BY <2>1, SumSame
  <2> QED BY <1>0, <1>2, <2>2, <2>3
<1> QED BY <1>1, <1>2

\* Sums are added term by term, and scaled term by term.
LEMMA SumTermByTerm ==
  ASSUME NEW f, NEW g, NEW h, NEW S, IsFiniteSet(S), NEW c \in Int,
         \A x \in S : f[x] \in Int /\ g[x] \in Int /\ h[x] = f[x] + c * g[x]
  PROVE  SumFunctionOnSet(h, S) = SumFunctionOnSet(f, S) + c * SumFunctionOnSet(g, S)
<1> DEFINE G == {T \in SUBSET S : SumFunctionOnSet(h, T) =
                     SumFunctionOnSet(f, T) + c * SumFunctionOnSet(g, T)}
<1>1. {} \in G
  BY SumEmpty
<1>2. ASSUME NEW T \in SUBSET S, NEW x \in S \ T, T \in G
      PROVE  T \cup {x} \in G
  <2>1. IsFiniteSet(T)
    BY FS_Subset
  <2>2. f[x] \in Int /\ g[x] \in Int /\ h[x] = f[x] + c * g[x]
    OBVIOUS
  <2>3. \A y \in T \cup {x} : f[y] \in Int /\ g[y] \in Int /\ h[y] \in Int
    <3>1. \A y \in S : f[y] + c * g[y] \in Int
      OBVIOUS
    <3> QED BY <3>1
  <2>4. SumFunctionOnSet(f, T) \in Int /\ SumFunctionOnSet(g, T) \in Int
    BY <2>1, <2>3, SumInteger
  <2>5. /\ SumFunctionOnSet(f, T \cup {x}) = f[x] + SumFunctionOnSet(f, T)
        /\ SumFunctionOnSet(g, T \cup {x}) = g[x] + SumFunctionOnSet(g, T)
        /\ SumFunctionOnSet(h, T \cup {x}) = h[x] + SumFunctionOnSet(h, T)
    BY <2>1, <2>3, SumAdd
  <2>6. SumFunctionOnSet(h, T) = SumFunctionOnSet(f, T) + c * SumFunctionOnSet(g, T)
    BY <1>2
  <2> DEFINE F == SumFunctionOnSet(f, T)
             H == SumFunctionOnSet(g, T)
  <2>7. F \in Int /\ H \in Int
    BY <2>4
  <2> HIDE DEF F, H
  <2>8. (f[x] + c * g[x]) + (F + c * H) = (f[x] + F) + c * (g[x] + H)
    BY <2>2, <2>7
  <2>9. SumFunctionOnSet(h, T \cup {x}) = SumFunctionOnSet(f, T \cup {x})
          + c * SumFunctionOnSet(g, T \cup {x})
    BY <2>2, <2>5, <2>6, <2>8 DEF F, H
  <2> QED BY <2>9
<1> HIDE DEF G
<1>3. S \in G
  BY <1>1, <1>2, SubsetsByInduction
<1> QED BY <1>3 DEF G

\* All elements but one have the value 0.
LEMMA SumSingle ==
  ASSUME NEW f, NEW S, IsFiniteSet(S), NEW x \in S, f[x] \in Int,
         \A y \in S \ {x} : f[y] = 0
  PROVE  SumFunctionOnSet(f, S) = f[x]
<1>1. IsFiniteSet(S \ {x}) /\ Cardinality(S \ {x}) \in Nat
  BY FS_Subset, FS_CardinalityType
<1>2. SumFunctionOnSet(f, S \ {x}) = 0 * Cardinality(S \ {x})
  BY <1>1, SumConstant
<1>3. \A y \in S : f[y] \in Int
  OBVIOUS
<1>4. SumFunctionOnSet(f, S) = f[x] + SumFunctionOnSet(f, S \ {x})
  BY <1>3, SumElement
<1> QED BY <1>1, <1>2, <1>4
=============================================================================
