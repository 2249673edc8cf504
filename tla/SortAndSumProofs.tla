-------------------------- MODULE SortAndSumProofs ---------------------------
(***************************************************************************)
(* The finite arguments the other proofs share: least and greatest, what a *)
(* sum of natural numbers is, what counting who comes before says of an    *)
(* order, and from that what a stable sort does: it visits every place     *)
(* once and in ascending order of keys, for every sequence of integer keys.*)
(***************************************************************************)
EXTENDS StableSort, FiniteSetsExt, FiniteSetTheorems, WellFoundedInduction, TLAPS

\* A set of natural numbers that is not empty has a least one.
LEMMA LeastNatural ==
  ASSUME NEW S \in SUBSET Nat, S # {}
  PROVE  Min(S) \in S /\ \A y \in S : Min(S) <= y
<1>1. \E x \in S : \A y \in S : ~(<<y, x>> \in OpToRel(<, Nat))
  BY WFMin, NatLessThanWellFounded, Zenon
<1>2. \A x \in S, y \in S : y < x => <<y, x>> \in OpToRel(<, Nat)
  BY Zenon DEF OpToRel
<1>3. \E x \in S : \A y \in S : ~(y < x)
  BY <1>1, <1>2, Zenon
<1>4. \E x \in S : \A y \in S : x <= y
  BY <1>3
<1>5. QED
  BY <1>4 DEF Min

\* One that is bounded has a greatest.
LEMMA GreatestNatural ==
  ASSUME NEW S \in SUBSET Nat, S # {}, NEW n \in Nat, \A x \in S : x <= n
  PROVE  Max(S) \in S /\ \A y \in S : y <= Max(S)
<1> DEFINE B == {b \in Nat : \A x \in S : x <= b}
           g == Min(B)
<1>1. n \in B
  OBVIOUS
<1> HIDE DEF B
<1>2. B \subseteq Nat
  BY DEF B
<1>3. g \in B /\ \A b \in B : g <= b
  BY <1>1, <1>2, LeastNatural
<1> HIDE DEF g
<1>4. g \in Nat /\ \A x \in S : x <= g
  BY <1>3 DEF B
<1>5. g \in S
  <2> SUFFICES ASSUME g \notin S PROVE FALSE
    OBVIOUS
  <2>1. \A x \in S : x \in Nat /\ x < g
    BY <1>4
  <2>2. g - 1 \in Nat /\ \A x \in S : x <= g - 1
    <3>1. PICK x \in S : x \in Nat /\ x < g
      BY <2>1
    <3>2. QED
      BY <1>4, <2>1, <3>1
  <2>3. g - 1 \in B
    BY <2>2 DEF B
  <2>4. QED
    BY <1>3, <1>4, <2>3
<1>6. \E x \in S : \A y \in S : x >= y
  BY <1>4, <1>5
<1>7. Max(S) \in S /\ \A y \in S : Max(S) >= y
  BY <1>6 DEF Max
<1>8. QED
  BY <1>7

\* Of some subsets of a finite set one has no smaller one among them.
LEMMA SmallestSet ==
  ASSUME NEW S, IsFiniteSet(S), NEW Some \in SUBSET SUBSET S, Some # {}
  PROVE  \E s \in Some : IsFiniteSet(s) /\ \A t \in SUBSET s : t # s => t \notin Some
<1> DEFINE sizes == {Cardinality(s) : s \in Some}
<1>1. \A s \in Some : IsFiniteSet(s) /\ Cardinality(s) \in Nat
  BY FS_Subset, FS_CardinalityType
<1>2. sizes \in SUBSET Nat /\ sizes # {}
  BY <1>1
<1>3. PICK n \in sizes : \A m \in sizes : n <= m
  <2> HIDE DEF sizes
  <2>1. QED
    BY <1>2, LeastNatural
<1>4. PICK s \in Some : Cardinality(s) = n
  OBVIOUS
<1>5. ASSUME NEW t \in SUBSET s, t # s, t \in Some PROVE FALSE
  <2>1. Cardinality(t) <= Cardinality(s) /\ Cardinality(s) # Cardinality(t)
    BY <1>1, <1>5, FS_Subset
  <2>2. n <= Cardinality(t) /\ n \in Nat /\ Cardinality(t) \in Nat
    BY <1>1, <1>2, <1>3, <1>5
  <2>3. QED
    BY <1>4, <2>1, <2>2
<1>6. QED
  BY <1>1, <1>5

-----------------------------------------------------------------------------
(* Sums.  What SumFunctionOnSet computes is how many ticks there are, F[i]   *)
(* of them for each i: so the order in which it picks does not matter.       *)

Ticks(F, S) == {t \in S \X Nat : t[2] \in 1..F[t[1]]}

LEMMA TicksOfOneMore ==
  ASSUME NEW F, NEW s, NEW x \in s, F[x] \in Nat, IsFiniteSet(Ticks(F, s \ {x}))
  PROVE  /\ IsFiniteSet(Ticks(F, s))
         /\ Cardinality(Ticks(F, s)) = F[x] + Cardinality(Ticks(F, s \ {x}))
<1> DEFINE own == {x} \X (1..F[x])
           rest == Ticks(F, s \ {x})
<1>1. own \cup rest = Ticks(F, s)
  <2>1. \A t : t \in own \cup rest <=> t \in Ticks(F, s)
    BY DEF Ticks
  <2>2. QED
    BY <2>1
<1>2. own \cap rest = {}
  BY DEF Ticks
<1>3. IsFiniteSet(own) /\ Cardinality(own) = F[x]
  <2>1. IsFiniteSet({x}) /\ Cardinality({x}) = 1
    BY FS_Singleton
  <2> DEFINE n == F[x]
  <2>2. n \in Nat
    OBVIOUS
  <2> HIDE DEF n
  <2>3. IsFiniteSet(1..n) /\ Cardinality(1..n) = IF 1 > n THEN 0 ELSE n - 1 + 1
    BY <2>2, FS_Interval
  <2>4. Cardinality(1..n) = n
    BY <2>2, <2>3
  <2>5. IsFiniteSet({x} \X (1..n)) /\ Cardinality({x} \X (1..n)) = Cardinality({x}) * Cardinality(1..n)
    BY <2>1, <2>3, FS_Product
  <2>6. IsFiniteSet({x} \X (1..n)) /\ Cardinality({x} \X (1..n)) = n
    BY <2>1, <2>2, <2>4, <2>5
  <2>7. QED
    BY <2>6 DEF n
<1> HIDE DEF own, rest
<1>4. IsFiniteSet(own \cup rest)
      /\ Cardinality(own \cup rest) = Cardinality(own) + Cardinality(rest) - Cardinality(own \cap rest)
  BY <1>3, FS_Union DEF rest
<1>5. Cardinality(own \cap rest) = 0
  BY <1>2, FS_EmptySet
<1>6. Cardinality(rest) \in Nat
  BY FS_CardinalityType DEF rest
<1>7. Cardinality(own \cup rest) = F[x] + Cardinality(rest)
  BY <1>3, <1>4, <1>5, <1>6
<1>8. QED
  BY <1>1, <1>4, <1>7 DEF rest

LEMMA TicksAreFinite ==
  ASSUME NEW S, IsFiniteSet(S), NEW F, \A i \in S : F[i] \in Nat
  PROVE  \A s \in SUBSET S : IsFiniteSet(Ticks(F, s))
<1> DEFINE Bad == {s \in SUBSET S : ~IsFiniteSet(Ticks(F, s))}
<1> SUFFICES ASSUME Bad # {} PROVE FALSE
  OBVIOUS
<1>1. \E s \in Bad : \A t \in SUBSET s : t # s => t \notin Bad
  <2>1. Bad \in SUBSET SUBSET S
    OBVIOUS
  <2> HIDE DEF Bad
  <2>2. QED
    BY <2>1, SmallestSet
<1>0. PICK s \in Bad : \A t \in SUBSET s : t # s => t \notin Bad
  BY <1>1
<1>2. CASE s = {}
  <2>1. Ticks(F, s) = {}
    BY <1>2 DEF Ticks
  <2>2. QED
    BY <2>1, FS_EmptySet
<1>3. CASE s # {}
  <2>1. PICK x \in s : TRUE
    BY <1>3
  <2>2. IsFiniteSet(Ticks(F, s \ {x}))
    <3>1. s \ {x} \in SUBSET s /\ s \ {x} # s /\ s \ {x} \in SUBSET S
      OBVIOUS
    <3>2. s \ {x} \notin Bad
      BY <1>0, <3>1
    <3>3. QED
      BY <3>1, <3>2
  <2>3. F[x] \in Nat
    OBVIOUS
  <2>4. QED
    BY <2>2, <2>3, TicksOfOneMore
<1>4. QED
  BY <1>2, <1>3

\* The library's recursion, of which it picks some solution h.
SumRecursion(F, S, h) ==
  h = [s \in SUBSET S |->
         IF s = {} THEN 0 ELSE LET x == CHOOSE x \in s : TRUE IN F[x] + h[s \ {x}]]

LEMMA SumIsTicks ==
  ASSUME NEW S, IsFiniteSet(S), NEW F, \A i \in S : F[i] \in Nat
  PROVE  SumFunctionOnSet(F, S) = Cardinality(Ticks(F, S))
<1> DEFINE c == [s \in SUBSET S |-> Cardinality(Ticks(F, s))]
<1>1. \A s \in SUBSET S : IsFiniteSet(Ticks(F, s))
  BY TicksAreFinite
<1>2. ASSUME NEW s \in SUBSET S, NEW x \in s
      PROVE  c[s] = F[x] + c[s \ {x}] /\ s \ {x} \in SUBSET S
  <2>1. s \ {x} \in SUBSET S /\ F[x] \in Nat
    OBVIOUS
  <2>2. IsFiniteSet(Ticks(F, s \ {x}))
    BY <1>1, <2>1
  <2>3. Cardinality(Ticks(F, s)) = F[x] + Cardinality(Ticks(F, s \ {x}))
    BY <2>1, <2>2, TicksOfOneMore
  <2>4. c[s] = Cardinality(Ticks(F, s)) /\ c[s \ {x}] = Cardinality(Ticks(F, s \ {x}))
    BY <2>1
  <2> HIDE DEF c
  <2>5. QED
    BY <2>1, <2>3, <2>4
<1>3. c[{}] = 0
  <2>1. Ticks(F, {}) = {}
    BY DEF Ticks
  <2>2. Cardinality(Ticks(F, {})) = 0
    BY <2>1, FS_EmptySet
  <2>3. QED
    BY <2>2
<1>4. \E h : SumRecursion(F, S, h)
  <2>1. \A s \in SUBSET S :
          c[s] = IF s = {} THEN 0 ELSE LET x == CHOOSE x \in s : TRUE IN F[x] + c[s \ {x}]
    <3> HIDE DEF c
    <3> SUFFICES ASSUME NEW s \in SUBSET S, s # {}
                 PROVE  c[s] = LET x == CHOOSE x \in s : TRUE IN F[x] + c[s \ {x}]
      BY <1>3
    <3>1. (CHOOSE x \in s : TRUE) \in s
      OBVIOUS
    <3>2. QED
      BY <1>2, <3>1
  <2>2. c = [s \in SUBSET S |-> c[s]]
    OBVIOUS
  <2> HIDE DEF c
  <2>3. SumRecursion(F, S, c)
    BY <2>1, <2>2 DEF SumRecursion
  <2>4. QED
    BY <2>3
<1>5. \E h : SumRecursion(F, S, h) /\ SumFunctionOnSet(F, S) = h[S]
  BY <1>4 DEF SumRecursion, SumFunctionOnSet, FoldFunctionOnSet, MapThenFoldSet
<1>6. PICK h : SumRecursion(F, S, h) /\ SumFunctionOnSet(F, S) = h[S]
  BY <1>5
<1> HIDE DEF c
<1>7. \A s \in SUBSET S : h[s] = c[s]
  <2> DEFINE Bad == {s \in SUBSET S : h[s] # c[s]}
  <2> SUFFICES ASSUME Bad # {} PROVE FALSE
    OBVIOUS
  <2>1. \E s \in Bad : \A t \in SUBSET s : t # s => t \notin Bad
    <3>1. Bad \in SUBSET SUBSET S
      OBVIOUS
    <3> HIDE DEF Bad
    <3>2. QED
      BY <3>1, SmallestSet
  <2>0. PICK s \in Bad : \A t \in SUBSET s : t # s => t \notin Bad
    BY <2>1
  <2>2. h[s] = IF s = {} THEN 0 ELSE LET x == CHOOSE x \in s : TRUE IN F[x] + h[s \ {x}]
    BY <1>6 DEF SumRecursion
  <2>3. CASE s = {}
    BY <1>3, <2>2, <2>3
  <2>4. CASE s # {}
    <3>1. PICK x \in s : h[s] = F[x] + h[s \ {x}]
      <4>1. (CHOOSE x \in s : TRUE) \in s
        BY <2>4
      <4>2. QED
        BY <2>2, <2>4, <4>1
    <3>2. h[s \ {x}] = c[s \ {x}]
      <4>1. s \ {x} \in SUBSET s /\ s \ {x} # s /\ s \ {x} \in SUBSET S
        OBVIOUS
      <4>2. s \ {x} \notin Bad
        BY <2>0, <4>1
      <4>3. QED
        BY <4>1, <4>2
    <3>3. QED
      BY <1>2, <3>1, <3>2
  <2>5. QED
    BY <2>3, <2>4
<1>8. QED
  BY <1>6, <1>7 DEF c

\* A sum of natural numbers, with one more of them, and of the same numbers.
LEMMA SumIsNatural ==
  ASSUME NEW S, IsFiniteSet(S), NEW F, \A i \in S : F[i] \in Nat
  PROVE  SumFunctionOnSet(F, S) \in Nat
<1>1. IsFiniteSet(Ticks(F, S))
  BY TicksAreFinite
<1>2. QED
  BY <1>1, SumIsTicks, FS_CardinalityType

LEMMA EmptySum ==
  ASSUME NEW F
  PROVE  SumFunctionOnSet(F, {}) = 0
<1>1. SumFunctionOnSet(F, {}) = Cardinality(Ticks(F, {}))
  BY SumIsTicks, FS_EmptySet
<1>2. Ticks(F, {}) = {}
  BY DEF Ticks
<1>3. QED
  BY <1>1, <1>2, FS_EmptySet

LEMMA SumOfOneMore ==
  ASSUME NEW S, IsFiniteSet(S), NEW x, x \notin S, NEW F, \A i \in S \cup {x} : F[i] \in Nat
  PROVE  SumFunctionOnSet(F, S \cup {x}) = SumFunctionOnSet(F, S) + F[x]
<1> DEFINE more == S \cup {x}
<1>1. IsFiniteSet(more)
  BY FS_AddElement
<1>2. SumFunctionOnSet(F, more) = Cardinality(Ticks(F, more))
  BY <1>1, SumIsTicks
<1>3. SumFunctionOnSet(F, S) = Cardinality(Ticks(F, S)) /\ SumFunctionOnSet(F, S) \in Nat
  BY SumIsTicks, SumIsNatural
<1>4. more \ {x} = S
  OBVIOUS
<1>5. IsFiniteSet(Ticks(F, S)) /\ x \in more /\ F[x] \in Nat
  BY TicksAreFinite
<1> HIDE DEF more
<1>6. Cardinality(Ticks(F, more)) = F[x] + Cardinality(Ticks(F, S))
  BY <1>4, <1>5, TicksOfOneMore
<1>7. SumFunctionOnSet(F, more) = SumFunctionOnSet(F, S) + F[x]
  BY <1>2, <1>3, <1>5, <1>6
<1>8. QED
  BY <1>7 DEF more

LEMMA SumsAgree ==
  ASSUME NEW S, IsFiniteSet(S), NEW F, NEW G, \A i \in S : F[i] \in Nat /\ F[i] = G[i]
  PROVE  SumFunctionOnSet(F, S) = SumFunctionOnSet(G, S)
<1>1. Ticks(F, S) = Ticks(G, S)
  <2>1. \A t : t \in Ticks(F, S) <=> t \in Ticks(G, S)
    BY DEF Ticks
  <2>2. QED
    BY <2>1
<1>2. QED
  BY <1>1, SumIsTicks

\* A list with one more number at its end.
LEMMA SumOfLonger ==
  ASSUME NEW n \in Nat, NEW F, NEW G, DOMAIN F = 1..n, DOMAIN G = 1..(n + 1),
         \A i \in 1..n : F[i] = G[i] /\ F[i] \in Nat, G[n + 1] \in Nat
  PROVE  SumFunction(G) = SumFunction(F) + G[n + 1]
<1>1. 1..(n + 1) = (1..n) \cup {n + 1} /\ n + 1 \notin 1..n
  OBVIOUS
<1>2. IsFiniteSet(1..n)
  BY FS_Interval
<1>3. \A i \in (1..n) \cup {n + 1} : G[i] \in Nat
  OBVIOUS
<1>4. SumFunctionOnSet(G, (1..n) \cup {n + 1}) = SumFunctionOnSet(G, 1..n) + G[n + 1]
  BY <1>1, <1>2, <1>3, SumOfOneMore
<1>5. SumFunctionOnSet(F, 1..n) = SumFunctionOnSet(G, 1..n)
  BY <1>2, SumsAgree
<1>6. QED
  BY <1>1, <1>4, <1>5 DEF SumFunction

\* What is nowhere smaller has no smaller sum.
LEMMA SumGrows ==
  ASSUME NEW S, IsFiniteSet(S), NEW F, NEW G,
         \A i \in S : F[i] \in Nat /\ G[i] \in Nat /\ F[i] <= G[i]
  PROVE  SumFunctionOnSet(F, S) <= SumFunctionOnSet(G, S)
<1>1. Ticks(F, S) \subseteq Ticks(G, S)
  BY DEF Ticks
<1>2. IsFiniteSet(Ticks(G, S))
  BY TicksAreFinite
<1>3. Cardinality(Ticks(F, S)) <= Cardinality(Ticks(G, S))
  BY <1>1, <1>2, FS_Subset
<1>4. QED
  BY <1>3, SumIsTicks

-----------------------------------------------------------------------------
\* R is a strict total order on S.
StrictTotalOrder(R, S) ==
  /\ \A a \in S : <<a, a>> \notin R
  /\ \A a, b, c \in S : <<a, b>> \in R /\ <<b, c>> \in R => <<a, c>> \in R
  /\ \A a, b \in S : a # b => <<a, b>> \in R \/ <<b, a>> \in R

Preceding(R, S, b) == {a \in S : <<a, b>> \in R}

\* Counting who comes before gives each member of a finite set a rank of its
\* own, from 1 up to the size of the set, in the order.
LEMMA Ranking ==
  ASSUME NEW S, IsFiniteSet(S), NEW R, StrictTotalOrder(R, S), NEW rank,
         rank = [b \in S |-> Cardinality(Preceding(R, S, b)) + 1]
  PROVE  /\ rank \in Bijection(S, 1..Cardinality(S))
         /\ \A a, b \in S : <<a, b>> \in R <=> rank[a] < rank[b]
         /\ \A b \in S : /\ IsFiniteSet(Preceding(R, S, b)) /\ b \notin Preceding(R, S, b)
                         /\ Cardinality(Preceding(R, S, b)) \in Nat
<1> DEFINE n == Cardinality(S)
<1>1. n \in Nat
  BY FS_CardinalityType
<1>2. ASSUME NEW b \in S
      PROVE  /\ IsFiniteSet(Preceding(R, S, b)) /\ b \notin Preceding(R, S, b)
             /\ Cardinality(Preceding(R, S, b)) \in Nat
             /\ Cardinality(Preceding(R, S, b) \cup {b}) = Cardinality(Preceding(R, S, b)) + 1
             /\ rank[b] = Cardinality(Preceding(R, S, b)) + 1
             /\ rank[b] \in 1..n /\ rank[b] \in Nat
  <2>1. Preceding(R, S, b) \subseteq S /\ b \notin Preceding(R, S, b)
    BY DEF Preceding, StrictTotalOrder
  <2>2. IsFiniteSet(Preceding(R, S, b))
    BY <2>1, FS_Subset
  <2>3. Cardinality(Preceding(R, S, b)) \in Nat
    BY <2>2, FS_CardinalityType
  <2>4. Cardinality(Preceding(R, S, b) \cup {b}) = Cardinality(Preceding(R, S, b)) + 1
    BY <2>1, <2>2, FS_AddElement
  <2>5. Cardinality(Preceding(R, S, b) \cup {b}) <= n
    BY <2>1, FS_Subset
  <2> HIDE DEF n
  <2>6. QED
    BY <1>1, <2>1, <2>2, <2>3, <2>4, <2>5
<1>3. ASSUME NEW a \in S, NEW b \in S, <<a, b>> \in R
      PROVE  rank[a] < rank[b]
  <2>1. Preceding(R, S, a) \cup {a} \subseteq Preceding(R, S, b)
    BY <1>3 DEF Preceding, StrictTotalOrder
  <2>2. Cardinality(Preceding(R, S, a) \cup {a}) <= Cardinality(Preceding(R, S, b))
    BY <1>2, <2>1, FS_Subset
  <2>3. /\ Cardinality(Preceding(R, S, a) \cup {a}) = Cardinality(Preceding(R, S, a)) + 1
        /\ rank[a] = Cardinality(Preceding(R, S, a)) + 1
    BY <1>2
  <2>4. rank[b] = Cardinality(Preceding(R, S, b)) + 1 /\ Cardinality(Preceding(R, S, b)) \in Nat
    BY <1>2
  <2>5. rank[a] \in Nat
    BY <1>2
  <2>6. rank[a] <= Cardinality(Preceding(R, S, b))
    BY <2>2, <2>3
  <2>7. QED
    BY <2>4, <2>5, <2>6
<1>4. ASSUME NEW a \in S, NEW b \in S
      PROVE  <<a, b>> \in R <=> rank[a] < rank[b]
  <2>1. rank[a] \in Nat /\ rank[b] \in Nat
    BY <1>2
  <2>2. CASE <<a, b>> \in R
    BY <1>3, <2>2
  <2>3. CASE <<a, b>> \notin R
    <3>1. a = b \/ <<b, a>> \in R
      BY <2>3 DEF StrictTotalOrder
    <3>2. a = b \/ rank[b] < rank[a]
      BY <1>3, <3>1
    <3>3. QED
      BY <2>1, <2>3, <3>2
  <2>4. QED
    BY <2>2, <2>3
<1>5. rank \in Injection(S, 1..n)
  <2>1. ASSUME NEW a \in S, NEW b \in S, rank[a] = rank[b] PROVE a = b
    <3>1. rank[a] \in Nat /\ rank[b] \in Nat
      BY <1>2
    <3>2. QED
      BY <1>4, <2>1, <3>1 DEF StrictTotalOrder
  <2>2. rank \in [S -> 1..n]
    BY <1>2
  <2>3. QED
    BY <2>1, <2>2 DEF Injection, IsInjective
<1>6. rank \in Surjection(S, 1..n)
  <2>1. IsFiniteSet(1..n) /\ Cardinality(1..n) = n
    <3> HIDE DEF n
    <3>1. QED
      BY <1>1, FS_Interval
  <2>2. QED
    BY <1>5, <2>1, FS_Injection
<1>7. QED
  BY <1>2, <1>4, <1>5, <1>6 DEF Bijection

\* A finite set that is not empty has a first member.
LEMMA FirstOfAll ==
  ASSUME NEW S, IsFiniteSet(S), S # {}, NEW R, StrictTotalOrder(R, S)
  PROVE  \E m \in S : \A b \in S \ {m} : <<m, b>> \in R
<1> DEFINE rank == [b \in S |-> Cardinality(Preceding(R, S, b)) + 1]
<1>1. Cardinality(S) \in Nat /\ Cardinality(S) # 0
  BY FS_CardinalityType, FS_EmptySet
<1>2. /\ rank \in Bijection(S, 1..Cardinality(S))
      /\ \A a, b \in S : <<a, b>> \in R <=> rank[a] < rank[b]
  BY Ranking
<1> HIDE DEF rank
<1>3. \A b \in S : rank[b] \in 1..Cardinality(S)
  BY <1>2 DEF Bijection, Surjection
<1>4. PICK m \in S : rank[m] = 1
  BY <1>1, <1>2 DEF Bijection, Surjection
<1>5. \A b \in S \ {m} : rank[b] # 1
  BY <1>2, <1>4 DEF Bijection, Injection, IsInjective
<1>6. QED
  BY <1>1, <1>2, <1>3, <1>4, <1>5

-----------------------------------------------------------------------------
Visits(keys) ==
  {p \in (DOMAIN keys) \X (DOMAIN keys) : VisitedBefore(keys, p[1], p[2])}

\* The turns are the ranks of the visits.
LEMMA TurnsAreRanks ==
  ASSUME NEW keys \in Seq(Int)
  PROVE  /\ [j \in DOMAIN keys |-> Turn(keys, j)] \in Bijection(DOMAIN keys, 1..Len(keys))
         /\ \A i, j \in DOMAIN keys : VisitedBefore(keys, i, j) <=> Turn(keys, i) < Turn(keys, j)
<1> DEFINE D == DOMAIN keys
           turn == [j \in D |-> Turn(keys, j)]
<1>1. D = 1..Len(keys) /\ Len(keys) \in Nat /\ \A i \in D : keys[i] \in Int /\ i \in Int
  OBVIOUS
<1>2. IsFiniteSet(D) /\ Cardinality(D) = Len(keys)
  <2>1. /\ IsFiniteSet(1..Len(keys))
        /\ Cardinality(1..Len(keys)) = IF 1 > Len(keys) THEN 0 ELSE Len(keys) - 1 + 1
    BY <1>1, FS_Interval
  <2>2. QED
    BY <1>1, <2>1
<1>3. \A i, j \in D : <<i, j>> \in Visits(keys) <=> VisitedBefore(keys, i, j)
  BY DEF Visits
<1>4. StrictTotalOrder(Visits(keys), D)
  <2>1. \A i, j, k \in D :
          /\ ~VisitedBefore(keys, i, i)
          /\ VisitedBefore(keys, i, j) /\ VisitedBefore(keys, j, k) => VisitedBefore(keys, i, k)
          /\ i # j => VisitedBefore(keys, i, j) \/ VisitedBefore(keys, j, i)
    BY <1>1 DEF VisitedBefore
  <2> HIDE DEF D
  <2>2. QED
    BY <1>3, <2>1 DEF StrictTotalOrder
<1>5. turn = [j \in D |-> Cardinality(Preceding(Visits(keys), D, j)) + 1]
  <2>1. \A j \in D : Preceding(Visits(keys), D, j) = {i \in D : VisitedBefore(keys, i, j)}
    BY <1>3 DEF Preceding
  <2>2. QED
    BY <2>1 DEF Turn
<1> HIDE DEF D, turn
<1>6. /\ turn \in Bijection(D, 1..Len(keys))
      /\ \A i, j \in D : <<i, j>> \in Visits(keys) <=> turn[i] < turn[j]
  BY <1>2, <1>4, <1>5, Ranking
<1>7. QED
  BY <1>3, <1>6 DEF D, turn

\* The place visited at turn k.
LEMMA VisitOfTurn ==
  ASSUME NEW keys \in Seq(Int), NEW k \in 1..Len(keys)
  PROVE  ArgSort(keys)[k] \in DOMAIN keys /\ Turn(keys, ArgSort(keys)[k]) = k
<1>1. \E j \in DOMAIN keys : Turn(keys, j) = k
  BY TurnsAreRanks DEF Bijection, Surjection
<1>2. QED
  BY <1>1 DEF ArgSort

\* Sorting visits the places of the list, and no place twice.
THEOREM ArgSortPermutes ==
  ASSUME NEW keys \in Seq(Int)
  PROVE  /\ ArgSort(keys) \in [1..Len(keys) -> DOMAIN keys]
         /\ \A k, l \in 1..Len(keys) : ArgSort(keys)[k] = ArgSort(keys)[l] => k = l
<1>1. \A k \in 1..Len(keys) : ArgSort(keys)[k] \in DOMAIN keys
  BY VisitOfTurn
<1>2. ArgSort(keys) \in [1..Len(keys) -> DOMAIN keys]
  BY <1>1 DEF ArgSort
<1>3. QED
  BY <1>2, VisitOfTurn

\* A place visited earlier comes before, so no place is visited before one of
\* a smaller key, and of two with the same key the first is visited first.
LEMMA VisitsInOrder ==
  ASSUME NEW keys \in Seq(Int), NEW k \in 1..Len(keys), NEW l \in 1..Len(keys), k < l
  PROVE  VisitedBefore(keys, ArgSort(keys)[k], ArgSort(keys)[l])
  BY VisitOfTurn, TurnsAreRanks

\* No place is visited before one of a smaller key.
THEOREM ArgSortAscends ==
  ASSUME NEW keys \in Seq(Int), NEW k \in 1..Len(keys), NEW l \in 1..Len(keys), k < l
  PROVE  keys[ArgSort(keys)[k]] <= keys[ArgSort(keys)[l]]
<1>1. keys[ArgSort(keys)[k]] \in Int /\ keys[ArgSort(keys)[l]] \in Int
  BY VisitOfTurn
<1>2. QED
  BY <1>1, VisitsInOrder DEF VisitedBefore

\* Of two places with the same key the one that comes first is visited first.
THEOREM ArgSortIsStable ==
  ASSUME NEW keys \in Seq(Int), NEW k \in 1..Len(keys), NEW l \in 1..Len(keys), k < l,
         keys[ArgSort(keys)[k]] = keys[ArgSort(keys)[l]]
  PROVE  ArgSort(keys)[k] < ArgSort(keys)[l]
<1>1. keys[ArgSort(keys)[k]] \in Int
  BY VisitOfTurn
<1>2. QED
  BY <1>1, VisitsInOrder DEF VisitedBefore

\* Every place is visited.
LEMMA EveryPlaceVisited ==
  ASSUME NEW keys \in Seq(Int), NEW j \in DOMAIN keys
  PROVE  \E k \in 1..Len(keys) : ArgSort(keys)[k] = j
<1> DEFINE turn == [i \in DOMAIN keys |-> Turn(keys, i)]
<1>1. /\ turn \in [DOMAIN keys -> 1..Len(keys)]
      /\ \A a, b \in DOMAIN keys : turn[a] = turn[b] => a = b
  BY TurnsAreRanks DEF Bijection, Injection, IsInjective
<1>2. turn[j] \in 1..Len(keys)
  BY <1>1
<1>3. ArgSort(keys)[turn[j]] \in DOMAIN keys /\ turn[ArgSort(keys)[turn[j]]] = turn[j]
  BY <1>2, VisitOfTurn
<1>4. QED
  BY <1>1, <1>2, <1>3
=============================================================================
