---------------------------- MODULE OrderedProofs ----------------------------
(***************************************************************************)
(* The lemmas about sorted sets, selected places, flattened sequences and  *)
(* folds that the proofs about the artifacts, the event log and the launch *)
(* share.                                                                  *)
(***************************************************************************)
EXTENDS Ordered, SequencesExt, SequenceTheorems, FiniteSetTheorems,
        WellFoundedInduction, TLAPS

-----------------------------------------------------------------------------
(* A finite set in ascending order. *)

Rank(S, x) == Cardinality({y \in S : y <= x})

\* A rank is a number up to the size of the set, and a greater element has a
\* greater rank.
LEMMA RanksAscend ==
  ASSUME NEW S \in SUBSET Nat, IsFiniteSet(S)
  PROVE  /\ Cardinality(S) \in Nat
         /\ \A x \in S : Rank(S, x) \in 1..Cardinality(S)
         /\ \A x, y \in S : x < y => Rank(S, x) < Rank(S, y)
  <1>1. Cardinality(S) \in Nat
    BY FS_CardinalityType
  <1>2. ASSUME NEW x \in S PROVE /\ IsFiniteSet({y \in S : y <= x})
                                 /\ Rank(S, x) \in 1..Cardinality(S)
    <2> DEFINE below == {y \in S : y <= x}
    <2>1. below \in SUBSET S /\ x \in below
      OBVIOUS
    <2>2. IsFiniteSet(below) /\ Cardinality(below) <= Cardinality(S)
      BY <2>1, FS_Subset
    <2>3. Cardinality(below) \in Nat /\ Cardinality(below) # 0
      BY <2>1, <2>2, FS_CardinalityType, FS_EmptySet
    <2> QED BY <1>1, <2>2, <2>3 DEF Rank
  <1>3. ASSUME NEW x \in S, NEW y \in S, x < y PROVE Rank(S, x) < Rank(S, y)
    <2> DEFINE lower == {z \in S : z <= x}
               upper == {z \in S : z <= y}
    <2>1. x \in Nat /\ y \in Nat /\ \A z \in S : z \in Nat
      OBVIOUS
    <2>a. \A z \in S : z <= x => z <= y
      BY <1>3, <2>1
    <2>b. y <= y /\ ~ (y <= x)
      BY <1>3, <2>1
    <2>2. lower \subseteq upper /\ y \in upper /\ y \notin lower
      BY <2>a, <2>b
    <2>3. IsFiniteSet(upper)
      BY <1>2
    <2>4. Rank(S, x) = Cardinality(lower) /\ Rank(S, y) = Cardinality(upper)
      BY DEF Rank
    <2>5. Rank(S, x) \in 1..Cardinality(S) /\ Rank(S, y) \in 1..Cardinality(S)
      BY <1>2
    <2> HIDE DEF lower, upper
    <2>6. Cardinality(lower) <= Cardinality(upper) /\ Cardinality(lower) # Cardinality(upper)
      BY <2>2, <2>3, FS_Subset
    <2> QED BY <1>1, <2>4, <2>5, <2>6
  <1> QED BY <1>1, <1>2, <1>3

\* Ascending lists the set, each element at its rank.
LEMMA AscendingByRank ==
  ASSUME NEW S \in SUBSET Nat, IsFiniteSet(S)
  PROVE  /\ Ascending(S) \in [1..Cardinality(S) -> S]
         /\ \A n \in 1..Cardinality(S) : Rank(S, Ascending(S)[n]) = n
         /\ \A x \in S : Ascending(S)[Rank(S, x)] = x
  <1> DEFINE n == Cardinality(S)
             f == [x \in S |-> Rank(S, x)]
  <1>1. /\ n \in Nat
        /\ \A x \in S : Rank(S, x) \in 1..n
        /\ \A x, y \in S : x < y => Rank(S, x) < Rank(S, y)
    BY RanksAscend
  <1>2. \A x, y \in S : Rank(S, x) = Rank(S, y) => x = y
    <2> SUFFICES ASSUME NEW x \in S, NEW y \in S, Rank(S, x) = Rank(S, y), x # y
                 PROVE  FALSE
      OBVIOUS
    <2>1. x < y \/ y < x
      OBVIOUS
    <2> QED BY <1>1, <2>1
  <1>3. f \in Injection(S, 1..n)
    BY <1>1, <1>2 DEF Injection, IsInjective
  <1>4. IsFiniteSet(1..n) /\ Cardinality(1..n) = n
    BY <1>1, FS_Interval
  <1>5. f \in Surjection(S, 1..n)
    <2> HIDE DEF f
    <2> QED BY <1>3, <1>4, FS_Injection
  <1>6. \A k \in 1..n : \E x \in S : Rank(S, x) = k
    BY <1>5 DEF Surjection
  <1>7. ASSUME NEW k \in 1..n PROVE Ascending(S)[k] \in S /\ Rank(S, Ascending(S)[k]) = k
    <2>1. Ascending(S)[k] = CHOOSE x \in S : Rank(S, x) = k
      BY DEF Ascending, Rank
    <2> QED BY <2>1, <1>6
  <1>8. Ascending(S) \in [1..n -> S]
    <2>1. Ascending(S) = [k \in 1..n |-> Ascending(S)[k]]
      BY DEF Ascending
    <2> QED BY <2>1, <1>7
  <1>9. \A x \in S : Ascending(S)[Rank(S, x)] = x
    BY <1>1, <1>2, <1>7
  <1> QED BY <1>7, <1>8, <1>9

\* An element that is not below the k-th and below the next is the k-th.
LEMMA AscendingHasNoGaps ==
  ASSUME NEW S \in SUBSET Nat, IsFiniteSet(S), NEW k \in 1..Cardinality(S), NEW x \in S,
         Ascending(S)[k] <= x,
         k < Cardinality(S) => x < Ascending(S)[k + 1]
  PROVE  Ascending(S)[k] = x
  <1> DEFINE n == Cardinality(S)
             r == Rank(S, x)
  <1>1. n \in Nat /\ r \in 1..n
    BY RanksAscend
  <1>2. Ascending(S)[k] \in S /\ Rank(S, Ascending(S)[k]) = k /\ Ascending(S)[r] = x
    BY AscendingByRank
  <1>o. \A a, b \in S : a < b => Rank(S, a) < Rank(S, b)
    BY RanksAscend
  <1>3. k <= r
    <2> DEFINE a == Ascending(S)[k]
    <2>a. a \in S /\ a <= x
      BY <1>2
    <2> HIDE DEF a
    <2>b. a < x \/ a = x
      BY <2>a
    <2>1. Ascending(S)[k] < x \/ Ascending(S)[k] = x
      BY <2>b DEF a
    <2>2. k < r \/ k = r
      BY <1>2, <1>o, <2>1
    <2> QED BY <1>1, <2>2
  <1>4. k = r \/ (k < n /\ k + 1 <= r)
    BY <1>1, <1>3
  <1>5. ASSUME k < n, k + 1 <= r PROVE FALSE
    <2>1. k + 1 \in 1..n
      BY <1>1, <1>5
    <2>2. Ascending(S)[k + 1] \in S /\ Rank(S, Ascending(S)[k + 1]) = k + 1
      BY <2>1, AscendingByRank
    <2>3. r < k + 1
      BY <1>5, <2>2, <1>o
    <2> QED BY <1>1, <1>5, <2>3
  <1> QED BY <1>2, <1>4, <1>5

\* The order of the list is that of the numbers.
LEMMA AscendingIsSorted ==
  ASSUME NEW S \in SUBSET Nat, IsFiniteSet(S),
         NEW i \in 1..Cardinality(S), NEW j \in 1..Cardinality(S), i < j
  PROVE  Ascending(S)[i] < Ascending(S)[j]
  <1>1. /\ Ascending(S)[i] \in S /\ Ascending(S)[j] \in S
        /\ Rank(S, Ascending(S)[i]) = i /\ Rank(S, Ascending(S)[j]) = j
    BY AscendingByRank
  <1>2. Cardinality(S) \in Nat /\ \A x, y \in S : x < y => Rank(S, x) < Rank(S, y)
    BY RanksAscend
  <1> DEFINE a == Ascending(S)[i]
             b == Ascending(S)[j]
  <1> HIDE DEF a, b
  <1>3. a \in S /\ b \in S /\ Rank(S, a) = i /\ Rank(S, b) = j
    BY <1>1 DEF a, b
  <1>4. ~ (b < a) /\ b # a
    BY <1>2, <1>3
  <1>5. a < b
    BY <1>3, <1>4
  <1> QED BY <1>5 DEF a, b

\* The numbers up to n are in order.
LEMMA AscendingInterval ==
  ASSUME NEW n \in Nat
  PROVE  Ascending(1..n) = [k \in 1..n |-> k]
  <1> DEFINE S == 1..n
  <1>1. S \in SUBSET Nat /\ IsFiniteSet(S) /\ Cardinality(S) = n
    BY FS_Interval
  <1>2. ASSUME NEW k \in 1..n PROVE Ascending(S)[k] = k
    <2>1. {y \in S : y <= k} = 1..k
      OBVIOUS
    <2>i. k \in Nat /\ Cardinality(1..k) = k
      BY FS_Interval
    <2>2. Rank(S, k) = k
      BY <2>1, <2>i DEF Rank
    <2> HIDE DEF S
    <2>3. k \in S
      BY DEF S
    <2> QED BY <1>1, <2>2, <2>3, AscendingByRank
  <1>3. Ascending(S) \in [1..n -> S]
    <2> HIDE DEF S
    <2> QED BY <1>1, AscendingByRank
  <1> QED BY <1>2, <1>3

\* And so are the multiples of three up to 3 n.
LEMMA AscendingTriples ==
  ASSUME NEW n \in Nat
  PROVE  LET S == {3 * i : i \in 0..n}
         IN  /\ S \in SUBSET Nat /\ IsFiniteSet(S) /\ Cardinality(S) = n + 1
             /\ Ascending(S) = [k \in 1..(n + 1) |-> 3 * (k - 1)]
  <1> DEFINE Triples(m) == {3 * i : i \in 0..m}
             f(m) == [i \in 0..m |-> 3 * i]
  <1>1. ASSUME NEW m \in Nat PROVE IsFiniteSet(Triples(m)) /\ Cardinality(Triples(m)) = m + 1
    <2>1. f(m) \in Bijection(0..m, Triples(m))
      <3>1. f(m) \in [0..m -> Triples(m)]
        OBVIOUS
      <3>2. \A a, b \in 0..m : f(m)[a] = f(m)[b] => a = b
        OBVIOUS
      <3>3. \A t \in Triples(m) : \E a \in 0..m : f(m)[a] = t
        OBVIOUS
      <3> HIDE DEF f, Triples
      <3> QED BY <3>1, <3>2, <3>3 DEF Bijection, Injection, Surjection, IsInjective
    <2>2. ExistsBijection(0..m, Triples(m))
      BY <2>1 DEF ExistsBijection
    <2>3. IsFiniteSet(0..m) /\ Cardinality(0..m) = m + 1
      BY FS_Interval
    <2> HIDE DEF Triples, f
    <2> QED BY <2>2, <2>3, FS_Bijection
  <1> DEFINE S == Triples(n)
  <1>2. S \in SUBSET Nat /\ IsFiniteSet(S) /\ Cardinality(S) = n + 1
    BY <1>1
  <1>3. ASSUME NEW k \in 1..(n + 1) PROVE Ascending(S)[k] = 3 * (k - 1)
    <2>1. k - 1 \in 0..n /\ k - 1 \in Nat
      OBVIOUS
    <2>2. {y \in S : y <= 3 * (k - 1)} = Triples(k - 1)
      BY <2>1
    <2>3. 3 * (k - 1) \in S
      BY <2>1
    <2> HIDE DEF S, Triples
    <2>4. Rank(S, 3 * (k - 1)) = k
      BY <1>1, <2>1, <2>2 DEF Rank
    <2> QED BY <1>2, <2>3, <2>4, AscendingByRank
  <1>4. Ascending(S) \in [1..(n + 1) -> S]
    <2> HIDE DEF S
    <2> QED BY <1>2, AscendingByRank
  <1>5. Ascending(S) = [k \in 1..(n + 1) |-> 3 * (k - 1)]
    <2> HIDE DEF S
    <2> QED BY <1>3, <1>4
  <1> QED BY <1>2, <1>5

-----------------------------------------------------------------------------
(* Sequences put together in steps. *)

\* Induction, for sets: the least number that is not in the set has a
\* predecessor that is.
LEMMA SetInduction ==
  ASSUME NEW S, 0 \in S, \A n \in Nat : n \in S => n + 1 \in S
  PROVE  Nat \subseteq S
  <1> SUFFICES ASSUME Nat \ S # {} PROVE FALSE
    OBVIOUS
  <1> DEFINE out == Nat \ S
  <1>1. out \subseteq Nat /\ out # {}
    OBVIOUS
  <1> HIDE DEF out
  <1>2. PICK x \in out : \A y \in out : <<y, x>> \notin OpToRel(<, Nat)
    BY <1>1, NatLessThanWellFounded, WFMin, Zenon
  <1>3. \A y \in out : y \in Nat /\ x \in Nat /\ ~ (y < x)
    BY <1>1, <1>2, Zenon DEF OpToRel
  <1>4. x \in Nat /\ x \notin S /\ x # 0
    BY <1>2 DEF out
  <1>5. x - 1 \in Nat /\ x - 1 < x /\ (x - 1) + 1 = x
    BY <1>4
  <1>6. x - 1 \notin out
    BY <1>3, <1>5
  <1>7. x - 1 \in S
    BY <1>5, <1>6 DEF out
  <1> QED BY <1>4, <1>5, <1>7

\* A set that holds 0, and with a number up to n the next, holds all up to n.
LEMMA InductUpTo ==
  ASSUME NEW n \in Nat, NEW S, 0 \in S, \A k \in 1..n : k - 1 \in S => k \in S
  PROVE  \A k \in 0..n : k \in S
  <1> DEFINE T == {k \in Nat : k <= n => k \in S}
  <1>1. 0 \in T
    OBVIOUS
  <1>2. ASSUME NEW k \in Nat, k \in T PROVE k + 1 \in T
    <2> SUFFICES ASSUME k + 1 <= n PROVE k + 1 \in S
      OBVIOUS
    <2>1. k + 1 \in 1..n /\ (k + 1) - 1 = k /\ k <= n
      OBVIOUS
    <2>2. k \in S
      BY <1>2, <2>1
    <2> QED BY <2>1, <2>2
  <1> HIDE DEF T
  <1>3. \A k \in Nat : k \in T
    BY <1>1, <1>2, SetInduction
  <1> QED BY <1>3 DEF T

\* A sequence grows to itself by one element at a time.
LEMMA GrowsByOne ==
  ASSUME NEW T, NEW s \in Seq(T)
  PROVE  /\ SubSeq(s, 1, 0) = <<>> /\ SubSeq(s, 1, Len(s)) = s
         /\ \A k \in 1..Len(s) : /\ s[k] \in T /\ SubSeq(s, 1, k - 1) \in Seq(T)
                                   /\ Append(SubSeq(s, 1, k - 1), s[k]) = SubSeq(s, 1, k)
  OBVIOUS

\* Two parts, put together.
Joint(T, a, b, all) ==
    /\ all \in Seq(T) /\ Len(a) \in Nat /\ Len(b) \in Nat /\ Len(all) = Len(a) + Len(b)
    /\ \A k \in 1 .. Len(a) : all[k] = a[k]
    /\ \A k \in 1 .. Len(b) : all[Len(a) + k] = b[k]

LEMMA JointIs ==
  ASSUME NEW T, NEW a \in Seq(T), NEW b \in Seq(T)
  PROVE  Joint(T, a, b, a \o b)
  <1>1. /\ a \o b \in Seq(T) /\ Len(a) \in Nat /\ Len(b) \in Nat
        /\ Len(a \o b) = Len(a) + Len(b)
    OBVIOUS
  <1>2. \A i \in 1 .. Len(a) : (a \o b)[i] = a[i]
    OBVIOUS
  <1>3. \A i \in 1 .. Len(b) : (a \o b)[Len(a) + i] = b[i]
    OBVIOUS
  <1> QED BY <1>1, <1>2, <1>3, Zenon DEF Joint

LEMMA AppendedNotEmpty ==
  ASSUME NEW T, NEW a \in Seq(T), NEW e \in T
  PROVE  Append(a, e) # <<>>
  OBVIOUS

LEMMA NotEmpty ==
  ASSUME NEW T, NEW a \in Seq(T), NEW b \in Seq(T), b # <<>>
  PROVE  a \o b # <<>>
  OBVIOUS

Has(s, x) == \E i \in DOMAIN s : s[i] = x

\* An appended element joins what is there.
LEMMA AppendedHas ==
  ASSUME NEW T, NEW a \in Seq(T), NEW e \in T, NEW x
  PROVE  Has(Append(a, e), x) <=> Has(a, x) \/ x = e
  <1>1. /\ DOMAIN a = 1..Len(a) /\ Len(a) \in Nat
        /\ DOMAIN Append(a, e) = 1..(Len(a) + 1)
        /\ \A p \in 1..Len(a) : Append(a, e)[p] = a[p]
        /\ Append(a, e)[Len(a) + 1] = e
    OBVIOUS
  <1>2. \A p : p \in 1..(Len(a) + 1) <=> p \in 1..Len(a) \/ p = Len(a) + 1
    BY <1>1
  <1> QED BY <1>1, <1>2 DEF Has

-----------------------------------------------------------------------------
(* Selected places. *)

\* What is selected up to each place.
UpTo(f, s, places, n) ==
    f = [k \in 0..n |-> IF k = 0 THEN <<>>
                        ELSE IF k \in places THEN Append(f[k - 1], s[k]) ELSE f[k - 1]]

\* They are a function: each beginning is that of the place before, or one longer.
LEMMA UpToExists ==
  ASSUME NEW s, NEW places, NEW n \in Nat
  PROVE  \E f : UpTo(f, s, places, n)
  <1> DEFINE S == {m \in Nat : \E f : UpTo(f, s, places, m)}
  <1>1. 0 \in S
    <2>1. UpTo([k \in 0..0 |-> <<>>], s, places, 0)
      BY DEF UpTo
    <2> QED BY <2>1
  <1>2. ASSUME NEW m \in Nat, m \in S PROVE m + 1 \in S
    <2>1. PICK f : UpTo(f, s, places, m)
      BY <1>2
    <2> DEFINE Step(h, k) == IF k \in places THEN Append(h[k - 1], s[k]) ELSE h[k - 1]
               g == [k \in 0..(m + 1) |-> IF k \in 0..m THEN f[k] ELSE Step(f, k)]
    <2>2. \A k \in 0..m : f[k] = IF k = 0 THEN <<>> ELSE Step(f, k)
      BY <2>1 DEF UpTo
    <2>3. ASSUME NEW k \in 0..(m + 1)
          PROVE  g[k] = IF k = 0 THEN <<>> ELSE Step(g, k)
      <3>1. g[k] = IF k = 0 THEN <<>> ELSE Step(f, k)
        BY <2>2
      <3>2. k # 0 => k - 1 \in 0..m /\ k - 1 \in 0..(m + 1)
        OBVIOUS
      <3>3. k # 0 => g[k - 1] = f[k - 1]
        BY <3>2
      <3> HIDE DEF g
      <3> QED BY <3>1, <3>3
    <2>4. g = [k \in 0..(m + 1) |-> g[k]]
      OBVIOUS
    <2> HIDE DEF g
    <2>5. UpTo(g, s, places, m + 1)
      BY <2>3, <2>4 DEF UpTo
    <2> QED BY <2>5
  <1> HIDE DEF S
  <1>3. n \in S
    BY <1>1, <1>2, SetInduction
  <1> QED BY <1>3 DEF S

\* What is selected up to a place is what the selected places have up to it.
Selects(f, s, places, T, k) ==
    /\ f[k] \in Seq(T)
    /\ \A x : Has(f[k], x) <=> \E j \in places : j <= k /\ s[j] = x

\* What is selected is what the places have.
LEMMA AtPlaces ==
  ASSUME NEW T, NEW s \in Seq(T), NEW places \in SUBSET DOMAIN s
  PROVE  /\ At(s, places) \in Seq(T)
         /\ \A x : Has(At(s, places), x) <=> \E k \in places : s[k] = x
  <1> DEFINE n == Len(s)
             f == CHOOSE g : UpTo(g, s, places, n)
  <1>1. n \in Nat /\ DOMAIN s = 1..n /\ places \subseteq 1..n
    OBVIOUS
  <1>2. At(s, places) = f[n]
    BY Zenon DEF At, UpTo
  <1>3. UpTo(f, s, places, n)
    BY <1>1, UpToExists, Zenon
  <1> HIDE DEF f
  <1>4. f[0] = <<>> /\ \A k \in 1..n : f[k] = IF k \in places THEN Append(f[k - 1], s[k]) ELSE f[k - 1]
    <2>1. \A k \in 0..n : f[k] = IF k = 0 THEN <<>>
                                 ELSE IF k \in places THEN Append(f[k - 1], s[k]) ELSE f[k - 1]
      BY <1>3 DEF UpTo
    <2> HIDE DEF n
    <2>2. 0 \in 0..n /\ \A k \in 1..n : k \in 0..n /\ k # 0
      BY <1>1
    <2> QED BY <2>1, <2>2
  <1> DEFINE S == {k \in Nat : k <= n => Selects(f, s, places, T, k)}
  <1>5. 0 \in S
    <2>1. f[0] \in Seq(T) /\ \A x : ~ Has(f[0], x)
      BY <1>4 DEF Has
    <2>2. \A j \in places : ~ (j <= 0)
      BY <1>1
    <2>3. Selects(f, s, places, T, 0)
      BY <2>1, <2>2 DEF Selects
    <2> QED BY <2>3
  <1>6. ASSUME NEW k \in Nat, k \in S PROVE k + 1 \in S
    <2>1. k + 1 \in S <=> (k + 1 <= n => Selects(f, s, places, T, k + 1))
      OBVIOUS
    <2>2. k <= n => Selects(f, s, places, T, k)
      BY <1>6
    <2> HIDE DEF S
    <2> SUFFICES ASSUME k + 1 <= n PROVE Selects(f, s, places, T, k + 1)
      BY <2>1
    <2>3. k + 1 \in 1..n /\ (k + 1) - 1 = k /\ k <= n
      BY <1>1
    <2>4. f[k] \in Seq(T) /\ \A x : Has(f[k], x) <=> \E j \in places : j <= k /\ s[j] = x
      BY <2>2, <2>3 DEF Selects
    <2>5. \A j \in places : j <= k + 1 <=> j <= k \/ j = k + 1
      BY <1>1
    <2>6. CASE k + 1 \in places
      <3>t. s[k + 1] \in T
        BY <2>3
      <3>1. f[k + 1] = Append(f[k], s[k + 1]) /\ s[k + 1] \in T
        BY <1>4, <2>3, <2>6, <3>t
      <3>2. f[k + 1] \in Seq(T)
        BY <2>4, <3>1
      <3>3. \A x : Has(f[k + 1], x) <=> Has(f[k], x) \/ x = s[k + 1]
        BY <2>4, <3>1, AppendedHas
      <3>4. \A x : Has(f[k + 1], x) <=> \E j \in places : j <= k + 1 /\ s[j] = x
        BY <2>4, <2>5, <2>6, <3>3
      <3> QED BY <3>2, <3>4 DEF Selects
    <2>7. CASE k + 1 \notin places
      <3>1. f[k + 1] = f[k]
        BY <1>4, <2>3, <2>7
      <3>2. \A j \in places : j <= k + 1 <=> j <= k
        BY <2>5, <2>7
      <3>3. \A x : Has(f[k + 1], x) <=> \E j \in places : j <= k + 1 /\ s[j] = x
        BY <2>4, <3>1, <3>2
      <3> QED BY <2>4, <3>1, <3>3 DEF Selects
    <2> QED BY <2>6, <2>7
  <1>s. n \in S <=> (n <= n => Selects(f, s, places, T, n))
    BY <1>1
  <1> HIDE DEF S
  <1>7. n \in S
    BY <1>1, <1>5, <1>6, SetInduction
  <1>8. Selects(f, s, places, T, n)
    BY <1>1, <1>7, <1>s
  <1>9. \A j \in places : j <= n
    BY <1>1
  <1>10. f[n] \in Seq(T) /\ \A x : Has(f[n], x) <=> \E j \in places : s[j] = x
    BY <1>8, <1>9 DEF Selects
  <1> QED BY <1>2, <1>10

-----------------------------------------------------------------------------
(* Flattened sequences. *)

\* The beginnings of the flattened sequence, part by part.
Beginnings(f, parts, n) ==
    f = [i \in 1..n |-> IF i = 1 THEN parts[i] ELSE f[i - 1] \o parts[i]]

\* They are a function too.
LEMMA BeginningsExist ==
  ASSUME NEW parts, NEW n \in Nat
  PROVE  \E f : Beginnings(f, parts, n)
  <1> DEFINE S == {k \in Nat : \E f : Beginnings(f, parts, k)}
  <1>1. 0 \in S
    <2>1. Beginnings(<<>>, parts, 0)
      BY DEF Beginnings
    <2> QED BY <2>1
  <1>2. ASSUME NEW k \in Nat, k \in S PROVE k + 1 \in S
    <2>1. PICK f : Beginnings(f, parts, k)
      BY <1>2
    <2> DEFINE g == [i \in 1..(k + 1) |->
                       IF i \in 1..k THEN f[i]
                       ELSE IF i = 1 THEN parts[i] ELSE f[i - 1] \o parts[i]]
    <2>2. \A i \in 1..k : f[i] = IF i = 1 THEN parts[i] ELSE f[i - 1] \o parts[i]
      BY <2>1 DEF Beginnings
    <2>3. ASSUME NEW i \in 1..(k + 1)
          PROVE  g[i] = IF i = 1 THEN parts[i] ELSE g[i - 1] \o parts[i]
      <3>1. g[i] = IF i = 1 THEN parts[i] ELSE f[i - 1] \o parts[i]
        BY <2>2
      <3>2. i # 1 => i - 1 \in 1..k /\ i - 1 \in 1..(k + 1)
        OBVIOUS
      <3>3. i # 1 => g[i - 1] = f[i - 1]
        BY <3>2
      <3> HIDE DEF g
      <3> QED BY <3>1, <3>3
    <2>4. DOMAIN g = 1..(k + 1) /\ g = [i \in 1..(k + 1) |-> g[i]]
      OBVIOUS
    <2> HIDE DEF g
    <2>5. Beginnings(g, parts, k + 1)
      BY <2>3, <2>4 DEF Beginnings
    <2> QED BY <2>5
  <1> HIDE DEF S
  <1>3. n \in S
    BY <1>1, <1>2, SetInduction
  <1> QED BY <1>3 DEF S

\* A concatenation has what either part has.
LEMMA ConcatenationHas ==
  ASSUME NEW T, NEW a \in Seq(T), NEW b \in Seq(T), NEW x
  PROVE  a \o b \in Seq(T) /\ (Has(a \o b, x) <=> Has(a, x) \/ Has(b, x))
  <1>1. /\ a \o b \in Seq(T) /\ Len(a) \in Nat /\ Len(b) \in Nat
        /\ DOMAIN a = 1..Len(a) /\ DOMAIN b = 1..Len(b)
        /\ DOMAIN (a \o b) = 1..(Len(a) + Len(b))
    OBVIOUS
  <1>2. \A p \in 1..Len(a) : (a \o b)[p] = a[p] /\ p \in 1..(Len(a) + Len(b))
    BY <1>1
  <1>3. \A p \in 1..Len(b) : (a \o b)[Len(a) + p] = b[p]
                             /\ Len(a) + p \in 1..(Len(a) + Len(b))
    BY <1>1
  <1>4. \A p \in 1..(Len(a) + Len(b)) : p \in 1..Len(a) \/
          (p - Len(a) \in 1..Len(b) /\ Len(a) + (p - Len(a)) = p)
    BY <1>1
  <1>5. Has(a, x) => Has(a \o b, x)
    BY <1>1, <1>2 DEF Has
  <1>6. Has(b, x) => Has(a \o b, x)
    BY <1>1, <1>3 DEF Has
  <1>7. Has(a \o b, x) => Has(a, x) \/ Has(b, x)
    <2> SUFFICES ASSUME NEW p \in 1..(Len(a) + Len(b)), (a \o b)[p] = x
                 PROVE  Has(a, x) \/ Has(b, x)
      BY <1>1 DEF Has
    <2>1. CASE p \in 1..Len(a)
      BY <1>1, <1>2, <2>1 DEF Has
    <2>2. CASE p - Len(a) \in 1..Len(b) /\ Len(a) + (p - Len(a)) = p
      BY <1>1, <1>3, <2>2 DEF Has
    <2> QED BY <1>4, <2>1, <2>2
  <1> QED BY <1>1, <1>5, <1>6, <1>7

\* The first k of these beginnings are sequences with what the parts have.
Whole(f, parts, T, k) ==
    /\ f[k] \in Seq(T)
    /\ \A x : Has(f[k], x) <=> \E j \in 1..k : Has(parts[j], x)

\* A flattened sequence has what its parts have.
LEMMA FlattenedHasAll ==
  ASSUME NEW T, NEW parts \in Seq(Seq(T))
  PROVE  /\ FlattenSeq(parts) \in Seq(T)
         /\ \A x : Has(FlattenSeq(parts), x) <=> \E k \in DOMAIN parts : Has(parts[k], x)
  <1> DEFINE flat == FlattenSeq(parts)
             n == Len(parts)
  <1>1. n \in Nat /\ DOMAIN parts = 1..n
    OBVIOUS
  <1>2. CASE n = 0
    <2>1. flat = parts
      BY <1>2 DEF FlattenSeq
    <2>2. parts = <<>> /\ DOMAIN parts = {}
      BY <1>2
    <2> QED BY <2>1, <2>2 DEF Has
  <1>3. CASE n # 0
    <2> DEFINE f == CHOOSE g : Beginnings(g, parts, n)
    <2>1. flat = f[n]
      BY <1>3, Zenon DEF FlattenSeq, Beginnings
    <2>2. Beginnings(f, parts, n)
      BY <1>1, BeginningsExist, Zenon
    <2> HIDE DEF f, flat
    <2>3. \A i \in 1..n : f[i] = IF i = 1 THEN parts[i] ELSE f[i - 1] \o parts[i]
      BY <2>2 DEF Beginnings
    <2> DEFINE S == {i \in Nat : i \in 1..n => Whole(f, parts, T, i)}
    <2>4. 0 \in S
      OBVIOUS
    <2>5. ASSUME NEW i \in Nat, i \in S PROVE i + 1 \in S
      <3>0. i + 1 \in S <=> (i + 1 \in 1..n => Whole(f, parts, T, i + 1))
        OBVIOUS
      <3>q. i \in 1..n => Whole(f, parts, T, i)
        BY <2>5
      <3> HIDE DEF S
      <3> SUFFICES ASSUME i + 1 \in 1..n PROVE Whole(f, parts, T, i + 1)
        BY <3>0
      <3>1. parts[i + 1] \in Seq(T)
        BY <1>1
      <3>2. CASE i = 0
        <4>1. f[i + 1] = parts[i + 1]
          BY <2>3, <3>2
        <4>2. \A j : j \in 1..(i + 1) <=> j = i + 1
          BY <3>2
        <4>3. f[i + 1] \in Seq(T)
          BY <3>1, <4>1
        <4>4. \A x : Has(f[i + 1], x) <=> \E j \in 1..(i + 1) : Has(parts[j], x)
          <5>1. \A x : Has(f[i + 1], x) <=> Has(parts[i + 1], x)
            BY <4>1
          <5> QED BY <4>2, <5>1, Zenon
        <4> QED BY <4>3, <4>4, Zenon DEF Whole
      <3>3. CASE i # 0
        <4>1. i \in 1..n /\ i + 1 # 1 /\ (i + 1) - 1 = i
          BY <1>1, <3>3
        <4>2. f[i + 1] = f[i] \o parts[i + 1]
          BY <2>3, <4>1
        <4>3. f[i] \in Seq(T) /\ \A x : Has(f[i], x) <=> \E j \in 1..i : Has(parts[j], x)
          BY <3>q, <4>1 DEF Whole
        <4>4. \A j : j \in 1..(i + 1) <=> j \in 1..i \/ j = i + 1
          OBVIOUS
        <4>5. f[i] \o parts[i + 1] \in Seq(T)
              /\ \A x : Has(f[i] \o parts[i + 1], x) <=> Has(f[i], x) \/ Has(parts[i + 1], x)
          BY <3>1, <4>3, ConcatenationHas
        <4>6. f[i + 1] \in Seq(T)
          BY <4>2, <4>5
        <4>7. ASSUME NEW x PROVE Has(f[i + 1], x) <=> \E j \in 1..(i + 1) : Has(parts[j], x)
          <5>1. Has(f[i + 1], x) <=> Has(f[i], x) \/ Has(parts[i + 1], x)
            BY <4>2, <4>5
          <5> QED BY <4>3, <4>4, <5>1
        <4> QED BY <4>6, <4>7 DEF Whole
      <3> QED BY <3>2, <3>3
    <2>s. n \in S <=> (n \in 1..n => Whole(f, parts, T, n))
      BY <1>1
    <2> HIDE DEF S
    <2>6. n \in S
      BY <1>1, <2>4, <2>5, SetInduction
    <2>7. Whole(f, parts, T, n)
      BY <1>1, <1>3, <2>6, <2>s
    <2>8. flat \in Seq(T) /\ \A x : Has(flat, x) <=> \E j \in 1..n : Has(parts[j], x)
      BY <2>1, <2>7 DEF Whole
    <2> QED BY <1>1, <2>8 DEF flat
  <1> QED BY <1>2, <1>3

-----------------------------------------------------------------------------
(* Folds over a sequence. *)

\* The greatest of a set of numbers up to a bound.
LEMMA MaxIsIn ==
  ASSUME NEW n \in Nat, NEW d \in SUBSET (1..n), d # {}
  PROVE  Max(d) \in d /\ \A x \in d : Max(d) >= x
  <1> DEFINE S == {m \in Nat : \A e \in SUBSET (1..m) :
                      e # {} => \E x \in e : \A y \in e : x >= y}
  <1>1. 0 \in S
    <2>1. \A e \in SUBSET (1..0) : e = {}
      OBVIOUS
    <2> QED BY <2>1
  <1>2. ASSUME NEW m \in Nat, m \in S PROVE m + 1 \in S
    <2>1. ASSUME NEW e \in SUBSET (1..(m + 1)), e # {} PROVE \E x \in e : \A y \in e : x >= y
      <3>1. CASE m + 1 \in e
        BY <3>1
      <3>2. CASE m + 1 \notin e
        <4>1. e \in SUBSET (1..m)
          BY <3>2
        <4> QED BY <1>2, <2>1, <4>1
      <3> QED BY <3>1, <3>2
    <2> QED BY <2>1
  <1> HIDE DEF S
  <1>3. n \in S
    BY <1>1, <1>2, SetInduction
  <1>4. \E x \in d : \A y \in d : x >= y
    BY <1>3 DEF S
  <1> QED BY <1>4 DEF Max

\* Of the first places, the last is the greatest, and the others are the ones before.
LEMMA FirstPlaces ==
  ASSUME NEW n \in Nat, NEW k \in 1..n
  PROVE  /\ (1..k) \in SUBSET (1..n) /\ (1..k) # {} /\ Max(1..k) = k
         /\ (1..k) \ {Max(1..k)} = 1..(k - 1)
  <1>1. (1..k) \in SUBSET (1..n) /\ k \in 1..k
    OBVIOUS
  <1>2. Max(1..k) \in 1..k /\ \A x \in 1..k : Max(1..k) >= x
    BY <1>1, MaxIsIn
  <1>3. Max(1..k) = k
    BY <1>1, <1>2
  <1> QED BY <1>1, <1>3

\* A fold over places, from the first to the last, by a step from state to state.
Folds(f, start, step, n) ==
    f = [d \in SUBSET (1..n) |-> IF d = {} THEN start ELSE step[<<f[d \ {Max(d)}], Max(d)>>]]

\* It exists, and stays among the states.
LEMMA FoldExists ==
  ASSUME NEW State, NEW start \in State, NEW n \in Nat, NEW step \in [State \X (1..n) -> State]
  PROVE  \E f \in [SUBSET (1..n) -> State] : Folds(f, start, step, n)
  <1> DEFINE Good(f, m) == f \in [SUBSET (1..m) -> State] /\ Folds(f, start, step, m)
  <1> HIDE DEF Good
  <1> DEFINE S == {m \in Nat : m <= n => \E f : Good(f, m)}
  <1>1. 0 \in S
    <2> DEFINE f == [d \in SUBSET (1..0) |-> start]
    <2>1. 1..0 = {} /\ \A d \in SUBSET (1..0) : d = {}
      OBVIOUS
    <2>2. Good(f, 0)
      BY <2>1 DEF Folds, Good
    <2> QED BY <2>2
  <1>2. ASSUME NEW m \in Nat, m \in S PROVE m + 1 \in S
    <2>s. m + 1 \in S <=> (m + 1 <= n => \E f : Good(f, m + 1))
      OBVIOUS
    <2>i. m <= n => \E f : Good(f, m)
      BY <1>2
    <2> HIDE DEF S
    <2> SUFFICES ASSUME m + 1 <= n PROVE \E f : Good(f, m + 1)
      BY <2>s
    <2>1. PICK f : Good(f, m)
      <3>1. m <= n
        OBVIOUS
      <3> QED BY <2>i, <3>1
    <2> DEFINE Next(h, d) == step[<<h[d \ {Max(d)}], Max(d)>>]
               g == [d \in SUBSET (1..(m + 1)) |-> IF m + 1 \notin d THEN f[d]
                                                    ELSE step[<<f[d \ {m + 1}], m + 1>>]]
    <2>2. f \in [SUBSET (1..m) -> State]
          /\ \A d \in SUBSET (1..m) : f[d] = IF d = {} THEN start ELSE Next(f, d)
      BY <2>1 DEF Folds, Good
    <2>3. ASSUME NEW d \in SUBSET (1..(m + 1))
          PROVE  g[d] \in State /\ g[d] = IF d = {} THEN start ELSE Next(g, d)
      <3>1. CASE m + 1 \notin d
        <4>1. d \in SUBSET (1..m)
          BY <3>1
        <4>2. g[d] = f[d]
          BY <3>1
        <4> DEFINE less == d \ {Max(d)}
        <4>3. less \in SUBSET (1..m) /\ m + 1 \notin less /\ less \in SUBSET (1..(m + 1))
          <5>1. less \subseteq d /\ \A x \in 1..m : x \in 1..(m + 1) /\ x # m + 1
            OBVIOUS
          <5> HIDE DEF less
          <5> QED BY <4>1, <5>1
        <4> HIDE DEF less
        <4>4. g[less] = f[less]
          BY <4>3
        <4> HIDE DEF g
        <4>5. g[d] = IF d = {} THEN start ELSE Next(g, d)
          BY <2>2, <4>1, <4>2, <4>4 DEF less
        <4>6. f[d] \in State
          BY <2>2, <4>1
        <4> QED BY <4>2, <4>5, <4>6
      <3>2. CASE m + 1 \in d
        <4>n. m + 1 \in Nat /\ d # {}
          BY <3>2
        <4>1. Max(d) \in d /\ \A x \in d : Max(d) >= x
          BY <4>n, MaxIsIn
        <4>2. Max(d) = m + 1
          <5>1. Max(d) \in 1..(m + 1) /\ Max(d) >= m + 1
            BY <3>2, <4>1
          <5> QED BY <5>1
        <4>3. d \ {m + 1} \in SUBSET (1..m) /\ m + 1 \notin d \ {m + 1}
              /\ d \ {m + 1} \in SUBSET (1..(m + 1))
          OBVIOUS
        <4>4. g[d \ {m + 1}] = f[d \ {m + 1}]
          BY <4>3
        <4>5. g[d] = step[<<f[d \ {m + 1}], m + 1>>]
          BY <3>2
        <4>6. f[d \ {m + 1}] \in State /\ m + 1 \in 1..n
          BY <2>2, <4>3
        <4>7. step[<<f[d \ {m + 1}], m + 1>>] \in State
          BY <4>6
        <4> HIDE DEF g
        <4> QED BY <4>n, <4>2, <4>4, <4>5, <4>7
      <3> QED BY <3>1, <3>2
    <2>4. g = [d \in SUBSET (1..(m + 1)) |-> g[d]]
      OBVIOUS
    <2> HIDE DEF g
    <2>5. g \in [SUBSET (1..(m + 1)) -> State]
      BY <2>3, <2>4
    <2>6. Folds(g, start, step, m + 1)
      BY <2>3, <2>4 DEF Folds
    <2> QED BY <2>5, <2>6 DEF Good
  <1> HIDE DEF S
  <1>3. n \in S
    BY <1>1, <1>2, SetInduction
  <1>4. \E f : Good(f, n)
    <2>1. n \in S <=> (n <= n => \E f : Good(f, n))
      BY DEF S
    <2>2. n <= n
      OBVIOUS
    <2> QED BY <1>3, <2>1, <2>2
  <1> QED BY <1>4 DEF Good

\* Two runs from one state by the same steps end in the same one.
LEMMA RunsAgree ==
  ASSUME NEW n \in Nat, NEW one, NEW other, one[0] = other[0],
         \A k \in 1..n : one[k - 1] = other[k - 1] => one[k] = other[k]
  PROVE  one[n] = other[n]
  <1> DEFINE S == {k \in 0..n : one[k] = other[k]}
  <1>1. 0 \in S
    OBVIOUS
  <1>2. \A k \in 1..n : k - 1 \in S => k \in S
    OBVIOUS
  <1> HIDE DEF S
  <1>3. n \in S
    BY <1>1, <1>2, InductUpTo
  <1> QED BY <1>3 DEF S

\* A run of n steps from a start to an end.
Runs(State, start, step, n, end) ==
    \E at \in [0..n -> State] :
      at[0] = start /\ at[n] = end /\ \A k \in 1..n : at[k] = step[<<at[k - 1], k>>]

\* What is put together from a start by steps, one after another, for all sets of places.
Stepwise(f, State, start, step, n) ==
    /\ f[{}] = start
    /\ \A d \in SUBSET (1..n) : d # {} /\ f[d \ {Max(d)}] \in State
                                  => f[d] = step[<<f[d \ {Max(d)}], Max(d)>>]

\* For the first places, it is where the run of the steps ends.
LEMMA FoldRuns ==
  ASSUME NEW State, NEW start \in State, NEW n \in Nat, NEW step \in [State \X (1..n) -> State],
         NEW f, Stepwise(f, State, start, step, n)
  PROVE  Runs(State, start, step, n, f[1..n])
  <1> DEFINE at == [k \in 0..n |-> f[1..k]]
  <1>1. \A k \in 1..n : k \in 0..n /\ k - 1 \in 0..n
    OBVIOUS
  <1>2. at[0] = start /\ at[n] = f[1..n] /\ at = [k \in 0..n |-> at[k]]
    <2>1. 1..0 = {} /\ 0 \in 0..n /\ n \in 0..n
      OBVIOUS
    <2>2. f[{}] = start
      BY DEF Stepwise
    <2> QED BY <2>1, <2>2
  <1>3. ASSUME NEW k \in 1..n, at[k - 1] \in State PROVE at[k] = step[<<at[k - 1], k>>]
    <2>1. /\ (1..k) \in SUBSET (1..n) /\ (1..k) # {} /\ Max(1..k) = k
          /\ (1..k) \ {Max(1..k)} = 1..(k - 1)
      BY FirstPlaces
    <2>2. at[k] = f[1..k] /\ at[k - 1] = f[1..k - 1]
      BY <1>1
    <2> HIDE DEF at
    <2> QED BY <1>3, <2>1, <2>2 DEF Stepwise
  <1> HIDE DEF at
  <1>4. \A k \in 1..n, x \in State : step[<<x, k>>] \in State
    OBVIOUS
  <1> DEFINE S == {k \in 0..n : at[k] \in State}
  <1>5. 0 \in S
    BY <1>2
  <1>6. \A k \in 1..n : k - 1 \in S => k \in S
    BY <1>1, <1>3, <1>4
  <1> HIDE DEF S
  <1>7. \A k \in 0..n : k \in S
    BY <1>5, <1>6, InductUpTo
  <1>8. \A k \in 0..n : at[k] \in State
    BY <1>7 DEF S
  <1>9. at \in [0..n -> State]
    BY <1>2, <1>8
  <1> QED BY <1>1, <1>2, <1>3, <1>8, <1>9 DEF Runs

-----------------------------------------------------------------------------
(* Selected places, one at a time. *)

\* What is selected grows place by place.
LEMMA AtRuns ==
  ASSUME NEW s, NEW places, Len(s) \in Nat
  PROVE  \E f : /\ f[0] = <<>> /\ f[Len(s)] = At(s, places)
                /\ \A k \in 1..Len(s) :
                     f[k] = IF k \in places THEN Append(f[k - 1], s[k]) ELSE f[k - 1]
  <1> DEFINE n == Len(s)
             f == CHOOSE g : UpTo(g, s, places, n)
  <1>1. At(s, places) = f[n]
    BY Zenon DEF At, UpTo
  <1>2. UpTo(f, s, places, n)
    BY UpToExists, Zenon
  <1> HIDE DEF f
  <1>3. \A k \in 0..n : f[k] = IF k = 0 THEN <<>>
                               ELSE IF k \in places THEN Append(f[k - 1], s[k]) ELSE f[k - 1]
    BY <1>2 DEF UpTo
  <1> HIDE DEF n
  <1>4. n \in Nat /\ 0 \in 0..n /\ \A k \in 1..n : k \in 0..n /\ k # 0
    BY DEF n
  <1>5. f[0] = <<>>
    BY <1>3, <1>4
  <1>6. \A k \in 1..n : f[k] = IF k \in places THEN Append(f[k - 1], s[k]) ELSE f[k - 1]
    BY <1>3, <1>4
  <1> QED BY <1>1, <1>5, <1>6 DEF n

LEMMA AtNothing ==
  ASSUME NEW places
  PROVE  At(<<>>, places) = <<>>
  <1>1. Len(<<>>) = 0
    OBVIOUS
  <1>2. PICK f : f[0] = <<>> /\ f[Len(<<>>)] = At(<<>>, places)
    <2>1. Len(<<>>) \in Nat
      BY <1>1
    <2> QED BY <2>1, AtRuns
  <1> QED BY <1>1, <1>2

\* Only the places of the sequence, and what it has there, count.
LEMMA AtSame ==
  ASSUME NEW T, NEW s \in Seq(T), NEW places, NEW others,
         \A k \in 1..Len(s) : k \in places <=> k \in others
  PROVE  At(s, places) = At(s, others)
  <1> DEFINE n == Len(s)
  <1>1. n \in Nat
    OBVIOUS
  <1>2. PICK f : /\ f[0] = <<>> /\ f[n] = At(s, places)
                 /\ \A k \in 1..n : f[k] = IF k \in places THEN Append(f[k - 1], s[k]) ELSE f[k - 1]
    BY <1>1, AtRuns
  <1>3. PICK g : /\ g[0] = <<>> /\ g[n] = At(s, others)
                 /\ \A k \in 1..n : g[k] = IF k \in others THEN Append(g[k - 1], s[k]) ELSE g[k - 1]
    BY <1>1, AtRuns
  <1>4. \A k \in 1..n : k \in places <=> k \in others
    OBVIOUS
  <1> HIDE DEF n
  <1>5. ASSUME NEW k \in 1..n, f[k - 1] = g[k - 1] PROVE f[k] = g[k]
    BY <1>2, <1>3, <1>4, <1>5
  <1>6. f[0] = g[0]
    BY <1>2, <1>3
  <1>7. f[n] = g[n]
    BY <1>1, <1>5, <1>6, RunsAgree
  <1> QED BY <1>2, <1>3, <1>7

\* An element more is selected if its place is.
LEMMA AtAppended ==
  ASSUME NEW T, NEW s \in Seq(T), NEW e \in T, NEW places
  PROVE  At(Append(s, e), places) = IF Len(s) + 1 \in places THEN Append(At(s, places), e)
                                    ELSE At(s, places)
  <1> DEFINE n == Len(s)
             more == Append(s, e)
  <1>1. /\ n \in Nat /\ Len(more) = n + 1 /\ more[n + 1] = e
        /\ \A k \in 1..n : more[k] = s[k]
    OBVIOUS
  <1>2. PICK f : /\ f[0] = <<>> /\ f[n] = At(s, places)
                 /\ \A k \in 1..n : f[k] = IF k \in places THEN Append(f[k - 1], s[k]) ELSE f[k - 1]
    BY <1>1, AtRuns
  <1> HIDE DEF n, more
  <1>3. PICK g : /\ g[0] = <<>> /\ g[n + 1] = At(more, places)
                 /\ \A k \in 1..(n + 1) : g[k] = IF k \in places THEN Append(g[k - 1], more[k]) ELSE g[k - 1]
    <2>1. Len(more) \in Nat
      BY <1>1
    <2>2. PICK g : /\ g[0] = <<>> /\ g[Len(more)] = At(more, places)
                   /\ \A k \in 1..Len(more) : g[k] = IF k \in places THEN Append(g[k - 1], more[k]) ELSE g[k - 1]
      BY <2>1, AtRuns
    <2> QED BY <1>1, <2>2
  <1>4. ASSUME NEW k \in 1..n, f[k - 1] = g[k - 1] PROVE f[k] = g[k]
    <2>1. k \in 1..(n + 1)
      BY <1>1
    <2> QED BY <1>1, <1>2, <1>3, <1>4, <2>1
  <1>5. f[0] = g[0]
    BY <1>2, <1>3
  <1>6. f[n] = g[n]
    BY <1>1, <1>4, <1>5, RunsAgree
  <1>7. n + 1 \in 1..(n + 1) /\ (n + 1) - 1 = n
    BY <1>1
  <1>8. g[n + 1] = IF n + 1 \in places THEN Append(g[n], more[n + 1]) ELSE g[n]
    BY <1>3, <1>7
  <1> QED BY <1>1, <1>2, <1>3, <1>6, <1>8 DEF n, more

\* The selected places themselves, in order.
Picked(n, places) == At([k \in 1..n |-> k], places)

\* What is selected is what the sequence has at each of them.
LEMMA AtPicked ==
  ASSUME NEW T, NEW s \in Seq(T), NEW places
  PROVE  LET idx == Picked(Len(s), places)
         IN  /\ idx \in Seq(Nat) /\ At(s, places) \in Seq(T)
             /\ Len(At(s, places)) = Len(idx)
             /\ \A j \in 1..Len(idx) : /\ idx[j] \in places /\ idx[j] \in 1..Len(s)
                                       /\ At(s, places)[j] = s[idx[j]]
  <1> DEFINE n == Len(s)
             all == [k \in 1..n |-> k]
  <1>1. n \in Nat /\ all \in Seq(Nat) /\ Len(all) = n /\ (\A k \in 1..n : all[k] = k /\ s[k] \in T)
    OBVIOUS
  <1> HIDE DEF n, all
  <1>2. PICK f : /\ f[0] = <<>> /\ f[n] = At(s, places)
                 /\ \A k \in 1..n : f[k] = IF k \in places THEN Append(f[k - 1], s[k]) ELSE f[k - 1]
    <2>1. Len(s) \in Nat
      BY <1>1 DEF n
    <2>2. PICK f : /\ f[0] = <<>> /\ f[Len(s)] = At(s, places)
                   /\ \A k \in 1..Len(s) : f[k] = IF k \in places THEN Append(f[k - 1], s[k]) ELSE f[k - 1]
      BY <2>1, AtRuns
    <2> QED BY <2>2 DEF n
  <1>3. PICK g : /\ g[0] = <<>> /\ g[n] = At(all, places)
                 /\ \A k \in 1..n : g[k] = IF k \in places THEN Append(g[k - 1], all[k]) ELSE g[k - 1]
    <2>1. Len(all) \in Nat
      BY <1>1
    <2>2. PICK g : /\ g[0] = <<>> /\ g[Len(all)] = At(all, places)
                   /\ \A k \in 1..Len(all) : g[k] = IF k \in places THEN Append(g[k - 1], all[k]) ELSE g[k - 1]
      BY <2>1, AtRuns
    <2> QED BY <1>1, <2>2
  <1> DEFINE P(k) == /\ f[k] \in Seq(T) /\ g[k] \in Seq(Nat) /\ Len(f[k]) = Len(g[k])
                     /\ \A j \in 1..Len(g[k]) : /\ g[k][j] \in places /\ g[k][j] \in 1..n
                                                /\ f[k][j] = s[g[k][j]]
             S == {k \in 0..n : P(k)}
  <1>4. P(0)
    BY <1>2, <1>3
  <1>5. ASSUME NEW k \in 1..n, P(k - 1) PROVE P(k)
    <2> DEFINE a == f[k - 1]
               b == g[k - 1]
    <2>1. /\ a \in Seq(T) /\ b \in Seq(Nat) /\ Len(a) = Len(b)
          /\ \A j \in 1..Len(b) : b[j] \in places /\ b[j] \in 1..n /\ a[j] = s[b[j]]
      BY <1>5
    <2>2. s[k] \in T /\ k \in Nat /\ all[k] = k
      BY <1>1
    <2>3. CASE k \notin places
      <3>1. f[k] = a /\ g[k] = b
        BY <1>2, <1>3, <2>3
      <3> QED BY <2>1, <3>1
    <2>4. CASE k \in places
      <3>1. f[k] = Append(a, s[k]) /\ g[k] = Append(b, k)
        BY <1>2, <1>3, <2>2, <2>4
      <3> HIDE DEF a, b
      <3>2. /\ Append(a, s[k]) \in Seq(T) /\ Append(b, k) \in Seq(Nat)
            /\ Len(Append(a, s[k])) = Len(b) + 1 /\ Len(Append(b, k)) = Len(b) + 1 /\ Len(b) \in Nat
            /\ Append(a, s[k])[Len(b) + 1] = s[k] /\ Append(b, k)[Len(b) + 1] = k
            /\ \A j \in 1..Len(b) : Append(a, s[k])[j] = a[j] /\ Append(b, k)[j] = b[j]
        BY <2>1, <2>2
      <3>3. ASSUME NEW j \in 1..(Len(b) + 1)
            PROVE  /\ Append(b, k)[j] \in places /\ Append(b, k)[j] \in 1..n
                   /\ Append(a, s[k])[j] = s[Append(b, k)[j]]
        <4>1. j \in 1..Len(b) \/ j = Len(b) + 1
          BY <3>2
        <4> QED BY <2>1, <2>4, <3>2, <4>1
      <3> QED BY <3>1, <3>2, <3>3
    <2> QED BY <2>3, <2>4
  <1> HIDE DEF P
  <1>6. P(n)
    <2>1. 0 \in S /\ n \in 0..n
      BY <1>1, <1>4
    <2>2. \A k \in 1..n : k - 1 \in S => k \in S
      BY <1>5
    <2> HIDE DEF S
    <2>3. n \in S
      BY <1>1, <2>1, <2>2, InductUpTo
    <2> QED BY <2>3 DEF S
  <1>7. g[n] = Picked(n, places)
    BY <1>3 DEF Picked, all
  <1> QED BY <1>2, <1>6, <1>7 DEF P, n
=============================================================================
