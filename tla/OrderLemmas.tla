----------------------------- MODULE OrderLemmas -----------------------------
(***************************************************************************)
(* Facts about sets of numbers and images of functions which the proofs of *)
(* several components need.                                                *)
(***************************************************************************)
EXTENDS SequencesExt, Sorting, FiniteSetTheorems, WellFoundedInduction, TLAPS

\* A set of naturals that is not empty has a smallest element.
LEMMA SmallestExists ==
  ASSUME NEW S \in SUBSET Nat, S # {}
  PROVE  \E m \in S : \A n \in S : m <= n
<1> DEFINE Less == {p \in Nat \X Nat : p[1] < p[2]}
<1>1. IsWellFoundedOn(Less, Nat)
  BY NatLessThanWellFounded DEF OpToRel
<1> HIDE DEF Less
<1>2. PICK m \in S : \A n \in S : ~(<<n, m>> \in Less)
  BY <1>1, WFMin
<1>3. ASSUME NEW n \in S PROVE m <= n
  <2>1. ~(<<n, m>> \in Less) /\ n \in Nat /\ m \in Nat
    BY <1>2
  <2>2. ~(n < m)
    BY <2>1 DEF Less
  <2>3. QED BY <2>1, <2>2
<1>4. QED BY <1>3

\* A bounded one has a greatest.
LEMMA GreatestExists ==
  ASSUME NEW bound \in Nat, NEW S \in SUBSET (0..bound), S # {}
  PROVE  \E m \in S : \A n \in S : n <= m
<1> DEFINE gaps == {bound - n : n \in S}
<1>1. \A n \in S : n \in Nat /\ n <= bound /\ bound - n \in Nat
  OBVIOUS
<1>2. gaps \in SUBSET Nat /\ gaps # {}
  BY <1>1
<1>3. PICK g \in gaps : \A h \in gaps : g <= h
  BY <1>2, SmallestExists
<1>4. PICK m \in S : g = bound - m
  BY <1>3
<1>5. ASSUME NEW n \in S PROVE n <= m
  <2>1. bound - m <= bound - n
    BY <1>3, <1>4
  <2>2. QED BY <1>1, <2>1
<1>6. QED BY <1>5

\* The image of a finite set is finite.
LEMMA ImageFinite ==
  ASSUME NEW S, IsFiniteSet(S), NEW f
  PROVE  IsFiniteSet({f[x] : x \in S})
<1> DEFINE T == {f[x] : x \in S}
           g == [x \in S |-> f[x]]
<1>1. g \in Surjection(S, T)
  BY DEF Surjection
<1>2. QED BY <1>1, FS_Surjection

----------------------------------------------------------------------------
(* The rank of an element in an order given as a set of pairs.             *)

TotalOrder(Less, S) ==
  /\ \A x \in S : <<x, x>> \notin Less
  /\ \A x, y \in S : x # y => <<x, y>> \in Less \/ <<y, x>> \in Less
  /\ \A x, y, z \in S : <<x, y>> \in Less /\ <<y, z>> \in Less => <<x, z>> \in Less

LEMMA RankGrows ==
  ASSUME NEW S, IsFiniteSet(S), NEW Less, TotalOrder(Less, S), NEW x \in S, NEW y \in S, <<x, y>> \in Less
  PROVE  Rank(x, S, Less) < Rank(y, S, Less)
<1> DEFINE A == {z \in S : <<z, x>> \in Less}
           B == {z \in S : <<z, y>> \in Less}
<1>1. A \subseteq B /\ x \in B /\ x \notin A
  BY DEF TotalOrder
<1>2. IsFiniteSet(B) /\ IsFiniteSet(A)
  BY FS_Subset
<1>3. Cardinality(A) <= Cardinality(B) /\ Cardinality(A) # Cardinality(B)
  BY <1>1, <1>2, FS_Subset
<1>4. Cardinality(A) \in Nat /\ Cardinality(B) \in Nat
  BY <1>2, FS_CardinalityType
<1>5. Cardinality(A) < Cardinality(B)
  BY <1>3, <1>4
<1>6. QED BY <1>5 DEF Rank

LEMMA RankInRange ==
  ASSUME NEW S, IsFiniteSet(S), NEW Less, TotalOrder(Less, S), NEW x \in S
  PROVE  Rank(x, S, Less) \in 0..(Cardinality(S) - 1)
<1> DEFINE A == {z \in S : <<z, x>> \in Less}
<1>1. A \in SUBSET S /\ x \notin A
  BY DEF TotalOrder
<1>2. IsFiniteSet(A) /\ Cardinality(A) <= Cardinality(S) /\ Cardinality(A) # Cardinality(S)
  BY <1>1, FS_Subset
<1>3. Cardinality(A) \in Nat /\ Cardinality(S) \in Nat
  BY <1>2, FS_CardinalityType
<1>4. Cardinality(A) \in 0..(Cardinality(S) - 1)
  BY <1>2, <1>3
<1>5. QED BY <1>4 DEF Rank

\* Every rank below the number of elements is the rank of exactly one of them.
LEMMA RankOnto ==
  ASSUME NEW S, IsFiniteSet(S), NEW Less, TotalOrder(Less, S)
  PROVE  /\ \A x, y \in S : Rank(x, S, Less) = Rank(y, S, Less) => x = y
         /\ \A k \in 0..(Cardinality(S) - 1) : \E x \in S : Rank(x, S, Less) = k
<1> DEFINE n == Cardinality(S)
           f == [x \in S |-> Rank(x, S, Less)]
<1>1. \A x \in S : Rank(x, S, Less) \in 0..(n - 1)
  BY RankInRange
<1>2. ASSUME NEW x \in S, NEW y \in S, Rank(x, S, Less) = Rank(y, S, Less) PROVE x = y
  <2>1. Rank(x, S, Less) \in Int /\ ~(Rank(x, S, Less) < Rank(y, S, Less)) /\ ~(Rank(y, S, Less) < Rank(x, S, Less))
    BY <1>1, <1>2
  <2>2. <<x, y>> \notin Less /\ <<y, x>> \notin Less
    BY <2>1, RankGrows
  <2>3. QED BY <2>2 DEF TotalOrder
<1>3. f \in Injection(S, 0..(n - 1))
  BY <1>1, <1>2 DEF Injection, IsInjective
<1>4. n \in Nat
  BY FS_CardinalityType
<1>5. IsFiniteSet(0..(n - 1)) /\ Cardinality(0..(n - 1)) = n
  BY <1>4, FS_Interval
<1>6. f \in Surjection(S, 0..(n - 1))
  <2> HIDE DEF f, n
  <2>1. Cardinality(S) = Cardinality(0..(n - 1))
    BY <1>5 DEF n
  <2>2. QED BY <1>3, <1>5, <2>1, FS_Injection
<1>7. \A k \in 0..(n - 1) : \E x \in S : f[x] = k
  BY <1>6 DEF Surjection
<1>8. QED BY <1>2, <1>7

\* What Sorted returns: every element once, each after those that are less.
LEMMA SortedIs ==
  ASSUME NEW S, IsFiniteSet(S), NEW Less, TotalOrder(Less, S)
  PROVE  LET s == Sorted(S, Less)  n == Cardinality(S) IN
         /\ n \in Nat /\ s \in [1..n -> S]
         /\ \A j, k \in 1..n : j < k => <<s[j], s[k]>> \in Less
         /\ \A x \in S : \E k \in 1..n : s[k] = x
<1> DEFINE n == Cardinality(S)
           s == Sorted(S, Less)
<1>1. n \in Nat
  BY FS_CardinalityType
<1>2. s = [k \in 1..n |-> CHOOSE x \in S : Rank(x, S, Less) = k - 1]
  BY DEF Sorted
<1>3. /\ \A x, y \in S : Rank(x, S, Less) = Rank(y, S, Less) => x = y
      /\ \A k \in 0..(n - 1) : \E x \in S : Rank(x, S, Less) = k
  BY RankOnto
<1>4. \A x \in S : Rank(x, S, Less) \in 0..(n - 1)
  BY RankInRange
<1> HIDE DEF n
<1>5. ASSUME NEW k \in 1..n PROVE s[k] \in S /\ Rank(s[k], S, Less) = k - 1
  <2>1. k - 1 \in 0..(n - 1)
    BY <1>1
  <2>2. \E x \in S : Rank(x, S, Less) = k - 1
    BY <1>3, <2>1
  <2>3. s[k] = CHOOSE x \in S : Rank(x, S, Less) = k - 1
    BY <1>2
  <2>4. QED BY <2>2, <2>3
<1>6. s \in [1..n -> S]
  BY <1>2, <1>5
<1> HIDE DEF s
<1>7. ASSUME NEW j \in 1..n, NEW k \in 1..n, j < k PROVE <<s[j], s[k]>> \in Less
  <2>1. s[j] # s[k] /\ ~(Rank(s[k], S, Less) < Rank(s[j], S, Less))
    BY <1>1, <1>5, <1>7
  <2>2. <<s[k], s[j]>> \notin Less
    BY <1>5, <2>1, RankGrows
  <2>3. QED BY <1>5, <2>1, <2>2 DEF TotalOrder
<1>8. ASSUME NEW x \in S PROVE \E k \in 1..n : s[k] = x
  <2>1. Rank(x, S, Less) + 1 \in 1..n /\ (Rank(x, S, Less) + 1) - 1 = Rank(x, S, Less)
    BY <1>1, <1>4
  <2>2. s[Rank(x, S, Less) + 1] = x
    BY <1>3, <1>5, <2>1
  <2>3. QED BY <2>1, <2>2
<1>9. QED BY <1>1, <1>6, <1>7, <1>8 DEF n, s

----------------------------------------------------------------------------
(* A list cut down to the elements of a set.                               *)

\* at lists, in ascending order, the places of s whose elements are in S.
IsCut(at, m, s, S) == /\ m \in Nat /\ at \in [1..m -> PositionsIn(s, S)]
                      /\ \A j, k \in 1..m : j < k => at[j] < at[k]
                      /\ \A x \in PositionsIn(s, S) : \E k \in 1..m : at[k] = x
                      /\ Only(s, S) = [k \in 1..m |-> s[at[k]]]

LEMMA OnlyIs ==
  ASSUME NEW n \in Nat, NEW s, DOMAIN s = 1..n, NEW S
  PROVE  \E at, m : IsCut(at, m, s, S)
<1> DEFINE P == PositionsIn(s, S)
           Less == Ascending(P)
           at == Sorted(P, Less)
           m == Cardinality(P)
<1>1. P \in SUBSET (1..n)
  BY DEF PositionsIn
<1>2. IsFiniteSet(P)
  <2>1. 1 \in Int /\ n \in Int
    OBVIOUS
  <2>2. IsFiniteSet(1..n)
    BY <2>1, FS_Interval
  <2>3. QED BY <1>1, <2>2, FS_Subset
<1>3. \A x, y \in P : x \in Int /\ (<<x, y>> \in Less <=> x < y)
  BY <1>1 DEF Ascending
<1>4. Only(s, S) = [k \in DOMAIN at |-> s[at[k]]]
  BY DEF Only
<1> HIDE DEF P, Less
<1>5. TotalOrder(Less, P)
  <2>1. \A x \in P : <<x, x>> \notin Less
    BY <1>3
  <2>2. \A x, y \in P : x # y => <<x, y>> \in Less \/ <<y, x>> \in Less
    BY <1>3
  <2>3. ASSUME NEW x \in P, NEW y \in P, NEW z \in P, <<x, y>> \in Less, <<y, z>> \in Less
        PROVE  <<x, z>> \in Less
    <3>1. x < y /\ y < z /\ x \in Int /\ y \in Int /\ z \in Int
      BY <1>3, <2>3
    <3>2. QED BY <1>3, <3>1
  <2>4. QED BY <2>1, <2>2, <2>3 DEF TotalOrder
<1>6. /\ m \in Nat /\ at \in [1..m -> P]
      /\ \A j, k \in 1..m : j < k => <<at[j], at[k]>> \in Less
      /\ \A x \in P : \E k \in 1..m : at[k] = x
  BY <1>2, <1>5, SortedIs
<1> HIDE DEF at, m
<1>7. \A j, k \in 1..m : j < k => at[j] < at[k]
  BY <1>3, <1>6
<1>8. IsCut(at, m, s, S)
  BY <1>4, <1>6, <1>7 DEF IsCut, P
<1>9. QED BY <1>8

Distinct(s) == \A j, k \in DOMAIN s : s[j] = s[k] => j = k

LEMMA OnlySeq ==
  ASSUME NEW T, NEW s \in Seq(T), NEW S
  PROVE  /\ Only(s, S) \in Seq(T \cap S)
         /\ ToSet(Only(s, S)) = ToSet(s) \cap S
         /\ Distinct(s) => Distinct(Only(s, S))
<1> DEFINE n == Len(s)
<1>1. n \in Nat /\ DOMAIN s = 1..n /\ \A k \in 1..n : s[k] \in T
  OBVIOUS
<1> HIDE DEF n
<1>2. PICK at, m : IsCut(at, m, s, S)
  BY <1>1, OnlyIs
<1> DEFINE r == Only(s, S)
<1>3. /\ m \in Nat /\ r = [k \in 1..m |-> s[at[k]]]
      /\ \A k \in 1..m : at[k] \in 1..n /\ s[at[k]] \in S
  BY <1>1, <1>2 DEF IsCut, PositionsIn
<1> HIDE DEF r
<1>4. DOMAIN r = 1..m /\ \A k \in 1..m : r[k] = s[at[k]] /\ r[k] \in T \cap S
  BY <1>1, <1>3
<1>5. r \in Seq(T \cap S)
  BY <1>3, <1>4
<1>6. ToSet(r) \subseteq ToSet(s) \cap S
  BY <1>1, <1>3, <1>4 DEF ToSet
<1>7. ASSUME NEW x \in ToSet(s) \cap S PROVE x \in ToSet(r)
  <2>1. PICK p \in 1..n : s[p] = x
    BY <1>1 DEF ToSet
  <2>2. p \in PositionsIn(s, S)
    BY <1>1, <2>1 DEF PositionsIn
  <2>3. PICK k \in 1..m : at[k] = p
    BY <1>2, <2>2 DEF IsCut
  <2>4. QED BY <1>4, <2>1, <2>3 DEF ToSet
<1>8. ASSUME Distinct(s), NEW j \in 1..m, NEW k \in 1..m, r[j] = r[k] PROVE j = k
  <2>1. at[j] = at[k] /\ at[j] \in 1..n
    BY <1>1, <1>3, <1>4, <1>8 DEF Distinct
  <2>2. ~(at[j] < at[k]) /\ ~(at[k] < at[j])
    BY <2>1
  <2>3. ~(j < k) /\ ~(k < j)
    BY <1>2, <2>2 DEF IsCut
  <2>4. QED BY <1>3, <2>3
<1>9. Distinct(s) => Distinct(r)
  BY <1>4, <1>8 DEF Distinct
<1>10. QED BY <1>5, <1>6, <1>7, <1>9 DEF r

----------------------------------------------------------------------------
(* Folds over sequences.                                                   *)

LEMMA GreatestOfPrefix ==
  ASSUME NEW k \in Nat, NEW s \in SUBSET (1..k), k \in s
  PROVE  Max(s) = k
<1>1. \A y \in s : k >= y
  OBVIOUS
<1>2. \A x \in s : (\A y \in s : x >= y) => x = k
  OBVIOUS
<1>3. QED BY <1>1, <1>2 DEF Max

LEMMA PrefixMax ==
  ASSUME NEW k \in Nat, k # 0
  PROVE  1..k # {} /\ Max(1..k) = k /\ (1..k) \ {k} = 1..(k - 1)
<1>1. k \in 1..k /\ 1..k \in SUBSET (1..k)
  OBVIOUS
<1>2. Max(1..k) = k
  BY <1>1, GreatestOfPrefix
<1>3. (1..k) \ {k} = 1..(k - 1)
  OBVIOUS
<1>4. QED BY <1>1, <1>2, <1>3

FoldsTo(g, n, base, step) ==
  \A s \in SUBSET (1..n) : g[s] = IF s = {} THEN base ELSE step[<<Max(s), g[s \ {Max(s)}]>>]

LEMMA FoldExists ==
  ASSUME NEW n \in Nat, NEW R, NEW base \in R, NEW step \in [(1..n) \X R -> R]
  PROVE  \E g \in [SUBSET (1..n) -> R] : FoldsTo(g, n, base, step)
<1> DEFINE There(k) == \E g \in [SUBSET (1..k) -> R] : FoldsTo(g, k, base, step)
           Bad == {k \in 0..n : ~There(k)}
<1>1. There(0)
  <2> DEFINE g == [s \in SUBSET (1..0) |-> base]
  <2>1. SUBSET (1..0) = {{}}
    OBVIOUS
  <2>2. g \in [SUBSET (1..0) -> R]
    OBVIOUS
  <2>3. FoldsTo(g, 0, base, step)
    BY <2>1 DEF FoldsTo
  <2>4. QED BY <2>2, <2>3
<1>2. ASSUME NEW k \in 1..n, There(k - 1) PROVE There(k)
  <2>1. PICK h \in [SUBSET (1..(k - 1)) -> R] : FoldsTo(h, k - 1, base, step)
    BY <1>2
  <2> DEFINE g == [s \in SUBSET (1..k) |-> IF k \in s THEN step[<<k, h[s \ {k}]>>] ELSE h[s]]
  <2>2. \A s \in SUBSET (1..k) : IF k \in s THEN s \ {k} \in SUBSET (1..(k - 1)) ELSE s \in SUBSET (1..(k - 1))
    OBVIOUS
  <2>3. \A r \in R : step[<<k, r>>] \in R
    BY <1>2
  <2>4. g \in [SUBSET (1..k) -> R]
    BY <2>1, <2>2, <2>3
  <2>5. ASSUME NEW s \in SUBSET (1..k) PROVE g[s] = IF s = {} THEN base ELSE step[<<Max(s), g[s \ {Max(s)}]>>]
    <3>1. CASE k \in s
      <4>1. Max(s) = k
        BY <3>1, GreatestOfPrefix
      <4>2. g[s \ {k}] = h[s \ {k}]
        BY <2>2, <3>1
      <4>3. QED BY <3>1, <4>1, <4>2
    <3>2. CASE k \notin s
      <4>1. s \in SUBSET (1..(k - 1)) /\ g[s] = h[s]
        BY <2>2, <3>2
      <4>2. CASE s = {}
        BY <2>1, <4>1, <4>2 DEF FoldsTo
      <4>3. CASE s # {}
        <5> DEFINE m == Max(s)
        <5>1. h[s] = step[<<m, h[s \ {m}]>>]
          BY <2>1, <4>1, <4>3 DEF FoldsTo
        <5>2. s \ {m} \in SUBSET (1..k) /\ k \notin s \ {m}
          BY <3>2
        <5>3. g[s \ {m}] = h[s \ {m}]
          BY <5>2
        <5>4. QED BY <4>1, <4>3, <5>1, <5>3
      <4>4. QED BY <4>2, <4>3
    <3>3. QED BY <3>1, <3>2
  <2> HIDE DEF g
  <2>6. QED BY <2>4, <2>5 DEF FoldsTo
<1>3. Bad = {}
  <2> SUFFICES ASSUME Bad # {} PROVE FALSE
    OBVIOUS
  <2> HIDE DEF There
  <2>0. Bad \in SUBSET Nat
    OBVIOUS
  <2>1. PICK k \in Bad : \A j \in Bad : k <= j
    BY <2>0, SmallestExists
  <2>2. k # 0 /\ k \in 1..n
    BY <1>1
  <2>3. k - 1 \in 0..n /\ k - 1 \notin Bad
    BY <2>1, <2>2
  <2>4. There(k - 1)
    BY <2>3
  <2>5. QED BY <1>2, <2>2, <2>4
<1>4. There(n)
  <2> HIDE DEF There
  <2>1. n \in 0..n
    OBVIOUS
  <2>2. QED BY <1>3, <2>1
<1>5. QED BY <1>4

LEMMA GreatestIsIn ==
  ASSUME NEW n \in Nat, NEW t \in SUBSET (1..n), t # {}
  PROVE  Max(t) \in t
<1>1. t \in SUBSET (0..n)
  OBVIOUS
<1>2. PICK m \in t : \A k \in t : k <= m
  BY <1>1, GreatestExists
<1>3. \A k \in t : m >= k
  BY <1>1, <1>2
<1>4. QED BY <1>3 DEF Max

\* A fold over every set of indices has its value at each prefix from the one before.
Follows(iter, n, R, step) ==
  \A t \in SUBSET (1..n) :
    t # {} /\ iter[t \ {Max(t)}] \in R => iter[t] = step[<<Max(t), iter[t \ {Max(t)}]>>]

IsPrefixes(h, iter, n, step) == /\ h[0] = iter[{}] /\ h[n] = iter[1..n]
                                /\ \A k \in 1..n : h[k] = step[<<k, h[k - 1]>>]

LEMMA PrefixValues ==
  ASSUME NEW n \in Nat, NEW R, NEW step \in [(1..n) \X R -> R], NEW iter, iter[{}] \in R,
         Follows(iter, n, R, step)
  PROVE  \E h \in [0..n -> R] : IsPrefixes(h, iter, n, step)
<1> DEFINE h == [k \in 0..n |-> iter[1..k]]
<1>1. ASSUME NEW k \in 1..n, h[k - 1] \in R PROVE h[k] = step[<<k, h[k - 1]>>]
  <2>1. k \in Nat /\ k # 0 /\ 1..k \in SUBSET (1..n) /\ k - 1 \in 0..n /\ k \in 0..n
    OBVIOUS
  <2>2. 1..k # {} /\ Max(1..k) = k /\ (1..k) \ {k} = 1..(k - 1)
    BY <2>1, PrefixMax
  <2>3. QED BY <1>1, <2>1, <2>2 DEF Follows
<1>2. h[0] = iter[{}] /\ h[n] = iter[1..n]
  <2>1. 1..0 = {} /\ 0 \in 0..n /\ n \in 0..n
    OBVIOUS
  <2>2. QED BY <2>1
<1> HIDE DEF h
<1>3. \A k \in 0..n : h[k] \in R
  <2> DEFINE Bad == {k \in 0..n : h[k] \notin R}
  <2> SUFFICES ASSUME Bad # {} PROVE FALSE
    OBVIOUS
  <2>1. Bad \in SUBSET Nat
    OBVIOUS
  <2>2. PICK k \in Bad : \A j \in Bad : k <= j
    BY <2>1, SmallestExists
  <2>3. k # 0 /\ k \in 1..n
    BY <1>2
  <2>4. k - 1 \in 0..n /\ k - 1 \notin Bad
    BY <2>2, <2>3
  <2>5. h[k - 1] \in R
    BY <2>4
  <2>6. h[k] = step[<<k, h[k - 1]>>]
    BY <1>1, <2>3, <2>5
  <2>7. QED BY <2>3, <2>5, <2>6
<1>4. h \in [0..n -> R]
  BY <1>3 DEF h
<1>5. \A k \in 1..n : h[k] = step[<<k, h[k - 1]>>]
  BY <1>1, <1>3
<1>6. IsPrefixes(h, iter, n, step)
  BY <1>2, <1>5 DEF IsPrefixes
<1>7. QED BY <1>4, <1>6

\* The elements of a finite set in some order.
LEMMA SetToSeqIs ==
  ASSUME NEW S, IsFiniteSet(S)
  PROVE  /\ Cardinality(S) \in Nat /\ SetToSeq(S) \in [1..Cardinality(S) -> S]
         /\ \A j, k \in 1..Cardinality(S) : SetToSeq(S)[j] = SetToSeq(S)[k] => j = k
         /\ \A x \in S : \E k \in 1..Cardinality(S) : SetToSeq(S)[k] = x
<1> DEFINE n == Cardinality(S)
<1>1. n \in Nat /\ ExistsBijection(1..n, S)
  BY FS_CardinalityType
<1>2. \E f \in [1..n -> S] : IsInjective(f)
  BY <1>1 DEF ExistsBijection, Bijection, Injection
<1>3. SetToSeq(S) \in [1..n -> S] /\ IsInjective(SetToSeq(S))
  BY <1>2 DEF SetToSeq
<1> DEFINE f == SetToSeq(S)
<1>4. f \in Injection(1..n, S)
  BY <1>3 DEF Injection
<1>5. IsFiniteSet(1..n) /\ Cardinality(1..n) = n
  BY <1>1, FS_Interval
<1> HIDE DEF f
<1>6. f \in Surjection(1..n, S)
  BY <1>4, <1>5, FS_Injection
<1>7. \A x \in S : \E k \in 1..n : f[k] = x
  BY <1>6 DEF Surjection
<1>8. \A j, k \in 1..n : f[j] = f[k] => j = k
  BY <1>3 DEF IsInjective, f
<1>9. QED BY <1>1, <1>3, <1>7, <1>8 DEF f
=============================================================================
