-------------------------- MODULE UptimeStats_proofs --------------------------
(***************************************************************************)
(* Proofs about UptimeStats: what compute_downtime_seconds returns for any *)
(* checks of any day.                                                      *)
(***************************************************************************)
EXTENDS UptimeStats, OrderLemmas

\* Checks as the table holds them: no two of a component have the same time.
EventsOK(events) ==
  /\ IsFiniteSet(events)
  /\ \A e \in events : e.at \in Nat /\ e.outcome \in Outcomes
  /\ \A e, f \in events : e.at = f.at => e = f

----------------------------------------------------------------------------
(* Days.                                                                   *)

LEMMA DayBounds ==
  ASSUME NEW t \in Nat
  PROVE  DayOf(t) \in Nat /\ DayStart(DayOf(t)) <= t /\ t < DayEnd(DayOf(t))
BY DayAssumption DEF DayOf, DayStart, DayEnd

LEMMA DayOrder ==
  ASSUME NEW d \in Int, NEW e \in Int, d <= e
  PROVE  /\ DayStart(d) \in Int /\ DayEnd(d) \in Int
         /\ DayStart(d) <= DayStart(e) /\ DayEnd(d) <= DayEnd(e)
BY DayAssumption DEF DayStart, DayEnd

LEMMA DayIs ==
  ASSUME NEW t \in Nat, NEW d \in Int
  PROVE  DayOf(t) = d <=> DayStart(d) <= t /\ t < DayEnd(d)
<1>1. DayOf(t) \in Nat /\ DayStart(DayOf(t)) <= t /\ t < DayEnd(DayOf(t))
  BY DayBounds
<1>2. DayEnd(d) = DayStart(d + 1) /\ DayEnd(DayOf(t)) = DayStart(DayOf(t) + 1)
  BY DEF DayEnd
<1>3. CASE DayOf(t) = d
  BY <1>1, <1>3
<1>4. CASE DayOf(t) < d
  <2>1. DayStart(DayOf(t) + 1) <= DayStart(d) /\ {DayStart(d), DayStart(DayOf(t) + 1)} \subseteq Int
    BY <1>1, <1>4, DayOrder
  <2>2. QED BY <1>1, <1>2, <1>4, <2>1
<1>5. CASE DayOf(t) > d
  <2>1. DayStart(d + 1) <= DayStart(DayOf(t)) /\ {DayStart(d + 1), DayStart(DayOf(t))} \subseteq Int
    BY <1>1, <1>5, DayOrder
  <2>2. QED BY <1>1, <1>2, <1>5, <2>1
<1>6. QED BY <1>1, <1>3, <1>4, <1>5

LEMMA DaySpan ==
  ASSUME NEW d \in Nat
  PROVE  /\ DayStart(d) \in Nat /\ DayEnd(d) \in Nat
         /\ DayEnd(d) = DayStart(d) + DayLength /\ DayStart(d) < DayEnd(d)
BY DayAssumption DEF DayStart, DayEnd

\* The newest of some events is one of them.
LEMMA NewestOf ==
  ASSUME NEW rows, rows # {}, NEW bound \in Nat, \A r \in rows : r.at \in 0..bound
  PROVE  Newest(rows) \in rows /\ \A r \in rows : r.at <= Newest(rows).at
<1> DEFINE times == {r.at : r \in rows}
<1>1. times \in SUBSET (0..bound) /\ times # {}
  OBVIOUS
<1>2. PICK m \in times : \A n \in times : n <= m
  BY <1>1, GreatestExists
<1>3. PICK r \in rows : \A q \in rows : q.at <= r.at
  BY <1>2
<1>4. QED BY <1>3 DEF Newest

----------------------------------------------------------------------------
(* The loop of compute_downtime_seconds.                                   *)

\* sorted() puts every check in its place.
LEMMA SortedEvents ==
  ASSUME NEW events, EventsOK(events)
  PROVE  LET s == Sorted(events, Earlier(events))  n == Cardinality(events) IN
         /\ n \in Nat /\ s \in [1..n -> events]
         /\ \A j, k \in 1..n : j < k => s[j].at < s[k].at
         /\ \A e \in events : \E k \in 1..n : s[k] = e
<1> DEFINE n == Cardinality(events)
           s == Sorted(events, Earlier(events))
<1>1. \A x, y \in events : /\ x.at \in Nat
                           /\ x # y => x.at < y.at \/ y.at < x.at
                           /\ <<x, y>> \in Earlier(events) <=> x.at < y.at
  BY DEF EventsOK, Earlier
<1>2. TotalOrder(Earlier(events), events) /\ IsFiniteSet(events)
  BY <1>1 DEF TotalOrder, EventsOK
<1>3. /\ n \in Nat /\ s \in [1..n -> events]
      /\ \A j, k \in 1..n : j < k => <<s[j], s[k]>> \in Earlier(events)
      /\ \A e \in events : \E k \in 1..n : s[k] = e
  BY <1>2, SortedIs
<1>4. QED
  <2> HIDE DEF n, s
  <2>1. \A j, k \in 1..n : j < k => s[j].at < s[k].at
    BY <1>1, <1>3
  <2>2. QED BY <1>3, <2>1 DEF n, s

Sums == [total : Nat, since : Nat \cup {Unset}]

LEMMA CountType ==
  ASSUME NEW s \in Sums, NEW e, e.at \in Nat
  PROVE  Count(s, e) \in Sums
BY DEF Count, Sums, Elapsed, Unset

\* The loop, event by event: h[k] is what it has counted after k of them.
IsLoop(h, n, s, base) == /\ h[0] = base /\ \A k \in 1..n : h[k] = Count(h[k - 1], s[k])
                         /\ FoldLeft(Count, base, s) = h[n]

LEMMA CountFold ==
  ASSUME NEW n \in Nat, NEW s, DOMAIN s = 1..n, \A k \in 1..n : s[k].at \in Nat, NEW base \in Sums
  PROVE  \E h \in [0..n -> Sums] : IsLoop(h, n, s, base)
<1> DEFINE step == [x \in (1..n) \X Sums |-> Count(x[2], s[x[1]])]
           Iterates(g) == g = [t \in SUBSET (1..n) |->
                                 IF t = {} THEN base ELSE Count(g[t \ {Max(t)}], s[Max(t)])]
           iter == CHOOSE g : Iterates(g)
<1>1. step \in [(1..n) \X Sums -> Sums]
  BY CountType
<1>2. PICK g \in [SUBSET (1..n) -> Sums] : FoldsTo(g, n, base, step)
  BY <1>1, FoldExists
<1>4. ASSUME NEW t \in SUBSET (1..n), t # {} PROVE g[t] = Count(g[t \ {Max(t)}], s[Max(t)])
  <2>1. Max(t) \in 1..n /\ g[t \ {Max(t)}] \in Sums
    BY <1>2, <1>4, GreatestIsIn
  <2>2. g[t] = step[<<Max(t), g[t \ {Max(t)}]>>]
    BY <1>2, <1>4 DEF FoldsTo
  <2>3. QED BY <2>1, <2>2
<1>5. g[{}] = base
  BY <1>2 DEF FoldsTo
<1>6. Iterates(g)
  BY <1>2, <1>4, <1>5
<1>7. Iterates(iter)
  BY <1>6
<1>8. FoldLeft(Count, base, s) = iter[1..n]
  BY DEF FoldLeft, MapThenFoldSet
<1>9. iter[{}] = base /\ \A t \in SUBSET (1..n) : t # {} => iter[t] = Count(iter[t \ {Max(t)}], s[Max(t)])
  <2> HIDE DEF iter
  <2>1. QED BY <1>7
<1> HIDE DEF iter
<1>10. Follows(iter, n, Sums, step)
  BY <1>9, GreatestIsIn DEF Follows
<1>11. PICK h \in [0..n -> Sums] : IsPrefixes(h, iter, n, step)
  <2>1. iter[{}] \in Sums
    BY <1>9
  <2> HIDE DEF step
  <2>2. QED BY <1>1, <2>1, <1>10, PrefixValues
<1>12. ASSUME NEW k \in 1..n PROVE h[k] = Count(h[k - 1], s[k])
  <2>1. k - 1 \in 0..n
    OBVIOUS
  <2>2. QED BY <1>11, <2>1 DEF IsPrefixes
<1>13. QED BY <1>8, <1>9, <1>11, <1>12 DEF IsPrefixes, IsLoop

----------------------------------------------------------------------------
(* The reference: the seconds at which the newest check had found an outage. *)

Down(events, t) == \E e \in events : /\ e.at <= t /\ e.outcome \in OutageOutcomes
                                     /\ \A f \in events : f.at <= t => f.at <= e.at
Seconds(events, d, x) == {t \in DayStart(d)..(x - 1) : Down(events, t)}

LEMMA DownIs ==
  ASSUME NEW events, EventsOK(events), NEW t \in Nat, NEW e \in events, e.at <= t,
         \A f \in events : f.at <= t => f.at <= e.at
  PROVE  Down(events, t) <=> e.outcome \in OutageOutcomes
<1>1. ASSUME NEW g \in events, g.at <= t, \A f \in events : f.at <= t => f.at <= g.at PROVE g = e
  <2>1. g.at <= e.at /\ e.at <= g.at /\ g.at \in Nat /\ e.at \in Nat
    BY <1>1 DEF EventsOK
  <2>2. g.at = e.at
    BY <2>1
  <2>3. QED BY <2>2 DEF EventsOK
<1>2. QED BY <1>1 DEF Down

\* The seconds up to a later instant, when all in between are of an outage ...
LEMMA SecondsAdd ==
  ASSUME NEW events, NEW d \in Nat, NEW x \in Nat, NEW y \in Nat, DayStart(d) <= x, x <= y,
         \A t \in x..(y - 1) : Down(events, t)
  PROVE  /\ Cardinality(Seconds(events, d, x)) \in Nat
         /\ Cardinality(Seconds(events, d, y)) = Cardinality(Seconds(events, d, x)) + (y - x)
<1> DEFINE X == Seconds(events, d, x)
           Y == Seconds(events, d, y)
           Z == x..(y - 1)
<1>1. DayStart(d) \in Nat
  BY DaySpan
<1>2. IsFiniteSet(X)
  <2>1. IsFiniteSet(DayStart(d)..(x - 1))
    BY <1>1, x - 1 \in Int, DayStart(d) \in Int, FS_Interval
  <2>2. X \in SUBSET (DayStart(d)..(x - 1))
    BY DEF Seconds
  <2>3. QED BY <2>1, <2>2, FS_Subset
<1>3. Y = X \cup Z /\ X \cap Z = {}
  BY <1>1 DEF Seconds
<1>4. IsFiniteSet(Z) /\ Cardinality(Z) = y - x
  <2>1. x \in Int /\ y - 1 \in Int
    OBVIOUS
  <2>2. IsFiniteSet(Z) /\ Cardinality(Z) = IF x > y - 1 THEN 0 ELSE (y - 1) - x + 1
    BY <2>1, FS_Interval
  <2> HIDE DEF Z
  <2>3. QED BY <2>2
<1> HIDE DEF X, Y, Z
<1>5. Cardinality(X \cup Z) = Cardinality(X) + Cardinality(Z) - Cardinality(X \cap Z)
  BY <1>2, <1>4, FS_Union
<1>6. Cardinality(X \cap Z) = 0 /\ Cardinality(X) \in Nat
  BY <1>2, <1>3, FS_EmptySet, FS_CardinalityType
<1>7. Cardinality(Y) = Cardinality(X) + (y - x)
  BY <1>3, <1>4, <1>5, <1>6
<1>8. QED BY <1>6, <1>7 DEF X, Y

\* ... and when none is.
LEMMA SecondsStay ==
  ASSUME NEW events, NEW d \in Nat, NEW x \in Nat, NEW y \in Nat, DayStart(d) <= x, x <= y,
         \A t \in x..(y - 1) : ~Down(events, t)
  PROVE  Seconds(events, d, y) = Seconds(events, d, x)
BY DaySpan DEF Seconds

\* The state at the start of a day is that of the newest check before it.
LEMMA StartOfDay ==
  ASSUME NEW events, EventsOK(events), NEW now \in Nat, \A e \in events : e.at <= now,
         NEW d \in Nat, NEW first \in Nat, d = first \/ OnDay(events, d - 1) # {},
         NEW t \in Nat, DayStart(d) <= t, \A e \in events : e.at <= t => e.at < DayStart(d)
  PROVE  Down(events, t) <=> Continuing(events, d, first)
<1> DEFINE early == {e \in events : e.at < DayStart(d)}
           before == IF OnDay(events, d - 1) # {} THEN OnDay(events, d - 1)
                     ELSE IF d = first THEN early ELSE {}
<1>1. Continuing(events, d, first) <=> before # {} /\ Newest(before).outcome \in OutageOutcomes
  BY DEF Continuing
<1>2. \A e \in events : e.at \in Nat
  BY DEF EventsOK
<1>3. DayStart(d) \in Nat /\ DayStart(d - 1) \in Int /\ DayEnd(d - 1) = DayStart(d)
  BY DaySpan, DayAssumption DEF DayStart, DayEnd
<1>4. OnDay(events, d - 1) = {e \in events : DayStart(d - 1) <= e.at /\ e.at < DayStart(d)}
  BY <1>2, <1>3, DayIs DEF OnDay
<1>5. before \subseteq early /\ \A e \in early, f \in before : e \in before \/ e.at <= f.at
  BY <1>2, <1>3, <1>4
<1>6. before = {} => early = {}
  OBVIOUS
<1> HIDE DEF before
<1>7. CASE before = {}
  BY <1>1, <1>6, <1>7 DEF Down
<1>8. CASE before # {}
  <2>1. \A e \in before : e.at \in 0..now
    BY <1>2, <1>5
  <2>2. Newest(before) \in before /\ \A e \in before : e.at <= Newest(before).at
    BY <1>8, <2>1, NewestOf
  <2> DEFINE m == Newest(before)
  <2>3. m \in events /\ m.at <= t
    BY <1>2, <1>3, <1>5, <2>2
  <2>4. \A f \in events : f.at <= t => f.at <= m.at
    BY <1>5, <2>2
  <2> HIDE DEF m
  <2>5. Down(events, t) <=> m.outcome \in OutageOutcomes
    BY <2>3, <2>4, DownIs
  <2>6. QED BY <1>1, <1>8, <2>5 DEF m
<1>9. QED BY <1>7, <1>8

\* The seconds of downtime of a day are those of the reference.
LEMMA DowntimeIsExact ==
  ASSUME NEW events, EventsOK(events), NEW now \in Nat, \A e \in events : e.at <= now,
         NEW d \in Nat, NEW first \in Nat, OnDay(events, d) # {},
         d = first \/ OnDay(events, d - 1) # {}
  PROVE  ShownDowntime(events, d, first, now) = Cardinality(OutageSeconds(events, d, now))
<1> DEFINE day == OnDay(events, d)
           n == Cardinality(day)
           s == Sorted(day, Earlier(day))
           start == DayStart(d)
           end == IF now < DayEnd(d) THEN now ELSE DayEnd(d)
           cont == Continuing(events, d, first)
           base == [total |-> 0, since |-> IF cont THEN start ELSE Unset]
<1>1. day = {e \in events : start <= e.at /\ e.at < DayEnd(d)}
  BY DayIs DEF OnDay, EventsOK
<1>2. EventsOK(day)
  BY <1>1, FS_Subset DEF EventsOK
<1>3. /\ n \in Nat /\ s \in [1..n -> day]
      /\ \A j, k \in 1..n : j < k => s[j].at < s[k].at
      /\ \A e \in day : \E k \in 1..n : s[k] = e
  BY <1>2, SortedEvents
<1>4. start \in Nat /\ DayEnd(d) \in Nat /\ start < DayEnd(d)
  BY DaySpan
<1>5. n # 0
  BY <1>1, <1>3
<1>6. base \in Sums
  BY <1>4 DEF Sums
<1>7. \A k \in 1..n : s[k] \in events /\ s[k].at \in Nat /\ start <= s[k].at /\ s[k].at < DayEnd(d) /\ s[k].at <= now
  BY <1>1, <1>3 DEF EventsOK
<1> HIDE DEF n, s, day, cont
<1>8. PICK h \in [0..n -> Sums] : /\ h[0] = base /\ \A k \in 1..n : h[k] = Count(h[k - 1], s[k])
                                  /\ FoldLeft(Count, base, s) = h[n]
  <2>1. DOMAIN s = 1..n /\ n \in Nat
    BY <1>3
  <2>2. \A k \in 1..n : s[k].at \in Nat
    BY <1>7
  <2> HIDE DEF base
  <2>3. \E h \in [0..n -> Sums] : IsLoop(h, n, s, base)
    BY <1>6, <2>1, <2>2, CountFold
  <2>4. QED BY <2>3 DEF IsLoop
<1> HIDE DEF base
<1> DEFINE T == [k \in 0..n |-> IF k < n THEN s[k + 1].at ELSE end]
           total(k) == h[k].total
           since(k) == h[k].since
           Exact(k) == Cardinality(Seconds(events, d, T[k])) = total(k) + IF since(k) = Unset THEN 0 ELSE T[k] - since(k)
           Open(k) == since(k) # Unset => since(k) <= T[k]
<1>9. end \in Nat /\ start <= end
  BY <1>4, <1>5, <1>7, <1>3
<1>10. /\ \A k \in 0..n : T[k] \in Nat /\ start <= T[k] /\ T[k] <= end
       /\ \A k \in 1..n : T[k - 1] = s[k].at /\ T[k - 1] <= T[k]
  <2>1. ASSUME NEW k \in 0..n PROVE T[k] \in Nat /\ start <= T[k] /\ T[k] <= end
    BY <1>3, <1>4, <1>7, <1>9, k + 1 \in 1..n \/ k = n
  <2>2. ASSUME NEW k \in 1..n PROVE T[k - 1] = s[k].at
    BY <1>3
  <2>3. ASSUME NEW k \in 1..n PROVE T[k - 1] <= T[k]
    <3>1. CASE k = n
      <4>1. k - 1 \in 0..n /\ T[k] = end
        BY <1>3, <3>1
      <4>2. QED BY <2>1, <4>1
    <3>2. CASE k # n
      <4>1. k + 1 \in 1..n /\ T[k] = s[k + 1].at /\ k < k + 1
        BY <1>3, <3>2
      <4>2. QED BY <1>3, <1>7, <2>2, <4>1
    <3>3. QED BY <3>1, <3>2
  <2>4. QED BY <2>1, <2>2, <2>3
<1>11. \A k \in 0..n : h[k] \in Sums
  BY <1>8
\* Between two checks the newest so far decides.
<1>12. ASSUME NEW k \in 1..n, NEW t \in T[k - 1]..(T[k] - 1)
       PROVE  Down(events, t) <=> s[k].outcome \in OutageOutcomes
  <2>1. t \in Nat /\ s[k].at <= t /\ t < T[k] /\ t < DayEnd(d)
    <3>1. T[k - 1] \in Nat /\ T[k] \in Nat /\ T[k] <= end /\ T[k - 1] = s[k].at
      BY <1>3, <1>10, k - 1 \in 0..n, k \in 0..n
    <3> HIDE DEF T
    <3>2. t \in Int /\ T[k - 1] <= t /\ t <= T[k] - 1
      BY <3>1
    <3>3. end <= DayEnd(d) /\ end \in Nat
      BY <1>4, <1>9
    <3> HIDE DEF end
    <3>4. QED BY <1>4, <3>1, <3>2, <3>3
  <2>2. ASSUME NEW f \in events, f.at <= t PROVE f.at <= s[k].at
    <3>1. f.at \in Nat
      BY DEF EventsOK
    <3>2. CASE f.at < start
      BY <1>7, <3>1, <3>2, <1>4
    <3>3. CASE start <= f.at
      <4>1. f \in day
        BY <1>1, <1>4, <2>1, <2>2, <3>1, <3>3
      <4>2. PICK j \in 1..n : s[j] = f
        BY <1>3, <4>1
      <4>3. CASE j <= k
        <5>1. s[j].at <= s[k].at
          <6>1. CASE j = k
            BY <1>7, <6>1
          <6>2. CASE j # k
            <7>1. j < k
              BY <4>3, <6>2
            <7>2. s[j].at < s[k].at
              BY <1>3, <7>1
            <7>3. QED BY <1>7, <7>2
          <6>3. QED BY <6>1, <6>2
        <5>2. QED BY <4>2, <5>1
      <4>4. CASE j > k
        <5>1. k + 1 \in 1..n /\ k < n /\ T[k] = s[k + 1].at /\ (j = k + 1 \/ k + 1 < j)
          BY <1>3, <4>4
        <5>2. s[k + 1].at <= s[j].at
          <6>1. CASE j = k + 1
            BY <1>7, <6>1
          <6>2. CASE k + 1 < j
            <7>1. s[k + 1].at < s[j].at
              BY <1>3, <5>1, <6>2
            <7>2. QED BY <1>7, <5>1, <7>1
          <6>3. QED BY <5>1, <6>1, <6>2
        <5>3. QED BY <1>7, <2>1, <2>2, <4>2, <5>1, <5>2
      <4>5. QED BY <4>3, <4>4
    <3>4. QED BY <1>4, <3>1, <3>2, <3>3
  <2>3. QED BY <1>7, <2>1, <2>2, DownIs
<1>13. ASSUME NEW t \in start..(T[0] - 1) PROVE Down(events, t) <=> cont
  <2>1. t \in Nat /\ start <= t /\ t < T[0] /\ T[0] = s[1].at /\ 1 \in 1..n
    <3>1. 0 \in 0..n /\ 1 \in 1..n /\ T[0] \in Nat /\ T[0] = s[1].at
      BY <1>3, <1>5, <1>10
    <3> HIDE DEF T
    <3>2. QED BY <1>4, <3>1
  <2>2. ASSUME NEW e \in events, e.at <= t PROVE e.at < start
    <3> SUFFICES ASSUME start <= e.at PROVE FALSE
      BY <1>4 DEF EventsOK
    <3>1. e \in day
      BY <1>1, <1>4, <1>7, <2>1, <2>2 DEF EventsOK
    <3>2. PICK j \in 1..n : s[j] = e
      BY <1>3, <3>1
    <3>3. s[1].at <= s[j].at
      BY <1>3, <1>7, <2>1, j = 1 \/ 1 < j
    <3>4. QED BY <1>7, <2>1, <2>2, <3>2, <3>3
  <2>3. QED BY <2>1, <2>2, StartOfDay DEF cont
<1>14. Exact(0) /\ Open(0)
  <2>1. Seconds(events, d, start) = {}
    BY <1>4 DEF Seconds
  <2>2. Cardinality(Seconds(events, d, start)) = 0
    BY <2>1, FS_EmptySet
  <2>3. T[0] \in Nat /\ start <= T[0] /\ cont \in BOOLEAN
    BY <1>3, <1>10 DEF cont, Continuing
  <2>4. Cardinality(Seconds(events, d, T[0])) = IF cont THEN T[0] - start ELSE 0
    <3> DEFINE x == T[0]
    <3>1. x \in Nat /\ start <= x
      BY <2>3
    <3>2. CASE cont
      <4>1. \A t \in start..(x - 1) : Down(events, t)
        BY <1>13, <3>2
      <4> HIDE DEF x
      <4>2. Cardinality(Seconds(events, d, x)) = Cardinality(Seconds(events, d, start)) + (x - start)
        BY <1>4, <3>1, <4>1, SecondsAdd, start <= start
      <4>3. QED BY <1>4, <2>2, <3>1, <3>2, <4>2 DEF x
    <3>3. CASE ~cont
      <4>1. \A t \in start..(x - 1) : ~Down(events, t)
        BY <1>13, <3>3
      <4> HIDE DEF x
      <4>2. Seconds(events, d, x) = Seconds(events, d, start)
        BY <1>4, <3>1, <4>1, SecondsStay, start <= start
      <4>3. QED BY <2>2, <3>3, <4>2 DEF x
    <3>4. QED BY <3>2, <3>3
  <2>5. h[0].total = 0 /\ h[0].since = IF cont THEN start ELSE Unset
    BY <1>8 DEF base
  <2>6. QED BY <1>4, <2>3, <2>4, <2>5 DEF Unset
<1>15. ASSUME NEW k \in 1..n, Exact(k - 1), Open(k - 1) PROVE Exact(k) /\ Open(k)
  <2> DEFINE out == s[k].outcome \in OutageOutcomes
             x == T[k - 1]
             y == T[k]
  <2>1. k - 1 \in 0..n /\ k \in 0..n /\ x \in Nat /\ y \in Nat /\ start <= x /\ x <= y /\ x = s[k].at
    <3>1. k - 1 \in 0..n /\ k \in 0..n
      BY <1>3
    <3> HIDE DEF T
    <3>2. QED BY <1>10, <3>1
  <2>2. \A t \in T[k - 1]..(T[k] - 1) : Down(events, t) <=> s[k].outcome \in OutageOutcomes
    BY <1>12
  <2>3. h[k - 1] \in Sums /\ h[k] = Count(h[k - 1], s[k])
    BY <1>8, <1>11, <2>1
  <2>4. h[k - 1].total \in Nat /\ (h[k - 1].since = Unset \/ h[k - 1].since \in Nat)
    BY <2>3 DEF Sums
  <2> HIDE DEF x, y, T
  <2>5. CASE out
    <3>0. Cardinality(Seconds(events, d, y)) = Cardinality(Seconds(events, d, x)) + (y - x)
      <4>1. \A t \in x..(y - 1) : Down(events, t)
        BY <2>2, <2>5 DEF x, y
      <4>2. QED BY <2>1, <4>1, SecondsAdd
    <3>1. h[k].total = h[k - 1].total /\ h[k].since = IF h[k - 1].since = Unset THEN x ELSE h[k - 1].since
      BY <2>1, <2>3, <2>5 DEF Count, Sums
    <3>2. QED BY <1>15, <2>1, <2>4, <2>5, <3>0, <3>1 DEF x, y, Unset
  <2>6. CASE ~out
    <3>0. Cardinality(Seconds(events, d, y)) = Cardinality(Seconds(events, d, x))
      <4>1. \A t \in x..(y - 1) : ~Down(events, t)
        BY <2>2, <2>6 DEF x, y
      <4>2. QED BY <2>1, <4>1, SecondsStay
    <3>1. /\ h[k].total = h[k - 1].total + IF h[k - 1].since = Unset THEN 0 ELSE Elapsed(h[k - 1].since, x)
          /\ h[k].since = Unset
      BY <2>1, <2>3, <2>6 DEF Count, Sums
    <3>2. QED BY <1>15, <2>1, <2>4, <2>6, <3>0, <3>1 DEF x, y, Unset, Elapsed
  <2>7. QED BY <2>5, <2>6
<1>16. \A k \in 0..n : Exact(k) /\ Open(k)
  <2> DEFINE Bad == {k \in 0..n : ~(Exact(k) /\ Open(k))}
  <2> SUFFICES ASSUME Bad # {} PROVE FALSE
    OBVIOUS
  <2> HIDE DEF Exact, Open
  <2>1. Bad \in SUBSET Nat
    OBVIOUS
  <2>2. PICK k \in Bad : \A j \in Bad : k <= j
    BY <2>1, SmallestExists
  <2>3. k # 0 /\ k \in 1..n
    BY <1>14, <1>3
  <2>4. k - 1 \in 0..n /\ k - 1 \notin Bad
    BY <1>3, <2>2, <2>3
  <2>5. Exact(k - 1) /\ Open(k - 1)
    BY <2>4
  <2>6. QED BY <1>15, <2>3, <2>5
<1>17. Seconds(events, d, end) = OutageSeconds(events, d, now)
  BY <1>4 DEF Seconds, OutageSeconds, Down
<1>18. T[n] = end /\ n \in 0..n
  BY <1>3
<1>19. h[n].total \in Nat /\ (h[n].since = Unset \/ h[n].since \in Nat)
  BY <1>11, <1>18 DEF Sums
<1>20. Cardinality(OutageSeconds(events, d, now)) = h[n].total + IF h[n].since = Unset THEN 0 ELSE Elapsed(h[n].since, end)
  <2>1. Exact(n) /\ Open(n)
    BY <1>16, <1>18
  <2> HIDE DEF end
  <2>2. QED BY <1>9, <1>17, <1>18, <1>19, <2>1 DEF Elapsed
<1>21. ShownDowntime(events, d, first, now) = Downtime(day, d, now, cont)
  BY DEF ShownDowntime, day, cont
<1>22. Counted(day, d, cont) = h[n]
  BY <1>8 DEF Counted, base, s
<1>23. Downtime(day, d, now, cont) = h[n].total + IF h[n].since = Unset THEN 0 ELSE Elapsed(h[n].since, end)
  BY <1>22 DEF Downtime
<1>24. QED BY <1>20, <1>21, <1>23

\* Whatever the clock said when the page looked at it, a day has no more
\* downtime than it has seconds.
LEMMA DowntimeFitsDay ==
  ASSUME NEW events, EventsOK(events), NEW d \in Nat, NEW first, NEW now \in Nat
  PROVE  ShownDowntime(events, d, first, now) \in 0..DayLength
<1> DEFINE day == OnDay(events, d)
           n == Cardinality(day)
           s == Sorted(day, Earlier(day))
           start == DayStart(d)
           end == IF now < DayEnd(d) THEN now ELSE DayEnd(d)
           cont == Continuing(events, d, first)
           base == [total |-> 0, since |-> IF cont THEN start ELSE Unset]
<1>1. day = {e \in events : start <= e.at /\ e.at < DayEnd(d)}
  BY DayIs DEF OnDay, EventsOK
<1>2. EventsOK(day)
  BY <1>1, FS_Subset DEF EventsOK
<1>3. /\ n \in Nat /\ s \in [1..n -> day]
      /\ \A j, k \in 1..n : j < k => s[j].at < s[k].at
  BY <1>2, SortedEvents
<1>4. start \in Nat /\ DayEnd(d) \in Nat /\ start < DayEnd(d) /\ DayEnd(d) = start + DayLength /\ DayLength \in Nat
  BY DaySpan, DayAssumption
<1>5. base \in Sums
  BY <1>4 DEF Sums
<1>6. \A k \in 1..n : s[k].at \in Nat /\ start <= s[k].at /\ s[k].at < DayEnd(d)
  BY <1>1, <1>3 DEF EventsOK
<1> HIDE DEF n, s, day, cont
<1>7. PICK h \in [0..n -> Sums] : /\ h[0] = base /\ \A k \in 1..n : h[k] = Count(h[k - 1], s[k])
                                  /\ FoldLeft(Count, base, s) = h[n]
  <2>1. DOMAIN s = 1..n /\ n \in Nat
    BY <1>3
  <2>2. \A k \in 1..n : s[k].at \in Nat
    BY <1>6
  <2> HIDE DEF base
  <2>3. \E h \in [0..n -> Sums] : IsLoop(h, n, s, base)
    BY <1>5, <2>1, <2>2, CountFold
  <2>4. QED BY <2>3 DEF IsLoop
<1> DEFINE at(k) == IF k = 0 THEN start ELSE s[k].at
           Fits(k) == IF h[k].since = Unset THEN h[k].total <= at(k) - start
                      ELSE start <= h[k].since /\ h[k].since <= at(k) /\ h[k].total <= h[k].since - start
<1>8. Fits(0)
  BY <1>4, <1>7
<1>9. ASSUME NEW k \in 1..n, Fits(k - 1) PROVE Fits(k)
  <2> DEFINE x == at(k - 1)
             y == at(k)
             r == h[k - 1]
  <2>1. k - 1 \in 0..n /\ k \in 0..n /\ k # 0
    BY <1>3
  <2>2. x \in Nat /\ y \in Nat /\ start <= x /\ x <= y /\ y = s[k].at
    <3>1. CASE k - 1 = 0
      BY <1>4, <1>6, <2>1, <3>1
    <3>2. CASE k - 1 # 0
      <4>1. k - 1 \in 1..n /\ k - 1 < k
        BY <1>3, <3>2
      <4>2. s[k - 1].at < s[k].at /\ s[k - 1].at \in Nat /\ s[k].at \in Nat /\ start <= s[k - 1].at
        BY <1>3, <1>6, <4>1
      <4>3. QED BY <2>1, <3>2, <4>2
    <3>3. QED BY <3>1, <3>2
  <2>3. r \in Sums /\ h[k] = Count(r, s[k])
    BY <1>7, <2>1
  <2>4. r.total \in Nat /\ (r.since = Unset \/ r.since \in Nat)
    BY <2>3 DEF Sums
  <2>5. IF r.since = Unset THEN r.total <= x - start
        ELSE start <= r.since /\ r.since <= x /\ r.total <= r.since - start
    BY <1>9
  <2>6. CASE s[k].outcome \in OutageOutcomes
    <3>1. h[k].total = r.total /\ h[k].since = IF r.since = Unset THEN y ELSE r.since
      BY <2>2, <2>3, <2>6 DEF Count, Sums
    <3>2. QED
      <4>1. CASE r.since = Unset
        <5> HIDE DEF x, r, at
        <5>1. QED BY <1>4, <2>2, <2>4, <2>5, <3>1, <4>1 DEF Unset
      <4>2. CASE r.since # Unset
        <5> HIDE DEF x, r, at
        <5>1. QED BY <1>4, <2>2, <2>4, <2>5, <3>1, <4>2 DEF Unset
      <4>3. QED BY <4>1, <4>2
  <2>7. CASE s[k].outcome \notin OutageOutcomes
    <3>1. h[k].total = r.total + (IF r.since = Unset THEN 0 ELSE Elapsed(r.since, y)) /\ h[k].since = Unset
      BY <2>2, <2>3, <2>7 DEF Count, Sums
    <3>2. QED
      <4>1. CASE r.since = Unset
        <5> HIDE DEF x, r, at
        <5>1. QED BY <1>4, <2>2, <2>4, <2>5, <3>1, <4>1
      <4>2. CASE r.since # Unset
        <5> HIDE DEF x, r, at
        <5>1. Elapsed(r.since, y) = y - r.since \/ (Elapsed(r.since, y) = 0 /\ r.since = y)
          BY <2>2, <2>4, <2>5, <4>2 DEF Elapsed
        <5>2. QED BY <1>4, <2>2, <2>4, <2>5, <3>1, <4>2, <5>1
      <4>3. QED BY <4>1, <4>2
  <2>8. QED BY <2>6, <2>7
<1>10. \A k \in 0..n : Fits(k)
  <2> DEFINE Bad == {k \in 0..n : ~Fits(k)}
  <2> SUFFICES ASSUME Bad # {} PROVE FALSE
    OBVIOUS
  <2> HIDE DEF Fits
  <2>1. Bad \in SUBSET Nat
    OBVIOUS
  <2>2. PICK k \in Bad : \A j \in Bad : k <= j
    BY <2>1, SmallestExists
  <2>3. k # 0 /\ k \in 1..n
    BY <1>8, <1>3
  <2>4. k - 1 \in 0..n /\ k - 1 \notin Bad
    BY <1>3, <2>2, <2>3
  <2>5. Fits(k - 1)
    BY <2>4
  <2>6. QED BY <1>9, <2>3, <2>5
<1>11. n \in 0..n /\ h[n] \in Sums /\ Fits(n)
  BY <1>3, <1>7, <1>10
<1>12. at(n) \in Nat /\ start <= at(n) /\ at(n) < DayEnd(d)
  BY <1>3, <1>4, <1>6
<1>13. h[n].total \in Nat /\ (h[n].since = Unset \/ h[n].since \in Nat)
  BY <1>11 DEF Sums
<1>14. end \in Nat /\ end <= DayEnd(d)
  BY <1>4
<1>15. h[n].total + (IF h[n].since = Unset THEN 0 ELSE Elapsed(h[n].since, end)) \in 0..DayLength
  <2>1. CASE h[n].since = Unset
    <3> HIDE DEF at, end
    <3>1. QED BY <1>4, <1>11, <1>12, <1>13, <2>1
  <2>2. CASE h[n].since # Unset
    <3> HIDE DEF at, end
    <3>1. Elapsed(h[n].since, end) = 0 \/ (Elapsed(h[n].since, end) = end - h[n].since /\ end > h[n].since)
      BY DEF Elapsed
    <3>2. QED BY <1>4, <1>11, <1>12, <1>13, <1>14, <2>2, <3>1
  <2>3. QED BY <2>1, <2>2
<1>16. Counted(day, d, cont) = h[n]
  BY <1>7 DEF Counted, s
<1>17. Downtime(day, d, now, cont) \in 0..DayLength
  BY <1>15, <1>16 DEF Downtime
<1>18. ShownDowntime(events, d, first, now) \in {0, Downtime(day, d, now, cont)}
  BY DEF ShownDowntime, day, cont
<1>19. QED BY <1>4, <1>17, <1>18

----------------------------------------------------------------------------
(* Counts of checks, their sums and what they say.                         *)

AllStats == [total : Nat, up : Nat, degraded : Nat, failed : Nat]

LEMMA AddStatsIs ==
  ASSUME NEW a \in AllStats, NEW b \in AllStats
  PROVE  /\ AddStats(a, b) \in AllStats
         /\ AddStats(a, b) = [total |-> a.total + b.total, up |-> a.up + b.up,
                              degraded |-> a.degraded + b.degraded, failed |-> a.failed + b.failed]
<1>1. DOMAIN a = {"total", "up", "degraded", "failed"}
  BY DEF AllStats
<1>2. a.total \in Nat /\ a.up \in Nat /\ a.degraded \in Nat /\ a.failed \in Nat
  BY DEF AllStats
<1>3. b.total \in Nat /\ b.up \in Nat /\ b.degraded \in Nat /\ b.failed \in Nat
  BY DEF AllStats
<1>4. AddStats(a, b) = [total |-> a.total + b.total, up |-> a.up + b.up,
                        degraded |-> a.degraded + b.degraded, failed |-> a.failed + b.failed]
  BY <1>1 DEF AddStats
<1>5. QED BY <1>2, <1>3, <1>4 DEF AllStats

LEMMA StatsType ==
  ASSUME NEW events, IsFiniteSet(events)
  PROVE  Stats(events) \in AllStats
<1>1. \A o : IsFiniteSet({e \in events : e.outcome = o})
  BY FS_Subset
<1>2. Cardinality(events) \in Nat /\ \A o : With(events, o) \in Nat
  BY <1>1, FS_CardinalityType DEF With
<1>3. QED BY <1>2 DEF Stats, AllStats

\* A sum of stats, prefix by prefix.
Adds(g, n, val) == g = [t \in SUBSET (1..n) |->
                          IF t = {} THEN NoStats ELSE AddStats(g[t \ {Max(t)}], val[Max(t)])]

LEMMA AddsExists ==
  ASSUME NEW n \in Nat, NEW val \in [1..n -> AllStats]
  PROVE  \E g : Adds(g, n, val)
<1> DEFINE step == [x \in (1..n) \X AllStats |-> AddStats(x[2], val[x[1]])]
<1>1. step \in [(1..n) \X AllStats -> AllStats]
  BY AddStatsIs
<1>2. NoStats \in AllStats
  BY DEF NoStats, AllStats
<1>3. PICK g \in [SUBSET (1..n) -> AllStats] : FoldsTo(g, n, NoStats, step)
  BY <1>1, <1>2, FoldExists
<1>4. ASSUME NEW t \in SUBSET (1..n), t # {} PROVE g[t] = AddStats(g[t \ {Max(t)}], val[Max(t)])
  <2>1. Max(t) \in 1..n /\ g[t \ {Max(t)}] \in AllStats
    BY <1>3, <1>4, GreatestIsIn
  <2>2. g[t] = step[<<Max(t), g[t \ {Max(t)}]>>]
    BY <1>3, <1>4 DEF FoldsTo
  <2>3. QED BY <2>1, <2>2
<1>5. g[{}] = NoStats
  BY <1>3 DEF FoldsTo
<1>6. QED BY <1>3, <1>4, <1>5 DEF Adds

IsSums(h, g, n, val) == /\ h[0] = NoStats /\ h[n] = g[1..n]
                        /\ \A k \in 1..n : h[k] = AddStats(h[k - 1], val[k])

LEMMA AddsPrefixes ==
  ASSUME NEW n \in Nat, NEW val \in [1..n -> AllStats], NEW g, Adds(g, n, val),
         NEW R \in SUBSET AllStats, NoStats \in R, \A r \in R, k \in 1..n : AddStats(r, val[k]) \in R
  PROVE  \E h \in [0..n -> R] : IsSums(h, g, n, val)
<1> DEFINE step == [x \in (1..n) \X R |-> AddStats(x[2], val[x[1]])]
<1>1. step \in [(1..n) \X R -> R]
  OBVIOUS
<1>2. g[{}] = NoStats /\ \A t \in SUBSET (1..n) : t # {} => g[t] = AddStats(g[t \ {Max(t)}], val[Max(t)])
  BY DEF Adds
<1>3. Follows(g, n, R, step)
  BY <1>2, GreatestIsIn DEF Follows
<1>4. PICK h \in [0..n -> R] : IsPrefixes(h, g, n, step)
  <2>1. g[{}] \in R
    BY <1>2
  <2> HIDE DEF step
  <2>2. QED BY <1>1, <2>1, <1>3, PrefixValues
<1>5. ASSUME NEW k \in 1..n PROVE h[k] = AddStats(h[k - 1], val[k])
  <2>1. k - 1 \in 0..n
    OBVIOUS
  <2>2. QED BY <1>4, <2>1 DEF IsPrefixes
<1>6. QED BY <1>2, <1>4, <1>5 DEF IsPrefixes, IsSums

\* A share, rounded, reaches a bound exactly when a linear inequality holds.
LEMMA DivBound ==
  ASSUME NEW x \in Nat, NEW y \in Nat \ {0}, NEW a \in Nat
  PROVE  x \div y >= a <=> x >= a * y
<1> DEFINE q == x \div y
           r == x % y
<1>1. q \in Nat /\ r \in 0..(y - 1) /\ x = y * q + r
  OBVIOUS
<1> HIDE DEF q, r
<1>2. CASE q >= a
  <2>1. PICK z \in Nat : q = a + z
    BY <1>1, <1>2, q - a \in Nat
  <2>2. y * q = a * y + y * z /\ y * z \in Nat /\ a * y \in Nat
    BY <2>1
  <2>3. QED BY <1>1, <1>2, <2>2 DEF q
<1>3. CASE q < a
  <2>1. PICK z \in Nat : a = q + 1 + z
    BY <1>1, <1>3, a - q - 1 \in Nat
  <2>2. a * y = y * q + y + y * z /\ y * z \in Nat /\ y * q \in Nat
    BY <1>1, <2>1
  <2>3. QED BY <1>1, <1>3, <2>2 DEF q
<1>4. QED BY <1>1, <1>2, <1>3

\* At least b hundredths of a percent, after rounding.
Reaches(s, b) == (2 * b - 1) * s.total <= 20000 * (s.up + s.degraded)

LEMMA AvailabilityReaches ==
  ASSUME NEW s \in AllStats, s.total # 0, NEW b \in {9000, 9900}
  PROVE  Availability(s) >= b <=> Reaches(s, b)
<1> DEFINE t == s.total
           good == s.up + s.degraded
           x == 2 * (10000 * good) + t
           y == 2 * t
<1>1. t \in Nat \ {0} /\ good \in Nat
  BY DEF AllStats
<1>2. x \in Nat /\ y \in Nat \ {0}
  BY <1>1
<1>3. Availability(s) = x \div y
  BY DEF Availability, Rounded
<1>4. x \div y >= b <=> x >= b * y
  <2> HIDE DEF x, y
  <2>1. QED BY <1>2, DivBound
<1>5. x >= b * y <=> (2 * b - 1) * t <= 20000 * good
  BY <1>1
<1>6. QED BY <1>3, <1>4, <1>5 DEF Reaches
\* The sum of shares that reach a bound reaches it.
LEMMA ReachesAdds ==
  ASSUME NEW b \in {9000, 9900}, NEW s \in AllStats, NEW r \in AllStats, Reaches(s, b), Reaches(r, b)
  PROVE  Reaches(AddStats(s, r), b)
<1>1. AddStats(s, r).total = s.total + r.total /\ AddStats(s, r).up = s.up + r.up
      /\ AddStats(s, r).degraded = s.degraded + r.degraded
  BY AddStatsIs
<1>2. {s.total, s.up, s.degraded, r.total, r.up, r.degraded} \subseteq Nat
  BY DEF AllStats
<1>3. QED BY <1>1, <1>2 DEF Reaches

Levels == {"no_data", "operational", "degraded", "outage"}

\* What a status says of the counts it was made from.
LEMMA StatusSays ==
  ASSUME NEW s \in AllStats
  PROVE  /\ StatusOf(s) \in Levels
         /\ StatusOf(s) = "no_data" <=> s.total = 0
         /\ StatusOf(s) \in {"no_data", "operational"} <=> Reaches(s, 9900)
         /\ StatusOf(s) \in {"no_data", "operational", "degraded"} <=> Reaches(s, 9000)
<1>1. {s.total, s.up, s.degraded} \subseteq Nat
  BY DEF AllStats
<1>2. CASE s.total = 0
  BY <1>1, <1>2 DEF StatusOf, Reaches, Levels
<1>3. CASE s.total # 0
  <2>1. Availability(s) >= 9900 <=> Reaches(s, 9900)
    BY <1>3, AvailabilityReaches
  <2>2. Availability(s) >= 9000 <=> Reaches(s, 9000)
    BY <1>3, AvailabilityReaches
  <2>3. Reaches(s, 9900) => Reaches(s, 9000)
    BY <1>1 DEF Reaches
  <2>4. QED BY <1>3, <2>1, <2>2, <2>3 DEF StatusOf, Levels
<1>4. QED BY <1>2, <1>3

LEMMA LevelOrder ==
  ASSUME NEW a \in Levels, NEW b \in Levels
  PROVE  /\ Priority[a] \in 0..3
         /\ Priority[a] = 0 <=> a = "no_data"
         /\ Priority[a] <= 1 <=> a \in {"no_data", "operational"}
         /\ Priority[a] <= 2 <=> a \in {"no_data", "operational", "degraded"}
         /\ MergeStatus(a, b) \in {a, b}
         /\ Priority[a] <= Priority[MergeStatus(a, b)] /\ Priority[b] <= Priority[MergeStatus(a, b)]
BY DEF Levels, Priority, MergeStatus

\* The status of a group is none of its services' better one.
LEMMA MergeFold ==
  ASSUME NEW n \in Nat, NEW s, DOMAIN s = 1..n, \A k \in 1..n : s[k] \in Levels
  PROVE  /\ FoldLeft(MergeStatus, "no_data", s) \in Levels
         /\ \A k \in 1..n : Priority[s[k]] <= Priority[FoldLeft(MergeStatus, "no_data", s)]
<1> DEFINE base == "no_data"
           step == [x \in (1..n) \X Levels |-> MergeStatus(x[2], s[x[1]])]
           Iterates(g) == g = [t \in SUBSET (1..n) |->
                                 IF t = {} THEN base ELSE MergeStatus(g[t \ {Max(t)}], s[Max(t)])]
           iter == CHOOSE g : Iterates(g)
<1>1. step \in [(1..n) \X Levels -> Levels]
  BY LevelOrder
<1>2. base \in Levels
  BY DEF Levels
<1>3. PICK g \in [SUBSET (1..n) -> Levels] : FoldsTo(g, n, base, step)
  BY <1>1, <1>2, FoldExists
<1>4. ASSUME NEW t \in SUBSET (1..n), t # {} PROVE g[t] = MergeStatus(g[t \ {Max(t)}], s[Max(t)])
  <2>1. Max(t) \in 1..n /\ g[t \ {Max(t)}] \in Levels
    BY <1>3, <1>4, GreatestIsIn
  <2>2. g[t] = step[<<Max(t), g[t \ {Max(t)}]>>]
    BY <1>3, <1>4 DEF FoldsTo
  <2>3. QED BY <2>1, <2>2
<1>5. g[{}] = base
  BY <1>3 DEF FoldsTo
<1>6. Iterates(g)
  BY <1>3, <1>4, <1>5
<1>7. Iterates(iter)
  BY <1>6
<1>8. FoldLeft(MergeStatus, base, s) = iter[1..n]
  BY DEF FoldLeft, MapThenFoldSet
<1>9. iter[{}] = base /\ \A t \in SUBSET (1..n) : t # {} => iter[t] = MergeStatus(iter[t \ {Max(t)}], s[Max(t)])
  <2> HIDE DEF iter
  <2>1. QED BY <1>7
<1> HIDE DEF iter
<1>10. Follows(iter, n, Levels, step)
  BY <1>9, GreatestIsIn DEF Follows
<1>11. PICK h \in [0..n -> Levels] : IsPrefixes(h, iter, n, step)
  <2>1. iter[{}] \in Levels
    BY <1>2, <1>9
  <2> HIDE DEF step
  <2>2. QED BY <1>1, <2>1, <1>10, PrefixValues
<1>12. ASSUME NEW k \in 1..n
       PROVE  /\ Priority[h[k - 1]] <= Priority[h[k]] /\ Priority[s[k]] <= Priority[h[k]]
              /\ Priority[h[k - 1]] \in Int /\ Priority[h[k]] \in Int
  <2>1. k - 1 \in 0..n /\ k \in 0..n
    OBVIOUS
  <2>2. h[k] = MergeStatus(h[k - 1], s[k])
    BY <1>11, <2>1 DEF IsPrefixes
  <2>3. h[k - 1] \in Levels /\ s[k] \in Levels /\ h[k] \in Levels
    BY <2>1
  <2>4. QED BY <2>2, <2>3, LevelOrder
<1>13. ASSUME NEW k \in 1..n PROVE Priority[s[k]] <= Priority[h[n]]
  <2> DEFINE Bad == {j \in 0..n : k <= j /\ ~(Priority[s[k]] <= Priority[h[j]])}
  <2> SUFFICES ASSUME Bad # {} PROVE FALSE
    <3>1. n \in 0..n /\ k <= n
      OBVIOUS
    <3>2. QED BY <3>1
  <2>1. Bad \in SUBSET Nat
    OBVIOUS
  <2>2. PICK j \in Bad : \A i \in Bad : j <= i
    BY <2>1, SmallestExists
  <2>3. j \in 1..n /\ j # k /\ k <= j - 1 /\ j - 1 \in 0..n /\ j - 1 \notin Bad
    BY <1>12, <2>2
  <2>4. Priority[s[k]] <= Priority[h[j - 1]]
    BY <2>3
  <2>5. Priority[s[k]] \in Int
    BY LevelOrder
  <2>6. QED BY <1>12, <2>2, <2>3, <2>4, <2>5
<1>14. n \in 0..n
  OBVIOUS
<1>15. FoldLeft(MergeStatus, "no_data", s) = h[n]
  BY <1>8, <1>11 DEF IsPrefixes
<1>16. QED BY <1>13, <1>14, <1>15
=============================================================================
