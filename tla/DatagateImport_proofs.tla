------------------------ MODULE DatagateImport_proofs ------------------------
(***************************************************************************)
(* Proofs about DatagateImport, for any servers, components and imports:   *)
(* what the match returns, what an import holds and writes, and which      *)
(* client files it issues.                                                 *)
(***************************************************************************)
EXTENDS DatagateImport, OrderLemmas, SequenceTheorems

----------------------------------------------------------------------------
(* The match, for any servers and components.                              *)

\* What match_servers is called with: components by id, order and batch the
\* lists of ids.
MatchInput(servers, batch, components, order) ==
  /\ batch \in Seq(ToSet(batch)) /\ Distinct(batch)
  /\ order \in Seq(DOMAIN components)
  /\ \A s \in ToSet(batch) : IsFiniteSet(servers[s].words)
  /\ \A c \in DOMAIN components : IsFiniteSet(components[c].words) /\ IsFiniteSet(components[c].slugWords)

LEMMA ScoreType ==
  ASSUME NEW s, NEW c, IsFiniteSet(s.words), IsFiniteSet(c.words), IsFiniteSet(c.slugWords)
  PROVE  ScorePair(s, c) \in Int
<1>1. NameScore(s, c) \in Int
  <2> DEFINE all == s.words \cup c.words \cup c.slugWords
             common == s.words \cap (c.words \cup c.slugWords)
  <2>1. IsFiniteSet(all) /\ IsFiniteSet(common)
    <3>1. IsFiniteSet(s.words \cup c.words)
      BY FS_Union
    <3>2. IsFiniteSet(all)
      BY <3>1, FS_Union
    <3>3. common \subseteq all
      OBVIOUS
    <3>4. QED BY <3>2, <3>3, FS_Subset
  <2>2. Cardinality(all) \in Nat /\ Cardinality(common) \in Nat /\ (Cardinality(all) = 0 <=> all = {})
    BY <2>1, FS_CardinalityType, FS_EmptySet
  <2>3. CASE {} \in {s.words, c.words}
    BY <2>3 DEF NameScore
  <2>4. CASE {} \notin {s.words, c.words}
    <3>1. all # {}
      BY <2>4
    <3>2. (Points(25) * Cardinality(common)) \div Cardinality(all) \in Int
      <4> HIDE DEF all, common
      <4>1. QED BY <2>2, <3>1 DEF Points
    <3>3. Points(50) \in Int /\ Points(35) \in Int
      BY DEF Points
    <3>4. QED BY <2>4, <3>2, <3>3 DEF NameScore
  <2>5. QED BY <2>3, <2>4
<1>2. HostScore(s, c) \in Int /\ ProtoScore(s, c) \in Int
  BY DEF HostScore, ProtoScore, Points
<1>3. QED BY <1>1, <1>2 DEF ScorePair

\* The order of the candidates is total: no two have the same two places.
LEMMA CandidateOrder ==
  ASSUME NEW m \in Nat, NEW n \in Nat, NEW pairs \in SUBSET ((1..m) \X (1..n)), NEW exact, NEW score \in [pairs -> Int]
  PROVE  TotalOrder(Precedence(pairs, exact, score), pairs)
<1> DEFINE Less == Precedence(pairs, exact, score)
<1>1. \A p, q \in pairs : <<p, q>> \in Less <=> Before(p, q, exact, score)
  BY DEF Precedence
<1>2. \A p \in pairs : p[1] \in Int /\ p[2] \in Int /\ score[p] \in Int /\ p = <<p[1], p[2]>>
  OBVIOUS
<1> HIDE DEF Less
<1>3. \A p \in pairs : <<p, p>> \notin Less
  BY <1>1, <1>2 DEF Before
<1>4. ASSUME NEW p \in pairs, NEW q \in pairs, p # q PROVE <<p, q>> \in Less \/ <<q, p>> \in Less
  <2>1. p[1] # q[1] \/ p[2] # q[2]
    BY <1>2, <1>4
  <2>2. Before(p, q, exact, score) \/ Before(q, p, exact, score)
    BY <1>2, <2>1 DEF Before
  <2>3. QED BY <1>1, <2>2
<1>5. ASSUME NEW p \in pairs, NEW q \in pairs, NEW r \in pairs, <<p, q>> \in Less, <<q, r>> \in Less
      PROVE  <<p, r>> \in Less
  <2>1. Before(p, q, exact, score) /\ Before(q, r, exact, score)
    BY <1>1, <1>5
  <2>2. Before(p, r, exact, score)
    BY <1>2, <2>1 DEF Before
  <2>3. QED BY <1>1, <2>2
<1>6. TotalOrder(Less, pairs)
  BY <1>3, <1>4, <1>5 DEF TotalOrder
<1>7. QED BY <1>6 DEF Less

LEMMA CandidatesIn ==
  ASSUME NEW servers, NEW batch, NEW components, NEW order, MatchInput(servers, batch, components, order), NEW kept
  PROVE  \E n \in Nat : /\ DOMAIN Candidates(servers, batch, components, order, kept) = 1..n
                        /\ \A k \in 1..n : Candidates(servers, batch, components, order, kept)[k]
                                             \in (DOMAIN batch) \X (DOMAIN order)
<1> DEFINE pairs == {p \in (DOMAIN batch) \X (DOMAIN order) :
                       /\ batch[p[1]] \notin UsedServers(kept)
                       /\ Available(order[p[2]], components, batch, kept)
                       /\ Compatible(servers[batch[p[1]]], components[order[p[2]]])}
           score == [p \in pairs |-> ScorePair(servers[batch[p[1]]], components[order[p[2]]])]
           exact == {p \in pairs : /\ EndpointMatch(servers[batch[p[1]]], components[order[p[2]]])
                                   /\ score[p] >= Points(70)}
           Less == Precedence(pairs, exact, score)
<1>1. /\ Len(batch) \in Nat /\ DOMAIN batch = 1..Len(batch)
      /\ Len(order) \in Nat /\ DOMAIN order = 1..Len(order)
  BY DEF MatchInput
<1>2. pairs \in SUBSET ((1..Len(batch)) \X (1..Len(order)))
  BY <1>1
<1>3. score \in [pairs -> Int]
  <2>1. ASSUME NEW p \in pairs PROVE ScorePair(servers[batch[p[1]]], components[order[p[2]]]) \in Int
    <3>1. batch[p[1]] \in ToSet(batch) /\ order[p[2]] \in DOMAIN components
      BY <1>1, <1>2 DEF MatchInput, ToSet
    <3>2. QED BY <3>1, ScoreType DEF MatchInput
  <2>2. QED BY <2>1
<1>4. IsFiniteSet(pairs)
  <2>1. 1 \in Int /\ Len(batch) \in Int /\ Len(order) \in Int
    BY <1>1
  <2>2. IsFiniteSet(1..Len(batch)) /\ IsFiniteSet(1..Len(order))
    BY <2>1, FS_Interval
  <2>3. IsFiniteSet((1..Len(batch)) \X (1..Len(order)))
    BY <2>2, FS_Product
  <2>4. QED BY <1>2, <2>3, FS_Subset
<1>5. Candidates(servers, batch, components, order, kept) = Sorted(pairs, Less)
  BY DEF Candidates
<1> HIDE DEF pairs, score, exact
<1>6. TotalOrder(Less, pairs)
  <2>1. ASSUME NEW m \in Nat, NEW n \in Nat, pairs \in SUBSET ((1..m) \X (1..n)) PROVE TotalOrder(Less, pairs)
    BY <1>3, <2>1, CandidateOrder
  <2>2. QED BY <1>1, <1>2, <2>1
<1> HIDE DEF Less
<1>7. Cardinality(pairs) \in Nat /\ Sorted(pairs, Less) \in [1..Cardinality(pairs) -> pairs]
  BY <1>4, <1>6, SortedIs
<1>8. QED BY <1>1, <1>2, <1>5, <1>7

----------------------------------------------------------------------------
(* What _consume keeps, candidate by candidate.                            *)

\* A set of results that every candidate stays in has the last one in it.
LEMMA ConsumeFold ==
  ASSUME NEW n \in Nat, NEW s, DOMAIN s = 1..n, NEW R, NEW base \in R, NEW batch, NEW components, NEW order,
         \A k \in 1..n, ms \in R : Consumed(ms, s[k], batch, components, order) \in R
  PROVE  Consume(base, s, batch, components, order) \in R
<1> DEFINE step == [x \in (1..n) \X R |-> Consumed(x[2], s[x[1]], batch, components, order)]
           Iterates(g) == g = [t \in SUBSET (1..n) |->
                                 IF t = {} THEN base
                                 ELSE Consumed(g[t \ {Max(t)}], s[Max(t)], batch, components, order)]
           iter == CHOOSE g : Iterates(g)
<1>1. step \in [(1..n) \X R -> R]
  OBVIOUS
<1>2. PICK g \in [SUBSET (1..n) -> R] : FoldsTo(g, n, base, step)
  BY <1>1, FoldExists
<1>3. ASSUME NEW t \in SUBSET (1..n), t # {}
      PROVE  g[t] = Consumed(g[t \ {Max(t)}], s[Max(t)], batch, components, order)
  <2>1. Max(t) \in 1..n /\ g[t \ {Max(t)}] \in R
    BY <1>2, <1>3, GreatestIsIn
  <2>2. g[t] = step[<<Max(t), g[t \ {Max(t)}]>>]
    BY <1>2, <1>3 DEF FoldsTo
  <2>3. QED BY <2>1, <2>2
<1>4. g[{}] = base
  BY <1>2 DEF FoldsTo
<1>5. Iterates(g)
  BY <1>2, <1>3, <1>4
<1>6. Iterates(iter)
  BY <1>5
<1>7. Consume(base, s, batch, components, order) = iter[1..n]
  BY DEF Consume, FoldLeft, MapThenFoldSet
<1>8. iter[{}] = base /\ \A t \in SUBSET (1..n) :
        t # {} => iter[t] = Consumed(iter[t \ {Max(t)}], s[Max(t)], batch, components, order)
  <2> HIDE DEF iter
  <2>1. QED BY <1>6
<1> HIDE DEF iter
<1>9. Follows(iter, n, R, step)
  BY <1>8, GreatestIsIn DEF Follows
<1>10. PICK h \in [0..n -> R] : IsPrefixes(h, iter, n, step)
  <2>1. iter[{}] \in R
    BY <1>8
  <2> HIDE DEF step
  <2>2. QED BY <1>1, <2>1, <1>9, PrefixValues
<1>11. n \in 0..n
  OBVIOUS
<1>12. QED BY <1>7, <1>10, <1>11 DEF IsPrefixes

\* A component whose link no compatible server of the batch claims.
Free(c, servers, batch, components, order) ==
  \/ components[c].link = None
  \/ components[c].link \in ToSet(batch) /\ ~Keeps(servers, components, order, components[c].link)

\* What a pair of the result may be.
PairOK(s, c, servers, batch, components, order) ==
  /\ s \in ToSet(batch) /\ c \in DOMAIN components
  /\ IF Keeps(servers, components, order, s) THEN c = Holder(order, components, s)
     ELSE Free(c, servers, batch, components, order)

MatchesOK(ms, servers, batch, components, order) ==
  /\ \A k \in DOMAIN ms : PairOK(ms[k].server, ms[k].component, servers, batch, components, order)
  /\ \A j, k \in DOMAIN ms : ms[j].server = ms[k].server => j = k
  /\ \A s \in ToSet(batch) : Keeps(servers, components, order, s) => s \in UsedServers(ms)

Pairs(batch, components) == [server : ToSet(batch), component : DOMAIN components, linked : BOOLEAN]

LEMMA KeptLinksOK ==
  ASSUME NEW servers, NEW batch, NEW components, NEW order, MatchInput(servers, batch, components, order)
  PROVE  /\ KeptLinks(servers, batch, components, order) \in Seq(Pairs(batch, components))
         /\ MatchesOK(KeptLinks(servers, batch, components, order), servers, batch, components, order)
<1> DEFINE K == {s \in ToSet(batch) : Keeps(servers, components, order, s)}
           held == Only(batch, K)
           ms == KeptLinks(servers, batch, components, order)
<1>1. held \in Seq(ToSet(batch) \cap K) /\ ToSet(held) = ToSet(batch) \cap K /\ Distinct(held)
  BY OnlySeq DEF MatchInput
<1>2. ToSet(batch) \cap K = K
  OBVIOUS
<1>3. ms = [k \in DOMAIN held |-> [server |-> held[k], component |-> Holder(order, components, held[k]), linked |-> TRUE]]
  BY DEF KeptLinks, KeptAs
<1>4. ASSUME NEW s \in K PROVE Holder(order, components, s) \in DOMAIN components
  <2> DEFINE linked == {k \in DOMAIN order : components[order[k]].link = s}
  <2>1. Len(order) \in Nat /\ DOMAIN order = 1..Len(order) /\ \A k \in DOMAIN order : order[k] \in DOMAIN components
    BY DEF MatchInput
  <2>2. linked # {} /\ Holder(order, components, s) = order[Max(linked)]
    BY <1>4 DEF Holder, Keeps
  <2>3. linked \in SUBSET (1..Len(order))
    BY <2>1
  <2>4. Max(linked) \in linked
    <3> HIDE DEF linked
    <3>1. QED BY <2>1, <2>2, <2>3, GreatestIsIn
  <2>5. QED BY <2>1, <2>2, <2>4
<1>5. Len(held) \in Nat /\ DOMAIN held = 1..Len(held) /\ \A k \in DOMAIN held : held[k] \in K
  <2> HIDE DEF held, K
  <2>1. QED BY <1>1, <1>2
<1> HIDE DEF held, ms
<1>6. /\ DOMAIN ms = 1..Len(held)
      /\ \A k \in DOMAIN ms : /\ ms[k] \in Pairs(batch, components) /\ ms[k].server = held[k] /\ held[k] \in K
                              /\ ms[k].component = Holder(order, components, ms[k].server)
                              /\ ms[k].component \in DOMAIN components
  BY <1>3, <1>4, <1>5 DEF Pairs
<1>7. ms \in Seq(Pairs(batch, components))
  <2>1. ms = [k \in 1..Len(held) |-> ms[k]]
    BY <1>3, <1>5
  <2>2. QED BY <1>5, <1>6, <2>1
<1>8. \A k \in DOMAIN ms : PairOK(ms[k].server, ms[k].component, servers, batch, components, order)
  BY <1>6 DEF PairOK
<1>9. \A j, k \in DOMAIN ms : ms[j].server = ms[k].server => j = k
  BY <1>1, <1>5, <1>6 DEF Distinct
<1>10. ASSUME NEW s \in K PROVE s \in UsedServers(ms)
  <2>1. PICK k \in DOMAIN held : held[k] = s
    BY <1>1, <1>2 DEF ToSet
  <2>2. QED BY <1>5, <1>6, <2>1 DEF UsedServers
<1>11. QED BY <1>7, <1>8, <1>9, <1>10 DEF MatchesOK, ms

LEMMA ConsumedOK ==
  ASSUME NEW servers, NEW batch, NEW components, NEW order, MatchInput(servers, batch, components, order),
         NEW ms \in Seq(Pairs(batch, components)), MatchesOK(ms, servers, batch, components, order),
         NEW p \in (DOMAIN batch) \X (DOMAIN order)
  PROVE  /\ Consumed(ms, p, batch, components, order) \in Seq(Pairs(batch, components))
         /\ MatchesOK(Consumed(ms, p, batch, components, order), servers, batch, components, order)
<1> DEFINE s == batch[p[1]]
           c == order[p[2]]
           new == [server |-> s, component |-> c, linked |-> FALSE]
           n == Len(ms)
<1>1. s \in ToSet(batch) /\ c \in DOMAIN components
  BY DEF MatchInput, ToSet
<1>2. CASE s \in UsedServers(ms) \/ ~Available(c, components, batch, ms)
  BY <1>2 DEF Consumed
<1>3. CASE s \notin UsedServers(ms) /\ Available(c, components, batch, ms)
  <2>1. Consumed(ms, p, batch, components, order) = Append(ms, new)
    BY <1>3 DEF Consumed
  <2>2. new \in Pairs(batch, components) /\ new.server = s /\ new.component = c
    BY <1>1 DEF Pairs
  <2>3. PairOK(s, c, servers, batch, components, order)
    BY <1>1, <1>3 DEF PairOK, Free, Available, MatchesOK
  <2> HIDE DEF new, s, c
  <2> DEFINE r == Append(ms, new)
  <2>4. /\ n \in Nat /\ DOMAIN ms = 1..n /\ DOMAIN r = 1..(n + 1)
        /\ \A k \in 1..n : r[k] = ms[k]
        /\ r[n + 1] = new /\ r \in Seq(Pairs(batch, components))
    BY <2>2
  <2> HIDE DEF r, n
  <2>5. ASSUME NEW k \in DOMAIN r PROVE (k \in DOMAIN ms /\ r[k] = ms[k]) \/ (k = n + 1 /\ r[k] = new)
    <3>1. k \in 1..n \/ k = n + 1
      BY <2>4
    <3>2. CASE k \in 1..n
      BY <2>4, <3>2
    <3>3. CASE k = n + 1
      BY <2>4, <3>3
    <3>4. QED BY <3>1, <3>2, <3>3
  <2>6. \A k \in DOMAIN r : PairOK(r[k].server, r[k].component, servers, batch, components, order)
    BY <2>2, <2>3, <2>5 DEF MatchesOK
  <2>7. \A k \in DOMAIN ms : ms[k].server # s
    BY <1>3 DEF UsedServers
  <2>8. \A j, k \in DOMAIN r : r[j].server = r[k].server => j = k
    BY <2>2, <2>5, <2>7 DEF MatchesOK
  <2>9. UsedServers(ms) \subseteq UsedServers(r)
    <3>1. \A k \in DOMAIN ms : k \in DOMAIN r /\ r[k] = ms[k]
      BY <2>4
    <3>2. QED BY <3>1 DEF UsedServers
  <2>10. MatchesOK(r, servers, batch, components, order)
    BY <2>6, <2>8, <2>9 DEF MatchesOK
  <2>11. QED BY <2>1, <2>4, <2>10 DEF r
<1>4. QED BY <1>2, <1>3

\* match_servers: one pair per server, kept links first, and a component with a
\* link only if no server of the batch keeps it.
LEMMA MatchServersOK ==
  ASSUME NEW servers, NEW batch, NEW components, NEW order, MatchInput(servers, batch, components, order)
  PROVE  /\ MatchServers(servers, batch, components, order) \in Seq(Pairs(batch, components))
         /\ MatchesOK(MatchServers(servers, batch, components, order), servers, batch, components, order)
<1> DEFINE kept == KeptLinks(servers, batch, components, order)
           s == Candidates(servers, batch, components, order, kept)
           R == {ms \in Seq(Pairs(batch, components)) : MatchesOK(ms, servers, batch, components, order)}
<1>1. kept \in R
  BY KeptLinksOK
<1>2. PICK n \in Nat : DOMAIN s = 1..n /\ \A k \in 1..n : s[k] \in (DOMAIN batch) \X (DOMAIN order)
  BY CandidatesIn
<1>3. MatchServers(servers, batch, components, order)
        = Consume(kept, s, batch, components, order)
  BY DEF MatchServers
<1> HIDE DEF kept, s
<1>4. \A k \in 1..n, ms \in R : Consumed(ms, s[k], batch, components, order) \in R
  BY <1>2, ConsumedOK
<1> HIDE DEF R
<1>5. Consume(kept, s, batch, components, order) \in R
  BY <1>1, <1>2, <1>4, ConsumeFold
<1>6. QED BY <1>3, <1>5 DEF R

----------------------------------------------------------------------------
(* What an import plans: the match of its batch with the rows it read.     *)

ReadOK(read) == DOMAIN read \subseteq Ids /\ \A c \in DOMAIN read : read[c] \in Rows

LEMMA InputOK ==
  ASSUME NEW batch \in Seq(Servers), Distinct(batch), NEW read, ReadOK(read)
  PROVE  MatchInput(Remotes, batch, Locals(read), Only(RowIds, DOMAIN read))
<1>1. \A s \in ToSet(batch) : s \in Servers
  BY DEF ToSet
<1>2. batch \in Seq(ToSet(batch))
  <2>1. Len(batch) \in Nat /\ DOMAIN batch = 1..Len(batch) /\ \A k \in DOMAIN batch : batch[k] \in ToSet(batch)
    BY DEF ToSet
  <2>2. batch = [k \in 1..Len(batch) |-> batch[k]]
    OBVIOUS
  <2>3. QED BY <2>1, <2>2
<1>3. Only(RowIds, DOMAIN read) \in Seq(DOMAIN Locals(read))
  <2>1. Only(RowIds, DOMAIN read) \in Seq(Ids \cap DOMAIN read)
    BY ListAssumption, OnlySeq
  <2>2. Ids \cap DOMAIN read = DOMAIN Locals(read)
    BY DEF ReadOK, Locals
  <2>3. QED BY <2>1, <2>2
<1>4. \A s \in ToSet(batch) : IsFiniteSet(Remotes[s].words)
  BY <1>1, ServerAssumption, WordsAssumption DEF Remotes, Remote
<1>5. ASSUME NEW c \in DOMAIN Locals(read)
      PROVE  IsFiniteSet(Locals(read)[c].words) /\ IsFiniteSet(Locals(read)[c].slugWords)
  <2>1. read[c] \in Rows /\ Locals(read)[c] = Local(read[c])
    BY DEF ReadOK, Locals
  <2>2. read[c].name \in DOMAIN NameOf /\ read[c].slug.base \in DOMAIN SlugOf
    BY <2>1 DEF Rows, Slugs
  <2>3. /\ Local(read[c]).words = NameOf[read[c].name].words
        /\ Local(read[c]).slugWords = SlugOf[read[c].slug.base].words
    BY DEF Local
  <2>4. QED BY <2>1, <2>2, <2>3, WordsAssumption
<1>6. QED BY <1>2, <1>3, <1>4, <1>5 DEF MatchInput

\* The match keeps a server's link exactly when the last of the components read
\* with a link to it is compatible.
LEMMA KeepsIs ==
  ASSUME NEW read, ReadOK(read), NEW s \in Servers
  PROVE  LET order == Only(RowIds, DOMAIN read) IN
         /\ Keeps(Remotes, Locals(read), order, s) <=> WellLinked(read, s)
         /\ WellLinked(read, s) => read[Holder(order, Locals(read), s)].link = s
<1> DEFINE order == Only(RowIds, DOMAIN read)
           linked == {k \in DOMAIN order : Locals(read)[order[k]].link = s}
           rows == ReadLinked(read, s)
           n == Len(RowIds)
<1>1. n \in Nat /\ DOMAIN RowIds = 1..n /\ \A k \in 1..n : RowIds[k] \in Ids
  BY ListAssumption
<1> HIDE DEF n
<1>2. PICK at, m : IsCut(at, m, RowIds, DOMAIN read)
  BY <1>1, OnlyIs
<1>3. /\ m \in Nat /\ DOMAIN order = 1..m
      /\ \A k \in 1..m : at[k] \in 1..n /\ order[k] = RowIds[at[k]] /\ order[k] \in DOMAIN read
  BY <1>1, <1>2 DEF IsCut, PositionsIn
<1>4. \A c \in DOMAIN read : Locals(read)[c] = Local(read[c]) /\ Local(read[c]).link = read[c].link
  BY DEF Locals, Local
<1>5. \A s2 \in Servers : Remotes[s2] = Remote(s2)
  BY DEF Remotes
<1> HIDE DEF order
<1>6. \A k \in 1..m : k \in linked <=> at[k] \in rows
  BY <1>1, <1>3, <1>4 DEF ReadLinked
<1>7. ASSUME NEW p \in rows PROVE \E k \in linked : at[k] = p
  <2>1. p \in PositionsIn(RowIds, DOMAIN read)
    BY <1>7 DEF ReadLinked, PositionsIn
  <2>2. PICK k \in 1..m : at[k] = p
    BY <1>2, <2>1 DEF IsCut
  <2>3. QED BY <1>6, <2>2
<1>8. linked \in SUBSET (1..m)
  BY <1>3
<1>9. Holder(order, Locals(read), s) = IF linked = {} THEN None ELSE order[Max(linked)]
  BY DEF Holder
<1> HIDE DEF linked, rows
<1>10. CASE linked = {}
  <2>1. rows = {}
    BY <1>7, <1>10
  <2>2. QED BY <1>9, <1>10, <2>1 DEF WellLinked, Keeps, rows, order
<1>11. CASE linked # {}
  <2> DEFINE k == Max(linked)
  <2>1. k \in linked
    BY <1>3, <1>8, <1>11, GreatestIsIn
  <2>2. \A j \in linked : j <= k
    <3>1. linked \in SUBSET (0..m)
      BY <1>8
    <3>2. PICK x \in linked : \A y \in linked : y <= x
      BY <1>3, <1>11, <3>1, GreatestExists
    <3>3. \A y \in linked : x >= y
      BY <1>8, <3>2
    <3>4. \A j \in linked : k >= j
      BY <3>3 DEF Max
    <3>5. QED BY <1>8, <2>1, <3>4
  <2> HIDE DEF k
  <2>3. k \in 1..m /\ at[k] \in rows /\ order[k] = RowIds[at[k]] /\ order[k] \in DOMAIN read
    BY <1>3, <1>6, <1>8, <2>1
  <2>4. ASSUME NEW p \in rows PROVE p <= at[k]
    <3>1. PICK j \in linked : at[j] = p
      BY <1>7
    <3>2. j \in 1..m /\ (j = k \/ j < k)
      BY <1>8, <2>2, <2>3, <3>1
    <3>3. QED BY <1>2, <1>3, <2>3, <3>1, <3>2 DEF IsCut
  <2>5. Holder(order, Locals(read), s) = order[k]
    BY <1>9, <1>11 DEF k
  <2>6. order[k] # None
    BY <2>3, NoneAssumption DEF ReadOK
  <2>7. Keeps(Remotes, Locals(read), order, s) <=> Compatible(Remote(s), Local(read[RowIds[at[k]]]))
    BY <1>4, <1>5, <2>3, <2>5, <2>6 DEF Keeps
  <2>8. \A p \in rows : (\A j \in rows : j <= p) => p = at[k]
    BY <1>1, <1>3, <2>3, <2>4 DEF rows, ReadLinked
  <2>9. WellLinked(read, s) <=> Compatible(Remote(s), Local(read[RowIds[at[k]]]))
    BY <2>3, <2>4, <2>8 DEF WellLinked, rows
  <2>10. read[order[k]].link = s
    BY <2>3 DEF rows, ReadLinked
  <2>11. QED BY <2>5, <2>7, <2>9, <2>10 DEF order
<1>12. QED BY <1>10, <1>11

\* What a job of an import may be.
JobOK(job, batch, read) ==
  /\ job.server \in ToSet(batch)
  /\ IF job.component = None THEN ~WellLinked(read, job.server)
     ELSE /\ job.component \in DOMAIN read
          /\ IF WellLinked(read, job.server) THEN read[job.component].link = job.server
             ELSE \/ read[job.component].link = None
                  \/ /\ read[job.component].link \in ToSet(batch)
                     /\ ~WellLinked(read, read[job.component].link)

OnePerServer(work) == \A j, k \in DOMAIN work : work[j].server = work[k].server => j = k

LEMMA MatchedJobs ==
  ASSUME NEW batch \in Seq(Servers), Distinct(batch), NEW read, ReadOK(read)
  PROVE  LET ms == Match(batch, read) IN
         /\ Len(ms) \in Nat /\ DOMAIN ms = 1..Len(ms) /\ OnePerServer(ms)
         /\ \A k \in DOMAIN ms : /\ ms[k].server \in Servers /\ ms[k].component \in Ids
                                 /\ JobOK([server |-> ms[k].server, component |-> ms[k].component], batch, read)
         /\ \A s \in ToSet(batch) : WellLinked(read, s) => s \in UsedServers(ms)
<1> DEFINE ms == Match(batch, read)
           order == Only(RowIds, DOMAIN read)
<1>1. /\ ms \in Seq(Pairs(batch, Locals(read)))
      /\ MatchesOK(ms, Remotes, batch, Locals(read), order)
  BY InputOK, MatchServersOK DEF Match
<1>2. \A s \in ToSet(batch) : s \in Servers
  BY DEF ToSet
<1>3. DOMAIN Locals(read) = DOMAIN read /\ \A c \in DOMAIN read : Locals(read)[c].link = read[c].link
  BY DEF Locals, Local
<1>4. \A s \in Servers : /\ Keeps(Remotes, Locals(read), order, s) <=> WellLinked(read, s)
                         /\ WellLinked(read, s) => read[Holder(order, Locals(read), s)].link = s
  BY KeepsIs
<1> HIDE DEF ms, order
<1>5. Len(ms) \in Nat /\ DOMAIN ms = 1..Len(ms)
  BY <1>1
<1>6. OnePerServer(ms) /\ \A s \in ToSet(batch) : WellLinked(read, s) => s \in UsedServers(ms)
  BY <1>1, <1>2, <1>4 DEF MatchesOK, OnePerServer
<1>7. ASSUME NEW k \in DOMAIN ms
      PROVE  /\ ms[k].server \in Servers /\ ms[k].component \in Ids
             /\ JobOK([server |-> ms[k].server, component |-> ms[k].component], batch, read)
  <2> DEFINE s == ms[k].server
             c == ms[k].component
  <2>1. PairOK(s, c, Remotes, batch, Locals(read), order)
    BY <1>1 DEF MatchesOK
  <2>2. s \in ToSet(batch) /\ s \in Servers /\ c \in DOMAIN read /\ c \in Ids /\ c # None
    BY <1>2, <1>3, <2>1, NoneAssumption DEF PairOK, ReadOK
  <2> HIDE DEF s, c
  <2>3. CASE WellLinked(read, s)
    <3>1. read[c].link = s
      BY <1>4, <2>1, <2>2, <2>3 DEF PairOK
    <3>2. QED BY <2>2, <2>3, <3>1 DEF JobOK, s, c
  <2>4. CASE ~WellLinked(read, s)
    <3>1. Free(c, Remotes, batch, Locals(read), order)
      BY <1>4, <2>1, <2>2, <2>4 DEF PairOK
    <3>2. \/ read[c].link = None
          \/ read[c].link \in ToSet(batch) /\ ~WellLinked(read, read[c].link)
      BY <1>2, <1>3, <1>4, <2>2, <3>1 DEF Free
    <3>3. JobOK([server |-> s, component |-> c], batch, read)
      BY <2>2, <2>4, <3>2 DEF JobOK
    <3>4. QED BY <2>2, <3>3 DEF s, c
  <2>5. QED BY <2>3, <2>4
<1>8. QED BY <1>5, <1>6, <1>7 DEF ms

LEMMA WorkForOK ==
  ASSUME NEW batch \in Seq(Servers), Distinct(batch), NEW read, ReadOK(read), NEW create
  PROVE  LET work == WorkFor(batch, read, create) IN
         /\ work \in Seq(Jobs) /\ OnePerServer(work)
         /\ \A k \in DOMAIN work : JobOK(work[k], batch, read)
<1> DEFINE ms == Match(batch, read)
           matched == [k \in DOMAIN ms |-> [server |-> ms[k].server, component |-> ms[k].component]]
           left == Only(batch, ToSet(batch) \ UsedServers(ms))
           new == [k \in DOMAIN left |-> [server |-> left[k], component |-> None]]
           rest == IF create THEN new ELSE <<>>
           work == WorkFor(batch, read, create)
           n == Len(ms)
           r == Len(rest)
<1>1. /\ n \in Nat /\ DOMAIN ms = 1..n /\ OnePerServer(ms)
      /\ \A k \in DOMAIN ms : /\ ms[k].server \in Servers /\ ms[k].component \in Ids
                              /\ JobOK([server |-> ms[k].server, component |-> ms[k].component], batch, read)
      /\ \A s \in ToSet(batch) : WellLinked(read, s) => s \in UsedServers(ms)
  BY MatchedJobs
<1>2. work = matched \o rest
  BY DEF WorkFor
<1>3. /\ left \in Seq(Servers \cap (ToSet(batch) \ UsedServers(ms)))
      /\ Distinct(left)
  BY OnlySeq
<1> HIDE DEF ms, n, left
<1>4. /\ matched \in Seq(Jobs) /\ DOMAIN matched = 1..n /\ Len(matched) = n /\ OnePerServer(matched)
      /\ \A k \in DOMAIN matched : matched[k].server \in UsedServers(ms) /\ JobOK(matched[k], batch, read)
  <2>1. \A k \in DOMAIN ms : [server |-> ms[k].server, component |-> ms[k].component] \in Jobs
    BY <1>1 DEF Jobs
  <2>2. DOMAIN matched = 1..n /\ \A k \in 1..n : /\ matched[k] \in Jobs /\ matched[k].server = ms[k].server
                                                 /\ JobOK(matched[k], batch, read)
    BY <1>1, <2>1
  <2>3. matched = [k \in 1..n |-> matched[k]]
    BY <1>1
  <2> HIDE DEF matched
  <2>4. matched \in Seq(Jobs) /\ Len(matched) = n
    BY <1>1, <2>2, <2>3
  <2>5. OnePerServer(matched)
    BY <1>1, <2>2 DEF OnePerServer
  <2>6. \A k \in 1..n : matched[k].server \in UsedServers(ms)
    BY <1>1, <2>2 DEF UsedServers
  <2>7. QED BY <2>2, <2>4, <2>5, <2>6
<1>5. /\ rest \in Seq(Jobs) /\ r \in Nat /\ DOMAIN rest = 1..r /\ OnePerServer(rest)
      /\ \A k \in DOMAIN rest : rest[k].server \notin UsedServers(ms) /\ JobOK(rest[k], batch, read)
  <2>1. CASE create
    <3>1. rest = new
      BY <2>1
    <3>2. /\ Len(left) \in Nat /\ DOMAIN left = 1..Len(left)
          /\ \A k \in DOMAIN left : left[k] \in Servers /\ left[k] \in ToSet(batch) /\ left[k] \notin UsedServers(ms)
      BY <1>3
    <3>3. DOMAIN new = 1..Len(left) /\ \A k \in DOMAIN new : /\ new[k] \in Jobs /\ new[k].server = left[k]
                                                             /\ new[k].component = None
      BY <3>2 DEF Jobs
    <3>4. new = [k \in 1..Len(left) |-> new[k]]
      BY <3>2
    <3> HIDE DEF new
    <3>5. new \in Seq(Jobs) /\ Len(new) = Len(left)
      BY <3>2, <3>3, <3>4
    <3>6. OnePerServer(new)
      BY <1>3, <3>2, <3>3 DEF OnePerServer, Distinct
    <3>7. ASSUME NEW k \in DOMAIN new PROVE new[k].server \notin UsedServers(ms) /\ JobOK(new[k], batch, read)
      <4>1. new[k].server = left[k] /\ new[k].component = None /\ left[k] \in ToSet(batch) /\ left[k] \notin UsedServers(ms)
        BY <3>2, <3>3
      <4>2. QED BY <1>1, <4>1 DEF JobOK
    <3>8. QED BY <3>1, <3>2, <3>3, <3>5, <3>6, <3>7
  <2>2. CASE ~create
    BY <2>2 DEF OnePerServer
  <2>3. QED BY <2>1, <2>2
<1> HIDE DEF matched, rest, r
<1>6. /\ matched \o rest \in Seq(Jobs) /\ DOMAIN (matched \o rest) = 1..(n + r)
      /\ \A k \in 1..(n + r) : \/ k \in DOMAIN matched /\ (matched \o rest)[k] = matched[k]
                               \/ k > n /\ k - n \in DOMAIN rest /\ (matched \o rest)[k] = rest[k - n]
  <2>1. Len(matched) = n /\ Len(rest) = r /\ n \in Nat /\ r \in Nat /\ DOMAIN matched = 1..n /\ DOMAIN rest = 1..r
        /\ matched \in Seq(Jobs) /\ rest \in Seq(Jobs)
    BY <1>1, <1>4, <1>5 DEF r
  <2>2. matched \o rest \in Seq(Jobs) /\ DOMAIN (matched \o rest) = 1..(n + r)
    BY <2>1
  <2>3. ASSUME NEW k \in 1..(n + r), k <= n PROVE k \in DOMAIN matched /\ (matched \o rest)[k] = matched[k]
    BY <2>1, <2>3
  <2>4. ASSUME NEW k \in 1..(n + r), k > n PROVE k - n \in DOMAIN rest /\ (matched \o rest)[k] = rest[k - n]
    BY <2>1, <2>4
  <2>5. \A k \in 1..(n + r) : k <= n \/ k > n
    BY <2>1
  <2>6. QED BY <2>2, <2>3, <2>4, <2>5
<1> HIDE DEF work
<1>7. work \in Seq(Jobs) /\ DOMAIN work = 1..(n + r)
  BY <1>2, <1>6
<1>8. ASSUME NEW k \in DOMAIN work
      PROVE  \/ k \in DOMAIN matched /\ work[k] = matched[k] /\ work[k].server \in UsedServers(ms)
             \/ /\ k > n /\ k - n \in DOMAIN rest /\ work[k] = rest[k - n]
                /\ work[k].server \notin UsedServers(ms)
  BY <1>2, <1>4, <1>5, <1>6, <1>7
<1>9. \A k \in DOMAIN work : JobOK(work[k], batch, read)
  BY <1>4, <1>5, <1>8
<1>10. ASSUME NEW j \in DOMAIN work, NEW k \in DOMAIN work, work[j].server = work[k].server PROVE j = k
  <2>1. j \in Int /\ k \in Int /\ n \in Int
    BY <1>1, <1>5, <1>7
  <2>2. CASE work[j].server \in UsedServers(ms)
    BY <1>4, <1>8, <1>10, <2>2 DEF OnePerServer
  <2>3. CASE work[j].server \notin UsedServers(ms)
    <3>1. j - n = k - n
      BY <1>5, <1>8, <1>10, <2>3 DEF OnePerServer
    <3>2. QED BY <2>1, <3>1
  <2>4. QED BY <2>2, <2>3
<1>11. QED BY <1>7, <1>9, <1>10 DEF OnePerServer, work

----------------------------------------------------------------------------
(* The invariant.                                                          *)

Fields == {"pc", "req", "prefix", "batch", "read", "work", "pend", "inserts", "reserved", "slug", "stale"}

\* No server has two of: jobs left, components updated, components inserted.
OneEach(im) ==
  /\ OnePerServer(im.work)
  /\ \A c, d \in DOMAIN im.pend : im.pend[c].link = im.pend[d].link => c = d
  /\ \A j, k \in DOMAIN im.inserts : im.inserts[j].link = im.inserts[k].link => j = k
  /\ \A k \in DOMAIN im.work, c \in DOMAIN im.pend : im.pend[c].link # im.work[k].server
  /\ \A k \in DOMAIN im.work, j \in DOMAIN im.inserts : im.inserts[j].link # im.work[k].server
  /\ \A c \in DOMAIN im.pend, j \in DOMAIN im.inserts : im.pend[c].link # im.inserts[j].link

\* What is left, updated or inserted is what the match of the batch planned.
JobsOK(im) ==
  /\ \A k \in DOMAIN im.work : JobOK(im.work[k], im.batch, im.read)
  /\ \A c \in DOMAIN im.pend : JobOK([server |-> im.pend[c].link, component |-> c], im.batch, im.read)
  /\ \A k \in DOMAIN im.inserts : JobOK([server |-> im.inserts[k].link, component |-> None], im.batch, im.read)

PlaceOK(im) ==
  /\ im.pc \in {"idle", "list"} => DOMAIN im.read = {} /\ im.inserts = <<>>
  /\ im.pc = "link" => Head(im.work).component # None
  /\ im.pc \in {"slug", "spin", "insert"} => Head(im.work).component = None
  /\ im.pc = "insert" => im.slug # None

ImportOK(im) == /\ DOMAIN im = Fields /\ HoldsTyped(im) /\ Distinct(im.batch) /\ IsFiniteSet(im.reserved)
                /\ PlaceOK(im) /\ OneEach(im) /\ JobsOK(im)

TablesOK ==
  /\ row \in [Ids -> Rows \cup {None}]
  /\ integration \in [prefix : CnPrefixes, enabled : BOOLEAN]
  /\ files \in [CommonNames -> [live : Nat, revoked : BOOLEAN]]
  /\ raced \subseteq CommonNames
  /\ spent \in [requests : 0..MaxEvents, edits : 0..MaxEdits, faults : 0..MaxFaults, rows : 0..Len(RowIds)]

\* Ids that no row has had are in nobody's hands, and every insert has one.
IdsLeft == /\ spent.rows + Cardinality(Pending) <= Len(RowIds)
           /\ \A k \in DOMAIN RowIds : k > spent.rows =>
                row[RowIds[k]] = None /\ \A i \in Importers : RowIds[k] \notin DOMAIN imp[i].read

\* Until another import commits, links are as they were read.
Fresh(im) == ~im.stale => \A c \in DOMAIN im.read : row[c] # None => row[c].link = im.read[c].link

ImportInv == /\ TablesOK /\ IdsLeft /\ DOMAIN imp = Importers
             /\ \A i \in Importers : ImportOK(imp[i]) /\ Fresh(imp[i])

----------------------------------------------------------------------------
(* What the steps of an import leave of its record.                        *)

LEMMA PcOfIs ==
  ASSUME NEW work \in Seq(Jobs), NEW req
  PROVE  /\ PcOf(work, req) \in Places \ {"idle", "list", "slug", "spin", "insert", "issue"}
         /\ work = <<>> <=> PcOf(work, req) = "commit"
         /\ PcOf(work, req) = "link" => Head(work).component # None
BY DEF PcOf, Places

LEMMA RestingOK == ImportOK(Resting) /\ DOMAIN Resting.read = {} /\ DOMAIN Resting.inserts = {}
<1> DEFINE req == CHOOSE r \in Requests : TRUE
           prefix == CHOOSE p \in CnPrefixes : TRUE
<1>1. req \in Requests /\ prefix \in CnPrefixes
  BY RequestAssumption
<1> HIDE DEF req, prefix
<1>2. Resting = [pc |-> "idle", req |-> req, prefix |-> prefix,
                 batch |-> <<>>, read |-> <<>>, work |-> <<>>, pend |-> <<>>, inserts |-> <<>>,
                 reserved |-> {}, slug |-> None, stale |-> FALSE]
  BY DEF Resting, req, prefix
<1>3. DOMAIN Resting = Fields /\ HoldsTyped(Resting)
  BY <1>1, <1>2 DEF Fields, HoldsTyped, Places
<1>4. IsFiniteSet(Resting.reserved)
  BY <1>2, FS_EmptySet
<1>5. Distinct(Resting.batch) /\ PlaceOK(Resting) /\ OneEach(Resting) /\ JobsOK(Resting)
  BY <1>2 DEF Distinct, PlaceOK, OneEach, OnePerServer, JobsOK
<1>6. QED BY <1>2, <1>3, <1>4, <1>5 DEF ImportOK

\* What the end of a job leaves alone.
Kept(new, im) == /\ new.req = im.req /\ new.prefix = im.prefix /\ new.batch = im.batch
                 /\ new.read = im.read /\ new.stale = im.stale

\* A job is done: it has changed nothing, or the component it is about, or it
\* has inserted one.
Did(new, im) ==
  \/ new.pend = im.pend /\ new.inserts = im.inserts
  \/ /\ Head(im.work).component # None
     /\ \E r \in Rows : /\ r.link = Head(im.work).server
                        /\ new.pend = With(im.pend, Head(im.work).component, r)
     /\ new.inserts = im.inserts
  \/ /\ Head(im.work).component = None /\ new.pend = im.pend
     /\ \E r \in Rows : r.link = Head(im.work).server /\ new.inserts = Append(im.inserts, r)

LEMMA JobDone ==
  ASSUME NEW im, ImportOK(im), im.work # <<>>, NEW new, DOMAIN new = Fields, Kept(new, im), Did(new, im),
         new.work = Tail(im.work), new.pc = PcOf(Tail(im.work), im.req), new.slug = None,
         new.reserved \subseteq im.reserved
  PROVE  ImportOK(new)
<1> DEFINE job == Head(im.work)
           n == Len(im.work)
<1>1. /\ im.work \in Seq(Jobs) /\ n \in Nat /\ n # 0 /\ DOMAIN im.work = 1..n /\ job = im.work[1] /\ 1 \in 1..n
      /\ job \in Jobs
  BY DEF ImportOK, HoldsTyped
<1>2. /\ new.work \in Seq(Jobs) /\ DOMAIN new.work = 1..(n - 1)
      /\ \A k \in 1..(n - 1) : k + 1 \in 1..n /\ new.work[k] = im.work[k + 1]
  BY <1>1
<1> HIDE DEF n, job
<1>3. \A k \in DOMAIN new.work : new.work[k].server # job.server
  <2>1. ASSUME NEW k \in 1..(n - 1), new.work[k].server = job.server PROVE FALSE
    <3>1. k + 1 \in 1..n /\ im.work[k + 1].server = im.work[1].server
      BY <1>1, <1>2, <2>1
    <3>2. k + 1 = 1
      BY <1>1, <3>1 DEF ImportOK, OneEach, OnePerServer
    <3>3. QED BY <1>1, <3>2
  <2>2. QED BY <1>2, <2>1
<1>4. OnePerServer(new.work)
  <2>1. ASSUME NEW j \in 1..(n - 1), NEW k \in 1..(n - 1), new.work[j].server = new.work[k].server PROVE j = k
    <3>1. j + 1 = k + 1
      BY <1>1, <1>2, <2>1 DEF ImportOK, OneEach, OnePerServer
    <3>2. QED BY <1>1, <3>1
  <2>2. QED BY <1>2, <2>1 DEF OnePerServer
<1>5. \A k \in DOMAIN new.work : \E j \in DOMAIN im.work : new.work[k] = im.work[j]
  BY <1>1, <1>2
<1>6. /\ JobOK(job, im.batch, im.read)
      /\ \A c \in DOMAIN im.pend : im.pend[c].link # job.server
      /\ \A k \in DOMAIN im.inserts : im.inserts[k].link # job.server
  BY <1>1 DEF ImportOK, OneEach, JobsOK
<1>7. PlaceOK(new)
  BY <1>2, PcOfIs DEF PlaceOK
<1>8. /\ DOMAIN new.pend \subseteq DOMAIN new.read /\ \A c \in DOMAIN new.pend : new.pend[c] \in Rows
      /\ new.inserts \in Seq(Rows)
      /\ OneEach(new) /\ JobsOK(new)
  <2>1. CASE new.pend = im.pend /\ new.inserts = im.inserts
    <3>1. OneEach(new)
      BY <1>4, <1>5, <2>1 DEF ImportOK, OneEach
    <3>2. JobsOK(new)
      BY <1>5, <2>1 DEF ImportOK, JobsOK, Kept
    <3>3. QED BY <2>1, <3>1, <3>2 DEF ImportOK, HoldsTyped, Kept
  <2>2. CASE /\ job.component # None
             /\ \E r \in Rows : r.link = job.server /\ new.pend = With(im.pend, job.component, r)
             /\ new.inserts = im.inserts
    <3> DEFINE x == job.component
    <3>1. PICK r \in Rows : r.link = job.server /\ new.pend = With(im.pend, x, r)
      BY <2>2
    <3>2. /\ DOMAIN new.pend = DOMAIN im.pend \cup {x} /\ new.pend[x] = r
          /\ \A c \in DOMAIN im.pend \ {x} : new.pend[c] = im.pend[c]
      BY <3>1 DEF With
    <3>3. x \in DOMAIN im.read
      BY <1>6, <2>2 DEF JobOK
    <3>4. job = [server |-> job.server, component |-> x]
      BY <1>1 DEF Jobs
    <3> HIDE DEF x
    <3>5. \A c \in DOMAIN new.pend : \/ c = x /\ new.pend[c] = r
                                     \/ c \in DOMAIN im.pend /\ new.pend[c] = im.pend[c]
      BY <3>2
    <3>6. DOMAIN new.pend \subseteq DOMAIN new.read /\ \A c \in DOMAIN new.pend : new.pend[c] \in Rows
      BY <3>3, <3>5 DEF ImportOK, HoldsTyped, Kept
    <3>7. OneEach(new)
      <4>1. ASSUME NEW c \in DOMAIN new.pend, NEW d \in DOMAIN new.pend, new.pend[c].link = new.pend[d].link
            PROVE  c = d
        BY <1>6, <3>1, <3>5, <4>1 DEF ImportOK, OneEach
      <4>2. \A k \in DOMAIN new.work, c \in DOMAIN new.pend : new.pend[c].link # new.work[k].server
        BY <1>3, <1>5, <3>1, <3>5 DEF ImportOK, OneEach
      <4>3. \A c \in DOMAIN new.pend, j \in DOMAIN new.inserts : new.pend[c].link # new.inserts[j].link
        BY <1>6, <2>2, <3>1, <3>5 DEF ImportOK, OneEach
      <4>4. \A k \in DOMAIN new.work, j \in DOMAIN new.inserts : new.inserts[j].link # new.work[k].server
        BY <1>5, <2>2 DEF ImportOK, OneEach
      <4>5. \A j, k \in DOMAIN new.inserts : new.inserts[j].link = new.inserts[k].link => j = k
        BY <2>2 DEF ImportOK, OneEach
      <4>6. QED BY <1>4, <4>1, <4>2, <4>3, <4>4, <4>5 DEF OneEach
    <3>8. JobsOK(new)
      <4>1. \A c \in DOMAIN new.pend : JobOK([server |-> new.pend[c].link, component |-> c], new.batch, new.read)
        BY <1>6, <3>1, <3>4, <3>5 DEF ImportOK, JobsOK, Kept
      <4>2. \A k \in DOMAIN new.work : JobOK(new.work[k], new.batch, new.read)
        BY <1>5 DEF ImportOK, JobsOK, Kept
      <4>3. \A k \in DOMAIN new.inserts : JobOK([server |-> new.inserts[k].link, component |-> None], new.batch, new.read)
        BY <2>2 DEF ImportOK, JobsOK, Kept
      <4>4. QED BY <4>1, <4>2, <4>3 DEF JobsOK
    <3>9. QED BY <2>2, <3>6, <3>7, <3>8 DEF ImportOK, HoldsTyped
  <2>3. CASE /\ job.component = None /\ new.pend = im.pend
             /\ \E r \in Rows : r.link = job.server /\ new.inserts = Append(im.inserts, r)
    <3>1. PICK r \in Rows : r.link = job.server /\ new.inserts = Append(im.inserts, r)
      BY <2>3
    <3> DEFINE m == Len(im.inserts)
    <3>2. /\ m \in Nat /\ DOMAIN im.inserts = 1..m /\ im.inserts \in Seq(Rows)
      BY DEF ImportOK, HoldsTyped
    <3>3. /\ DOMAIN new.inserts = 1..(m + 1) /\ new.inserts \in Seq(Rows) /\ new.inserts[m + 1] = r
          /\ \A k \in 1..m : new.inserts[k] = im.inserts[k]
      BY <3>1, <3>2
    <3> HIDE DEF m
    <3>4. \A k \in DOMAIN new.inserts : \/ k = m + 1 /\ new.inserts[k] = r
                                        \/ k \in DOMAIN im.inserts /\ new.inserts[k] = im.inserts[k]
      <4>1. \A k \in 1..(m + 1) : k = m + 1 \/ k \in 1..m
        BY <3>2
      <4>2. QED BY <3>2, <3>3, <4>1
    <3>5. job = [server |-> job.server, component |-> None]
      BY <1>1, <2>3 DEF Jobs
    <3>6. OneEach(new)
      <4>1. ASSUME NEW j \in DOMAIN new.inserts, NEW k \in DOMAIN new.inserts, new.inserts[j].link = new.inserts[k].link
            PROVE  j = k
        BY <1>6, <3>1, <3>4, <4>1 DEF ImportOK, OneEach
      <4>2. \A k \in DOMAIN new.work, j \in DOMAIN new.inserts : new.inserts[j].link # new.work[k].server
        BY <1>3, <1>5, <3>1, <3>4 DEF ImportOK, OneEach
      <4>3. \A c \in DOMAIN new.pend, j \in DOMAIN new.inserts : new.pend[c].link # new.inserts[j].link
        BY <1>6, <2>3, <3>1, <3>4 DEF ImportOK, OneEach
      <4>4. \A k \in DOMAIN new.work, c \in DOMAIN new.pend : new.pend[c].link # new.work[k].server
        BY <1>5, <2>3 DEF ImportOK, OneEach
      <4>5. \A c, d \in DOMAIN new.pend : new.pend[c].link = new.pend[d].link => c = d
        BY <2>3 DEF ImportOK, OneEach
      <4>6. QED BY <1>4, <4>1, <4>2, <4>3, <4>4, <4>5 DEF OneEach
    <3>7. JobsOK(new)
      <4>1. \A k \in DOMAIN new.inserts : JobOK([server |-> new.inserts[k].link, component |-> None], new.batch, new.read)
        BY <1>6, <3>1, <3>4, <3>5 DEF ImportOK, JobsOK, Kept
      <4>2. \A k \in DOMAIN new.work : JobOK(new.work[k], new.batch, new.read)
        BY <1>5 DEF ImportOK, JobsOK, Kept
      <4>3. \A c \in DOMAIN new.pend : JobOK([server |-> new.pend[c].link, component |-> c], new.batch, new.read)
        BY <2>3 DEF ImportOK, JobsOK, Kept
      <4>4. QED BY <4>1, <4>2, <4>3 DEF JobsOK
    <3>8. QED BY <2>3, <3>3, <3>6, <3>7 DEF ImportOK, HoldsTyped, Kept
  <2>4. QED BY <2>1, <2>2, <2>3 DEF Did, job
<1>9. HoldsTyped(new)
  <2>1. new.pc \in Places /\ (new.work = <<>> <=> new.pc \in {"idle", "list", "commit"})
    BY <1>2, PcOfIs
  <2>2. /\ new.req \in Requests /\ new.prefix \in CnPrefixes /\ new.stale \in BOOLEAN /\ new.batch \in Seq(Servers)
        /\ DOMAIN new.read \subseteq Ids /\ \A c \in DOMAIN new.read : new.read[c] \in Rows
        /\ new.reserved \subseteq Slugs
    BY DEF ImportOK, HoldsTyped, Kept
  <2>3. QED BY <1>2, <1>8, <2>1, <2>2 DEF HoldsTyped
<1>10. Distinct(new.batch) /\ IsFiniteSet(new.reserved)
  BY FS_Subset DEF ImportOK, Kept
<1>11. QED BY <1>7, <1>8, <1>9, <1>10 DEF ImportOK

----------------------------------------------------------------------------
(* Which files are issued.                                                 *)

\* What the proof needs of the types: an importer has its fields, and DataGate
\* counts the live files.
Typed == /\ DOMAIN imp = Importers
         /\ \A i \in Importers : DOMAIN imp[i] = Fields
         /\ files \in [CommonNames -> [live : Nat, revoked : BOOLEAN]]

\* An import that is about to issue a file has seen that there is none, or
\* another was about to issue the same.
IssueOK(i) == At(i, "issue") /\ Cn(i) \in CommonNames => files[Cn(i)].live = 0 \/ Cn(i) \in raced
IssueInv == /\ \A i \in Importers : IssueOK(i)
            /\ MonitorIssuedOnce
Inv == Typed /\ IssueInv

----------------------------------------------------------------------------
(* What the operators on an importer's record leave.                       *)

LEMMA PcOfIsNot ==
  ASSUME NEW work, NEW req
  PROVE  PcOf(work, req) \in {"commit", "link", "byCn"}
BY DEF PcOf

LEMMA FinishedShape ==
  ASSUME NEW im, DOMAIN im = Fields
  PROVE  DOMAIN Finished(im) = Fields /\ Finished(im).pc # "issue"
BY PcOfIsNot DEF Finished, Fields

LEMMA RestingShape == DOMAIN Resting = Fields /\ Resting.pc # "issue"
BY DEF Resting, Fields

LEMMA PlannedShape ==
  ASSUME NEW im, DOMAIN im = Fields, NEW batch, NEW read, NEW work
  PROVE  DOMAIN Planned(im, batch, read, work) = Fields /\ Planned(im, batch, read, work).pc # "issue"
BY PcOfIsNot DEF Planned, Fields

\* A step of one importer that does not issue and does not start to.
LEMMA OneImporter ==
  ASSUME Inv, NEW i \in Importers, NEW im, DOMAIN im = Fields, im.pc # "issue",
         imp' = [imp EXCEPT ![i] = im], UNCHANGED <<files, raced>>
  PROVE  Inv'
<1>1. DOMAIN imp' = Importers /\ imp'[i] = im /\ \A j \in Importers \ {i} : imp'[j] = imp[j]
  BY DEF Inv, Typed
<1>2. Typed'
  BY <1>1 DEF Inv, Typed
<1>3. ASSUME NEW j \in Importers PROVE IssueOK(j)'
  BY <1>1 DEF Inv, IssueInv, IssueOK, At, Cn, Job
<1>4. MonitorIssuedOnce'
  BY DEF Inv, IssueInv, MonitorIssuedOnce
<1>5. QED BY <1>2, <1>3, <1>4 DEF Inv, IssueInv

LEMMA GotoKeeps ==
  ASSUME Inv, NEW i \in Importers, NEW pc, pc # "issue", Goto(i, pc), UNCHANGED <<files, raced>>
  PROVE  Inv'
<1>1. imp' = [imp EXCEPT ![i] = [imp[i] EXCEPT !.pc = pc]]
  BY DEF Goto
<1>2. DOMAIN [imp[i] EXCEPT !.pc = pc] = Fields /\ [imp[i] EXCEPT !.pc = pc].pc = pc
  BY DEF Inv, Typed, Fields
<1>3. QED BY <1>1, <1>2, OneImporter

LEMMA RestKeeps ==
  ASSUME Inv, NEW i \in Importers, Rest(i), UNCHANGED <<files, raced>>
  PROVE  Inv'
BY RestingShape, OneImporter DEF Rest

LEMMA NextJobKeeps ==
  ASSUME Inv, NEW i \in Importers, NextJob(i), UNCHANGED <<files, raced>>
  PROVE  Inv'
<1>1. imp' = [imp EXCEPT ![i] = Finished(imp[i])]
  BY DEF NextJob
<1>2. QED BY <1>1, FinishedShape, OneImporter DEF Inv, Typed

LEMMA AssignKeeps ==
  ASSUME Inv, NEW i \in Importers, NEW file, AssignColumns(i, file), UNCHANGED <<files, raced>>
  PROVE  Inv'
<1>1. imp' = [imp EXCEPT ![i] = Finished(Assigning(imp[i], file))]
  BY DEF AssignColumns
<1>2. DOMAIN Assigning(imp[i], file) = Fields
  BY DEF Inv, Typed, Assigning
<1>3. QED BY <1>1, <1>2, FinishedShape, OneImporter

LEMMA TakeFileKeeps ==
  ASSUME Inv, NEW i \in Importers, TakeFile(i), UNCHANGED <<files, raced>>
  PROVE  Inv'
BY GotoKeeps, AssignKeeps DEF TakeFile

LEMMA CallFailsKeeps ==
  ASSUME Inv, NEW i \in Importers, CallFails(i), UNCHANGED <<files, raced>>
  PROVE  Inv'
BY RestKeeps, NextJobKeeps DEF CallFails, JobFails, Aborts

----------------------------------------------------------------------------
(* One lemma per action.                                                   *)

LEMMA InitHolds == Init => Inv
<1> SUFFICES ASSUME Init PROVE Inv
  OBVIOUS
<1>1. files = [cn \in CommonNames |-> [live |-> IF \E c \in Ids : row[c] # None /\ row[c].cn = cn THEN 1 ELSE 0,
                                      revoked |-> FALSE]]
  BY DEF Init
<1>2. \A cn \in CommonNames : files[cn].live \in {0, 1} /\ files[cn] \in [live : Nat, revoked : BOOLEAN]
  BY <1>1
<1>3. files \in [CommonNames -> [live : Nat, revoked : BOOLEAN]]
  BY <1>1, <1>2
<1>4. imp = [i \in Importers |-> Resting]
  BY DEF Init
<1>5. Typed
  BY <1>3, <1>4, RestingShape DEF Typed
<1>6. \A i \in Importers : IssueOK(i)
  BY <1>4, RestingShape DEF IssueOK, At
<1>7. MonitorIssuedOnce
  BY <1>2 DEF MonitorIssuedOnce
<1>8. QED BY <1>5, <1>6, <1>7 DEF Inv, IssueInv

LEMMA RequestKeeps ==
  ASSUME Inv, NEW i \in Importers, Request(i)
  PROVE  Inv'
<1>1. PICK req \in Requests :
        imp' = [imp EXCEPT ![i] = [Resting EXCEPT !.pc = "list", !.req = req, !.prefix = integration.prefix]]
  BY DEF Request
<1> DEFINE im == [Resting EXCEPT !.pc = "list", !.req = req, !.prefix = integration.prefix]
<1>2. DOMAIN im = Fields /\ im.pc = "list"
  BY RestingShape DEF Fields
<1> HIDE DEF im
<1>3. imp' = [imp EXCEPT ![i] = im]
  BY <1>1 DEF im
<1>4. QED BY <1>2, <1>3, OneImporter DEF Request

LEMMA ListKeeps ==
  ASSUME Inv, NEW i \in Importers, List(i)
  PROVE  Inv'
<1>1. UNCHANGED <<files, raced>>
  BY DEF List
<1>2. CASE Rest(i)
  BY <1>1, <1>2, RestKeeps
<1>3. ASSUME NEW batch, NEW read, NEW work, imp' = [imp EXCEPT ![i] = Planned(imp[i], batch, read, work)]
      PROVE  Inv'
  <2> DEFINE im == Planned(imp[i], batch, read, work)
  <2>1. DOMAIN im = Fields /\ im.pc # "issue"
    BY PlannedShape DEF Inv, Typed
  <2>2. imp' = [imp EXCEPT ![i] = im]
    BY <1>3
  <2> HIDE DEF im
  <2>3. QED BY <1>1, <2>1, <2>2, OneImporter
<1>4. QED BY <1>2, <1>3 DEF List

LEMMA DownloadsKeep ==
  ASSUME Inv, NEW i \in Importers, DownloadByCn(i) \/ DownloadById(i) \/ Fetch(i) \/ Link(i)
  PROVE  Inv'
<1>1. UNCHANGED <<files, raced>>
  BY DEF DownloadByCn, DownloadById, Fetch, Link
<1>2. TakeFile(i) \/ Goto(i, "files") \/ CallFails(i) \/ AssignColumns(i, FALSE)
  BY DEF DownloadByCn, DownloadById, Fetch, Link
<1>3. QED BY <1>1, <1>2, TakeFileKeeps, GotoKeeps, CallFailsKeeps, AssignKeeps

\* The list shows that there is no file: the import goes on to issue one.
LEMMA ListIssuedFilesKeeps ==
  ASSUME Inv, NEW i \in Importers, ListIssuedFiles(i)
  PROVE  Inv'
<1>1. UNCHANGED <<files, raced>>
  BY DEF ListIssuedFiles
<1>2. CASE CallFails(i)
  BY <1>1, <1>2, CallFailsKeeps
<1>3. CASE files[Cn(i)].live > 0 /\ Goto(i, "byId")
  BY <1>1, <1>3, GotoKeeps
<1>4. CASE ~(files[Cn(i)].live > 0) /\ Goto(i, "issue")
  <2>1. /\ DOMAIN imp' = Importers /\ DOMAIN imp'[i] = Fields
        /\ imp'[i].work = imp[i].work /\ imp'[i].prefix = imp[i].prefix
        /\ \A j \in Importers \ {i} : imp'[j] = imp[j]
    BY <1>4 DEF Goto, Inv, Typed, Fields
  <2>2. Typed'
    BY <1>1, <2>1 DEF Inv, Typed
  <2>3. Cn(i) \in CommonNames => files[Cn(i)].live = 0
    <3>1. Cn(i) \in CommonNames => files[Cn(i)].live \in Nat
      BY DEF Inv, Typed
    <3>2. QED BY <1>4, <3>1
  <2>4. Cn(i)' = Cn(i)
    BY <2>1 DEF Cn, Job
  <2>5. \A j \in Importers : IssueOK(j)'
    <3>1. ASSUME NEW j \in Importers \ {i} PROVE IssueOK(j)'
      BY <1>1, <2>1 DEF Inv, IssueInv, IssueOK, At, Cn, Job
    <3>2. IssueOK(i)'
      BY <1>1, <2>3, <2>4 DEF IssueOK
    <3>3. QED BY <3>1, <3>2
  <2>6. MonitorIssuedOnce'
    BY <1>1 DEF Inv, IssueInv, MonitorIssuedOnce
  <2>7. QED BY <2>2, <2>5, <2>6 DEF Inv, IssueInv
<1>5. QED BY <1>2, <1>3, <1>4 DEF ListIssuedFiles

\* A file is issued: whoever was about to issue the same is in the race.
LEMMA IssuedNowKeeps ==
  ASSUME Inv, NEW i \in Importers, At(i, "issue"), IssuedNow(i),
         NEW im, DOMAIN im = Fields, im.pc # "issue", imp' = [imp EXCEPT ![i] = im]
  PROVE  Inv'
<1> DEFINE cn == Cn(i)
<1>1. /\ files' = [files EXCEPT ![cn].live = @ + 1]
      /\ raced' = IF \E j \in Importers \ {i} : At(j, "issue") /\ Cn(j) = cn THEN raced \cup {cn} ELSE raced
  BY DEF IssuedNow
<1>2. DOMAIN imp' = Importers /\ imp'[i] = im /\ \A j \in Importers \ {i} : imp'[j] = imp[j]
  BY DEF Inv, Typed
<1>3. files' \in [CommonNames -> [live : Nat, revoked : BOOLEAN]]
  <2>1. files \in [CommonNames -> [live : Nat, revoked : BOOLEAN]]
    BY DEF Inv, Typed
  <2>2. CASE cn \in CommonNames
    <3>1. [files[cn] EXCEPT !.live = @ + 1] \in [live : Nat, revoked : BOOLEAN]
      BY <2>1, <2>2
    <3>2. files' = [files EXCEPT ![cn] = [files[cn] EXCEPT !.live = @ + 1]]
      BY <1>1
    <3> HIDE DEF cn
    <3>3. QED BY <2>1, <2>2, <3>1, <3>2
  <2>3. CASE cn \notin CommonNames
    BY <1>1, <2>1, <2>3
  <2>4. QED BY <2>2, <2>3
<1>4. Typed'
  BY <1>2, <1>3 DEF Inv, Typed
<1>5. /\ \A n \in CommonNames \ {cn} : files'[n] = files[n]
      /\ cn \in CommonNames => files'[cn].live = files[cn].live + 1
      /\ raced \subseteq raced' /\ raced' \subseteq raced \cup {cn}
  BY <1>1 DEF Inv, Typed
<1>6. cn \in CommonNames /\ cn \notin raced => files[cn].live = 0
  BY DEF Inv, IssueInv, IssueOK
<1>7. ASSUME NEW j \in Importers PROVE IssueOK(j)'
  <2>1. CASE j = i
    BY <1>2, <2>1 DEF IssueOK, At
  <2>2. CASE j # i /\ imp[j].pc = "issue"
    <3>1. Cn(j)' = Cn(j) /\ At(j, "issue") /\ IssueOK(j)
      BY <1>2, <2>2 DEF Cn, Job, At, Inv, IssueInv
    <3>2. CASE Cn(j) = cn
      BY <1>1, <2>2, <3>1, <3>2 DEF IssueOK
    <3>3. CASE Cn(j) # cn
      BY <1>5, <3>1, <3>3 DEF IssueOK
    <3>4. QED BY <3>2, <3>3
  <2>3. CASE j # i /\ imp[j].pc # "issue"
    BY <1>2, <2>3 DEF IssueOK, At
  <2>4. QED BY <2>1, <2>2, <2>3
<1>8. MonitorIssuedOnce'
  <2>1. ASSUME NEW n \in CommonNames, n \notin raced' PROVE files'[n].live <= 1
    <3>1. CASE n = cn
      BY <1>5, <1>6, <2>1, <3>1
    <3>2. CASE n # cn
      BY <1>5, <2>1, <3>2 DEF Inv, IssueInv, MonitorIssuedOnce
    <3>3. QED BY <3>1, <3>2
  <2>2. QED BY <2>1 DEF MonitorIssuedOnce
<1>9. QED BY <1>4, <1>7, <1>8 DEF Inv, IssueInv

LEMMA IssueFileKeeps ==
  ASSUME Inv, NEW i \in Importers, IssueFile(i)
  PROVE  Inv'
<1>1. CASE CallFails(i) /\ UNCHANGED <<files, raced>>
  BY <1>1, CallFailsKeeps
<1>2. CASE IssuedNow(i) /\ (Goto(i, "fetch") \/ CallFails(i))
  <2>1. \E im : DOMAIN im = Fields /\ im.pc # "issue" /\ imp' = [imp EXCEPT ![i] = im]
    <3>1. CASE Goto(i, "fetch")
      <4>1. imp' = [imp EXCEPT ![i] = [imp[i] EXCEPT !.pc = "fetch"]]
        BY <3>1 DEF Goto
      <4>2. DOMAIN [imp[i] EXCEPT !.pc = "fetch"] = Fields /\ [imp[i] EXCEPT !.pc = "fetch"].pc = "fetch"
        BY DEF Inv, Typed, Fields
      <4>3. QED BY <4>1, <4>2
    <3>2. CASE Rest(i)
      BY <3>2, RestingShape DEF Rest
    <3>3. CASE NextJob(i)
      BY <3>3, FinishedShape DEF NextJob, Inv, Typed
    <3>4. QED BY <1>2, <3>1, <3>2, <3>3 DEF CallFails, JobFails, Aborts
  <2>2. QED BY <1>2, <2>1, IssuedNowKeeps DEF IssueFile
<1>3. QED BY <1>1, <1>2 DEF IssueFile

LEMMA PickSlugKeeps ==
  ASSUME Inv, NEW i \in Importers, PickSlug(i)
  PROVE  Inv'
<1>1. PICK slug : imp' = [imp EXCEPT ![i] = WithSlug(imp[i], slug)]
  BY DEF PickSlug
<1>2. DOMAIN WithSlug(imp[i], slug) = Fields /\ WithSlug(imp[i], slug).pc # "issue"
  BY DEF Inv, Typed, Fields, WithSlug
<1>3. QED BY <1>1, <1>2, OneImporter DEF PickSlug

LEMMA InsertKeeps ==
  ASSUME Inv, NEW i \in Importers, Insert(i)
  PROVE  Inv'
<1>1. /\ DOMAIN Refused(imp[i]) = Fields
      /\ DOMAIN Flushed(imp[i], Created(i)) = Fields
  BY DEF Inv, Typed, Refused, Flushed
<1>2. \/ imp' = [imp EXCEPT ![i] = Finished(Refused(imp[i]))]
      \/ imp' = [imp EXCEPT ![i] = Finished(Flushed(imp[i], Created(i)))]
  BY DEF Insert
<1>3. UNCHANGED <<files, raced>>
  BY DEF Insert
<1>4. QED BY <1>1, <1>2, <1>3, FinishedShape, OneImporter

LEMMA CommitKeeps ==
  ASSUME Inv, NEW i \in Importers, Commit(i)
  PROVE  Inv'
<1>1. UNCHANGED <<files, raced>>
  BY DEF Commit
<1>2. CASE Aborts(i)
  BY <1>1, <1>2, RestKeeps DEF Aborts
<1>3. CASE imp' = [j \in Importers |-> IF j = i THEN Resting
                                      ELSE [imp[j] EXCEPT !.stale = imp[j].pc \notin {"idle", "list"}]]
  <2>1. /\ DOMAIN imp' = Importers /\ imp'[i] = Resting
        /\ \A j \in Importers \ {i} : /\ DOMAIN imp'[j] = Fields /\ imp'[j].pc = imp[j].pc
                                      /\ imp'[j].work = imp[j].work /\ imp'[j].prefix = imp[j].prefix
    BY <1>3 DEF Inv, Typed, Fields
  <2>2. Typed'
    BY <1>1, <2>1, RestingShape DEF Inv, Typed
  <2>3. ASSUME NEW j \in Importers PROVE IssueOK(j)'
    BY <1>1, <2>1, RestingShape DEF Inv, IssueInv, IssueOK, At, Cn, Job
  <2>4. MonitorIssuedOnce'
    BY <1>1 DEF Inv, IssueInv, MonitorIssuedOnce
  <2>5. QED BY <2>2, <2>3, <2>4 DEF Inv, IssueInv
<1>4. QED BY <1>2, <1>3 DEF Commit

\* Steps that no import has a part in.
LEMMA OthersKeep ==
  ASSUME Inv, UNCHANGED <<files, imp, raced>>
  PROVE  Inv'
BY DEF Inv, Typed, IssueInv, IssueOK, MonitorIssuedOnce, At, Cn, Job

LEMMA RevokeKeeps ==
  ASSUME Inv, NEW cn \in CommonNames, Revoke(cn)
  PROVE  Inv'
<1>1. /\ files' = [files EXCEPT ![cn] = [live |-> 0, revoked |-> TRUE]]
      /\ UNCHANGED <<imp, raced>>
  BY DEF Revoke
<1>2. Typed'
  BY <1>1 DEF Inv, Typed
<1>3. \A n \in CommonNames : files'[n].live = 0 \/ files'[n] = files[n]
  BY <1>1 DEF Inv, Typed
<1>4. IssueInv'
  BY <1>1, <1>3 DEF Inv, IssueInv, IssueOK, MonitorIssuedOnce, At, Cn, Job
<1>5. QED BY <1>2, <1>4 DEF Inv

LEMMA InvStep == Inv /\ [Next]_vars => Inv'
<1> SUFFICES ASSUME Inv, [Next]_vars PROVE Inv'
  OBVIOUS
<1>1. ASSUME NEW i \in Importers, Import(i) PROVE Inv'
  BY <1>1, RequestKeeps, ListKeeps, DownloadsKeep, ListIssuedFilesKeeps, IssueFileKeeps, PickSlugKeeps,
     InsertKeeps, CommitKeeps DEF Import
<1>2. CASE Operators
  BY <1>2, OthersKeep, RevokeKeeps DEF Operators, CreateComponent, UpdateComponent, DeleteComponent, UpsertIntegration
<1>3. CASE UNCHANGED vars
  BY <1>3, OthersKeep DEF vars
<1>4. QED BY <1>1, <1>2, <1>3 DEF Next

\* A monitor has at most one live client file per server: an import issues one
\* only after a list that had none, and two lists that may both have been
\* answered before the first file was issued are a race.
THEOREM IssuedOnceCorrect == Spec => []MonitorIssuedOnce
<1>1. Inv => MonitorIssuedOnce
  BY DEF Inv, IssueInv
<1>2. QED BY InitHolds, InvStep, <1>1, PTL DEF Spec

----------------------------------------------------------------------------
(* What an import holds: one lemma per operator on its record.             *)

\* What an importer at a job knows of it.
LEMMA JobIs ==
  ASSUME NEW im, ImportOK(im), im.work # <<>>
  PROVE  /\ Head(im.work) \in Jobs /\ Head(im.work).server \in Servers
         /\ Head(im.work).component # None => Head(im.work).component \in DOMAIN im.read
         /\ im.pc \notin {"idle", "list", "commit"}
<1>1. im.work \in Seq(Jobs) /\ 1 \in DOMAIN im.work /\ Head(im.work) = im.work[1]
  BY DEF ImportOK, HoldsTyped
<1>2. im.work[1] \in Jobs /\ JobOK(im.work[1], im.batch, im.read)
  BY <1>1 DEF ImportOK, JobsOK
<1>3. QED BY <1>1, <1>2 DEF Jobs, JobOK, ImportOK, HoldsTyped

LEMMA FinishedOK ==
  ASSUME NEW im, ImportOK(im), im.work # <<>>
  PROVE  ImportOK(Finished(im)) /\ Kept(Finished(im), im) /\ Finished(im).inserts = im.inserts
<1> DEFINE new == Finished(im)
<1>1. /\ DOMAIN new = Fields /\ Kept(new, im) /\ new.pend = im.pend /\ new.inserts = im.inserts
      /\ new.work = Tail(im.work) /\ new.pc = PcOf(Tail(im.work), im.req) /\ new.slug = None
      /\ new.reserved = im.reserved
  BY DEF Finished, Kept, Fields, ImportOK
<1> HIDE DEF new
<1>2. Did(new, im)
  BY <1>1 DEF Did
<1>3. ImportOK(new)
  BY <1>1, <1>2, JobDone
<1>4. QED BY <1>1, <1>3 DEF new

LEMMA RefusedOK ==
  ASSUME NEW im, ImportOK(im), im.work # <<>>
  PROVE  LET new == Finished(Refused(im)) IN ImportOK(new) /\ Kept(new, im) /\ new.inserts = im.inserts
<1> DEFINE new == Finished(Refused(im))
<1>1. /\ DOMAIN new = Fields /\ Kept(new, im) /\ new.pend = im.pend /\ new.inserts = im.inserts
      /\ new.work = Tail(im.work) /\ new.pc = PcOf(Tail(im.work), im.req) /\ new.slug = None
      /\ new.reserved \subseteq im.reserved
  BY DEF Finished, Refused, Kept, Fields, ImportOK
<1> HIDE DEF new
<1>2. Did(new, im)
  BY <1>1 DEF Did
<1>3. ImportOK(new)
  BY <1>1, <1>2, JobDone
<1>4. QED BY <1>1, <1>3 DEF new

LEMMA FlushedOK ==
  ASSUME NEW im, ImportOK(im), im.work # <<>>, Head(im.work).component = None,
         NEW r \in Rows, r.link = Head(im.work).server
  PROVE  LET new == Finished(Flushed(im, r)) IN
         ImportOK(new) /\ Kept(new, im) /\ new.inserts = Append(im.inserts, r)
<1> DEFINE new == Finished(Flushed(im, r))
<1>1. /\ DOMAIN new = Fields /\ Kept(new, im) /\ new.pend = im.pend /\ new.inserts = Append(im.inserts, r)
      /\ new.work = Tail(im.work) /\ new.pc = PcOf(Tail(im.work), im.req) /\ new.slug = None
      /\ new.reserved = im.reserved
  BY DEF Finished, Flushed, Kept, Fields, ImportOK
<1> HIDE DEF new
<1>2. Did(new, im)
  BY <1>1 DEF Did
<1>3. ImportOK(new)
  BY <1>1, <1>2, JobDone
<1>4. QED BY <1>1, <1>3 DEF new

\* The row a matched component becomes is a row, linked to the server.
LEMMA AssignedIs ==
  ASSUME NEW im, ImportOK(im), im.work # <<>>, Head(im.work).component # None, NEW file
  PROVE  Assigned(im, file) \in Rows /\ Assigned(im, file).link = Head(im.work).server
<1> DEFINE job == Head(im.work)
           was == im.read[job.component]
           cn == <<job.server, im.prefix>>
           name == IF im.req.sync THEN ServerOf[job.server].name ELSE was.name
           config == IF file THEN job.server ELSE was.config
           held == IF file \/ was.cn = None THEN cn ELSE was.cn
<1>1. was \in Rows /\ job.server \in Servers /\ im.prefix \in CnPrefixes
  BY JobIs DEF ImportOK, HoldsTyped
<1>2. name \in DOMAIN NameOf /\ config \in Servers \cup DOMAIN ConfigOf /\ held \in CommonNames \cup {None}
  BY <1>1, ServerAssumption DEF Rows, CommonNames
<1>3. Assigned(im, file) = [was EXCEPT !.name = name, !.link = job.server, !.config = config, !.cn = held]
  BY <1>1 DEF Assigned, Rows
<1> HIDE DEF name, config, held, was, job
<1>4. [was EXCEPT !.name = name, !.link = job.server, !.config = config, !.cn = held] \in Rows
  BY <1>1, <1>2 DEF Rows
<1>5. Assigned(im, file).link = job.server
  BY <1>1, <1>3 DEF Rows
<1>6. QED BY <1>3, <1>4, <1>5 DEF job

LEMMA AssignedOK ==
  ASSUME NEW im, ImportOK(im), im.work # <<>>, Head(im.work).component # None, NEW file
  PROVE  LET new == Finished(Assigning(im, file)) IN ImportOK(new) /\ Kept(new, im) /\ new.inserts = im.inserts
<1> DEFINE new == Finished(Assigning(im, file))
           r == Assigned(im, file)
<1>1. r \in Rows /\ r.link = Head(im.work).server
  BY AssignedIs
<1> HIDE DEF r
<1>2. /\ DOMAIN new = Fields /\ Kept(new, im) /\ new.pend = With(im.pend, Head(im.work).component, r)
      /\ new.inserts = im.inserts
      /\ new.work = Tail(im.work) /\ new.pc = PcOf(Tail(im.work), im.req) /\ new.slug = None
      /\ new.reserved = im.reserved
  BY DEF Finished, Assigning, Kept, Fields, ImportOK, r
<1> HIDE DEF new
<1>3. Did(new, im)
  BY <1>1, <1>2 DEF Did
<1>4. ImportOK(new)
  BY <1>2, <1>3, JobDone
<1>5. QED BY <1>2, <1>4 DEF new

\* Going on to the next call of a job.
LEMMA MovedOK ==
  ASSUME NEW im, ImportOK(im), im.work # <<>>, NEW pc,
         pc \in {"files", "byId", "issue", "fetch"} \/ (pc = "slug" /\ Head(im.work).component = None)
  PROVE  LET new == [im EXCEPT !.pc = pc] IN ImportOK(new) /\ Kept(new, im) /\ new.inserts = im.inserts
<1> DEFINE new == [im EXCEPT !.pc = pc]
<1>1. /\ DOMAIN new = Fields /\ Kept(new, im) /\ new.pend = im.pend /\ new.inserts = im.inserts
      /\ new.work = im.work /\ new.pc = pc /\ new.slug = im.slug /\ new.reserved = im.reserved
  BY DEF Kept, Fields, ImportOK
<1> HIDE DEF new
<1>2. HoldsTyped(new)
  BY <1>1, JobIs DEF ImportOK, HoldsTyped, Kept, Places
<1>3. PlaceOK(new)
  BY <1>1 DEF PlaceOK
<1>4. OneEach(new) /\ JobsOK(new)
  BY <1>1 DEF ImportOK, OneEach, JobsOK, Kept
<1>5. ImportOK(new)
  BY <1>1, <1>2, <1>3, <1>4 DEF ImportOK, Kept
<1>6. QED BY <1>1, <1>5 DEF new

LEMMA WithSlugOK ==
  ASSUME NEW im, ImportOK(im), im.work # <<>>, Head(im.work).component = None, NEW slug \in Slugs \cup {None}
  PROVE  LET new == WithSlug(im, slug) IN ImportOK(new) /\ Kept(new, im) /\ new.inserts = im.inserts
<1> DEFINE new == WithSlug(im, slug)
<1>1. /\ DOMAIN new = Fields /\ Kept(new, im) /\ new.pend = im.pend /\ new.inserts = im.inserts
      /\ new.work = im.work /\ new.slug = slug
      /\ \/ slug = None /\ new.pc = "spin" /\ new.reserved = im.reserved
         \/ slug # None /\ new.pc = "insert" /\ new.reserved = im.reserved \cup {slug}
  BY DEF Kept, Fields, ImportOK, WithSlug
<1> HIDE DEF new
<1>2. new.reserved \subseteq Slugs /\ IsFiniteSet(new.reserved)
  <2>1. im.reserved \subseteq Slugs /\ IsFiniteSet(im.reserved)
    BY DEF ImportOK, HoldsTyped
  <2>2. IsFiniteSet(im.reserved \cup {slug})
    BY <2>1, FS_AddElement
  <2>3. CASE new.reserved = im.reserved
    BY <2>1, <2>3
  <2>4. CASE slug # None /\ new.reserved = im.reserved \cup {slug}
    BY <2>1, <2>2, <2>4
  <2>5. QED BY <1>1, <2>3, <2>4
<1>3. HoldsTyped(new)
  BY <1>1, <1>2, JobIs DEF ImportOK, HoldsTyped, Kept, Places
<1>4. PlaceOK(new)
  BY <1>1 DEF PlaceOK
<1>5. OneEach(new) /\ JobsOK(new)
  BY <1>1 DEF ImportOK, OneEach, JobsOK, Kept
<1>6. ImportOK(new)
  BY <1>1, <1>2, <1>3, <1>4, <1>5 DEF ImportOK, Kept
<1>7. QED BY <1>1, <1>6 DEF new

\* There is a number that is not taken: one more than slugs are.
LEMMA FreeSlugIs ==
  ASSUME NEW taken, IsFiniteSet(taken), NEW base \in DOMAIN SlugOf
  PROVE  FreeSlug(base, taken) \in Slugs \cup {None}
<1> DEFINE n == Cardinality(taken)
           numbers == {k \in 1..(n + 1) : [base |-> base, n |-> k] \notin taken}
           f == [k \in 1..(n + 1) |-> [base |-> base, n |-> k]]
<1>1. n \in Nat
  BY FS_CardinalityType
<1> HIDE DEF n
<1>2. ASSUME numbers = {} PROVE FALSE
  <2>1. \A k \in 1..(n + 1) : [base |-> base, n |-> k] \in taken
    BY <1>2
  <2>2. \A j, k \in 1..(n + 1) : f[j] = f[k] => j = k
    OBVIOUS
  <2>3. f \in Injection(1..(n + 1), taken)
    BY <2>1, <2>2 DEF Injection, IsInjective
  <2>4. Cardinality(1..(n + 1)) = n + 1
    <3>1. 1 \in Int /\ n + 1 \in Int /\ ~(1 > n + 1) /\ (n + 1) - 1 + 1 = n + 1
      BY <1>1
    <3>2. QED BY <3>1, FS_Interval
  <2> HIDE DEF f
  <2>5. n + 1 <= n
    BY <2>3, <2>4, FS_Injection DEF n
  <2>6. QED BY <1>1, <2>5
<1>3. numbers \in SUBSET Nat
  BY <1>1
<1>4. Min(numbers) \in Nat
  <2>1. \E m \in numbers : \A k \in numbers : m <= k
    BY <1>2, <1>3, SmallestExists
  <2>2. Min(numbers) \in numbers
    BY <2>1 DEF Min
  <2>3. QED BY <1>3, <2>2
<1>5. FreeSlug(base, taken) \in {None, [base |-> base, n |-> Min(numbers)]}
  BY DEF FreeSlug, n
<1> HIDE DEF numbers
<1>6. [base |-> base, n |-> Min(numbers)] \in Slugs
  BY <1>4 DEF Slugs
<1>7. QED BY <1>5, <1>6

LEMMA RequestedOK ==
  ASSUME NEW req \in Requests, NEW prefix \in CnPrefixes
  PROVE  LET new == [Resting EXCEPT !.pc = "list", !.req = req, !.prefix = prefix] IN
         ImportOK(new) /\ DOMAIN new.read = {} /\ new.inserts = <<>>
<1> DEFINE new == [Resting EXCEPT !.pc = "list", !.req = req, !.prefix = prefix]
<1>1. /\ DOMAIN new = Fields /\ new.pc = "list" /\ new.req = req /\ new.prefix = prefix /\ new.batch = <<>>
      /\ new.read = <<>> /\ new.work = <<>> /\ new.pend = <<>> /\ new.inserts = <<>> /\ new.reserved = {}
      /\ new.slug = None /\ new.stale = FALSE
  BY DEF Resting, Fields
<1> HIDE DEF new
<1>2. HoldsTyped(new)
  <2>1. new.batch \in Seq(Servers) /\ new.work \in Seq(Jobs)
    BY <1>1
  <2>2. new.pc \in Places
    BY <1>1 DEF Places
  <2>3. new.stale \in BOOLEAN
    BY <1>1
  <2>4. DOMAIN new.pend = {} /\ DOMAIN new.read = {} /\ new.inserts \in Seq(Rows) /\ new.reserved \subseteq Slugs
    BY <1>1
  <2>5. QED BY <1>1, <2>1, <2>2, <2>3, <2>4 DEF HoldsTyped
<1>3. IsFiniteSet(new.reserved) /\ Distinct(new.batch)
  BY <1>1, FS_EmptySet DEF Distinct
<1>4. PlaceOK(new) /\ OneEach(new) /\ JobsOK(new)
  BY <1>1 DEF PlaceOK, OneEach, OnePerServer, JobsOK
<1>5. QED BY <1>1, <1>2, <1>3, <1>4 DEF ImportOK, new

LEMMA IdsFinite == IsFiniteSet(Ids)
<1> DEFINE n == Len(RowIds)
<1>1. RowIds \in Seq(Ids) /\ n \in Nat /\ DOMAIN RowIds = 1..n
  BY ListAssumption
<1>2. 1 \in Int /\ n \in Int
  BY <1>1
<1>3. IsFiniteSet(DOMAIN RowIds)
  BY <1>1, <1>2, FS_Interval
<1>4. IsFiniteSet({RowIds[k] : k \in DOMAIN RowIds})
  BY <1>3, ImageFinite
<1>5. QED BY <1>4 DEF Ids, ToSet

LEMMA SlugsFinite ==
  ASSUME NEW table, NEW S \in SUBSET Ids
  PROVE  IsFiniteSet({table[c].slug : c \in S})
<1> DEFINE f == [c \in S |-> table[c].slug]
<1>1. IsFiniteSet(S)
  BY IdsFinite, FS_Subset
<1>2. IsFiniteSet({f[c] : c \in S})
  BY <1>1, ImageFinite
<1>3. {f[c] : c \in S} = {table[c].slug : c \in S}
  OBVIOUS
<1>4. QED BY <1>2, <1>3

LEMMA BatchIs ==
  ASSUME NEW listed \in SUBSET Servers
  PROVE  Batch(listed) \in Seq(Servers) /\ Distinct(Batch(listed))
<1>1. ServerList \in Seq(Servers) /\ Distinct(ServerList)
  BY ListAssumption DEF IsInjective, Distinct
<1>2. Only(ServerList, listed) \in Seq(Servers \cap listed) /\ Distinct(Only(ServerList, listed))
  BY <1>1, OnlySeq
<1>3. Servers \cap listed \subseteq Servers
  OBVIOUS
<1>4. Only(ServerList, listed) \in Seq(Servers)
  BY <1>2, <1>3
<1>5. QED BY <1>2, <1>4 DEF Batch

LEMMA PlannedOK ==
  ASSUME NEW im, ImportOK(im), im.pc = "list", NEW listed \in SUBSET Servers, NEW read, ReadOK(read)
  PROVE  LET batch == Batch(listed)
             new == Planned(im, batch, read, WorkFor(batch, read, im.req.create))
         IN  ImportOK(new) /\ new.read = read /\ new.inserts = <<>>
<1> DEFINE batch == Batch(listed)
           work == WorkFor(batch, read, im.req.create)
           new == Planned(im, batch, read, work)
<1>1. batch \in Seq(Servers) /\ Distinct(batch)
  BY BatchIs
<1> HIDE DEF batch
<1>2. work \in Seq(Jobs) /\ OnePerServer(work) /\ \A k \in DOMAIN work : JobOK(work[k], batch, read)
  BY <1>1, WorkForOK
<1> HIDE DEF work
<1>3. im.inserts = <<>> /\ im.slug \in Slugs \cup {None} /\ DOMAIN im.pend = {}
  BY DEF ImportOK, HoldsTyped, PlaceOK
<1>4. /\ DOMAIN new = Fields /\ new.batch = batch /\ new.read = read /\ new.work = work
      /\ new.pend = im.pend /\ new.inserts = <<>> /\ new.pc = PcOf(work, im.req)
      /\ new.req = im.req /\ new.prefix = im.prefix /\ new.slug = im.slug /\ new.stale = im.stale
      /\ new.reserved = {read[c].slug : c \in DOMAIN read}
  BY <1>3 DEF Planned, Fields, ImportOK
<1> HIDE DEF new
<1>5. PlaceOK(new)
  BY <1>2, <1>4, PcOfIs DEF PlaceOK
<1>6. new.reserved \subseteq Slugs /\ IsFiniteSet(new.reserved)
  BY <1>4, SlugsFinite DEF ReadOK, Rows
<1>7. new.pc \in Places /\ (new.work = <<>> <=> new.pc \in {"idle", "list", "commit"})
  BY <1>2, <1>4, PcOfIs
<1>8. /\ new.req \in Requests /\ new.prefix \in CnPrefixes /\ new.stale \in BOOLEAN /\ new.batch \in Seq(Servers)
      /\ new.inserts \in Seq(Rows) /\ DOMAIN new.read \subseteq Ids /\ \A c \in DOMAIN new.read : new.read[c] \in Rows
      /\ DOMAIN new.pend = {}
  BY <1>1, <1>3, <1>4 DEF ImportOK, HoldsTyped, ReadOK
<1>9. HoldsTyped(new)
  BY <1>2, <1>3, <1>4, <1>6, <1>7, <1>8 DEF HoldsTyped
<1>10. OneEach(new) /\ JobsOK(new)
  BY <1>2, <1>3, <1>4 DEF OneEach, JobsOK
<1>11. ImportOK(new)
  BY <1>1, <1>4, <1>5, <1>6, <1>9, <1>10 DEF ImportOK
<1>12. QED BY <1>4, <1>11 DEF new, work, batch

----------------------------------------------------------------------------
(* Inserts that are not committed yet, and the ids left for them.          *)

LEMMA PendingFinite ==
  ASSUME \A i \in Importers : ImportOK(imp[i])
  PROVE  IsFiniteSet(Pending)
<1> DEFINE f == [i \in Importers |-> {i} \X DOMAIN imp[i].inserts]
<1>1. ASSUME NEW i \in Importers PROVE IsFiniteSet({i} \X DOMAIN imp[i].inserts)
  <2> DEFINE n == Len(imp[i].inserts)
  <2>1. n \in Nat /\ DOMAIN imp[i].inserts = 1..n
    BY DEF ImportOK, HoldsTyped
  <2> HIDE DEF n
  <2>2. 1 \in Int /\ n \in Int
    BY <2>1
  <2>3. IsFiniteSet(1..n) /\ IsFiniteSet({i})
    BY <2>2, FS_Interval, FS_Singleton
  <2>4. IsFiniteSet({i} \X (1..n))
    BY <2>3, FS_Product
  <2>5. QED BY <2>1, <2>4
<1>2. \A i \in Importers : IsFiniteSet(f[i])
  BY <1>1
<1>3. UNION {f[i] : i \in Importers} = Pending
  BY DEF Pending
<1> HIDE DEF f
<1>4. IsFiniteSet({f[i] : i \in Importers})
  <2>1. IsFiniteSet(Importers)
    BY BoundsAssumption
  <2>2. QED BY <2>1, ImageFinite
<1>5. \A T \in {f[i] : i \in Importers} : IsFiniteSet(T)
  BY <1>2
<1>6. IsFiniteSet(UNION {f[i] : i \in Importers})
  BY <1>4, <1>5, FS_UNION
<1>7. QED BY <1>3, <1>6

LEMMA ColumnCounts ==
  ASSUME NEW i, NEW n \in Nat
  PROVE  Cardinality({i} \X (1..n)) = n
<1> DEFINE S == {i}
           T == 1..n
<1>1. IsFiniteSet(S) /\ Cardinality(S) = 1
  BY FS_Singleton
<1>2. IsFiniteSet(T) /\ Cardinality(T) = n
  <2>1. 1 \in Int /\ n \in Int /\ n - 1 + 1 = n /\ (1 > n <=> n = 0)
    OBVIOUS
  <2>2. QED BY <2>1, FS_Interval
<1> HIDE DEF S, T
<1>3. Cardinality(S \X T) = Cardinality(S) * Cardinality(T)
  BY <1>1, <1>2, FS_Product
<1>4. 1 * n = n
  OBVIOUS
<1>5. Cardinality(S \X T) = n
  BY <1>1, <1>2, <1>3, <1>4
<1>6. QED BY <1>5 DEF S, T

LEMMA FreeIdsAre ==
  ASSUME TablesOK
  PROVE  /\ Len(RowIds) \in Nat /\ spent.rows \in Nat /\ spent.rows <= Len(RowIds)
         /\ Len(FreeIds) = Len(RowIds) - spent.rows /\ DOMAIN FreeIds = 1..(Len(RowIds) - spent.rows)
         /\ \A k \in DOMAIN FreeIds : FreeIds[k] = RowIds[spent.rows + k] /\ spent.rows + k \in DOMAIN RowIds
<1> DEFINE n == Len(RowIds)
           m == spent.rows
<1>1. RowIds \in Seq(Ids) /\ n \in Nat /\ DOMAIN RowIds = 1..n
  BY ListAssumption
<1>2. m \in 0..n
  BY DEF TablesOK
<1> HIDE DEF n, m
<1>3. n - m \in Nat
  BY <1>1, <1>2
<1>4. FreeIds = [k \in 1..(n - m) |-> RowIds[m + k]]
  <2>1. FreeIds = SubSeq(RowIds, m + 1, n)
    BY DEF FreeIds, m, n
  <2>2. \A k \in (m + 1)..n : RowIds[k] \in Ids
    BY <1>1, <1>2
  <2>3. m + 1 \in Int /\ n \in Int
    BY <1>1, <1>2
  <2>4. /\ FreeIds \in Seq(Ids) /\ Len(FreeIds) = IF m + 1 <= n THEN n - (m + 1) + 1 ELSE 0
        /\ \A k \in 1..(n - (m + 1) + 1) : FreeIds[k] = RowIds[(m + 1) + k - 1]
    BY <2>1, <2>2, <2>3, SubSeqProperties
  <2>5. Len(FreeIds) = n - m /\ n - (m + 1) + 1 = n - m
    BY <1>1, <1>2, <2>4
  <2>6. \A k \in 1..(n - m) : (m + 1) + k - 1 = m + k
    BY <1>1, <1>2
  <2>7. \A k \in 1..(n - m) : FreeIds[k] = RowIds[m + k]
    BY <2>4, <2>5, <2>6
  <2>8. FreeIds = [k \in 1..(n - m) |-> FreeIds[k]]
    BY <2>4, <2>5
  <2>9. QED BY <2>7, <2>8
<1>5. DOMAIN FreeIds = 1..(n - m) /\ Len(FreeIds) = n - m
  BY <1>3, <1>4
<1>6. \A k \in 1..(n - m) : FreeIds[k] = RowIds[m + k] /\ m + k \in 1..n
  <2>1. \A k \in 1..(n - m) : m + k \in 1..n
    BY <1>1, <1>2
  <2>2. QED BY <1>4, <2>1
<1>7. QED BY <1>1, <1>2, <1>5, <1>6 DEF n, m

\* An importer's record changes: the reads stay, or are of what is there; the
\* inserts stay, or are given up, or have one more and there is room for it.
Reads(new, im) == \/ new.read = im.read /\ new.stale = im.stale
                  \/ \A c \in DOMAIN new.read : row[c] # None /\ row[c].link = new.read[c].link
Inserts(new, im) == \/ DOMAIN new.inserts \subseteq DOMAIN im.inserts
                    \/ Room /\ \E r \in Rows : new.inserts = Append(im.inserts, r)

LEMMA ImporterMoves ==
  ASSUME ImportInv, NEW i \in Importers, NEW new, ImportOK(new), Reads(new, imp[i]), Inserts(new, imp[i]),
         imp' = [imp EXCEPT ![i] = new], TablesOK', row' = row, spent'.rows = spent.rows
  PROVE  ImportInv'
<1>1. /\ DOMAIN imp' = Importers /\ imp'[i] = new /\ \A j \in Importers \ {i} : imp'[j] = imp[j]
      /\ \A j \in Importers : ImportOK(imp[j]) /\ Fresh(imp[j])
  BY DEF ImportInv
<1>2. \A j \in Importers : ImportOK(imp'[j])
  BY <1>1
<1>3. IsFiniteSet(Pending) /\ Cardinality(Pending) \in Nat
  BY <1>1, PendingFinite, FS_CardinalityType
<1>4. /\ Len(RowIds) \in Nat /\ spent.rows \in Nat /\ spent.rows + Cardinality(Pending) <= Len(RowIds)
      /\ Len(FreeIds) = Len(RowIds) - spent.rows
  BY FreeIdsAre DEF ImportInv, IdsLeft
<1>5. spent'.rows + Cardinality(Pending') <= Len(RowIds)
  <2>1. CASE DOMAIN new.inserts \subseteq DOMAIN imp[i].inserts
    <3>1. Pending' \in SUBSET Pending
      BY <1>1, <2>1 DEF Pending
    <3>2. IsFiniteSet(Pending') /\ Cardinality(Pending') <= Cardinality(Pending)
      BY <1>3, <3>1, FS_Subset
    <3>3. Cardinality(Pending') \in Nat
      BY <3>2, FS_CardinalityType
    <3>4. QED BY <1>3, <1>4, <3>2, <3>3
  <2>2. CASE Room /\ \E r \in Rows : new.inserts = Append(imp[i].inserts, r)
    <3> DEFINE n == Len(imp[i].inserts)
               more == <<i, n + 1>>
    <3>1. n \in Nat /\ DOMAIN imp[i].inserts = 1..n /\ imp[i].inserts \in Seq(Rows)
      BY <1>1 DEF ImportOK, HoldsTyped
    <3>2. DOMAIN new.inserts = 1..(n + 1)
      BY <2>2, <3>1
    <3>3. 1..(n + 1) = (1..n) \cup {n + 1}
      BY <3>1
    <3>4. Pending' \in SUBSET (Pending \cup {more})
      BY <1>1, <3>1, <3>2, <3>3 DEF Pending
    <3> HIDE DEF more
    <3>5. /\ IsFiniteSet(Pending \cup {more})
          /\ Cardinality(Pending \cup {more}) = IF more \in Pending THEN Cardinality(Pending) ELSE Cardinality(Pending) + 1
      BY <1>3, FS_AddElement
    <3>6. IsFiniteSet(Pending') /\ Cardinality(Pending') <= Cardinality(Pending \cup {more})
      BY <3>4, <3>5, FS_Subset
    <3>7. Cardinality(Pending') \in Nat /\ Cardinality(Pending') <= Cardinality(Pending) + 1
      BY <1>3, <3>5, <3>6, FS_CardinalityType
    <3>8. Cardinality(Pending) < Len(RowIds) - spent.rows
      BY <1>3, <1>4, <2>2 DEF Room
    <3>9. QED BY <1>3, <1>4, <3>7, <3>8
  <2>3. QED BY <2>1, <2>2 DEF Inserts
<1>6. ASSUME NEW k \in DOMAIN RowIds, k > spent'.rows
      PROVE  row'[RowIds[k]] = None /\ \A j \in Importers : RowIds[k] \notin DOMAIN imp'[j].read
  <2>1. row[RowIds[k]] = None /\ \A j \in Importers : RowIds[k] \notin DOMAIN imp[j].read
    BY <1>6 DEF ImportInv, IdsLeft
  <2>2. RowIds[k] \notin DOMAIN new.read
    BY <2>1 DEF Reads
  <2>3. QED BY <1>1, <2>1, <2>2
<1>7. IdsLeft'
  BY <1>5, <1>6 DEF IdsLeft
<1>8. \A j \in Importers : Fresh(imp[j])'
  BY <1>1 DEF Fresh, Reads
<1>9. QED BY <1>1, <1>2, <1>7, <1>8 DEF ImportInv

----------------------------------------------------------------------------
(* One lemma per action of an import, and what the tables keep.            *)

LEMMA NoFaultKeeps ==
  ASSUME TablesOK, Fault \/ NoFault
  PROVE  spent'.rows = spent.rows
         /\ spent' \in [requests : 0..MaxEvents, edits : 0..MaxEdits, faults : 0..MaxFaults, rows : 0..Len(RowIds)]
<1>1. spent \in [requests : 0..MaxEvents, edits : 0..MaxEdits, faults : 0..MaxFaults, rows : 0..Len(RowIds)]
  BY DEF TablesOK
<1>2. MaxFaults \in Nat
  BY BoundsAssumption
<1>3. CASE NoFault
  BY <1>1, <1>3 DEF NoFault
<1>4. CASE Fault
  <2>1. spent.faults \in 0..MaxFaults /\ spent.faults < MaxFaults
    BY <1>1, <1>4 DEF Fault
  <2>2. spent.faults + 1 \in 0..MaxFaults
    BY <1>2, <2>1
  <2>3. spent' = [spent EXCEPT !.faults = spent.faults + 1]
    BY <1>4 DEF Fault
  <2>4. QED BY <1>1, <2>2, <2>3
<1>5. QED BY <1>3, <1>4

LEMMA IssuedNowTyped ==
  ASSUME TablesOK, NEW i \in Importers, Cn(i) \in CommonNames, IssuedNow(i)
  PROVE  files' \in [CommonNames -> [live : Nat, revoked : BOOLEAN]] /\ raced' \subseteq CommonNames
<1> DEFINE cn == Cn(i)
<1>1. /\ files' = [files EXCEPT ![cn].live = @ + 1]
      /\ raced' \subseteq raced \cup {cn}
  BY DEF IssuedNow
<1>2. files \in [CommonNames -> [live : Nat, revoked : BOOLEAN]] /\ raced \subseteq CommonNames /\ cn \in CommonNames
  BY DEF TablesOK
<1> HIDE DEF cn
<1>3. [files[cn] EXCEPT !.live = @ + 1] \in [live : Nat, revoked : BOOLEAN]
  BY <1>2
<1>4. files' = [files EXCEPT ![cn] = [files[cn] EXCEPT !.live = @ + 1]]
  BY <1>1
<1>5. QED BY <1>1, <1>2, <1>3, <1>4

\* An importer at a job goes on, to another call or another job or to rest.
GoesOn(i) == \E new : /\ ImportOK(new) /\ imp' = [imp EXCEPT ![i] = new]
                      /\ \/ Kept(new, imp[i]) /\ new.inserts = imp[i].inserts
                         \/ new = Resting

AtJob(i) == ImportOK(imp[i]) /\ imp[i].work # <<>> /\ i \in DOMAIN imp

LEMMA GoesOnKeeps ==
  ASSUME ImportInv, NEW i \in Importers, GoesOn(i), Fault \/ NoFault, row' = row, integration' = integration,
         \/ UNCHANGED <<files, raced>>
         \/ Cn(i) \in CommonNames /\ IssuedNow(i)
  PROVE  ImportInv'
<1>1. PICK new : /\ ImportOK(new) /\ imp' = [imp EXCEPT ![i] = new]
                 /\ (Kept(new, imp[i]) /\ new.inserts = imp[i].inserts) \/ new = Resting
  BY DEF GoesOn
<1>2. TablesOK' /\ spent'.rows = spent.rows
  <2>1. TablesOK
    BY DEF ImportInv
  <2>2. files' \in [CommonNames -> [live : Nat, revoked : BOOLEAN]] /\ raced' \subseteq CommonNames
    <3>1. CASE UNCHANGED <<files, raced>>
      BY <2>1, <3>1 DEF TablesOK
    <3>2. CASE Cn(i) \in CommonNames /\ IssuedNow(i)
      BY <2>1, <3>2, IssuedNowTyped
    <3>3. QED BY <3>1, <3>2
  <2>3. QED BY <2>1, <2>2, NoFaultKeeps DEF TablesOK
<1>3. Reads(new, imp[i]) /\ Inserts(new, imp[i])
  <2>1. CASE Kept(new, imp[i]) /\ new.inserts = imp[i].inserts
    BY <2>1 DEF Reads, Inserts, Kept
  <2>2. CASE new = Resting
    BY <2>2, RestingOK DEF Reads, Inserts
  <2>3. QED BY <1>1, <2>1, <2>2
<1>4. QED BY <1>1, <1>2, <1>3, ImporterMoves

LEMMA RestGoesOn ==
  ASSUME NEW i, Rest(i)
  PROVE  GoesOn(i)
BY RestingOK DEF Rest, GoesOn

LEMMA NextJobGoesOn ==
  ASSUME NEW i, AtJob(i), NextJob(i)
  PROVE  GoesOn(i)
<1>1. imp' = [imp EXCEPT ![i] = Finished(imp[i])]
  BY DEF NextJob
<1>2. QED BY <1>1, FinishedOK DEF GoesOn, AtJob

LEMMA CallFailsGoesOn ==
  ASSUME NEW i, AtJob(i), CallFails(i)
  PROVE  GoesOn(i) /\ Fault
BY RestGoesOn, NextJobGoesOn DEF CallFails, JobFails, Aborts

LEMMA GotoGoesOn ==
  ASSUME NEW i, AtJob(i), NEW pc, Goto(i, pc),
         pc \in {"files", "byId", "issue", "fetch"} \/ (pc = "slug" /\ Job(i).component = None)
  PROVE  GoesOn(i)
<1> DEFINE new == [imp[i] EXCEPT !.pc = pc]
<1>1. imp' = [imp EXCEPT ![i] = new]
  BY DEF Goto
<1>2. ImportOK(new) /\ Kept(new, imp[i]) /\ new.inserts = imp[i].inserts
  BY MovedOK DEF AtJob, Job
<1> HIDE DEF new
<1>3. QED BY <1>1, <1>2 DEF GoesOn

LEMMA AssignGoesOn ==
  ASSUME NEW i, AtJob(i), Job(i).component # None, NEW file, AssignColumns(i, file)
  PROVE  GoesOn(i)
<1> DEFINE new == Finished(Assigning(imp[i], file))
<1>1. imp' = [imp EXCEPT ![i] = new]
  BY DEF AssignColumns
<1>2. ImportOK(new) /\ Kept(new, imp[i]) /\ new.inserts = imp[i].inserts
  BY AssignedOK DEF AtJob, Job
<1> HIDE DEF new
<1>3. QED BY <1>1, <1>2 DEF GoesOn

LEMMA TakeFileGoesOn ==
  ASSUME NEW i, AtJob(i), TakeFile(i)
  PROVE  GoesOn(i)
BY GotoGoesOn, AssignGoesOn DEF TakeFile

\* Where an importer at a place stands in its work.
LEMMA AtIs ==
  ASSUME ImportInv, NEW i \in Importers
  PROVE  /\ ImportOK(imp[i]) /\ i \in DOMAIN imp
         /\ imp[i].pc \notin {"idle", "list", "commit"} => AtJob(i) /\ Cn(i) \in CommonNames
         /\ At(i, "link") => Job(i).component # None
         /\ imp[i].pc \in {"slug", "spin", "insert"} => Job(i).component = None
<1>1. ImportOK(imp[i]) /\ i \in DOMAIN imp
  BY DEF ImportInv
<1>2. imp[i].pc \notin {"idle", "list", "commit"} => imp[i].work # <<>>
  BY <1>1 DEF ImportOK, HoldsTyped
<1>3. ASSUME imp[i].work # <<>> PROVE Cn(i) \in CommonNames
  <2>1. Job(i).server \in Servers /\ imp[i].prefix \in CnPrefixes
    BY <1>1, <1>3, JobIs DEF Job, ImportOK, HoldsTyped
  <2>2. QED BY <2>1 DEF Cn, CommonNames
<1>4. QED BY <1>1, <1>2, <1>3 DEF AtJob, At, Job, ImportOK, PlaceOK

LEMMA CallsKeepImports ==
  ASSUME ImportInv, NEW i \in Importers,
         Link(i) \/ DownloadByCn(i) \/ ListIssuedFiles(i) \/ DownloadById(i) \/ IssueFile(i) \/ Fetch(i)
  PROVE  ImportInv'
<1>1. row' = row /\ integration' = integration
  BY DEF Link, DownloadByCn, ListIssuedFiles, DownloadById, IssueFile, Fetch
<1>2. AtJob(i) /\ Cn(i) \in CommonNames /\ (At(i, "link") => Job(i).component # None)
  BY AtIs DEF Link, DownloadByCn, ListIssuedFiles, DownloadById, IssueFile, Fetch, At
<1>3. CASE Link(i)
  <2>1. GoesOn(i) /\ NoFault /\ UNCHANGED <<files, raced>>
    BY <1>2, <1>3, AssignGoesOn DEF Link, NoFault
  <2>2. QED BY <1>1, <2>1, GoesOnKeeps
<1>4. CASE DownloadByCn(i) \/ ListIssuedFiles(i) \/ DownloadById(i) \/ Fetch(i)
  <2>1. UNCHANGED <<files, raced>>
    BY <1>4 DEF DownloadByCn, ListIssuedFiles, DownloadById, Fetch
  <2>2. CASE CallFails(i)
    BY <1>1, <1>2, <2>1, <2>2, CallFailsGoesOn, GoesOnKeeps
  <2>3. CASE NoFault /\ TakeFile(i)
    BY <1>1, <1>2, <2>1, <2>3, TakeFileGoesOn, GoesOnKeeps
  <2>4. CASE (Fault \/ NoFault) /\ \E pc \in {"files", "byId", "issue"} : Goto(i, pc)
    BY <1>1, <1>2, <2>1, <2>4, GotoGoesOn, GoesOnKeeps
  <2>5. QED BY <1>4, <2>2, <2>3, <2>4 DEF DownloadByCn, ListIssuedFiles, DownloadById, Fetch
<1>5. CASE IssueFile(i)
  <2>1. CASE NoFault /\ IssuedNow(i) /\ Goto(i, "fetch")
    BY <1>1, <1>2, <2>1, GotoGoesOn, GoesOnKeeps
  <2>2. CASE CallFails(i) /\ (IssuedNow(i) \/ UNCHANGED <<files, raced>>)
    BY <1>1, <1>2, <2>2, CallFailsGoesOn, GoesOnKeeps
  <2>3. QED BY <1>5, <2>1, <2>2 DEF IssueFile
<1>6. QED BY <1>3, <1>4, <1>5

LEMMA RequestKeepsImports ==
  ASSUME ImportInv, NEW i \in Importers, Request(i)
  PROVE  ImportInv'
<1>1. PICK req \in Requests :
        imp' = [imp EXCEPT ![i] = [Resting EXCEPT !.pc = "list", !.req = req, !.prefix = integration.prefix]]
  BY DEF Request
<1> DEFINE new == [Resting EXCEPT !.pc = "list", !.req = req, !.prefix = integration.prefix]
<1>2. integration.prefix \in CnPrefixes
  BY DEF ImportInv, TablesOK
<1>3. ImportOK(new) /\ DOMAIN new.read = {} /\ new.inserts = <<>>
  BY <1>2, RequestedOK
<1>4. imp' = [imp EXCEPT ![i] = new]
  BY <1>1
<1> HIDE DEF new
<1>5. Reads(new, imp[i]) /\ Inserts(new, imp[i])
  BY <1>3 DEF Reads, Inserts
<1>6. TablesOK' /\ spent'.rows = spent.rows /\ row' = row
  <2>1. spent \in [requests : 0..MaxEvents, edits : 0..MaxEdits, faults : 0..MaxFaults, rows : 0..Len(RowIds)]
    BY DEF ImportInv, TablesOK
  <2>2. spent.requests + spent.edits < MaxEvents /\ {MaxEvents, MaxEdits} \subseteq Nat
    BY BoundsAssumption DEF Request, Events
  <2>3. spent.requests + 1 \in 0..MaxEvents
    BY <2>1, <2>2
  <2>4. spent' = [spent EXCEPT !.requests = spent.requests + 1]
    BY DEF Request
  <2>5. /\ spent' \in [requests : 0..MaxEvents, edits : 0..MaxEdits, faults : 0..MaxFaults, rows : 0..Len(RowIds)]
        /\ spent'.rows = spent.rows
    BY <2>1, <2>3, <2>4
  <2>6. QED BY <2>5 DEF Request, ImportInv, TablesOK
<1>7. QED BY <1>3, <1>4, <1>5, <1>6, ImporterMoves

LEMMA ListKeepsImports ==
  ASSUME ImportInv, NEW i \in Importers, List(i)
  PROVE  ImportInv'
<1>1. row' = row /\ integration' = integration /\ UNCHANGED <<files, raced>> /\ imp[i].pc = "list"
  BY DEF List, At
<1>2. CASE Fault /\ Rest(i)
  BY <1>1, <1>2, RestGoesOn, GoesOnKeeps
<1>3. ASSUME NEW listed \in SUBSET Servers, NoFault,
             imp' = [imp EXCEPT ![i] = Planned(imp[i], Batch(listed), [c \in VpnRows |-> row[c]],
                                               WorkFor(Batch(listed), [c \in VpnRows |-> row[c]], imp[i].req.create))]
      PROVE  ImportInv'
  <2> DEFINE read == [c \in VpnRows |-> row[c]]
             new == Planned(imp[i], Batch(listed), read, WorkFor(Batch(listed), read, imp[i].req.create))
  <2>1. row \in [Ids -> Rows \cup {None}] /\ TablesOK /\ ImportOK(imp[i])
    BY DEF ImportInv, TablesOK
  <2>2. DOMAIN read = VpnRows /\ \A c \in VpnRows : c \in Ids /\ row[c] # None /\ read[c] = row[c] /\ row[c] \in Rows
    BY <2>1 DEF VpnRows, Existing
  <2> HIDE DEF read
  <2>3. ReadOK(read)
    BY <2>2 DEF ReadOK
  <2>4. ImportOK(new) /\ new.read = read /\ new.inserts = <<>>
    BY <1>1, <2>1, <2>3, PlannedOK
  <2>5. imp' = [imp EXCEPT ![i] = new]
    BY <1>3 DEF read
  <2> HIDE DEF new
  <2>6. Reads(new, imp[i]) /\ Inserts(new, imp[i])
    BY <2>2, <2>4 DEF Reads, Inserts
  <2>7. TablesOK' /\ spent'.rows = spent.rows
    BY <1>1, <1>3, <2>1, NoFaultKeeps DEF TablesOK
  <2>8. QED BY <1>1, <2>4, <2>5, <2>6, <2>7, ImporterMoves
<1>4. QED BY <1>2, <1>3 DEF List

LEMMA PickSlugKeepsImports ==
  ASSUME ImportInv, NEW i \in Importers, PickSlug(i)
  PROVE  ImportInv'
<1> DEFINE taken == TakenSlugs \cup imp[i].reserved
           slug == FreeSlug(ServerOf[Job(i).server].slug, taken)
           new == WithSlug(imp[i], slug)
<1>1. AtJob(i) /\ Job(i).component = None
  BY AtIs DEF PickSlug, At
<1>2. IsFiniteSet(taken)
  <2>1. IsFiniteSet(TakenSlugs)
    BY SlugsFinite DEF TakenSlugs, Existing
  <2>2. QED BY <1>1, <2>1, FS_Union DEF AtJob, ImportOK
<1>3. ServerOf[Job(i).server].slug \in DOMAIN SlugOf
  BY <1>1, JobIs, ServerAssumption DEF AtJob, Job
<1> HIDE DEF taken
<1>4. slug \in Slugs \cup {None}
  BY <1>2, <1>3, FreeSlugIs
<1>5. imp' = [imp EXCEPT ![i] = new] /\ UNCHANGED <<row, integration, files, raced, spent>>
  BY DEF PickSlug, taken
<1> HIDE DEF slug
<1>6. ImportOK(new) /\ Kept(new, imp[i]) /\ new.inserts = imp[i].inserts
  BY <1>1, <1>4, WithSlugOK DEF AtJob, Job
<1> HIDE DEF new
<1>7. GoesOn(i)
  BY <1>5, <1>6 DEF GoesOn
<1>8. QED BY <1>5, <1>7, GoesOnKeeps DEF NoFault

LEMMA InsertKeepsImports ==
  ASSUME ImportInv, NEW i \in Importers, Insert(i)
  PROVE  ImportInv'
<1>1. AtJob(i) /\ Job(i).component = None /\ Cn(i) \in CommonNames /\ imp[i].slug # None
  BY AtIs DEF Insert, At, ImportOK, PlaceOK
<1>2. UNCHANGED <<row, integration, files, raced, spent>>
  BY DEF Insert
<1>3. CASE imp' = [imp EXCEPT ![i] = Finished(Refused(imp[i]))]
  <2> DEFINE new == Finished(Refused(imp[i]))
  <2>1. ImportOK(new) /\ Kept(new, imp[i]) /\ new.inserts = imp[i].inserts
    BY <1>1, RefusedOK DEF AtJob
  <2>2. imp' = [imp EXCEPT ![i] = new]
    BY <1>3
  <2> HIDE DEF new
  <2>3. GoesOn(i)
    BY <2>1, <2>2 DEF GoesOn
  <2>4. QED BY <1>2, <2>3, GoesOnKeeps DEF NoFault
<1>4. CASE Room /\ imp' = [imp EXCEPT ![i] = Finished(Flushed(imp[i], Created(i)))]
  <2> DEFINE r == Created(i)
             new == Finished(Flushed(imp[i], r))
  <2>1. r \in Rows /\ r.link = Job(i).server
    <3>1. /\ Job(i).server \in Servers /\ imp[i].slug \in Slugs
          /\ ServerOf[Job(i).server].type \in {"openvpn", "xray"} /\ ServerOf[Job(i).server].name \in DOMAIN NameOf
      BY <1>1, JobIs, ServerAssumption DEF AtJob, Job, ImportOK, HoldsTyped
    <3>2. QED BY <1>1, <3>1 DEF Created, Rows
  <2> HIDE DEF r
  <2>2. ImportOK(new) /\ Kept(new, imp[i]) /\ new.inserts = Append(imp[i].inserts, r)
    BY <1>1, <2>1, FlushedOK DEF AtJob, Job
  <2>3. imp' = [imp EXCEPT ![i] = new]
    BY <1>4 DEF r
  <2> HIDE DEF new
  <2>4. Reads(new, imp[i]) /\ Inserts(new, imp[i])
    BY <1>4, <2>1, <2>2 DEF Reads, Inserts, Kept
  <2>5. TablesOK' /\ spent'.rows = spent.rows
    BY <1>2 DEF ImportInv, TablesOK
  <2>6. QED BY <1>2, <2>2, <2>3, <2>4, <2>5, ImporterMoves
<1>5. QED BY <1>3, <1>4 DEF Insert

----------------------------------------------------------------------------
(* The commit.                                                             *)

\* The id the k-th insert of importer i gets.
NewId(i, c, k) == k \in DOMAIN imp[i].inserts /\ c = RowIds[spent.rows + k]

\* What the table holds after a commit that writes.
LEMMA CommitWrites ==
  ASSUME ImportInv, NEW i \in Importers, Commit(i), DOMAIN imp[i].pend \subseteq Existing
  PROVE  /\ Len(imp[i].inserts) \in Nat /\ spent.rows + Len(imp[i].inserts) <= Len(RowIds)
         /\ \A c \in DOMAIN imp[i].pend : c \in Ids /\ row[c] # None /\ row'[c] = Written(imp[i], c)
         /\ \A c \in Ids \ DOMAIN imp[i].pend :
              \/ \E k : NewId(i, c, k) /\ row'[c] = imp[i].inserts[k] /\ row[c] = None
              \/ (\A k : ~NewId(i, c, k)) /\ row'[c] = row[c]
         /\ DOMAIN row' = Ids
         /\ imp' = [j \in Importers |-> IF j = i THEN Resting
                                        ELSE [imp[j] EXCEPT !.stale = imp[j].pc \notin {"idle", "list"}]]
         /\ spent' = [spent EXCEPT !.rows = @ + Len(imp[i].inserts)]
<1> DEFINE im == imp[i]
           n == Len(im.inserts)
           new == {k \in DOMAIN FreeIds : k <= n}
<1>1. n \in Nat /\ DOMAIN im.inserts = 1..n
  BY DEF ImportInv, ImportOK, HoldsTyped
<1>2. /\ Len(RowIds) \in Nat /\ spent.rows \in Nat
      /\ Len(FreeIds) = Len(RowIds) - spent.rows /\ DOMAIN FreeIds = 1..(Len(RowIds) - spent.rows)
      /\ \A k \in DOMAIN FreeIds : FreeIds[k] = RowIds[spent.rows + k] /\ spent.rows + k \in DOMAIN RowIds
  BY FreeIdsAre DEF ImportInv
<1>3. spent.rows + n <= Len(RowIds)
  <2>1. IsFiniteSet(Pending) /\ Cardinality(Pending) \in Nat
    BY PendingFinite, FS_CardinalityType DEF ImportInv
  <2>2. {i} \X (1..n) \in SUBSET Pending
    BY <1>1 DEF Pending
  <2>3. Cardinality({i} \X (1..n)) = n
    BY <1>1, ColumnCounts
  <2> HIDE DEF n
  <2>4. Cardinality({i} \X (1..n)) <= Cardinality(Pending)
    BY <2>1, <2>2, FS_Subset
  <2>5. spent.rows + Cardinality(Pending) <= Len(RowIds)
    BY DEF ImportInv, IdsLeft
  <2>6. QED BY <1>1, <1>2, <2>1, <2>3, <2>4, <2>5
<1>4. new = 1..n
  BY <1>1, <1>2, <1>3
<1>5. /\ row' = [c \in Ids |-> IF c \in DOMAIN im.pend THEN Written(im, c)
                               ELSE IF \E k \in new : FreeIds[k] = c
                               THEN im.inserts[CHOOSE k \in new : FreeIds[k] = c]
                               ELSE row[c]]
      /\ imp' = [j \in Importers |-> IF j = i THEN Resting
                                     ELSE [imp[j] EXCEPT !.stale = imp[j].pc \notin {"idle", "list"}]]
      /\ spent' = [spent EXCEPT !.rows = @ + Len(im.inserts)]
  BY DEF Commit
<1> HIDE DEF new
<1>6. DOMAIN im.pend \subseteq Ids /\ \A c \in DOMAIN im.pend : row[c] # None
  BY DEF Existing
<1>7. \A k \in 1..n : FreeIds[k] = RowIds[spent.rows + k] /\ spent.rows + k \in DOMAIN RowIds /\ spent.rows + k > spent.rows
  <2> HIDE DEF n
  <2>1. \A k \in 1..n : k \in 1..(Len(RowIds) - spent.rows) /\ spent.rows + k > spent.rows
    BY <1>1, <1>2, <1>3
  <2>2. QED BY <1>2, <2>1
<1>8. ASSUME NEW c \in Ids \ DOMAIN im.pend
      PROVE  \/ \E k : NewId(i, c, k) /\ row'[c] = im.inserts[k] /\ row[c] = None
             \/ (\A k : ~NewId(i, c, k)) /\ row'[c] = row[c]
  <2>1. CASE \E k \in new : FreeIds[k] = c
    <3> DEFINE k == CHOOSE k \in new : FreeIds[k] = c
    <3>1. k \in new /\ FreeIds[k] = c
      BY <2>1
    <3>2. row'[c] = im.inserts[k]
      BY <1>5, <2>1
    <3> HIDE DEF k
    <3>3. NewId(i, c, k)
      BY <1>1, <1>4, <1>7, <3>1 DEF NewId
    <3>4. row[c] = None
      BY <1>4, <1>7, <3>1 DEF ImportInv, IdsLeft
    <3>5. QED BY <3>2, <3>3, <3>4
  <2>2. CASE ~ \E k \in new : FreeIds[k] = c
    <3>1. row'[c] = row[c]
      BY <1>5, <2>2
    <3>2. \A k : ~NewId(i, c, k)
      BY <1>1, <1>4, <1>7, <2>2 DEF NewId
    <3>3. QED BY <3>1, <3>2
  <2>3. QED BY <2>1, <2>2
<1>9. \A c \in DOMAIN im.pend : c \in Ids /\ row[c] # None /\ row'[c] = Written(im, c)
  BY <1>5, <1>6
<1>10. QED BY <1>1, <1>3, <1>5, <1>8, <1>9

LEMMA WrittenIs ==
  ASSUME NEW im, NEW c \in DOMAIN im.pend, im.pend[c] \in Rows, row[c] \in Rows
  PROVE  /\ Written(im, c) \in Rows
         /\ row[c].link = im.read[c].link => Written(im, c).link = im.pend[c].link
<1> DEFINE w == Written(im, c)
           columns == {"type", "name", "slug", "link", "cn", "config"}
<1>1. DOMAIN row[c] = columns
  BY DEF Rows
<1>2. DOMAIN w = columns /\ w = [column \in columns |-> w[column]]
  BY <1>1 DEF Written
<1>3. \A column \in columns : w[column] = im.pend[c][column] \/ w[column] = row[c][column]
  BY <1>1 DEF Written
<1>4. row[c].link = im.read[c].link => w.link = im.pend[c].link
  BY <1>1 DEF Written
<1> HIDE DEF w
<1>5. w = [type |-> w.type, name |-> w.name, slug |-> w.slug, link |-> w.link, cn |-> w.cn, config |-> w.config]
  BY <1>2
<1>6. /\ w.type \in {"openvpn", "xray", "http_status"} /\ w.name \in DOMAIN NameOf /\ w.slug \in Slugs
      /\ w.link \in Servers \cup {None} /\ w.cn \in CommonNames \cup {None}
      /\ w.config \in Servers \cup DOMAIN ConfigOf
  BY <1>3 DEF Rows
<1>7. w \in Rows
  BY <1>5, <1>6 DEF Rows
<1>8. QED BY <1>4, <1>7 DEF w

LEMMA OvertakenOK ==
  ASSUME NEW im, ImportOK(im), NEW stale \in BOOLEAN
  PROVE  LET new == [im EXCEPT !.stale = stale] IN
         ImportOK(new) /\ new.inserts = im.inserts /\ new.read = im.read /\ new.stale = stale /\ new.pc = im.pc
<1> DEFINE new == [im EXCEPT !.stale = stale]
<1>1. /\ DOMAIN new = Fields /\ new.req = im.req /\ new.prefix = im.prefix /\ new.batch = im.batch
      /\ new.read = im.read /\ new.pend = im.pend /\ new.inserts = im.inserts /\ new.work = im.work
      /\ new.pc = im.pc /\ new.slug = im.slug /\ new.reserved = im.reserved
  BY DEF Fields, ImportOK
<1>2. new.stale = stale
  BY DEF Fields, ImportOK
<1> HIDE DEF new
<1>3. HoldsTyped(new)
  BY <1>1, <1>2 DEF ImportOK, HoldsTyped
<1>4. PlaceOK(new) /\ OneEach(new) /\ JobsOK(new)
  BY <1>1 DEF ImportOK, PlaceOK, OneEach, JobsOK
<1>5. ImportOK(new)
  BY <1>1, <1>3, <1>4 DEF ImportOK
<1>6. QED BY <1>1, <1>2, <1>5 DEF new

LEMMA CommitKeepsImports ==
  ASSUME ImportInv, NEW i \in Importers, Commit(i)
  PROVE  ImportInv'
<1> DEFINE im == imp[i]
           n == Len(im.inserts)
<1>1. UNCHANGED <<integration, files, raced>>
  BY DEF Commit
<1>2. CASE ~(DOMAIN im.pend \subseteq Existing)
  <2>1. Rest(i) /\ NoFault /\ row' = row
    BY <1>2 DEF Commit, Aborts, NoFault
  <2>2. QED BY <1>1, <2>1, RestGoesOn, GoesOnKeeps
<1>3. CASE DOMAIN im.pend \subseteq Existing
  <2>1. /\ n \in Nat /\ spent.rows + n <= Len(RowIds)
        /\ \A c \in DOMAIN im.pend : c \in Ids /\ row[c] # None /\ row'[c] = Written(im, c)
        /\ \A c \in Ids \ DOMAIN im.pend :
             \/ \E k : NewId(i, c, k) /\ row'[c] = im.inserts[k] /\ row[c] = None
             \/ (\A k : ~NewId(i, c, k)) /\ row'[c] = row[c]
        /\ DOMAIN row' = Ids
        /\ imp' = [j \in Importers |-> IF j = i THEN Resting
                                       ELSE [imp[j] EXCEPT !.stale = imp[j].pc \notin {"idle", "list"}]]
        /\ spent' = [spent EXCEPT !.rows = @ + n]
    BY <1>3, CommitWrites
  <2>2. /\ im.inserts \in Seq(Rows) /\ DOMAIN im.inserts = 1..n /\ \A k \in 1..n : im.inserts[k] \in Rows
        /\ DOMAIN im.pend \subseteq DOMAIN im.read /\ \A c \in DOMAIN im.pend : im.pend[c] \in Rows
    BY DEF ImportInv, ImportOK, HoldsTyped
  <2> HIDE DEF n
  <2>3. row \in [Ids -> Rows \cup {None}] /\ spent.rows \in Nat /\ Len(RowIds) \in Nat
    BY FreeIdsAre DEF ImportInv, TablesOK
  <2>4. row' \in [Ids -> Rows \cup {None}]
    <3>1. ASSUME NEW c \in DOMAIN im.pend PROVE row'[c] \in Rows \cup {None}
      BY <2>1, <2>2, <2>3, WrittenIs
    <3>2. ASSUME NEW c \in Ids \ DOMAIN im.pend PROVE row'[c] \in Rows \cup {None}
      BY <2>1, <2>2, <2>3 DEF NewId
    <3>3. row' = [c \in Ids |-> row'[c]]
      BY <1>3 DEF Commit
    <3>4. QED BY <3>1, <3>2, <3>3
  <2>5. spent' \in [requests : 0..MaxEvents, edits : 0..MaxEdits, faults : 0..MaxFaults, rows : 0..Len(RowIds)]
        /\ spent'.rows = spent.rows + n
    <3>1. spent \in [requests : 0..MaxEvents, edits : 0..MaxEdits, faults : 0..MaxFaults, rows : 0..Len(RowIds)]
      BY DEF ImportInv, TablesOK
    <3>2. spent.rows + n \in 0..Len(RowIds)
      BY <2>1, <2>3
    <3>3. QED BY <2>1, <3>1, <3>2
  <2>6. TablesOK'
    BY <1>1, <2>4, <2>5 DEF ImportInv, TablesOK
  <2>7. DOMAIN imp' = Importers /\ imp'[i] = Resting
    BY <2>1
  <2>8. ASSUME NEW j \in Importers \ {i}
        PROVE  /\ ImportOK(imp'[j]) /\ imp'[j].inserts = imp[j].inserts /\ imp'[j].read = imp[j].read
               /\ (~imp'[j].stale => DOMAIN imp'[j].read = {})
    <3> DEFINE stale == imp[j].pc \notin {"idle", "list"}
    <3>1. ImportOK(imp[j]) /\ stale \in BOOLEAN
      BY DEF ImportInv
    <3>2. imp'[j] = [imp[j] EXCEPT !.stale = stale]
      BY <2>1
    <3>3. ~stale => DOMAIN imp[j].read = {}
      BY <3>1 DEF ImportOK, PlaceOK
    <3> HIDE DEF stale
    <3>4. QED BY <3>1, <3>2, <3>3, OvertakenOK
  <2>9. \A j \in Importers : ImportOK(imp'[j])
    BY <2>7, <2>8, RestingOK
  <2>10. \A j \in Importers : Fresh(imp[j])'
    BY <2>7, <2>8, RestingOK DEF Fresh
  <2>11. spent'.rows + Cardinality(Pending') <= Len(RowIds)
    <3> DEFINE mine == {i} \X (1..n)
    <3>1. IsFiniteSet(Pending) /\ Cardinality(Pending) \in Nat
      BY PendingFinite, FS_CardinalityType DEF ImportInv
    <3>2. Pending' = Pending \ mine
      <4>1. ASSUME NEW j \in Importers, NEW k PROVE <<j, k>> \in Pending' <=> <<j, k>> \in Pending \ mine
        <5>1. <<j, k>> \in Pending <=> k \in DOMAIN imp[j].inserts
          BY DEF Pending
        <5>2. <<j, k>> \in Pending' <=> k \in DOMAIN imp'[j].inserts
          BY DEF Pending
        <5>3. <<j, k>> \in mine <=> j = i /\ k \in DOMAIN imp[i].inserts
          BY <2>2
        <5> HIDE DEF mine
        <5>4. CASE j = i
          BY <2>7, <5>1, <5>2, <5>3, <5>4, RestingOK
        <5>5. CASE j # i
          BY <2>8, <5>1, <5>2, <5>3, <5>5
        <5>6. QED BY <5>4, <5>5
      <4>2. \A p \in Pending \cup Pending' : \E j \in Importers : \E k : p = <<j, k>>
        BY DEF Pending
      <4> HIDE DEF mine
      <4>3. QED BY <4>1, <4>2
    <3>3. Pending \cap mine = mine
      BY <2>2 DEF Pending
    <3>4. Cardinality(mine) = n
      BY <2>1, ColumnCounts
    <3> HIDE DEF mine
    <3>5. Cardinality(Pending') = Cardinality(Pending) - n
      BY <3>1, <3>2, <3>3, <3>4, FS_Difference
    <3>6. spent.rows + Cardinality(Pending) <= Len(RowIds)
      BY DEF ImportInv, IdsLeft
    <3>7. QED BY <2>1, <2>3, <2>5, <3>1, <3>5, <3>6
  <2>12. ASSUME NEW k \in DOMAIN RowIds, k > spent'.rows
         PROVE  row'[RowIds[k]] = None /\ \A j \in Importers : RowIds[k] \notin DOMAIN imp'[j].read
    <3>1. k \in Nat /\ k > spent.rows + n /\ k > spent.rows /\ RowIds[k] \in Ids
      <4>1. RowIds \in Seq(Ids) /\ k \in DOMAIN RowIds
        BY ListAssumption
      <4>2. k \in Nat /\ RowIds[k] \in Ids
        BY <4>1
      <4>3. QED BY <2>1, <2>3, <2>5, <2>12, <4>2
    <3>2. row[RowIds[k]] = None /\ \A j \in Importers : RowIds[k] \notin DOMAIN imp[j].read
      BY <3>1 DEF ImportInv, IdsLeft
    <3>3. RowIds[k] \notin DOMAIN im.pend
      BY <2>2, <3>2
    <3>4. \A m : ~NewId(i, RowIds[k], m)
      <4>1. ASSUME NEW m \in 1..n, RowIds[k] = RowIds[spent.rows + m] PROVE FALSE
        <5>1. spent.rows + m \in DOMAIN RowIds
          <6>1. DOMAIN RowIds = 1..Len(RowIds)
            BY ListAssumption
          <6>2. QED BY <2>1, <2>3, <6>1
        <5>2. k = spent.rows + m
          BY <4>1, <5>1, ListAssumption DEF IsInjective
        <5>3. QED BY <2>1, <2>3, <3>1, <5>2
      <4>2. QED BY <2>2, <4>1 DEF NewId
    <3>5. row'[RowIds[k]] = None
      BY <2>1, <3>1, <3>2, <3>3, <3>4
    <3>6. \A j \in Importers : RowIds[k] \notin DOMAIN imp'[j].read
      BY <2>7, <2>8, <3>2, RestingOK
    <3>7. QED BY <3>5, <3>6
  <2>13. IdsLeft'
    BY <2>11, <2>12 DEF IdsLeft
  <2>14. QED BY <2>6, <2>7, <2>9, <2>10, <2>13 DEF ImportInv
<1>4. QED BY <1>2, <1>3

----------------------------------------------------------------------------
(* The operators' edits, the first state, and the invariant.               *)

\* Steps that no importer takes and that make no row of a new id.
LEMMA TableMoves ==
  ASSUME ImportInv, imp' = imp, TablesOK', spent'.rows = spent.rows,
         \A c \in Ids : row'[c] = None \/ (row[c] # None /\ row'[c].link = row[c].link)
  PROVE  ImportInv'
<1>1. spent'.rows + Cardinality(Pending') <= Len(RowIds)
  BY DEF ImportInv, IdsLeft, Pending
<1>2. ASSUME NEW k \in DOMAIN RowIds, k > spent'.rows
      PROVE  row'[RowIds[k]] = None /\ \A j \in Importers : RowIds[k] \notin DOMAIN imp'[j].read
  <2>1. row[RowIds[k]] = None /\ \A j \in Importers : RowIds[k] \notin DOMAIN imp[j].read
    BY <1>2 DEF ImportInv, IdsLeft
  <2>2. RowIds[k] \in Ids
    BY DEF Ids, ToSet
  <2>3. QED BY <2>1, <2>2
<1>3. IdsLeft'
  BY <1>1, <1>2 DEF IdsLeft
<1>4. ASSUME NEW i \in Importers PROVE Fresh(imp[i])' /\ ImportOK(imp'[i])
  <2>1. DOMAIN imp[i].read \subseteq Ids /\ ImportOK(imp[i]) /\ Fresh(imp[i])
    BY DEF ImportInv, ImportOK, HoldsTyped
  <2>2. QED BY <2>1 DEF Fresh
<1>5. QED BY <1>3, <1>4 DEF ImportInv

\* What an edit counts.
LEMMA EditCounts ==
  ASSUME TablesOK, NEW rows \in Nat, EditUsing(rows), spent.rows + rows <= Len(RowIds)
  PROVE  /\ spent' \in [requests : 0..MaxEvents, edits : 0..MaxEdits, faults : 0..MaxFaults, rows : 0..Len(RowIds)]
         /\ spent'.rows = spent.rows + rows
<1>1. /\ spent \in [requests : 0..MaxEvents, edits : 0..MaxEdits, faults : 0..MaxFaults, rows : 0..Len(RowIds)]
      /\ MaxEdits \in Nat /\ Len(RowIds) \in Nat
  BY BoundsAssumption, FreeIdsAre DEF TablesOK
<1>2. spent.edits + 1 \in 0..MaxEdits /\ spent.rows + rows \in 0..Len(RowIds)
  BY <1>1 DEF EditUsing
<1>3. spent' = [spent EXCEPT !.edits = spent.edits + 1, !.rows = spent.rows + rows]
  BY DEF EditUsing
<1>4. QED BY <1>1, <1>2, <1>3

LEMMA EditIs ==
  ASSUME TablesOK, Edit
  PROVE  /\ spent' \in [requests : 0..MaxEvents, edits : 0..MaxEdits, faults : 0..MaxFaults, rows : 0..Len(RowIds)]
         /\ spent'.rows = spent.rows
<1>1. spent.rows \in Nat /\ spent.rows + 0 <= Len(RowIds) /\ 0 \in Nat
  BY FreeIdsAre
<1>2. QED BY <1>1, EditCounts DEF Edit

LEMMA UpdateKeepsImports ==
  ASSUME ImportInv, NEW c \in Ids, UpdateComponent(c) \/ DeleteComponent(c)
  PROVE  ImportInv'
<1>1. /\ TablesOK /\ row \in [Ids -> Rows \cup {None}] /\ row[c] # None /\ Edit
      /\ UNCHANGED <<integration, files, imp, raced>>
  BY DEF ImportInv, TablesOK, UpdateComponent, DeleteComponent
<1>2. ASSUME NEW r \in Rows \cup {None}, row' = [row EXCEPT ![c] = r], r # None => r.link = row[c].link
      PROVE  ImportInv'
  <2>1. TablesOK' /\ spent'.rows = spent.rows
    BY <1>1, <1>2, EditIs DEF TablesOK
  <2>2. \A d \in Ids : row'[d] = None \/ (row[d] # None /\ row'[d].link = row[d].link)
    BY <1>1, <1>2
  <2>3. QED BY <1>1, <2>1, <2>2, TableMoves
<1>3. CASE DeleteComponent(c)
  BY <1>2, <1>3 DEF DeleteComponent
<1>4. CASE UpdateComponent(c)
  <2> DEFINE was == row[c]
  <2>1. was \in Rows
    BY <1>1
  <2>2. \/ \E name \in DOMAIN NameOf : row' = [row EXCEPT ![c] = [was EXCEPT !.name = name]]
        \/ \E config \in DOMAIN ConfigOf : row' = [row EXCEPT ![c] = [was EXCEPT !.config = config]]
        \/ \E slug \in OwnSlugs : row' = [row EXCEPT ![c] = [was EXCEPT !.slug = slug]]
        \/ \E type \in {"openvpn", "xray", "http_status"} : row' = [row EXCEPT ![c] = [was EXCEPT !.type = type]]
    BY <1>4 DEF UpdateComponent
  <2>3. OwnSlugs \subseteq Slugs
    BY DEF OwnSlugs, Slugs
  <2>4. ASSUME NEW name \in DOMAIN NameOf
        PROVE  [was EXCEPT !.name = name] \in Rows /\ [was EXCEPT !.name = name].link = was.link
    BY <2>1 DEF Rows
  <2>5. ASSUME NEW config \in DOMAIN ConfigOf
        PROVE  [was EXCEPT !.config = config] \in Rows /\ [was EXCEPT !.config = config].link = was.link
    BY <2>1 DEF Rows
  <2>6. ASSUME NEW slug \in OwnSlugs
        PROVE  [was EXCEPT !.slug = slug] \in Rows /\ [was EXCEPT !.slug = slug].link = was.link
    BY <2>1, <2>3 DEF Rows
  <2>7. ASSUME NEW type \in {"openvpn", "xray", "http_status"}
        PROVE  [was EXCEPT !.type = type] \in Rows /\ [was EXCEPT !.type = type].link = was.link
    BY <2>1 DEF Rows
  <2>8. \E r \in Rows \cup {None} : row' = [row EXCEPT ![c] = r] /\ (r # None => r.link = was.link)
    <3>1. CASE \E name \in DOMAIN NameOf : row' = [row EXCEPT ![c] = [was EXCEPT !.name = name]]
      BY <2>4, <3>1
    <3>2. CASE \E config \in DOMAIN ConfigOf : row' = [row EXCEPT ![c] = [was EXCEPT !.config = config]]
      BY <2>5, <3>2
    <3>3. CASE \E slug \in OwnSlugs : row' = [row EXCEPT ![c] = [was EXCEPT !.slug = slug]]
      BY <2>6, <3>3
    <3>4. CASE \E type \in {"openvpn", "xray", "http_status"} : row' = [row EXCEPT ![c] = [was EXCEPT !.type = type]]
      BY <2>7, <3>4
    <3>5. QED BY <2>2, <3>1, <3>2, <3>3, <3>4
  <2>9. QED BY <1>2, <2>8
<1>5. QED BY <1>3, <1>4

LEMMA CreateKeepsImports ==
  ASSUME ImportInv, CreateComponent
  PROVE  ImportInv'
<1>1. PICK type \in {"openvpn", "xray"}, name \in DOMAIN NameOf, slug \in OwnSlugs, config \in DOMAIN ConfigOf :
        row' = [row EXCEPT ![Head(FreeIds)] =
                  [type |-> type, name |-> name, slug |-> slug, link |-> None, cn |-> None, config |-> config]]
  BY DEF CreateComponent
<1> DEFINE r == [type |-> type, name |-> name, slug |-> slug, link |-> None, cn |-> None, config |-> config]
           next == RowIds[spent.rows + 1]
<1>2. r \in Rows /\ r.link = None
  BY DEF Rows, OwnSlugs, Slugs
<1>3. /\ EditUsing(1) /\ Room /\ UNCHANGED <<integration, files, imp, raced>>
      /\ TablesOK /\ row \in [Ids -> Rows \cup {None}]
  BY DEF CreateComponent, ImportInv, TablesOK
<1>4. /\ Len(RowIds) \in Nat /\ spent.rows \in Nat /\ RowIds \in Seq(Ids)
      /\ Len(FreeIds) = Len(RowIds) - spent.rows /\ DOMAIN FreeIds = 1..(Len(RowIds) - spent.rows)
      /\ \A k \in DOMAIN FreeIds : FreeIds[k] = RowIds[spent.rows + k] /\ spent.rows + k \in DOMAIN RowIds
      /\ Cardinality(Pending) \in Nat
  BY <1>3, FreeIdsAre, PendingFinite, FS_CardinalityType, ListAssumption DEF ImportInv
<1>5. Cardinality(Pending) < Len(RowIds) - spent.rows
  BY <1>3, <1>4 DEF Room
<1>6. Head(FreeIds) = next /\ spent.rows + 1 \in DOMAIN RowIds /\ next \in Ids
  <2>1. 1 \in DOMAIN FreeIds /\ Head(FreeIds) = FreeIds[1]
    BY <1>4, <1>5
  <2>2. FreeIds[1] = RowIds[spent.rows + 1] /\ spent.rows + 1 \in DOMAIN RowIds
    BY <1>4, <2>1
  <2>3. QED BY <1>4, <2>1, <2>2
<1> HIDE DEF r
<1>7. row' = [row EXCEPT ![next] = r]
  BY <1>1, <1>6 DEF r
<1> HIDE DEF next
<1>8. /\ spent' \in [requests : 0..MaxEvents, edits : 0..MaxEdits, faults : 0..MaxFaults, rows : 0..Len(RowIds)]
      /\ spent'.rows = spent.rows + 1
  <2>1. 1 \in Nat /\ spent.rows + 1 <= Len(RowIds)
    BY <1>4, <1>5
  <2>2. QED BY <1>3, <2>1, EditCounts
<1>9. TablesOK'
  BY <1>2, <1>3, <1>6, <1>7, <1>8 DEF TablesOK
<1>10. spent'.rows + Cardinality(Pending') <= Len(RowIds)
  <2>1. Pending' = Pending
    BY <1>3 DEF Pending
  <2>2. QED BY <1>4, <1>5, <1>8, <2>1
<1>11. row[next] = None /\ \A i \in Importers : next \notin DOMAIN imp[i].read
  <2>1. spent.rows + 1 > spent.rows
    BY <1>4
  <2>2. QED BY <1>6, <2>1 DEF ImportInv, IdsLeft, next
<1>12. ASSUME NEW k \in DOMAIN RowIds, k > spent'.rows
       PROVE  row'[RowIds[k]] = None /\ \A j \in Importers : RowIds[k] \notin DOMAIN imp'[j].read
  <2>1. k \in Nat /\ k > spent.rows /\ k # spent.rows + 1 /\ RowIds[k] \in Ids
    <3>1. k \in Nat /\ RowIds[k] \in Ids
      BY <1>4
    <3>2. QED BY <1>4, <1>8, <1>12, <3>1
  <2>2. RowIds[k] # next
    BY <1>6, <2>1, ListAssumption DEF next, IsInjective
  <2>3. row[RowIds[k]] = None /\ \A j \in Importers : RowIds[k] \notin DOMAIN imp[j].read
    BY <2>1 DEF ImportInv, IdsLeft
  <2>4. QED BY <1>3, <1>7, <2>1, <2>2, <2>3
<1>13. IdsLeft'
  BY <1>10, <1>12 DEF IdsLeft
<1>14. ASSUME NEW i \in Importers PROVE Fresh(imp[i])' /\ ImportOK(imp'[i])
  <2>1. DOMAIN imp[i].read \subseteq Ids /\ ImportOK(imp[i]) /\ Fresh(imp[i])
    BY DEF ImportInv, ImportOK, HoldsTyped
  <2>2. \A c \in DOMAIN imp[i].read : row'[c] = row[c]
    BY <1>3, <1>7, <1>11, <2>1
  <2>3. QED BY <1>3, <2>1, <2>2 DEF Fresh
<1>15. QED BY <1>3, <1>9, <1>13, <1>14 DEF ImportInv

LEMMA OperatorsKeepImports ==
  ASSUME ImportInv, Operators
  PROVE  ImportInv'
<1>1. CASE UpsertIntegration
  <2>1. TablesOK' /\ spent'.rows = spent.rows /\ imp' = imp /\ row' = row
    BY <1>1, EditIs DEF UpsertIntegration, ImportInv, TablesOK
  <2>2. \A c \in Ids : row'[c] = None \/ (row[c] # None /\ row'[c].link = row[c].link)
    BY <2>1
  <2>3. QED BY <2>1, <2>2, TableMoves
<1>2. ASSUME NEW cn \in CommonNames, Revoke(cn) PROVE ImportInv'
  <2>1. files' \in [CommonNames -> [live : Nat, revoked : BOOLEAN]]
    BY <1>2 DEF Revoke, ImportInv, TablesOK
  <2>2. TablesOK' /\ spent'.rows = spent.rows /\ imp' = imp /\ row' = row
    BY <1>2, <2>1, EditIs DEF Revoke, ImportInv, TablesOK
  <2>3. \A c \in Ids : row'[c] = None \/ (row[c] # None /\ row'[c].link = row[c].link)
    BY <2>2
  <2>4. QED BY <2>2, <2>3, TableMoves
<1>3. QED BY <1>1, <1>2, CreateKeepsImports, UpdateKeepsImports DEF Operators

LEMMA InitImports == Init => ImportInv
<1> SUFFICES ASSUME Init PROVE ImportInv
  OBVIOUS
<1>1. PICK start \in Starts :
        /\ row = [c \in Ids |-> IF \E k \in DOMAIN start : RowIds[k] = c
                                THEN start[CHOOSE k \in DOMAIN start : RowIds[k] = c] ELSE None]
        /\ spent = [requests |-> 0, edits |-> 0, faults |-> 0, rows |-> Len(start)]
  BY DEF Init
<1> DEFINE n == Len(start)
<1>2. start \in Seq(Rows) /\ n \in Nat /\ DOMAIN start = 1..n /\ n <= Len(RowIds) /\ \A k \in 1..n : start[k] \in Rows
  BY StartAssumption
<1>3. RowIds \in Seq(Ids) /\ Len(RowIds) \in Nat /\ DOMAIN RowIds = 1..Len(RowIds)
  BY ListAssumption
<1>4. /\ imp = [i \in Importers |-> Resting] /\ raced = {}
      /\ integration = [prefix |-> CHOOSE p \in CnPrefixes : TRUE, enabled |-> TRUE]
  BY DEF Init
<1> HIDE DEF n
<1>5. spent.rows = n
  BY <1>1 DEF n
<1>6. TablesOK
  <2>1. row \in [Ids -> Rows \cup {None}]
    BY <1>1, <1>2
  <2>2. integration \in [prefix : CnPrefixes, enabled : BOOLEAN]
    BY <1>4, RequestAssumption
  <2>3. files \in [CommonNames -> [live : Nat, revoked : BOOLEAN]]
    BY InitHolds DEF Inv, Typed
  <2>4. {MaxEvents, MaxEdits, MaxFaults} \subseteq Nat
    BY BoundsAssumption
  <2>5. spent \in [requests : 0..MaxEvents, edits : 0..MaxEdits, faults : 0..MaxFaults, rows : 0..Len(RowIds)]
    <3>1. 0 \in 0..MaxEvents /\ 0 \in 0..MaxEdits /\ 0 \in 0..MaxFaults /\ n \in 0..Len(RowIds)
      BY <1>2, <1>3, <2>4
    <3>2. spent = [requests |-> 0, edits |-> 0, faults |-> 0, rows |-> n]
      BY <1>1 DEF n
    <3>3. QED BY <3>1, <3>2
  <2>6. QED BY <1>4, <2>1, <2>2, <2>3, <2>5 DEF TablesOK
<1>7. Cardinality(Pending) = 0
  <2>1. Pending = {}
    BY <1>4, RestingOK DEF Pending
  <2>2. QED BY <2>1, FS_EmptySet
<1>8. ASSUME NEW k \in DOMAIN RowIds, k > n
      PROVE  row[RowIds[k]] = None /\ \A i \in Importers : RowIds[k] \notin DOMAIN imp[i].read
  <2>1. k \in Nat /\ RowIds[k] \in Ids
    BY <1>3
  <2>2. \A j \in 1..n : j \in DOMAIN RowIds /\ j # k
    BY <1>2, <1>3, <1>8, <2>1
  <2>3. \A j \in 1..n : RowIds[j] # RowIds[k]
    BY <2>2, ListAssumption DEF IsInjective
  <2>4. row[RowIds[k]] = None
    BY <1>1, <1>2, <2>1, <2>3
  <2>5. QED BY <1>4, <2>4, RestingOK
<1>9. IdsLeft
  BY <1>2, <1>3, <1>5, <1>7, <1>8 DEF IdsLeft
<1>10. \A i \in Importers : ImportOK(imp[i]) /\ Fresh(imp[i])
  BY <1>4, RestingOK DEF Fresh
<1>11. QED BY <1>4, <1>6, <1>9, <1>10 DEF ImportInv

LEMMA ImportInvStep == ImportInv /\ [Next]_vars => ImportInv'
<1> SUFFICES ASSUME ImportInv, [Next]_vars PROVE ImportInv'
  OBVIOUS
<1>1. ASSUME NEW i \in Importers, Import(i) PROVE ImportInv'
  BY <1>1, RequestKeepsImports, ListKeepsImports, CallsKeepImports, PickSlugKeepsImports,
     InsertKeepsImports, CommitKeepsImports DEF Import
<1>2. CASE UNCHANGED vars
  BY <1>2 DEF vars, ImportInv, TablesOK, IdsLeft, Fresh, Pending
<1>3. QED BY <1>1, <1>2, OperatorsKeepImports DEF Next

THEOREM ImportsCorrect == Spec => []ImportInv
BY InitImports, ImportInvStep, PTL DEF Spec

\* Every variable has its type: whatever an import has read, planned, reserved
\* or is about to write are components, servers and slugs, and it is at a place
\* without a job exactly if it has none left.
THEOREM TypeCorrect == Spec => []TypeOK
<1>1. ImportInv => TypeOK
  BY DEF ImportInv, TablesOK, ImportOK, TypeOK
<1>2. QED BY <1>1, ImportsCorrect, PTL

----------------------------------------------------------------------------
(* The links a commit leaves.                                              *)

Settled(i, s) ==
  At(i, "commit") /\ imp'[i].pc # "commit" /\ ~imp[i].stale =>
    IF s \in ToSet(imp[i].batch) /\ ~WellLinked(imp[i].read, s)
    THEN Cardinality(Linked(row', s) \ Linked(row, s)) <= 1
    ELSE Linked(row', s) = Linked(row, s)

LEMMA TableStays ==
  ASSUME NEW i, NEW s, row' = row
  PROVE  Settled(i, s)
<1>1. Linked(row', s) \ Linked(row, s) = {} /\ Linked(row', s) = Linked(row, s)
  OBVIOUS
<1>2. Cardinality(Linked(row', s) \ Linked(row, s)) = 0
  BY <1>1, FS_EmptySet
<1>3. QED BY <1>1, <1>2 DEF Settled

\* Where the links of a component come from: an update or an insert the match
\* planned, or it had them before.
LEMMA CommitSettles ==
  ASSUME ImportInv, NEW i \in Importers, Commit(i), DOMAIN imp[i].pend \subseteq Existing, ~imp[i].stale,
         NEW s \in Servers
  PROVE  Settled(i, s)
<1> DEFINE im == imp[i]
           wants == s \in ToSet(im.batch) /\ ~WellLinked(im.read, s)
<1>1. /\ \A c \in DOMAIN im.pend : c \in Ids /\ row[c] # None /\ row'[c] = Written(im, c)
      /\ \A c \in Ids \ DOMAIN im.pend :
           \/ \E k : NewId(i, c, k) /\ row'[c] = im.inserts[k] /\ row[c] = None
           \/ (\A k : ~NewId(i, c, k)) /\ row'[c] = row[c]
  BY CommitWrites
<1>2. /\ OneEach(im) /\ JobsOK(im) /\ row \in [Ids -> Rows \cup {None}]
      /\ DOMAIN im.pend \subseteq DOMAIN im.read /\ \A c \in DOMAIN im.pend : im.pend[c] \in Rows
  BY DEF ImportInv, ImportOK, HoldsTyped, TablesOK
<1>3. None \notin Servers /\ None \notin Rows
  BY NoneAssumption
\* An update: the link is the planned one.
<1>4. ASSUME NEW c \in DOMAIN im.pend
      PROVE  /\ row[c] # None /\ row'[c] # None /\ row[c].link = im.read[c].link /\ row'[c].link = im.pend[c].link
             /\ JobOK([server |-> im.pend[c].link, component |-> c], im.batch, im.read)
             /\ c \in DOMAIN im.read /\ c # None
  <2>1. row[c] \in Rows /\ row[c].link = im.read[c].link
    BY <1>1, <1>2 DEF ImportInv, Fresh
  <2>2. row'[c] \in Rows /\ row'[c].link = im.pend[c].link
    BY <1>1, <1>2, <2>1, WrittenIs
  <2>3. c # None
    BY <1>1, NoneAssumption
  <2>4. QED BY <1>1, <1>2, <1>3, <2>1, <2>2, <2>3 DEF JobsOK
<1>5. ASSUME NEW c \in DOMAIN im.pend
      PROVE  /\ row'[c].link \in ToSet(im.batch)
             /\ WellLinked(im.read, row'[c].link) => row[c].link = row'[c].link
             /\ ~WellLinked(im.read, row'[c].link) =>
                  \/ row[c].link = None
                  \/ row[c].link \in ToSet(im.batch) /\ ~WellLinked(im.read, row[c].link)
  <2> DEFINE job == [server |-> im.pend[c].link, component |-> c]
  <2>1. job.server = row'[c].link /\ job.component = c /\ c # None /\ JobOK(job, im.batch, im.read)
        /\ row[c].link = im.read[c].link
    BY <1>4
  <2> HIDE DEF job
  <2>2. QED BY <2>1 DEF JobOK
\* An insert: the server wants a component.
<1>6. ASSUME NEW c \in Ids \ DOMAIN im.pend, NEW k, NewId(i, c, k), row'[c] = im.inserts[k], row[c] = None
      PROVE  row'[c].link \in ToSet(im.batch) /\ ~WellLinked(im.read, row'[c].link)
  <2> DEFINE job == [server |-> im.inserts[k].link, component |-> None]
  <2>1. job.server = row'[c].link /\ job.component = None /\ JobOK(job, im.batch, im.read)
    BY <1>2, <1>6 DEF JobsOK, NewId
  <2> HIDE DEF job
  <2>2. QED BY <2>1 DEF JobOK
<1>7. CASE ~wants
  <2>1. ASSUME NEW c \in Ids
        PROVE  row'[c] # None /\ row'[c].link = s <=> row[c] # None /\ row[c].link = s
    <3>1. CASE c \in DOMAIN im.pend
      <4>1. CASE WellLinked(im.read, row'[c].link)
        BY <1>4, <1>5, <3>1, <4>1
      <4>2. CASE ~WellLinked(im.read, row'[c].link)
        <5>1. row'[c].link # s
          BY <1>5, <1>7, <3>1, <4>2
        <5>2. row[c].link # s
          BY <1>3, <1>5, <1>7, <3>1, <4>2
        <5>3. QED BY <5>1, <5>2
      <4>3. QED BY <4>1, <4>2
    <3>2. CASE c \notin DOMAIN im.pend /\ row'[c] = row[c]
      BY <3>2
    <3>3. CASE c \notin DOMAIN im.pend /\ \E k : NewId(i, c, k) /\ row'[c] = im.inserts[k] /\ row[c] = None
      BY <1>6, <1>7, <3>3
    <3>4. QED BY <1>1, <3>1, <3>2, <3>3
  <2>2. Linked(row', s) = Linked(row, s)
    BY <2>1 DEF Linked
  <2>3. QED BY <1>7, <2>2 DEF Settled
<1>8. CASE wants
  <2> DEFINE gained == Linked(row', s) \ Linked(row, s)
  <2>1. ASSUME NEW c \in gained
        PROVE  /\ c \in Ids
               /\ \/ c \in DOMAIN im.pend /\ im.pend[c].link = s
                  \/ \E k \in DOMAIN im.inserts : c = RowIds[spent.rows + k] /\ im.inserts[k].link = s
    <3>1. c \in Ids /\ row'[c].link = s /\ row'[c] # row[c]
      BY DEF Linked
    <3>2. CASE c \in DOMAIN im.pend
      BY <1>4, <3>1, <3>2
    <3>3. CASE c \notin DOMAIN im.pend
      BY <1>1, <3>1, <3>3 DEF NewId
    <3>4. QED BY <3>1, <3>2, <3>3
  <2>2. ASSUME NEW c \in gained, NEW d \in gained PROVE c = d
    <3>1. CASE /\ c \in DOMAIN im.pend /\ im.pend[c].link = s
               /\ d \in DOMAIN im.pend /\ im.pend[d].link = s
      BY <1>2, <3>1 DEF OneEach
    <3>2. ASSUME NEW j \in DOMAIN im.inserts, c = RowIds[spent.rows + j], im.inserts[j].link = s,
                 NEW k \in DOMAIN im.inserts, d = RowIds[spent.rows + k], im.inserts[k].link = s
          PROVE  c = d
      <4>1. j = k
        BY <1>2, <3>2 DEF OneEach
      <4>2. QED BY <3>2, <4>1
    <3>3. ASSUME NEW b \in DOMAIN im.pend, im.pend[b].link = s,
                 NEW k \in DOMAIN im.inserts, im.inserts[k].link = s
          PROVE  FALSE
      BY <1>2, <3>3 DEF OneEach
    <3>4. QED BY <2>1, <3>1, <3>2, <3>3
  <2>3. gained = {} \/ \E c : gained = {c}
    BY <2>2
  <2>4. Cardinality(gained) \in {0, 1}
    BY <2>3, FS_EmptySet, FS_Singleton
  <2>5. Cardinality(gained) <= 1
    BY <2>4
  <2>6. QED BY <1>8, <2>5 DEF Settled
<1>9. QED BY <1>7, <1>8

\* Nothing but its own commit takes an importer from where it commits.
LEMMA OnlyCommitLeaves ==
  ASSUME ImportInv, [Next]_vars, NEW i \in Importers, At(i, "commit"), imp'[i].pc # "commit"
  PROVE  Commit(i)
<1>1. ASSUME imp' = imp PROVE FALSE
  BY <1>1 DEF At
<1>2. CASE UNCHANGED vars
  BY <1>1, <1>2 DEF vars
<1>3. CASE Operators
  BY <1>1, <1>3 DEF Operators, CreateComponent, UpsertIntegration, UpdateComponent, DeleteComponent, Revoke
<1>4. CASE Import(i)
  BY <1>4 DEF Import, Request, List, Link, DownloadByCn, ListIssuedFiles, DownloadById, IssueFile, Fetch,
              PickSlug, Insert, At
<1>5. ASSUME NEW j \in Importers \ {i}, Import(j) PROVE FALSE
  <2>1. ASSUME NEW new, imp' = [imp EXCEPT ![j] = new] PROVE FALSE
    BY <1>5, <2>1 DEF At, ImportInv
  <2>2. CASE GoesOn(j)
    BY <2>1, <2>2 DEF GoesOn
  <2>3. CASE Commit(j)
    <3>1. CASE Aborts(j)
      BY <2>1, <3>1 DEF Aborts, Rest
    <3>2. CASE imp' = [k \in Importers |-> IF k = j THEN Resting
                                           ELSE [imp[k] EXCEPT !.stale = imp[k].pc \notin {"idle", "list"}]]
      <4>1. imp'[i].pc = imp[i].pc
        BY <3>2 DEF ImportInv, ImportOK, Fields
      <4>2. QED BY <4>1 DEF At
    <3>3. QED BY <2>3, <3>1, <3>2 DEF Commit
  <2>4. CASE CallFails(j)
    BY <2>1, <2>4 DEF CallFails, JobFails, Aborts, Rest, NextJob
  <2>5. CASE TakeFile(j)
    BY <2>1, <2>5 DEF TakeFile, Goto, AssignColumns
  <2>6. CASE Request(j) \/ List(j) \/ PickSlug(j) \/ Insert(j)
    BY <2>1, <2>6 DEF Request, List, Rest, PickSlug, Insert
  <2>7. ASSUME NEW pc, Goto(j, pc) PROVE FALSE
    BY <2>1, <2>7 DEF Goto
  <2>8. CASE Link(j) \/ DownloadByCn(j) \/ ListIssuedFiles(j) \/ DownloadById(j) \/ IssueFile(j) \/ Fetch(j)
    BY <2>1, <2>4, <2>5, <2>7, <2>8
       DEF Link, DownloadByCn, ListIssuedFiles, DownloadById, IssueFile, Fetch, AssignColumns
  <2>9. QED BY <1>5, <2>3, <2>6, <2>8 DEF Import
<1>6. QED BY <1>2, <1>3, <1>4, <1>5 DEF Next

\* The commit of an import that no other has overtaken leaves a server that is not
\* in its batch, or whose component is compatible, exactly the components it had,
\* and adds at most one to any other server, whatever the operators changed
\* meanwhile.  A component that was linked wrongly may stay beside the added one.
THEOREM LinksCorrect == Spec => AtMostOneLinkAdded
<1>1. ImportInv /\ [Next]_vars => [\A i \in Importers, s \in Servers : Settled(i, s)]_vars
  <2> SUFFICES ASSUME ImportInv, [Next]_vars, NEW i \in Importers, NEW s \in Servers PROVE Settled(i, s)
    OBVIOUS
  <2>1. CASE ~(At(i, "commit") /\ imp'[i].pc # "commit" /\ ~imp[i].stale)
    BY <2>1 DEF Settled
  <2>2. CASE At(i, "commit") /\ imp'[i].pc # "commit" /\ ~imp[i].stale
    <3>1. Commit(i)
      BY <2>2, OnlyCommitLeaves
    <3>2. CASE DOMAIN imp[i].pend \subseteq Existing
      BY <2>2, <3>1, <3>2, CommitSettles
    <3>3. CASE ~(DOMAIN imp[i].pend \subseteq Existing)
      BY <3>1, <3>3, TableStays DEF Commit
    <3>4. QED BY <3>2, <3>3
  <2>3. QED BY <2>1, <2>2
<1>2. [\A i \in Importers, s \in Servers : Settled(i, s)]_vars =>
      [\A i \in Importers, s \in Servers :
         At(i, "commit") /\ imp'[i].pc # "commit" /\ ~imp[i].stale =>
           IF s \in ToSet(imp[i].batch) /\ ~WellLinked(imp[i].read, s)
           THEN Cardinality(Linked(row', s) \ Linked(row, s)) <= 1
           ELSE Linked(row', s) = Linked(row, s)]_vars
  BY DEF Settled
<1>3. QED BY <1>1, <1>2, ImportsCorrect, PTL DEF Spec, AtMostOneLinkAdded
=============================================================================
