-------------------------- MODULE Monitoring_proofs --------------------------
(***************************************************************************)
(* Proofs about Monitoring, for any components, intervals and number of    *)
(* crashes, edits and manual checks.                                       *)
(***************************************************************************)
EXTENDS Monitoring, OrderLemmas

Result == [since : Nat, test : Ages]

----------------------------------------------------------------------------
(* The order of the due components.                                        *)

LEMMA SmallestId ==
  ASSUME NEW S \in SUBSET Components, S # {}
  PROVE  \E c \in S : \A d \in S : Id[c] <= Id[d]
<1> DEFINE ids == {Id[c] : c \in S}
<1>1. ids \in SUBSET Nat /\ ids # {}
  BY IdAssumption
<1>2. PICK m \in ids : \A n \in ids : m <= n
  BY <1>1, SmallestExists
<1>3. QED BY <1>2

\* The first of the due components is one of them.
LEMMA FirstIsDue ==
  ASSUME NEW due \in SUBSET Components, due # {}
  PROVE  First(due) \in due
<1> DEFINE ahead == IF due \cap Vpn = {} THEN due ELSE due \cap Vpn
<1>1. PICK c \in ahead : \A d \in ahead : Id[c] <= Id[d]
  BY SmallestId
<1>2. \A d \in due : Before(c, d)
  BY <1>1 DEF Before
<1>3. QED BY <1>1, <1>2 DEF First

----------------------------------------------------------------------------
(* Ages stay ages, and keep their order, when they are packed.             *)

LEMMA KnownAges ==
  ASSUME NEW age \in Ages, age # None
  PROVE  age \in Nat
BY DEF Ages

LEMMA AgedType ==
  ASSUME NEW ages, IsFiniteSet(ages), NEW age \in Ages, NEW interval \in Nat \ {0}
  PROVE  /\ Aged(age, ages, interval) \in Ages
         /\ age # None => Aged(age, ages, interval) \in Nat
<1> DEFINE older == {a \in Known(ages) : interval - 1 <= a /\ a <= age}
<1>1. Cardinality(older) \in Nat
  <2>1. older \in SUBSET ages
    BY DEF Known
  <2>2. IsFiniteSet(older)
    BY <2>1, FS_Subset
  <2>3. QED BY <2>2, FS_CardinalityType
<1> HIDE DEF older
<1>2. Aged(age, ages, interval) = IF age = None THEN None
                                  ELSE IF age < interval - 1 THEN age + 1
                                  ELSE interval - 1 + Cardinality(older)
  BY DEF Aged, older
<1>3. QED BY <1>1, <1>2 DEF Ages

LEMMA AgedKeepsOrder ==
  ASSUME NEW ages \in SUBSET Ages, IsFiniteSet(ages), NEW interval \in Nat \ {0},
         NEW a \in Nat, NEW b \in Nat, a <= b
  PROVE  Aged(a, ages, interval) <= Aged(b, ages, interval)
<1> DEFINE upTo(x) == {k \in Known(ages) : interval - 1 <= k /\ k <= x}
<1>1. Known(ages) \subseteq Nat /\ Known(ages) \subseteq ages
  BY DEF Known, Ages
<1>2. upTo(b) \in SUBSET ages /\ upTo(a) \in SUBSET upTo(b)
  BY <1>1
<1>3. IsFiniteSet(upTo(b)) /\ IsFiniteSet(upTo(a))
  BY <1>2, FS_Subset
<1>4. /\ Cardinality(upTo(a)) \in Nat /\ Cardinality(upTo(b)) \in Nat
      /\ Cardinality(upTo(a)) <= Cardinality(upTo(b))
  BY <1>2, <1>3, FS_Subset, FS_CardinalityType
<1>5. a # None /\ b # None
  BY NoneAssumption
<1>6. /\ Aged(a, ages, interval) = IF a < interval - 1 THEN a + 1 ELSE interval - 1 + Cardinality(upTo(a))
      /\ Aged(b, ages, interval) = IF b < interval - 1 THEN b + 1 ELSE interval - 1 + Cardinality(upTo(b))
  BY <1>5 DEF Aged
<1> HIDE DEF upTo
<1>7. QED BY <1>4, <1>6

LEMMA CheckAgesFinite ==
  ASSUME TypeOK, NEW c \in Components
  PROVE  IsFiniteSet(CheckAges(c)) /\ CheckAges(c) \in SUBSET Ages
<1>1. IsFiniteSet({}) /\ \A x : IsFiniteSet({x})
  BY FS_EmptySet, FS_Singleton
<1>2. IsFiniteSet({last[c]} \cup {newest[c]})
  BY <1>1, FS_Union
<1> DEFINE A == IF mine[c] = None THEN {} ELSE {mine[c].since}
           B == IF Manual(c) THEN {manual.since} ELSE {}
<1>3. IsFiniteSet(A) /\ IsFiniteSet(B)
  BY <1>1
<1>4. IsFiniteSet(({last[c]} \cup {newest[c]}) \cup A)
  BY <1>2, <1>3, FS_Union
<1>5. IsFiniteSet((({last[c]} \cup {newest[c]}) \cup A) \cup B)
  BY <1>3, <1>4, FS_Union
<1>6. CheckAges(c) = (({last[c]} \cup {newest[c]}) \cup A) \cup B
  BY DEF CheckAges
<1>7. {last[c], newest[c]} \subseteq Ages
  BY DEF TypeOK
<1>8. A \subseteq Ages /\ B \subseteq Ages
  BY DEF TypeOK, Ages, Manual
<1>9. QED BY <1>5, <1>6, <1>7, <1>8

LEMMA TestAgesFinite ==
  ASSUME TypeOK
  PROVE  IsFiniteSet(TestAges)
<1> DEFINE here == {d \in Components : mine[d] # None}
           t == [c \in Components |-> mine[c].test]
<1>1. IsFiniteSet(Vpn) /\ IsFiniteSet(here)
  BY FiniteAssumption, FS_Subset DEF Components
<1>2. IsFiniteSet({tested[c] : c \in Vpn}) /\ IsFiniteSet({t[c] : c \in here})
  BY <1>1, ImageFinite
<1>3. {t[c] : c \in here} = {mine[c].test : c \in here}
  OBVIOUS
<1>4. QED BY <1>2, <1>3, FS_Union DEF TestAges

----------------------------------------------------------------------------
(* Types.                                                                  *)

\* The check in progress is one of a due component, and has a result.
InCheck == pc = "check" => todo # {} /\ mine[First(todo)] # None

TypeInv == TypeOK /\ InCheck

LEMMA ResultNotNone ==
  ASSUME NEW r \in Result
  PROVE  r # None
BY NoneAssumption DEF Result, Ages

LEMMA MineType ==
  ASSUME TypeOK, NEW c \in Components, mine[c] # None
  PROVE  mine[c] \in Result
BY DEF TypeOK, Result

LEMMA InitType == Init => TypeInv
<1> SUFFICES ASSUME Init PROVE TypeInv
  OBVIOUS
<1>1. Cardinality({}) <= 1
  BY FS_EmptySet
<1>2. slot \in 0..Gap /\ wan \in 0..TestInterval \cup {None} /\ events \in 0..MaxEvents
  BY IntervalAssumption, BoundAssumption DEF Init
<1>3. {last, newest, tested} \subseteq [Components -> Ages]
  BY DEF Init, Ages
<1>4. /\ mine \in [Components -> [since : Nat, test : Ages] \cup {None}]
      /\ manual \in [c : Components, since : Nat] \cup {None}
      /\ met \in [Actors -> SUBSET Components]
  BY DEF Init
<1>5. QED BY <1>1, <1>2, <1>3, <1>4 DEF Init, TypeInv, TypeOK, InCheck

LEMMA TickType ==
  ASSUME TypeInv, Tick
  PROVE  TypeInv'
<1> USE DEF TypeInv
<1>1. {Poll, TestInterval, Gap} \subseteq Nat \ {0}
  BY IntervalAssumption
<1>2. ASSUME NEW c \in Components, NEW age \in Ages
      PROVE  /\ Aged(age, CheckAges(c), Poll) \in Ages
             /\ age # None => Aged(age, CheckAges(c), Poll) \in Nat
  <2>1. IsFiniteSet(CheckAges(c))
    BY CheckAgesFinite
  <2>2. QED BY <1>1, <2>1, AgedType
<1>3. ASSUME NEW age \in Ages
      PROVE  Aged(age, TestAges, TestInterval) \in Ages
  <2>1. IsFiniteSet(TestAges)
    BY TestAgesFinite
  <2>2. QED BY <1>1, <2>1, AgedType
<1>4. {last', newest', tested'} \subseteq [Components -> Ages]
  <2>1. ASSUME NEW c \in Components PROVE {last[c], newest[c], tested[c]} \subseteq Ages
    BY DEF TypeOK
  <2>2. last' \in [Components -> Ages]
    BY <1>2, <2>1 DEF Tick
  <2>3. newest' \in [Components -> Ages]
    BY <1>2, <2>1 DEF Tick
  <2>4. tested' \in [Components -> Ages]
    BY <1>3, <2>1 DEF Tick
  <2>5. QED BY <2>2, <2>3, <2>4
<1>5. ASSUME NEW c \in Components
      PROVE  /\ mine[c] = None => mine'[c] = None
             /\ mine[c] # None => mine'[c] \in Result
  <2>1. CASE mine[c] = None
    BY <2>1 DEF Tick
  <2>2. CASE mine[c] # None
    <3>1. mine[c].since \in Nat /\ mine[c].test \in Ages
      BY <2>2, MineType DEF Result
    <3>2. mine[c].since \in Ages /\ mine[c].since # None
      BY <3>1, NoneAssumption DEF Ages
    <3>3. Aged(mine[c].since, CheckAges(c), Poll) \in Nat
      BY <1>2, <3>2
    <3>4. Aged(mine[c].test, TestAges, TestInterval) \in Ages
      BY <1>3, <3>1
    <3>5. mine'[c] = [since |-> Aged(mine[c].since, CheckAges(c), Poll),
                      test |-> Aged(mine[c].test, TestAges, TestInterval)]
      BY <2>2 DEF Tick
    <3>6. QED BY <2>2, <3>3, <3>4, <3>5 DEF Result
  <2>3. QED BY <2>1, <2>2
<1>6. mine' \in [Components -> Result \cup {None}]
  <2>1. mine' = [c \in Components |-> mine'[c]]
    BY DEF Tick
  <2>2. QED BY <1>5, <2>1
<1>7. manual' \in [c : Components, since : Nat] \cup {None}
  <2>1. CASE manual = None
    BY <2>1 DEF Tick
  <2>2. CASE manual # None
    <3>1. manual \in [c : Components, since : Nat]
      BY <2>2 DEF TypeOK
    <3>2. manual.since \in Ages /\ manual.since # None /\ manual.c \in Components
      BY <3>1, NoneAssumption DEF Ages
    <3>3. Aged(manual.since, CheckAges(manual.c), Poll) \in Nat
      BY <1>2, <3>2
    <3>4. manual' = [manual EXCEPT !.since = Aged(manual.since, CheckAges(manual.c), Poll)]
      BY <2>2 DEF Tick
    <3>5. QED BY <3>1, <3>3, <3>4
  <2>3. QED BY <2>1, <2>2
<1>8. slot' \in 0..Gap /\ wan' \in 0..TestInterval \cup {None}
  <2>1. slot \in 0..Gap /\ Gap \in Nat /\ wan \in 0..TestInterval \cup {None} /\ TestInterval \in Nat
    BY <1>1 DEF TypeOK
  <2>2. slot' = Capped(slot, Gap) /\ wan' = Capped(wan, TestInterval)
    BY DEF Tick
  <2>3. Capped(slot, Gap) \in 0..Gap
    BY <2>1, NoneAssumption DEF Capped
  <2>4. Capped(wan, TestInterval) \in 0..TestInterval \cup {None}
    BY <2>1 DEF Capped
  <2>5. QED BY <2>2, <2>3, <2>4
<1>9. /\ pc' = IF pc = "asleep" THEN "rested" ELSE pc
      /\ UNCHANGED <<row, crossed, todo, bad, allowed, run, met, events>>
  BY DEF Tick
<1>10. TypeOK'
  BY <1>4, <1>6, <1>7, <1>8, <1>9 DEF TypeOK, Result
<1>11. InCheck'
  <2>1. SUFFICES ASSUME pc' = "check" PROVE todo' # {} /\ mine'[First(todo')] # None
    BY DEF InCheck
  <2>2. pc = "check" /\ todo' = todo
    BY <1>9, <2>1
  <2>3. todo # {} /\ mine[First(todo)] # None
    BY <2>2 DEF InCheck
  <2>4. First(todo) \in Components
    BY <2>3, FirstIsDue DEF TypeOK
  <2>5. QED BY <1>5, <2>2, <2>3, <2>4, ResultNotNone
<1>12. QED BY <1>10, <1>11

\* A commit keeps the types, whoever makes it.
LEMMA RecordType ==
  ASSUME TypeOK, NEW actor \in Actors, NEW done \in SUBSET Components, NEW result,
         \A c \in done : result[c] \in Result,
         Record(actor, done, result)
  PROVE  /\ {last', newest', tested'} \subseteq [Components -> Ages]
         /\ crossed' \subseteq Components /\ met' \in [Actors -> SUBSET Components]
<1>1. ASSUME NEW c \in done PROVE result[c].since \in Ages /\ result[c].test \in Ages
  BY DEF Result, Ages
<1>2. {last', newest', tested'} \subseteq [Components -> Ages]
  <2>1. ASSUME NEW c \in Components PROVE {last[c], newest[c], tested[c]} \subseteq Ages
    BY DEF TypeOK
  <2>2. last' \in [Components -> Ages]
    BY <1>1, <2>1 DEF Record, Stamp
  <2>3. newest' \in [Components -> Ages]
    BY <1>1, <2>1 DEF Record
  <2>4. tested' \in [Components -> Ages]
    BY <1>1, <2>1 DEF Record
  <2>5. QED BY <2>2, <2>3, <2>4
<1>3. crossed' \subseteq Components
  BY DEF Record, TypeOK
<1>4. met' \in [Actors -> SUBSET Components]
  BY DEF Record, TypeOK
<1>5. QED BY <1>2, <1>3, <1>4

LEMMA RollBackType ==
  ASSUME TypeInv, NEW next \in {"asleep", "down"}, RollBack(next),
         slot' \in 0..Gap, wan' = wan, events' \in 0..MaxEvents
  PROVE  TypeInv'
<1>1. Cardinality({}) <= 1
  BY FS_EmptySet
<1>2. met' \in [Actors -> SUBSET Components]
  BY DEF RollBack, TypeInv, TypeOK
<1>3. QED BY <1>1, <1>2 DEF RollBack, EndCycle, TypeInv, TypeOK, InCheck, dbVars

\* How a check ends, and what it does to the slot.
LEMMA EndingType ==
  ASSUME TypeOK, NEW c, NEW free, NEW e \in Endings(c, free)
  PROVE  /\ e \in [late : BOOLEAN, test : {"measured", "kept", "lost"}, slot : BOOLEAN]
         /\ TakeSlot(e) => slot' \in 0..Gap
         /\ \A r \in Result : [since |-> SinceAfter(e, r.since), test |-> TestAfter(e, r.test)] \in Result
<1>1. e \in [late : BOOLEAN, test : {"measured", "kept", "lost"}, slot : BOOLEAN]
  BY DEF Endings
<1>2. TakeSlot(e) => slot' \in 0..Gap
  BY IntervalAssumption DEF TakeSlot, TypeOK
<1>3. ASSUME NEW r \in Result PROVE SinceAfter(e, r.since) \in Nat /\ TestAfter(e, r.test) \in Ages
  BY <1>1, <1>3 DEF SinceAfter, TestAfter, Result, Ages
<1>4. QED BY <1>1, <1>2, <1>3 DEF Result


LEMMA BeginCycleType ==
  ASSUME TypeInv, BeginCycle
  PROVE  TypeInv'
BY DEF BeginCycle, TypeInv, TypeOK, InCheck, dbVars

LEMMA RunHostWanType ==
  ASSUME TypeInv, RunHostWan
  PROVE  TypeInv'
<1>1. slot' \in 0..Gap /\ wan' \in 0..TestInterval \cup {None}
  BY IntervalAssumption DEF RunHostWan, StoreBaseline, TypeInv, TypeOK
<1>2. QED BY <1>1 DEF RunHostWan, TypeInv, TypeOK, InCheck, dbVars, cycleVars

LEMMA PickType ==
  ASSUME TypeInv, Pick
  PROVE  TypeInv'
<1>1. allowed' \in SUBSET Components /\ Cardinality(allowed') <= 1
  <2> DEFINE due == {c \in todo : TestDue(c)}
  <2>1. due \subseteq Components
    BY DEF TypeInv, TypeOK
  <2>2. OldestAttempts(due) \subseteq due
    BY DEF OldestAttempts
  <2>3. allowed' = {} \/ \E c \in due : allowed' = {c}
    BY <2>2 DEF Pick
  <2>4. QED BY <2>1, <2>3, FS_EmptySet, FS_Singleton
<1>2. QED BY <1>1 DEF Pick, TypeInv, TypeOK, InCheck, dbVars

LEMMA RecalledType ==
  ASSUME TypeOK, NEW c \in Components, NEW test \in Recalled(c)
  PROVE  test \in Ages
<1>1. tested[c] \in Ages
  BY DEF TypeOK
<1>2. TestInterval \in Nat
  BY IntervalAssumption
<1>3. QED BY <1>1, <1>2 DEF Recalled, Ages

LEMMA StartCheckType ==
  ASSUME TypeInv, StartCheck
  PROVE  TypeInv'
<1> DEFINE c == First(todo)
<1>1. c \in Components /\ todo # {}
  BY FirstIsDue DEF StartCheck, TypeInv, TypeOK
<1>2. PICK test \in Recalled(c) : mine' = [mine EXCEPT ![c] = [since |-> 0, test |-> test]]
  BY DEF StartCheck
<1>3. test \in Ages
  BY <1>1, <1>2, RecalledType DEF TypeInv
<1>4. /\ mine' \in [Components -> [since : Nat, test : Ages] \cup {None}]
      /\ mine'[c] \in Result
  BY <1>1, <1>2, <1>3 DEF TypeInv, TypeOK, Result
<1>5. mine'[c] # None
  BY <1>4, ResultNotNone
<1>6. run' \in BOOLEAN
  BY DEF StartCheck
<1>7. QED BY <1>1, <1>4, <1>5, <1>6 DEF StartCheck, TypeInv, TypeOK, InCheck, dbVars

LEMMA FinishCheckType ==
  ASSUME TypeInv, FinishCheck
  PROVE  TypeInv'
<1> DEFINE c == First(todo)
<1>1. todo # {} /\ mine[c] # None /\ c \in Components
  BY FirstIsDue DEF FinishCheck, TypeInv, TypeOK, InCheck
<1>2. mine[c] \in Result
  BY <1>1, MineType DEF TypeInv
<1>3. PICK e \in Endings(c, run /\ SlotFree) :
        /\ mine' = [mine EXCEPT ![c] = [since |-> SinceAfter(e, @.since), test |-> TestAfter(e, @.test)]]
        /\ TakeSlot(e)
  BY DEF FinishCheck
<1>4. slot' \in 0..Gap /\ [since |-> SinceAfter(e, mine[c].since), test |-> TestAfter(e, mine[c].test)] \in Result
  BY <1>2, <1>3, EndingType DEF TypeInv
<1>5. mine' \in [Components -> [since : Nat, test : Ages] \cup {None}]
  BY <1>1, <1>3, <1>4 DEF TypeInv, TypeOK, Result
<1>6. QED BY <1>4, <1>5 DEF FinishCheck, TypeInv, TypeOK, InCheck, dbVars

\* What the worker commits are results.
LEMMA LockedResults ==
  ASSUME TypeOK
  PROVE  Locked \in SUBSET Components /\ \A c \in Locked : mine[c] \in Result
BY MineType DEF Locked

LEMMA CommitType ==
  ASSUME TypeInv, Commit
  PROVE  TypeInv'
<1>1. Record("worker", Locked, mine) /\ "worker" \in Actors
  BY DEF Commit, Actors
<1>2. /\ {last', newest', tested'} \subseteq [Components -> Ages]
      /\ crossed' \subseteq Components /\ met' \in [Actors -> SUBSET Components]
  BY <1>1, LockedResults, RecordType DEF TypeInv
<1>3. Cardinality({}) <= 1
  BY FS_EmptySet
<1>4. QED BY <1>2, <1>3 DEF Commit, EndCycle, TypeInv, TypeOK, InCheck

LEMMA CheckRaisesType ==
  ASSUME TypeInv, CheckRaises
  PROVE  TypeInv'
<1>1. RollBack("asleep") /\ UNCHANGED <<wan, events>>
  BY DEF CheckRaises
<1>2. slot' \in 0..Gap /\ events' \in 0..MaxEvents
  BY <1>1, IntervalAssumption DEF CheckRaises, TypeInv, TypeOK
<1>3. QED BY <1>1, <1>2, RollBackType

LEMMA ComponentVanishedType ==
  ASSUME TypeInv, ComponentVanished
  PROVE  TypeInv'
<1>1. RollBack("asleep") /\ UNCHANGED <<wan, events>>
  BY DEF ComponentVanished
<1>2. PICK e \in Endings(First(todo), run /\ SlotFree) : TakeSlot(e)
  BY DEF ComponentVanished
<1>3. slot' \in 0..Gap
  BY <1>2, EndingType DEF TypeInv
<1>4. events' \in 0..MaxEvents
  BY <1>1 DEF TypeInv, TypeOK
<1>5. QED BY <1>1, <1>3, <1>4, RollBackType

LEMMA EventType ==
  ASSUME TypeOK, Event
  PROVE  events' \in 0..MaxEvents
BY BoundAssumption DEF TypeOK, Event

LEMMA CycleFailsType ==
  ASSUME TypeInv, CycleFails
  PROVE  TypeInv'
<1>1. PICK next \in {"asleep", "down"} : RollBack(next)
  BY DEF CycleFails
<1>2. slot' \in 0..Gap /\ wan' = wan
  BY DEF CycleFails, TypeInv, TypeOK
<1>3. events' \in 0..MaxEvents
  BY EventType DEF CycleFails, TypeInv
<1>4. QED BY <1>1, <1>2, <1>3, RollBackType

LEMMA RestartType ==
  ASSUME TypeInv, Restart
  PROVE  TypeInv'
BY IntervalAssumption DEF Restart, TypeInv, TypeOK, InCheck, dbVars, cycleVars

LEMMA RequestCheckType ==
  ASSUME TypeInv, RequestCheck
  PROVE  TypeInv'
<1>1. events' \in 0..MaxEvents
  BY EventType DEF RequestCheck, TypeInv
<1>2. manual' \in [c : Components, since : Nat] \cup {None}
  BY DEF RequestCheck
<1>3. QED BY <1>1, <1>2 DEF RequestCheck, TypeInv, TypeOK, InCheck, dbVars, cycleVars

\* What the manual check commits: a result that is not older than the check.
ManualResult(since, test) == [c \in {manual.c} |-> [since |-> since, test |-> test]]

LEMMA RecordManualCases ==
  ASSUME TypeOK, RecordManual
  PROVE  /\ manual \in [c : Components, since : Nat]
         /\ \/ /\ met' = [met EXCEPT !["manual"] = {}]
               /\ UNCHANGED <<last, newest, tested, crossed>>
            \/ \E since \in 0..manual.since, test \in Ages :
                 Record("manual", {manual.c}, ManualResult(since, test))
<1>1. manual \in [c : Components, since : Nat]
  BY DEF RecordManual, TypeOK
<1>2. {None} \subseteq Ages /\ 0..TestInterval \subseteq Ages
  BY IntervalAssumption DEF Ages
<1>3. QED BY <1>1, <1>2 DEF RecordManual, ManualResult

LEMMA RecordManualType ==
  ASSUME TypeInv, RecordManual
  PROVE  TypeInv'
<1>1. /\ {last', newest', tested'} \subseteq [Components -> Ages]
      /\ crossed' \subseteq Components /\ met' \in [Actors -> SUBSET Components]
  <2>1. CASE met' = [met EXCEPT !["manual"] = {}] /\ UNCHANGED <<last, newest, tested, crossed>>
    BY <2>1 DEF TypeInv, TypeOK
  <2>2. ASSUME NEW since \in 0..manual.since, NEW test \in Ages,
               Record("manual", {manual.c}, ManualResult(since, test))
        PROVE  /\ {last', newest', tested'} \subseteq [Components -> Ages]
               /\ crossed' \subseteq Components /\ met' \in [Actors -> SUBSET Components]
    <3>1. manual.c \in Components /\ since \in Nat
      BY RecordManualCases DEF TypeInv
    <3>2. \A c \in {manual.c} : ManualResult(since, test)[c] \in Result
      BY <3>1 DEF ManualResult, Result
    <3> DEFINE done == {manual.c}
               result == ManualResult(since, test)
    <3>3. TypeOK /\ "manual" \in Actors /\ done \in SUBSET Components
      BY <3>1 DEF TypeInv, Actors
    <3>4. Record("manual", done, result) /\ \A c \in done : result[c] \in Result
      BY <2>2, <3>2
    <3> HIDE DEF done, result
    <3>5. QED BY <3>3, <3>4, RecordType
  <2>3. QED BY <2>1, <2>2, RecordManualCases DEF TypeInv
<1>2. QED BY <1>1 DEF RecordManual, TypeInv, TypeOK, InCheck, cycleVars

LEMMA ManualRaisesType ==
  ASSUME TypeInv, ManualRaises
  PROVE  TypeInv'
BY DEF ManualRaises, TypeInv, TypeOK, InCheck, dbVars, cycleVars

LEMMA EditsType ==
  ASSUME TypeInv, EditComponent \/ DeleteComponent \/ PurgeHistory
  PROVE  TypeInv'
<1>1. events' \in 0..MaxEvents
  BY EventType DEF EditComponent, DeleteComponent, PurgeHistory, TypeInv
<1>2. None \in Ages
  BY DEF Ages
<1>3. CASE EditComponent
  <2>1. row' \in [Components -> {"active", "inactive", "broken", "gone"}]
    BY <1>3 DEF EditComponent, Patches, TypeInv, TypeOK
  <2>2. QED BY <1>1, <1>3, <2>1 DEF EditComponent, TypeInv, TypeOK, InCheck, cycleVars
<1>4. CASE DeleteComponent
  <2>1. row' \in [Components -> {"active", "inactive", "broken", "gone"}]
    BY <1>4 DEF DeleteComponent, TypeInv, TypeOK
  <2>2. {last', newest', tested'} \subseteq [Components -> Ages] /\ crossed' \subseteq Components
    BY <1>2, <1>4 DEF DeleteComponent, TypeInv, TypeOK
  <2>3. QED BY <1>1, <1>4, <2>1, <2>2 DEF DeleteComponent, TypeInv, TypeOK, InCheck, cycleVars
<1>5. CASE PurgeHistory
  <2>1. {last', newest', tested'} \subseteq [Components -> Ages]
    BY <1>2, <1>5 DEF PurgeHistory, TypeInv, TypeOK
  <2>2. QED BY <1>1, <1>5, <2>1 DEF PurgeHistory, TypeInv, TypeOK, InCheck, cycleVars
<1>6. QED BY <1>3, <1>4, <1>5

LEMMA TypeStep == TypeInv /\ [Next]_vars => TypeInv'
<1>1. CASE Tick
  BY <1>1, TickType
<1>2. CASE WorkerStep
  BY <1>2, BeginCycleType, RunHostWanType, PickType, StartCheckType, FinishCheckType, CommitType,
     CheckRaisesType, ComponentVanishedType, RestartType DEF WorkerStep
<1>3. CASE CycleFails
  BY <1>3, CycleFailsType
<1>4. CASE AdminStep
  BY <1>4, RequestCheckType, RecordManualType, ManualRaisesType, EditsType DEF AdminStep
<1>5. CASE UNCHANGED vars
  BY <1>5 DEF vars, dbVars, cycleVars, TypeInv, TypeOK, InCheck
<1>6. QED BY <1>1, <1>2, <1>3, <1>4, <1>5 DEF Next

\* The variables of the scheduler, the manual check and the rows keep their types.
THEOREM TypeCorrect == Spec => []TypeOK
<1>1. TypeInv => TypeOK
  BY DEF TypeInv
<1>2. QED BY <1>1, InitType, TypeStep, PTL DEF Spec


----------------------------------------------------------------------------
(* The next check is counted from the newest result.                       *)

\* A check in progress that began before the newest result was written has met
\* the one that wrote it.
WorkerMet == \A c \in Components :
  mine[c] # None /\ newest[c] # None /\ mine[c].since > newest[c] => c \in met["worker"]
ManualMet ==
  manual # None /\ newest[manual.c] # None /\ manual.since > newest[manual.c] => manual.c \in met["manual"]

MetInv == WorkerMet /\ ManualMet
IInv == TypeInv /\ MetInv /\ LastCheckedIsNewest

LEMMA NewestType ==
  ASSUME TypeOK, NEW c \in Components, newest[c] # None
  PROVE  newest[c] \in Nat
BY DEF TypeOK, Ages

LEMMA LastType ==
  ASSUME TypeOK, NEW c \in Components, last[c] # None
  PROVE  last[c] \in Nat
BY DEF TypeOK, Ages

\* Two packed ages are in an order only if the ages were.
LEMMA AgedReflectsOrder ==
  ASSUME TypeOK, NEW c \in Components, NEW a \in Nat, NEW b \in Ages,
         Aged(b, CheckAges(c), Poll) # None, Aged(a, CheckAges(c), Poll) > Aged(b, CheckAges(c), Poll)
  PROVE  b # None /\ a > b
<1>1. Poll \in Nat \ {0} /\ IsFiniteSet(CheckAges(c)) /\ CheckAges(c) \in SUBSET Ages
  BY IntervalAssumption, CheckAgesFinite
<1>2. b # None
  BY DEF Aged
<1>3. b \in Nat
  BY <1>2, KnownAges
<1>4. a \in Ages /\ a # None
  BY NoneAssumption DEF Ages
<1>5. Aged(a, CheckAges(c), Poll) \in Nat /\ Aged(b, CheckAges(c), Poll) \in Nat
  BY <1>1, <1>2, <1>4, AgedType
<1>6. a <= b => Aged(a, CheckAges(c), Poll) <= Aged(b, CheckAges(c), Poll)
  BY <1>1, <1>3, AgedKeepsOrder
<1> DEFINE x == Aged(a, CheckAges(c), Poll)
           y == Aged(b, CheckAges(c), Poll)
<1> HIDE DEF x, y
<1>7. x \in Nat /\ y \in Nat /\ x > y /\ (a <= b => x <= y)
  BY <1>5, <1>6 DEF x, y
<1>8. QED BY <1>2, <1>3, <1>7

LEMMA TickMet ==
  ASSUME IInv, Tick
  PROVE  MetInv' /\ LastCheckedIsNewest'
<1> USE DEF IInv, TypeInv, MetInv
<1>1. ASSUME NEW c \in Components
      PROVE  /\ last'[c] = Aged(last[c], CheckAges(c), Poll)
             /\ newest'[c] = Aged(newest[c], CheckAges(c), Poll)
             /\ newest[c] \in Ages
  BY DEF Tick, TypeOK
<1>2. UNCHANGED <<met, crossed>>
  BY DEF Tick
<1>3. LastCheckedIsNewest'
  <2> SUFFICES ASSUME NEW c \in Components, newest'[c] # None
               PROVE  /\ last'[c] # None /\ last'[c] >= newest'[c]
                      /\ c \notin crossed => last'[c] = newest'[c]
    BY <1>2 DEF LastCheckedIsNewest
  <2>1. newest[c] # None
    BY <1>1 DEF Aged
  <2>2. /\ last[c] # None /\ last[c] >= newest[c]
        /\ c \notin crossed => last[c] = newest[c]
    BY <2>1 DEF LastCheckedIsNewest
  <2>3. newest[c] \in Nat /\ last[c] \in Nat
    BY <2>1, <2>2, NewestType, LastType
  <2>4. last'[c] \in Nat /\ last'[c] # None /\ newest'[c] <= last'[c]
    <3>1. Poll \in Nat \ {0} /\ IsFiniteSet(CheckAges(c)) /\ CheckAges(c) \in SUBSET Ages
      BY IntervalAssumption, CheckAgesFinite
    <3>2. newest'[c] <= last'[c]
      BY <1>1, <2>2, <2>3, <3>1, AgedKeepsOrder
    <3>3. last'[c] \in Nat
      BY <1>1, <2>2, <2>3, <3>1, AgedType DEF Ages
    <3>4. QED BY <3>2, <3>3, NoneAssumption
  <2>5. newest'[c] \in Nat
    <3>1. IsFiniteSet(CheckAges(c)) /\ Poll \in Nat \ {0}
      BY IntervalAssumption, CheckAgesFinite
    <3>2. QED BY <1>1, <2>1, <2>3, <3>1, AgedType DEF Ages
  <2>6. last'[c] >= newest'[c]
    BY <2>4, <2>5
  <2>7. c \notin crossed => last'[c] = newest'[c]
    BY <1>1, <2>2
  <2>8. QED BY <2>4, <2>6, <2>7
<1>4. WorkerMet'
  <2> SUFFICES ASSUME NEW c \in Components, mine'[c] # None, newest'[c] # None, mine'[c].since > newest'[c]
               PROVE  c \in met["worker"]
    BY <1>2 DEF WorkerMet
  <2>1. mine[c] # None
    BY DEF Tick
  <2>2. mine'[c].since = Aged(mine[c].since, CheckAges(c), Poll)
    BY <2>1 DEF Tick
  <2>3. mine[c].since \in Nat
    BY <2>1, MineType DEF Result
  <2>4. newest[c] # None /\ mine[c].since > newest[c]
    BY <1>1, <2>2, <2>3, AgedReflectsOrder
  <2>5. QED BY <2>1, <2>4 DEF WorkerMet
<1>5. ManualMet'
  <2> SUFFICES ASSUME manual' # None, newest'[manual'.c] # None, manual'.since > newest'[manual'.c]
               PROVE  manual'.c \in met["manual"]
    BY <1>2 DEF ManualMet
  <2>1. manual # None
    BY DEF Tick
  <2>2. manual \in [c : Components, since : Nat]
    BY <2>1 DEF TypeOK
  <2>3. manual' = [manual EXCEPT !.since = Aged(manual.since, CheckAges(manual.c), Poll)]
    BY <2>1 DEF Tick
  <2>4. manual'.c = manual.c /\ manual'.since = Aged(manual.since, CheckAges(manual.c), Poll)
    BY <2>2, <2>3
  <2>5. newest[manual.c] # None /\ manual.since > newest[manual.c]
    BY <1>1, <2>2, <2>4, AgedReflectsOrder
  <2>6. QED BY <2>1, <2>4, <2>5 DEF ManualMet
<1>6. QED BY <1>3, <1>4, <1>5

\* A commit of results that either are the newest or have met a newer one
\* leaves last_checked_at with the newest, and tells the other actor.
LEMMA RecordMet ==
  ASSUME TypeOK, LastCheckedIsNewest, NEW actor \in Actors, NEW done \in SUBSET Components,
         NEW result, \A c \in done : result[c] \in Result,
         \A c \in done : newest[c] # None /\ result[c].since > newest[c] => c \in met[actor],
         Record(actor, done, result)
  PROVE  /\ LastCheckedIsNewest'
         /\ \A p \in Actors \ {actor} : met[p] \subseteq met'[p]
         /\ \A p \in Actors \ {actor}, c \in Components :
              newest'[c] # newest[c] /\ InProgress(p, c) => c \in met'[p]
<1>1. LastCheckedIsNewest'
  <2> SUFFICES ASSUME NEW c \in Components, newest'[c] # None
               PROVE  /\ last'[c] # None /\ last'[c] >= newest'[c]
                      /\ c \notin crossed' => last'[c] = newest'[c]
    BY DEF LastCheckedIsNewest
  <2>1. CASE c \notin done
    <3>1. last'[c] = last[c] /\ newest'[c] = newest[c] /\ (c \notin crossed' => c \notin crossed)
      BY <2>1 DEF Record
    <3>2. QED BY <3>1 DEF LastCheckedIsNewest
  <2>2. CASE c \in done
    <3>1. c \notin crossed' => c \notin met[actor]
      BY <2>2 DEF Record
    <3>2. result[c].since \in Nat /\ result[c].since # None
      BY <2>2, NoneAssumption DEF Result
    <3>3. newest[c] # None => newest[c] \in Nat
      BY NewestType
    <3>4. last'[c] = result[c].since
      BY <2>2 DEF Record, Stamp
    <3>5. c \notin crossed' => Newer(result[c].since, newest[c])
      BY <2>2, <3>1, <3>2, <3>3 DEF Newer
    <3>6. CASE Newer(result[c].since, newest[c])
      <4>1. newest'[c] = result[c].since
        BY <2>2, <3>6 DEF Record
      <4>2. QED BY <3>2, <3>4, <4>1
    <3>7. CASE ~Newer(result[c].since, newest[c])
      <4>1. newest'[c] = newest[c]
        BY <2>2, <3>7 DEF Record
      <4>2. newest[c] # None /\ ~(result[c].since <= newest[c])
        BY <3>7 DEF Newer
      <4>3. QED BY <3>2, <3>3, <3>4, <3>5, <3>7, <4>1, <4>2
    <3>8. QED BY <3>6, <3>7
  <2>3. QED BY <2>1, <2>2
<1>2. ASSUME NEW p \in Actors \ {actor}
      PROVE  met'[p] = met[p] \cup {c \in done : InProgress(p, c)}
  BY DEF Record
<1>3. ASSUME NEW c \in Components, newest'[c] # newest[c] PROVE c \in done
  BY <1>3 DEF Record
<1>4. QED BY <1>1, <1>2, <1>3

LEMMA CommitMet ==
  ASSUME IInv, Commit
  PROVE  MetInv' /\ LastCheckedIsNewest'
<1> USE DEF IInv, TypeInv, MetInv
<1>1. Record("worker", Locked, mine) /\ "worker" \in Actors /\ "manual" \in Actors \ {"worker"}
  BY DEF Commit, Actors
<1>2. \A c \in Locked : newest[c] # None /\ mine[c].since > newest[c] => c \in met["worker"]
  BY DEF Locked, WorkerMet
<1>3. /\ LastCheckedIsNewest'
      /\ met["manual"] \subseteq met'["manual"]
      /\ \A c \in Components : newest'[c] # newest[c] /\ InProgress("manual", c) => c \in met'["manual"]
  BY <1>1, <1>2, LockedResults, RecordMet
<1>4. WorkerMet'
  BY DEF Commit, EndCycle, WorkerMet
<1>5. ManualMet'
  <2> SUFFICES ASSUME manual # None, newest'[manual.c] # None, manual.since > newest'[manual.c]
               PROVE  manual.c \in met'["manual"]
    BY DEF ManualMet, Commit
  <2>1. manual.c \in Components /\ InProgress("manual", manual.c)
    BY DEF TypeOK, InProgress, Manual
  <2>2. CASE newest'[manual.c] = newest[manual.c]
    BY <1>3, <2>2 DEF ManualMet
  <2>3. CASE newest'[manual.c] # newest[manual.c]
    BY <1>3, <2>1, <2>3
  <2>4. QED BY <2>2, <2>3
<1>6. QED BY <1>3, <1>4, <1>5

LEMMA RecordManualMet ==
  ASSUME IInv, RecordManual
  PROVE  MetInv' /\ LastCheckedIsNewest'
<1> USE DEF IInv, TypeInv, MetInv
<1>1. manual \in [c : Components, since : Nat] /\ manual # None /\ manual' = None /\ mine' = mine
  BY RecordManualCases DEF RecordManual, cycleVars
<1>2. ManualMet'
  BY <1>1 DEF ManualMet
<1>3. CASE met' = [met EXCEPT !["manual"] = {}] /\ UNCHANGED <<last, newest, tested, crossed>>
  <2>1. met'["worker"] = met["worker"]
    BY <1>3 DEF TypeOK, Actors
  <2>2. QED BY <1>1, <1>2, <1>3, <2>1 DEF WorkerMet, LastCheckedIsNewest
<1>4. ASSUME NEW since \in 0..manual.since, NEW test \in Ages,
             Record("manual", {manual.c}, ManualResult(since, test))
      PROVE  MetInv' /\ LastCheckedIsNewest'
  <2> DEFINE done == {manual.c}
             result == ManualResult(since, test)
  <2>1. "manual" \in Actors /\ "worker" \in Actors \ {"manual"} /\ done \in SUBSET Components
    BY <1>1 DEF Actors
  <2>2. \A c \in done : result[c] = [since |-> since, test |-> test]
    BY DEF ManualResult
  <2>3. since \in Nat /\ since <= manual.since /\ manual.since \in Nat
    BY <1>1
  <2>4. \A c \in done : result[c] \in Result
    BY <2>2, <2>3 DEF Result
  <2>5. ASSUME newest[manual.c] # None, since > newest[manual.c] PROVE manual.c \in met["manual"]
    <3>1. newest[manual.c] \in Nat
      BY <1>1, <2>5, NewestType
    <3>2. manual.since > newest[manual.c]
      BY <2>3, <2>5, <3>1
    <3>3. QED BY <1>1, <2>5, <3>2 DEF ManualMet
  <2>6. \A c \in done : newest[c] # None /\ result[c].since > newest[c] => c \in met["manual"]
    BY <2>2, <2>5
  <2>7. Record("manual", done, result)
    BY <1>4
  <2> HIDE DEF done, result
  <2>8. /\ LastCheckedIsNewest'
        /\ met["worker"] \subseteq met'["worker"]
        /\ \A c \in Components : newest'[c] # newest[c] /\ InProgress("worker", c) => c \in met'["worker"]
    BY <2>1, <2>4, <2>6, <2>7, RecordMet
  <2>9. WorkerMet'
    <3> SUFFICES ASSUME NEW c \in Components, mine[c] # None, newest'[c] # None, mine[c].since > newest'[c]
                 PROVE  c \in met'["worker"]
      BY <1>1 DEF WorkerMet
    <3>1. InProgress("worker", c)
      BY DEF InProgress
    <3>2. CASE newest'[c] = newest[c]
      BY <2>8, <3>2 DEF WorkerMet
    <3>3. CASE newest'[c] # newest[c]
      BY <2>8, <3>1, <3>3
    <3>4. QED BY <3>2, <3>3
  <2>10. QED BY <1>2, <2>8, <2>9
<1>5. QED BY <1>3, <1>4, RecordManualCases


LEMMA StartCheckMet ==
  ASSUME IInv, StartCheck
  PROVE  MetInv' /\ LastCheckedIsNewest'
<1> USE DEF IInv, TypeInv, MetInv
<1> DEFINE c == First(todo)
<1>1. c \in Components
  BY FirstIsDue DEF StartCheck, TypeOK
<1>2. UNCHANGED <<last, newest, crossed, manual, met>>
  BY DEF StartCheck, dbVars
<1>3. PICK test \in Recalled(c) : mine' = [mine EXCEPT ![c] = [since |-> 0, test |-> test]]
  BY DEF StartCheck
<1>4. ASSUME NEW d \in Components, mine'[d] # None, newest[d] # None, mine'[d].since > newest[d]
      PROVE  d \in met["worker"]
  <2>1. CASE d = c
    <3>1. mine'[d] = [since |-> 0, test |-> test]
      BY <1>1, <1>3, <2>1 DEF TypeOK
    <3>2. newest[d] \in Nat
      BY <1>4, NewestType
    <3>3. QED BY <1>4, <3>1, <3>2
  <2>2. CASE d # c
    BY <1>3, <1>4, <2>2 DEF TypeOK, WorkerMet
  <2>3. QED BY <2>1, <2>2
<1>5. WorkerMet'
  BY <1>2, <1>4 DEF WorkerMet
<1>6. ManualMet' /\ LastCheckedIsNewest'
  BY <1>2 DEF ManualMet, LastCheckedIsNewest
<1>7. QED BY <1>5, <1>6

LEMMA FinishCheckMet ==
  ASSUME IInv, FinishCheck
  PROVE  MetInv' /\ LastCheckedIsNewest'
<1> USE DEF IInv, TypeInv, MetInv
<1> DEFINE c == First(todo)
<1>1. mine[c] # None /\ c \in Components
  BY FirstIsDue DEF FinishCheck, TypeOK, InCheck
<1>2. mine[c] \in Result
  BY <1>1, MineType
<1>3. UNCHANGED <<last, newest, crossed, manual, met>>
  BY DEF FinishCheck, dbVars
<1>4. PICK e \in Endings(c, run /\ SlotFree) :
        mine' = [mine EXCEPT ![c] = [since |-> SinceAfter(e, @.since), test |-> TestAfter(e, @.test)]]
  BY DEF FinishCheck
<1>5. ASSUME NEW d \in Components, mine'[d] # None, newest[d] # None, mine'[d].since > newest[d]
      PROVE  d \in met["worker"]
  <2>1. CASE d = c
    <3>1. mine'[d].since \in {0, mine[d].since}
      BY <1>1, <1>4, <2>1 DEF TypeOK, SinceAfter
    <3>2. newest[d] \in Nat
      BY <1>5, NewestType
    <3>3. mine[d].since > newest[d]
      BY <1>5, <3>1, <3>2
    <3>4. QED BY <1>1, <1>5, <2>1, <3>3 DEF WorkerMet
  <2>2. CASE d # c
    BY <1>4, <1>5, <2>2 DEF TypeOK, WorkerMet
  <2>3. QED BY <2>1, <2>2
<1>6. WorkerMet'
  BY <1>3, <1>5 DEF WorkerMet
<1>7. ManualMet' /\ LastCheckedIsNewest'
  BY <1>3 DEF ManualMet, LastCheckedIsNewest
<1>8. QED BY <1>6, <1>7

LEMMA RollBackMet ==
  ASSUME IInv, NEW next, RollBack(next)
  PROVE  MetInv' /\ LastCheckedIsNewest'
<1> USE DEF IInv, TypeInv, MetInv
<1>1. UNCHANGED <<last, newest, crossed, manual>> /\ met'["manual"] = met["manual"]
  BY DEF RollBack, dbVars, TypeOK, Actors
<1>2. \A c \in Components : mine'[c] = None
  BY DEF RollBack, EndCycle
<1>3. QED BY <1>1, <1>2 DEF WorkerMet, ManualMet, LastCheckedIsNewest

\* Steps that neither check nor write a result.
LEMMA QuietMet ==
  ASSUME IInv, UNCHANGED <<last, newest, crossed, mine, manual, met>>
  PROVE  MetInv' /\ LastCheckedIsNewest'
BY DEF IInv, MetInv, WorkerMet, ManualMet, LastCheckedIsNewest

LEMMA RequestCheckMet ==
  ASSUME IInv, RequestCheck
  PROVE  MetInv' /\ LastCheckedIsNewest'
<1> USE DEF IInv, TypeInv, MetInv
<1>1. UNCHANGED <<last, newest, crossed, mine, met>>
  BY DEF RequestCheck, dbVars, cycleVars
<1>2. PICK c \in Components : manual' = [c |-> c, since |-> 0]
  BY DEF RequestCheck
<1>3. newest[c] # None => ~(0 > newest[c])
  BY NewestType
<1>4. manual'.c = c /\ manual'.since = 0
  BY <1>2
<1>5. ManualMet'
  BY <1>1, <1>3, <1>4 DEF ManualMet
<1>6. QED BY <1>1, <1>5 DEF WorkerMet, LastCheckedIsNewest

LEMMA ManualRaisesMet ==
  ASSUME IInv, ManualRaises
  PROVE  MetInv' /\ LastCheckedIsNewest'
<1> USE DEF IInv, TypeInv, MetInv
<1>1. UNCHANGED <<last, newest, crossed, mine>> /\ manual' = None /\ met'["worker"] = met["worker"]
  BY DEF ManualRaises, dbVars, cycleVars, TypeOK, Actors
<1>2. QED BY <1>1 DEF WorkerMet, ManualMet, LastCheckedIsNewest

LEMMA DeletionMet ==
  ASSUME IInv, DeleteComponent \/ PurgeHistory
  PROVE  MetInv' /\ LastCheckedIsNewest'
<1> USE DEF IInv, TypeInv, MetInv
<1>1. UNCHANGED <<mine, manual, met>>
  BY DEF DeleteComponent, PurgeHistory, cycleVars
<1>2. PICK c \in Components :
        /\ newest' = [newest EXCEPT ![c] = None]
        /\ \A d \in Components \ {c} : last'[d] = last[d] /\ (d \in crossed' <=> d \in crossed)
  BY DEF DeleteComponent, PurgeHistory, TypeOK
<1>3. \A d \in Components : newest'[d] # None => d # c /\ newest'[d] = newest[d]
  BY <1>2 DEF TypeOK
<1>4. manual # None => manual.c \in Components
  BY DEF TypeOK
<1>5. WorkerMet' /\ LastCheckedIsNewest'
  BY <1>1, <1>2, <1>3 DEF WorkerMet, LastCheckedIsNewest
<1>6. ManualMet'
  BY <1>1, <1>3, <1>4 DEF ManualMet
<1>7. QED BY <1>5, <1>6

LEMMA InvStep == IInv /\ [Next]_vars => IInv'
<1> SUFFICES ASSUME IInv, [Next]_vars PROVE IInv'
  OBVIOUS
<1>1. TypeInv'
  BY TypeStep DEF IInv
<1>2. MetInv' /\ LastCheckedIsNewest'
  <2>1. CASE Tick
    BY <2>1, TickMet
  <2>2. CASE BeginCycle \/ RunHostWan \/ Pick \/ Restart \/ EditComponent
    <3>1. UNCHANGED <<last, newest, crossed, mine, manual, met>>
      BY <2>2 DEF BeginCycle, RunHostWan, Pick, Restart, EditComponent, dbVars, cycleVars
    <3>2. QED BY <3>1, QuietMet
  <2>3. CASE StartCheck \/ FinishCheck \/ Commit
    BY <2>3, StartCheckMet, FinishCheckMet, CommitMet
  <2>4. CASE CheckRaises \/ ComponentVanished \/ CycleFails
    <3>1. \E next \in {"asleep", "down"} : RollBack(next)
      BY <2>4 DEF CheckRaises, ComponentVanished, CycleFails
    <3>2. QED BY <3>1, RollBackMet
  <2>5. CASE RequestCheck \/ RecordManual
    BY <2>5, RequestCheckMet, RecordManualMet
  <2>6. CASE ManualRaises \/ DeleteComponent \/ PurgeHistory
    BY <2>6, ManualRaisesMet, DeletionMet
  <2>7. CASE UNCHANGED vars
    <3>1. UNCHANGED <<last, newest, crossed, mine, manual, met>>
      BY <2>7 DEF vars, dbVars, cycleVars
    <3>2. QED BY <3>1, QuietMet
  <2>8. QED BY <2>1, <2>2, <2>3, <2>4, <2>5, <2>6, <2>7 DEF Next, WorkerStep, AdminStep
<1>3. QED BY <1>1, <1>2 DEF IInv

LEMMA InvInit == Init => IInv
<1> SUFFICES ASSUME Init PROVE IInv
  OBVIOUS
<1>1. TypeInv
  BY InitType
<1>2. /\ \A c \in Components : mine[c] = None /\ newest[c] = None
      /\ manual = None
  BY DEF Init
<1>3. QED BY <1>1, <1>2 DEF IInv, MetInv, WorkerMet, ManualMet, LastCheckedIsNewest

\* The inductive invariant: types, and who has met whom.
THEOREM InductiveInvariant == Spec => []IInv
BY InvInit, InvStep, PTL DEF Spec

\* last_checked_at is never later than the newest result of a component, and is
\* its time when the last recorded check did not overlap another one, for any
\* number of crashes, roll-backs, deletions, purges and manual checks.
THEOREM LastCheckedCorrect == Spec => []LastCheckedIsNewest
<1>1. IInv => LastCheckedIsNewest
  BY DEF IInv
<1>2. QED BY <1>1, InductiveInvariant, PTL

=============================================================================
