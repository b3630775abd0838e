----------------------- MODULE SpeedTestMemory_proofs -----------------------
(***************************************************************************)
(* Proofs about SpeedTestMemory, for any components, interval, back-off,   *)
(* gap and length of time: the safety properties of the run SpeedMemory.   *)
(***************************************************************************)
EXTENDS SpeedViews, TLAPS

----------------------------------------------------------------------------
(* What a row, the older row and a context know of a series whose newest   *)
(* success was at lg and which has n samples                               *)

Counted(lg, n) == lg = Never <=> n = 0

RowKnows(s, lg, n) ==
  /\ LastSuccess(s) \in {Never, lg}
  /\ LastSuccess(s) # Never => Samples(s) = n
  /\ LastSuccess(s) = Never => Samples(s) = 0
  /\ s.test.result = "good" => s.test.at # Never
  /\ s.test = NoTest => s = NoSeries
  /\ lg # Never /\ s.test # NoTest => s.test.result = "good" \/ s.test.live

HistoryKnows(s, lg, n) == LastSuccess(s) = lg /\ Samples(s) = n

MemoryKnows(s, lg, n) ==
  /\ s.success = lg /\ s.stats = n
  /\ s.test.result = "good" => s.test.at # Never /\ lg # Never
  /\ s.attempt = NoTest \/ s.attempt.live
  /\ s.test.live => s.attempt.live

LEMMA NoSeriesKnows ==
  ASSUME NEW lg \in Nat, NEW n \in Nat
  PROVE  /\ NoSeries \in Series
         /\ RowKnows(NoSeries, lg, n)
         /\ LastSuccess(NoSeries) = Never /\ LastLive(NoSeries) = NoTest
         /\ NoSeries.test = NoTest /\ ~NoTest.live
  BY DEF NoSeries, Series, NoTest, RowKnows, LastSuccess, Samples, Never, LastLive

\* Whatever LastLive returns was measured, not copied.
LEMMA LastLiveIsLive ==
  ASSUME NEW s \in Series
  PROVE  /\ LastLive(s) \in Tests \cup {NoTest}
         /\ LastLive(s) = NoTest \/ LastLive(s).live
         /\ s.test.live => LastLive(s).live
  BY DEF LastLive, Series

LEMMA RememberIsSeries ==
  ASSUME NEW latest0 \in SpeedRows, NEW history0 \in SpeedRows, NEW f \in Families
  PROVE  Remember(latest0, history0, f) \in Series
<1> DEFINE older == IF LastSuccess(latest0["down"]) = Never THEN history0[f] ELSE NoSeries
<1>1. latest0[f] \in Series /\ history0[f] \in Series
  BY DEF SpeedRows
<1>2. older \in Series
  BY <1>1, NoSeriesKnows
<1>3. \A s \in Series : LastSuccess(s) \in Nat /\ Samples(s) \in Nat
  BY DEF Series, LastSuccess, Samples, Tests, NoTest, Never
<1>4. LastLive(latest0[f]) \in Tests \cup {NoTest} /\ latest0[f].test \in Tests \cup {NoTest}
  BY <1>1, LastLiveIsLive DEF Series
<1> QED
  BY <1>1, <1>2, <1>3, <1>4 DEF Remember, Series

\* What the next check takes from the rows is all there is to know.
LEMMA RememberKnows ==
  ASSUME NEW latest0 \in SpeedRows, NEW history0 \in SpeedRows,
         NEW lg \in Nat, NEW n \in Nat, Counted(lg, n),
         RowKnows(latest0["down"], lg, n), HistoryKnows(history0["down"], lg, n)
  PROVE  MemoryKnows(Remember(latest0, history0, "down"), lg, n)
<1>1. latest0["down"] \in Series /\ history0["down"] \in Series /\ "down" \in Families
  BY DEF SpeedRows, Families
<1> DEFINE s == latest0["down"]
           m == Remember(latest0, history0, "down")
<1>2. m.success = lg /\ m.stats = n
  BY DEF Remember, RowKnows, HistoryKnows, Counted, Never
<1>3. m.test = s.test /\ m.attempt = LastLive(s)
  BY DEF Remember
<1>4. s.test.result = "good" => s.test.at # Never /\ lg # Never
  BY DEF RowKnows, LastSuccess
<1> QED
  BY <1>1, <1>2, <1>3, <1>4, LastLiveIsLive DEF MemoryKnows

\* The copy of a test that a cached row shows.
LEMMA CopyIsTest ==
  ASSUME NEW t \in Tests
  PROVE  /\ [t EXCEPT !.live = FALSE] \in Tests
         /\ ~[t EXCEPT !.live = FALSE].live
         /\ [t EXCEPT !.live = FALSE].result = t.result
         /\ [t EXCEPT !.live = FALSE].at = t.at
  BY DEF Tests

\* A cached row carries it over.
LEMMA CachedKnows ==
  ASSUME NEW m \in Series, NEW lg \in Nat, NEW n \in Nat, Counted(lg, n),
         MemoryKnows(m, lg, n)
  PROVE  /\ ApplyCached(m) \in Series
         /\ RowKnows(ApplyCached(m), lg, n)
         /\ LastSuccess(ApplyCached(m)) # Never => HistoryKnows(ApplyCached(m), lg, n)
         /\ LastLive(ApplyCached(m)) = m.attempt
         /\ ApplyCached(m).test # NoTest /\ ~ApplyCached(m).test.live
<1> DEFINE r == ApplyCached(m)
<1>1. /\ Displayed(m) \in Tests /\ ~Displayed(m).live
      /\ Displayed(m).result = "good" => Displayed(m).at # Never /\ lg # Never
      /\ lg # Never => Displayed(m).result = "good"
  <2>1. m.test \in Tests \cup {NoTest} /\ m.success \in Nat
    BY DEF Series
  <2>2. CASE m.test.result = "good"
    <3>1. m.test \in Tests
      BY <2>1, <2>2 DEF NoTest
    <3>2. Displayed(m) = [m.test EXCEPT !.live = FALSE]
      BY <2>2 DEF Displayed
    <3> QED
      BY <2>2, <3>1, <3>2, CopyIsTest DEF MemoryKnows
  <2>3. CASE m.test.result # "good" /\ m.success # Never
    <3>1. Displayed(m) = [live |-> FALSE, result |-> "good", at |-> m.success]
      BY <2>3 DEF Displayed
    <3> QED
      BY <2>1, <2>3, <3>1 DEF Tests, Results, MemoryKnows
  <2>4. CASE m.test.result # "good" /\ m.success = Never /\ m.test # NoTest
    <3>1. Displayed(m) = [m.test EXCEPT !.live = FALSE]
      BY <2>4 DEF Displayed
    <3> QED
      BY <2>1, <2>4, <3>1, CopyIsTest DEF MemoryKnows
  <2>5. CASE m.test.result # "good" /\ m.success = Never /\ m.test = NoTest
    <3>1. Displayed(m) = Deferred
      BY <2>5 DEF Displayed
    <3> QED
      BY <2>5, <3>1 DEF Deferred, Tests, Results, MemoryKnows, Never
  <2> QED
    BY <2>2, <2>3, <2>4, <2>5
<1>2. Displayed(m) # NoTest
  BY <1>1 DEF Tests, Results, NoTest
<1>3. m.attempt = IF m.attempt.live THEN m.attempt ELSE IF m.test.live THEN m.test ELSE NoTest
  BY DEF MemoryKnows
<1>4. r.test = Displayed(m) /\ r.attempt = m.attempt /\ r.success = lg /\ r.stats = n
  BY <1>1, <1>3 DEF ApplyCached, MemoryKnows
<1>5. r = [test |-> r.test, attempt |-> r.attempt, success |-> r.success, stats |-> r.stats]
  BY DEF ApplyCached
<1>6. r \in Series
  BY <1>1, <1>4, <1>5 DEF Series
<1>7. LastSuccess(r) = lg /\ Samples(r) = n
  BY <1>1, <1>4 DEF LastSuccess, Samples, Counted, Never
<1>8. LastLive(r) = m.attempt
  BY <1>1, <1>4 DEF LastLive, MemoryKnows, NoTest
<1> QED
  BY <1>1, <1>2, <1>4, <1>6, <1>7, <1>8 DEF RowKnows, HistoryKnows, Counted

\* The row of a live test adds the test to it.
LEMMA LiveKnows ==
  ASSUME NEW m \in Series, NEW lg \in Nat, NEW n \in Nat, Counted(lg, n),
         MemoryKnows(m, lg, n), NEW result \in Results, NEW t \in Nat \ {0},
         NEW lg1, lg1 = IF result = "good" THEN t ELSE lg,
         NEW n1, n1 = IF result = "good" THEN n + 1 ELSE n
  PROVE  /\ RecordLive(m, result, t) \in Series
         /\ lg1 \in Nat /\ n1 \in Nat /\ Counted(lg1, n1)
         /\ RowKnows(RecordLive(m, result, t), lg1, n1)
         /\ LastSuccess(RecordLive(m, result, t)) # Never
              => HistoryKnows(RecordLive(m, result, t), lg1, n1)
         /\ LastSuccess(RecordLive(m, result, t)) = lg1
         /\ LastLive(RecordLive(m, result, t)) = [live |-> TRUE, result |-> result, at |-> t]
         /\ RecordLive(m, result, t).test.live /\ RecordLive(m, result, t).test # NoTest
<1> DEFINE r == RecordLive(m, result, t)
<1>1. /\ r.test = [live |-> TRUE, result |-> result, at |-> t] /\ r.attempt = NoTest
      /\ r.success = lg1 /\ r.stats = n1
  BY DEF RecordLive, MemoryKnows
<1>2. r = [test |-> r.test, attempt |-> r.attempt, success |-> r.success, stats |-> r.stats]
  BY DEF RecordLive
<1>3. lg1 \in Nat /\ n1 \in Nat /\ Counted(lg1, n1)
  BY DEF Counted, Never
<1>4. r \in Series
  <2>1. r.test \in Tests
    BY <1>1 DEF Tests
  <2> QED
    BY <1>1, <1>2, <1>3, <2>1 DEF Series
<1>5. r.test.live /\ r.test # NoTest /\ r.test.at # Never /\ (r.test.result = "good" <=> result = "good")
  BY <1>1 DEF NoTest, Never
<1>6. LastSuccess(r) = lg1 /\ Samples(r) = n1
  BY <1>1, <1>3, <1>5 DEF LastSuccess, Samples, Counted, Never
<1>7. LastLive(r) = r.test
  BY <1>1, <1>5 DEF LastLive, NoTest
<1> QED
  BY <1>1, <1>3, <1>4, <1>5, <1>6, <1>7 DEF RowKnows, HistoryKnows, Counted

----------------------------------------------------------------------------
(* The invariant *)

\* The rows of a component know all that happened.
RowInv(c) ==
  /\ Counted(lastGood[c]["down"], goods[c])
  /\ RowKnows(latest[c]["down"], lastGood[c]["down"], goods[c])
  /\ HistoryKnows(history[c]["down"], lastGood[c]["down"], goods[c])

TryInv(c) == ~gap[c] => LastLive(latest[c]["down"]) = lastTry[c]

\* The context of an open check is still what the rows say, and a test that
\* was due stays due.
CheckInv(c) ==
  /\ check[c] # "none" => memory[c]["down"] = Remember(latest[c], history[c], "down")
  /\ run[c] => check[c] # "none" /\ Due(latest[c]["down"], now)

KnowledgeInv == \A c \in Components : RowInv(c) /\ TryInv(c) /\ CheckInv(c)

IInv == TypeOK /\ KnowledgeInv

\* The row of a measurement.
LiveRow(c, result) ==
  [f \in Families |->
     IF f = "down" \/ UploadSupported THEN RecordLive(memory[c][f], result[f], now)
     ELSE IF Knows(memory[c][f]) THEN ApplyCached(memory[c][f]) ELSE NoSeries]

----------------------------------------------------------------------------
(* Type correctness *)

LEMMA BareRowType == BareRow \in SpeedRows
  BY NoSeriesKnows DEF BareRow, SpeedRows

LEMMA CachedIsSeries == ASSUME NEW m \in Series PROVE ApplyCached(m) \in Series
<1>1. Displayed(m) \in Tests
  <2>1. CASE m.test \in Tests /\ (m.test.result = "good" \/ m.success = Never)
    <3>1. Displayed(m) = [m.test EXCEPT !.live = FALSE]
      BY <2>1 DEF Displayed, Tests, NoTest, Results
    <3> QED
      BY <2>1, <3>1, CopyIsTest
  <2>2. CASE m.test.result # "good" /\ m.success # Never
    <3>1. Displayed(m) = [live |-> FALSE, result |-> "good", at |-> m.success]
      BY <2>2 DEF Displayed
    <3> QED
      BY <3>1 DEF Tests, Results, Series
  <2>3. CASE m.test = NoTest /\ m.success = Never
    <3>1. Displayed(m) = Deferred
      BY <2>3 DEF Displayed, NoTest
    <3> QED
      BY <3>1 DEF Deferred, Tests, Results, Never
  <2>4. m.test \in Tests \/ m.test = NoTest
    BY DEF Series
  <2> QED
    BY <2>1, <2>2, <2>3, <2>4 DEF NoTest
<1>2. Displayed(m).at \in Nat
  BY <1>1 DEF Tests
<1> QED
  BY <1>1, <1>2 DEF ApplyCached, Series, Never

LEMMA LiveIsSeries ==
  ASSUME NEW m \in Series, NEW result \in Results, NEW t \in Nat
  PROVE  RecordLive(m, result, t) \in Series
<1>1. [live |-> TRUE, result |-> result, at |-> t] \in Tests
  BY DEF Tests
<1> QED
  BY <1>1 DEF RecordLive, Series

LEMMA CachedRowType ==
  ASSUME TypeOK, NEW c \in Components, NEW offered \in BOOLEAN
  PROVE  CachedRow(c, offered) \in SpeedRows
<1>1. \A f \in Families : memory[c][f] \in Series
  BY DEF TypeOK, SpeedRows
<1> QED
  BY <1>1, CachedIsSeries, NoSeriesKnows DEF CachedRow, SpeedRows

LEMMA LiveRowType ==
  ASSUME TypeOK, NEW c \in Components, NEW result \in [Families -> Results]
  PROVE  LiveRow(c, result) \in SpeedRows
<1>1. \A f \in Families : memory[c][f] \in Series /\ result[f] \in Results /\ now \in Nat
  BY ClockAssumption DEF TypeOK, SpeedRows
<1> QED
  BY <1>1, CachedIsSeries, LiveIsSeries, NoSeriesKnows DEF LiveRow, SpeedRows

LEMMA WriteType ==
  ASSUME TypeOK, NEW c \in Components, NEW row \in SpeedRows, Write(c, row)
  PROVE  /\ latest' \in [Components -> SpeedRows] /\ history' \in [Components -> SpeedRows]
         /\ gap' \in [Components -> BOOLEAN]
  BY DEF TypeOK, Write

LEMMA ConcludeType ==
  ASSUME TypeOK, NEW c \in Components, Conclude(c)
  PROVE  /\ phase' \in [Components -> {"connect", "session"}]
         /\ check' \in [Components -> Checks] /\ memory' \in [Components -> SpeedRows]
         /\ run' \in [Components -> BOOLEAN] /\ UNCHANGED <<now, mode>>
  BY BareRowType DEF TypeOK, Conclude, Checks

\* A check that ends with a row of cached series.
LEMMA FinishCachedType ==
  ASSUME TypeOK, NEW c \in Components,
         FinishWithoutTunnel(c) \/ FinishProbeFailed(c) \/ FinishCached(c)
  PROVE  \E row \in SpeedRows :
           /\ Write(c, row) /\ Conclude(c)
           /\ UNCHANGED <<slot, lastGood, goods, lastTry>>
<1>1. CASE FinishWithoutTunnel(c)
  BY <1>1, BareRowType DEF FinishWithoutTunnel
<1>2. CASE FinishProbeFailed(c)
  <2>1. CachedRow(c, FALSE) \in SpeedRows /\ CachedRow(c, TRUE) \in SpeedRows
    BY CachedRowType
  <2> QED
    BY <1>2, <2>1 DEF FinishProbeFailed
<1>3. CASE FinishCached(c)
  <2>1. CachedRow(c, UploadSupported) \in SpeedRows
    BY CachedRowType, UploadAssumption
  <2> QED
    BY <1>3, <2>1 DEF FinishCached
<1> QED
  BY <1>1, <1>2, <1>3

LEMMA TypeStep == TypeOK /\ [Next]_vars => TypeOK'
<1> SUFFICES ASSUME TypeOK, [Next]_vars PROVE TypeOK'
  OBVIOUS
<1>0. now \in Nat /\ slot \in Nat
  BY ClockAssumption DEF TypeOK
<1>1. CASE Tick
  BY <1>1, ClockAssumption DEF TypeOK, Tick, rowVars, checkVars, ghostVars
<1>2. CASE OthersMeasure
  BY <1>0, <1>2 DEF TypeOK, OthersMeasure, rowVars, checkVars, ghostVars
<1>3. ASSUME NEW c \in Components, BeginProbe(c) PROVE TypeOK'
  <2>1. [f \in Families |-> Remember(latest[c], history[c], f)] \in SpeedRows
    BY RememberIsSeries DEF SpeedRows, TypeOK
  <2>2. memory' \in [Components -> SpeedRows] /\ run' \in [Components -> BOOLEAN]
    <3>1. PICK allowed \in BOOLEAN : run' = [run EXCEPT ![c] = allowed /\ Due(latest[c]["down"], now)]
      BY <1>3 DEF BeginProbe, BuildContext
    <3>2. (allowed /\ Due(latest[c]["down"], now)) \in BOOLEAN
      OBVIOUS
    <3>3. run' \in [Components -> BOOLEAN]
      BY <3>1, <3>2 DEF TypeOK
    <3> QED
      BY <1>3, <2>1, <3>3 DEF BeginProbe, BuildContext, TypeOK
  <2> QED
    BY <1>3, <2>2 DEF BeginProbe, TypeOK, rowVars, ghostVars, Checks
<1>4. ASSUME NEW c \in Components, BeginLifecycleProbe(c) PROVE TypeOK'
  <2>1. Remember(latest[c], history[c], "down") \in Series
    BY RememberIsSeries DEF TypeOK, Families
  <2>2. memory' \in [Components -> SpeedRows]
    BY <1>4, <2>1, NoSeriesKnows DEF BeginLifecycleProbe, TypeOK, SpeedRows
  <2> QED
    BY <1>4, <2>2 DEF BeginLifecycleProbe, TypeOK, rowVars, ghostVars, Checks
<1>5. ASSUME NEW c \in Components,
             FinishWithoutTunnel(c) \/ FinishProbeFailed(c) \/ FinishCached(c)
      PROVE  TypeOK'
  <2>1. PICK row \in SpeedRows :
          Write(c, row) /\ Conclude(c) /\ UNCHANGED <<slot, lastGood, goods, lastTry>>
    BY <1>5, FinishCachedType
  <2> QED
    BY <2>1, WriteType, ConcludeType DEF TypeOK
<1>6. ASSUME NEW c \in Components, FinishLive(c) PROVE TypeOK'
  <2>1. PICK result \in [Families -> Results] :
          /\ Write(c, LiveRow(c, result))
          /\ lastGood' = [lastGood EXCEPT ![c] = [f \in Families |->
                IF result[f] = "good" /\ (f = "down" \/ UploadSupported) THEN now ELSE @[f]]]
          /\ goods' = [goods EXCEPT ![c] = IF result["down"] = "good" THEN @ + 1 ELSE @]
          /\ lastTry' = [lastTry EXCEPT ![c] = [live |-> TRUE, result |-> result["down"], at |-> now]]
    BY <1>6 DEF FinishLive, LiveRow
  <2>2. lastGood' \in [Components -> [Families -> Nat]]
    <3>1. lastGood[c] \in [Families -> Nat]
      BY DEF TypeOK
    <3>2. [f \in Families |-> IF result[f] = "good" /\ (f = "down" \/ UploadSupported)
                              THEN now ELSE lastGood[c][f]] \in [Families -> Nat]
      BY <1>0, <3>1
    <3> QED
      BY <2>1, <3>2 DEF TypeOK
  <2>3. goods' \in [Components -> Nat]
    BY <2>1 DEF TypeOK
  <2>4. lastTry' \in [Components -> Tests \cup {NoTest}]
    <3>1. [live |-> TRUE, result |-> result["down"], at |-> now] \in Tests
      BY <1>0 DEF Tests, Families
    <3> QED
      BY <2>1, <3>1 DEF TypeOK
  <2>5. LiveRow(c, result) \in SpeedRows
    BY LiveRowType
  <2>6. slot' = now /\ Conclude(c)
    BY <1>6 DEF FinishLive
  <2> QED
    BY <1>0, <2>1, <2>2, <2>3, <2>4, <2>5, <2>6, WriteType, ConcludeType DEF TypeOK
<1>7. ASSUME NEW c \in Components, CheckRaises(c) PROVE TypeOK'
  BY <1>0, <1>7, BareRowType DEF CheckRaises, TypeOK, rowVars, ghostVars, Checks
<1>8. ASSUME NEW c \in Components, SaveWithoutHandle(c) PROVE TypeOK'
  <2>1. Write(c, BareRow)
    BY <1>8 DEF SaveWithoutHandle
  <2> QED
    BY <1>8, <2>1, WriteType, BareRowType DEF SaveWithoutHandle, TypeOK, checkVars
<1>9. CASE UNCHANGED vars
  BY <1>9 DEF vars, rowVars, checkVars, ghostVars, TypeOK
<1> QED
  BY <1>1, <1>2, <1>3, <1>4, <1>5, <1>6, <1>7, <1>8, <1>9 DEF Next

LEMMA InitTypeOK == Init => TypeOK
  BY BareRowType, ClockAssumption DEF Init, TypeOK, Checks, Never

\* The type invariant, for any components and any clock.
THEOREM TypeCorrect == Spec => []TypeOK
  BY InitTypeOK, TypeStep, PTL DEF Spec
----------------------------------------------------------------------------
(* The rows know everything *)

Knowledge(c) == RowInv(c) /\ TryInv(c) /\ CheckInv(c)

LEMMA Elsewhere ==
  ASSUME NEW d \in Components, Knowledge(d), now' = now,
         latest'[d] = latest[d], history'[d] = history[d], gap'[d] = gap[d],
         check'[d] = check[d], memory'[d] = memory[d], run'[d] = run[d],
         lastGood'[d] = lastGood[d], goods'[d] = goods[d], lastTry'[d] = lastTry[d]
  PROVE  Knowledge(d)'
  BY DEF Knowledge, RowInv, TryInv, CheckInv

\* A test that is due at some time stays due.
LEMMA DueStays ==
  ASSUME NEW s \in Series, NEW t \in Nat, Due(s, t)
  PROVE  Due(s, t + 1)
<1> DEFINE test == IF LastLive(s) # NoTest THEN LastLive(s) ELSE s.test
<1>1. test \in Tests \cup {NoTest}
  BY LastLiveIsLive DEF Series
<1>2. test.at \in Nat /\ RetryAfter(test) \in Nat
  BY <1>1, ScheduleAssumption DEF Tests, NoTest, RetryAfter, Never
<1> QED
  BY <1>2 DEF Due

LEMMA WriteKnows ==
  ASSUME TypeOK, NEW c \in Components, NEW row \in SpeedRows, NEW lg \in Nat, NEW n \in Nat,
         Write(c, row), Counted(lg, n), RowKnows(row["down"], lg, n),
         LastSuccess(row["down"]) # Never => HistoryKnows(row["down"], lg, n),
         LastSuccess(row["down"]) = Never => HistoryKnows(history[c]["down"], lg, n),
         lastGood'[c]["down"] = lg, goods'[c] = n
  PROVE  RowInv(c)'
<1>1. latest'[c] = row
  BY DEF Write, TypeOK
<1>2. HistoryKnows(history'[c]["down"], lg, n)
  BY DEF Write, TypeOK
<1> QED
  BY <1>1, <1>2 DEF RowInv

\* What a finished check leaves alone.
LEMMA FinishLeaves ==
  ASSUME TypeOK, NEW c \in Components, NEW row, Write(c, row), Conclude(c)
  PROVE  /\ CheckInv(c)'
         /\ latest'[c] = row /\ now' = now
         /\ gap'[c] = ((gap[c] \/ row["down"].test = NoTest) /\ ~row["down"].test.live)
         /\ \A d \in Components \ {c} :
              /\ latest'[d] = latest[d] /\ history'[d] = history[d] /\ gap'[d] = gap[d]
              /\ check'[d] = check[d] /\ memory'[d] = memory[d] /\ run'[d] = run[d]
<1>1. check'[c] = "none" /\ ~run'[c]
  BY DEF Conclude, TypeOK
<1>2. CheckInv(c)'
  BY <1>1 DEF CheckInv
<1> QED
  BY <1>2 DEF Write, Conclude, TypeOK

\* The context of an open check knows all there is to know.
LEMMA ContextKnows ==
  ASSUME TypeOK, NEW c \in Components, Knowledge(c), check[c] # "none"
  PROVE  /\ memory[c]["down"] \in Series
         /\ MemoryKnows(memory[c]["down"], lastGood[c]["down"], goods[c])
         /\ lastGood[c]["down"] \in Nat /\ goods[c] \in Nat
         /\ Counted(lastGood[c]["down"], goods[c])
         /\ memory[c]["down"].attempt = LastLive(latest[c]["down"])
<1>1. /\ latest[c] \in SpeedRows /\ history[c] \in SpeedRows /\ memory[c]["down"] \in Series
      /\ lastGood[c]["down"] \in Nat /\ goods[c] \in Nat
  BY DEF TypeOK, SpeedRows, Families
<1>2. memory[c]["down"] = Remember(latest[c], history[c], "down")
  BY DEF Knowledge, CheckInv
<1>3. MemoryKnows(memory[c]["down"], lastGood[c]["down"], goods[c])
  BY <1>1, <1>2, RememberKnows DEF Knowledge, RowInv
<1>4. memory[c]["down"].attempt = LastLive(latest[c]["down"])
  BY <1>2 DEF Remember
<1> QED
  BY <1>1, <1>3, <1>4 DEF Knowledge, RowInv

\* A bare row, or one with a cached download series, forgets nothing.
LEMMA QuietRowKnows ==
  ASSUME TypeOK, KnowledgeInv, NEW c \in Components, NEW row \in SpeedRows,
         Write(c, row), UNCHANGED <<lastGood, goods, lastTry>>,
         row = BareRow \/ (check[c] # "none" /\ row["down"] = ApplyCached(memory[c]["down"]))
  PROVE  RowInv(c)' /\ TryInv(c)'
<1> DEFINE lg == lastGood[c]["down"]
           n  == goods[c]
<1>0. Knowledge(c) /\ lg \in Nat /\ n \in Nat
  BY DEF KnowledgeInv, Knowledge, TypeOK, Families
<1>1. lastGood'[c]["down"] = lg /\ goods'[c] = n /\ lastTry'[c] = lastTry[c]
  OBVIOUS
<1>2. latest'[c] = row /\ gap'[c] = ((gap[c] \/ row["down"].test = NoTest) /\ ~row["down"].test.live)
  BY DEF Write, TypeOK
<1>3. HistoryKnows(history[c]["down"], lg, n) /\ Counted(lg, n)
  BY <1>0 DEF Knowledge, RowInv
<1>4. CASE row = BareRow
  <2>1. row["down"] = NoSeries
    BY <1>4 DEF BareRow, Families
  <2>2. RowKnows(row["down"], lg, n) /\ LastSuccess(row["down"]) = Never
    BY <1>0, <2>1, NoSeriesKnows
  <2>3. RowInv(c)'
    BY <1>0, <1>1, <1>3, <2>2, WriteKnows
  <2>4. gap'[c]
    BY <1>0, <1>2, <2>1, NoSeriesKnows DEF NoSeries, NoTest
  <2> QED
    BY <2>3, <2>4 DEF TryInv
<1>5. CASE check[c] # "none" /\ row["down"] = ApplyCached(memory[c]["down"])
  <2>1. /\ memory[c]["down"] \in Series /\ MemoryKnows(memory[c]["down"], lg, n)
        /\ memory[c]["down"].attempt = LastLive(latest[c]["down"])
    BY <1>0, <1>5, ContextKnows
  <2>2. /\ RowKnows(row["down"], lg, n)
        /\ LastSuccess(row["down"]) # Never => HistoryKnows(row["down"], lg, n)
        /\ LastLive(row["down"]) = memory[c]["down"].attempt
        /\ row["down"].test # NoTest /\ ~row["down"].test.live
    BY <1>0, <1>3, <1>5, <2>1, CachedKnows
  <2>3. RowInv(c)'
    BY <1>0, <1>1, <1>3, <2>2, WriteKnows
  <2>4. gap'[c] = gap[c]
    BY <1>2, <2>2 DEF TypeOK
  <2> QED
    BY <1>0, <1>1, <1>2, <2>1, <2>2, <2>3, <2>4 DEF TryInv, Knowledge
<1> QED
  BY <1>4, <1>5

LEMMA FinishCachedKnows ==
  ASSUME TypeOK, KnowledgeInv, NEW c \in Components,
         FinishWithoutTunnel(c) \/ FinishProbeFailed(c) \/ FinishCached(c)
  PROVE  KnowledgeInv'
<1>1. PICK row \in SpeedRows :
        /\ Write(c, row) /\ Conclude(c) /\ UNCHANGED <<lastGood, goods, lastTry>>
        /\ row = BareRow \/ (check[c] # "none" /\ row["down"] = ApplyCached(memory[c]["down"]))
  <2>1. CASE FinishWithoutTunnel(c)
    BY <2>1, BareRowType DEF FinishWithoutTunnel
  <2>2. CASE FinishProbeFailed(c)
    <3>1. PICK offered \in BOOLEAN : Write(c, CachedRow(c, offered)) /\ Conclude(c) /\ check[c] # "none"
      BY <2>2 DEF FinishProbeFailed
    <3>2. CachedRow(c, offered) \in SpeedRows
      BY CachedRowType
    <3>3. CachedRow(c, offered)["down"] = ApplyCached(memory[c]["down"])
      BY DEF CachedRow, Families
    <3> QED
      BY <2>2, <3>1, <3>2, <3>3 DEF FinishProbeFailed
  <2>3. CASE FinishCached(c)
    <3>1. CachedRow(c, UploadSupported) \in SpeedRows
      BY CachedRowType, UploadAssumption
    <3>2. CachedRow(c, UploadSupported)["down"] = ApplyCached(memory[c]["down"])
      BY DEF CachedRow, Families
    <3>3. Write(c, CachedRow(c, UploadSupported)) /\ Conclude(c) /\ check[c] # "none"
      BY <2>3 DEF FinishCached
    <3> QED
      BY <2>3, <3>1, <3>2, <3>3 DEF FinishCached
  <2> QED
    BY <2>1, <2>2, <2>3
<1>2. RowInv(c)' /\ TryInv(c)' /\ CheckInv(c)'
  BY <1>1, QuietRowKnows, FinishLeaves
<1>3. ASSUME NEW d \in Components \ {c} PROVE Knowledge(d)'
  BY <1>1, FinishLeaves, Elsewhere DEF KnowledgeInv, Knowledge
<1> QED
  BY <1>2, <1>3 DEF KnowledgeInv, Knowledge

LEMMA FinishLiveKnows ==
  ASSUME TypeOK, KnowledgeInv, NEW c \in Components, FinishLive(c)
  PROVE  KnowledgeInv'
<1>0. /\ now \in Nat \ {0} /\ Knowledge(c) /\ check[c] # "none" /\ Conclude(c)
      /\ lastGood[c]["down"] \in Nat /\ goods[c] \in Nat
  BY ClockAssumption DEF TypeOK, KnowledgeInv, Knowledge, FinishLive, Families
<1>1. PICK result \in [Families -> Results] :
        /\ Write(c, LiveRow(c, result))
        /\ lastGood' = [lastGood EXCEPT ![c] = [f \in Families |->
              IF result[f] = "good" /\ (f = "down" \/ UploadSupported) THEN now ELSE @[f]]]
        /\ goods' = [goods EXCEPT ![c] = IF result["down"] = "good" THEN @ + 1 ELSE @]
        /\ lastTry' = [lastTry EXCEPT ![c] = [live |-> TRUE, result |-> result["down"], at |-> now]]
  BY DEF FinishLive, LiveRow
<1> DEFINE row == LiveRow(c, result)
           r   == RecordLive(memory[c]["down"], result["down"], now)
           lg1 == IF result["down"] = "good" THEN now ELSE lastGood[c]["down"]
           n1  == IF result["down"] = "good" THEN goods[c] + 1 ELSE goods[c]
<1>2. row \in SpeedRows /\ row["down"] = r /\ result["down"] \in Results
  BY LiveRowType DEF LiveRow, Families
<1>3. /\ lastGood'[c]["down"] = lg1 /\ goods'[c] = n1
      /\ lastTry'[c] = [live |-> TRUE, result |-> result["down"], at |-> now]
  BY <1>1 DEF TypeOK, Families
<1>4. /\ memory[c]["down"] \in Series
      /\ MemoryKnows(memory[c]["down"], lastGood[c]["down"], goods[c])
      /\ Counted(lastGood[c]["down"], goods[c])
  BY <1>0, ContextKnows
<1>5. /\ lg1 \in Nat /\ n1 \in Nat /\ Counted(lg1, n1) /\ RowKnows(r, lg1, n1)
      /\ LastSuccess(r) # Never => HistoryKnows(r, lg1, n1)
      /\ LastSuccess(r) = lg1
      /\ LastLive(r) = [live |-> TRUE, result |-> result["down"], at |-> now]
      /\ r.test.live /\ r.test # NoTest
  <2>1. lg1 = IF result["down"] = "good" THEN now ELSE lastGood[c]["down"]
    OBVIOUS
  <2>2. n1 = IF result["down"] = "good" THEN goods[c] + 1 ELSE goods[c]
    OBVIOUS
  <2>3. r = RecordLive(memory[c]["down"], result["down"], now)
    OBVIOUS
  <2> HIDE DEF lg1, n1, r
  <2>4. goods[c] \in Nat /\ lastGood[c]["down"] \in Nat /\ now \in Nat \ {0}
    BY <1>0
  <2> DEFINE m0 == memory[c]["down"]
             lg0 == lastGood[c]["down"]
             res == result["down"]
  <2>5. m0 \in Series /\ MemoryKnows(m0, lg0, goods[c]) /\ Counted(lg0, goods[c]) /\ res \in Results
    BY <1>2, <1>4
  <2>6. lg1 = IF res = "good" THEN now ELSE lg0
    BY <2>1
  <2>7. n1 = IF res = "good" THEN goods[c] + 1 ELSE goods[c]
    BY <2>2
  <2>8. r = RecordLive(m0, res, now) /\ lg0 \in Nat
    BY <2>3, <2>4
  <2> HIDE DEF m0, lg0, res
  <2>9. /\ lg1 \in Nat /\ n1 \in Nat /\ Counted(lg1, n1) /\ RowKnows(r, lg1, n1)
        /\ LastSuccess(r) # Never => HistoryKnows(r, lg1, n1)
        /\ LastSuccess(r) = lg1
        /\ LastLive(r) = [live |-> TRUE, result |-> res, at |-> now]
        /\ r.test.live /\ r.test # NoTest
    BY <2>4, <2>5, <2>6, <2>7, <2>8, LiveKnows
  <2> QED
    BY <2>9 DEF res
<1>6. LastSuccess(r) = Never => HistoryKnows(history[c]["down"], lg1, n1)
  BY <1>0, <1>5 DEF Knowledge, RowInv, Never
<1>7. RowInv(c)'
  BY <1>1, <1>2, <1>3, <1>5, <1>6, WriteKnows
<1>8. TryInv(c)' /\ CheckInv(c)'
  BY <1>0, <1>1, <1>2, <1>3, <1>5, FinishLeaves DEF TryInv
<1>9. ASSUME NEW d \in Components \ {c} PROVE Knowledge(d)'
  <2>1. lastGood'[d] = lastGood[d] /\ goods'[d] = goods[d] /\ lastTry'[d] = lastTry[d]
    BY <1>1 DEF TypeOK
  <2> QED
    BY <1>0, <1>1, <2>1, FinishLeaves, Elsewhere DEF KnowledgeInv, Knowledge
<1> QED
  BY <1>7, <1>8, <1>9 DEF KnowledgeInv, Knowledge
LEMMA KnowledgeStep == TypeOK /\ KnowledgeInv /\ [Next]_vars => KnowledgeInv'
<1> SUFFICES ASSUME TypeOK, KnowledgeInv, [Next]_vars PROVE KnowledgeInv'
  OBVIOUS
<1>0. \A d \in Components : Knowledge(d)
  BY DEF KnowledgeInv, Knowledge
<1>1. CASE Tick
  <2>1. now \in Nat /\ now' = now + 1 /\ \A d \in Components : latest[d]["down"] \in Series
    BY <1>1, ClockAssumption DEF Tick, TypeOK, SpeedRows, Families
  <2>2. UNCHANGED <<rowVars, checkVars, ghostVars>>
    BY <1>1 DEF Tick
  <2>3. ASSUME NEW d \in Components PROVE CheckInv(d)'
    <3>1. Due(latest[d]["down"], now) => Due(latest[d]["down"], now + 1)
      BY <2>1, DueStays
    <3> QED
      BY <1>0, <2>1, <2>2, <3>1 DEF Knowledge, CheckInv, rowVars, checkVars
  <2> QED
    BY <1>0, <2>2, <2>3 DEF KnowledgeInv, Knowledge, RowInv, TryInv, rowVars, ghostVars
<1>2. CASE OthersMeasure
  BY <1>0, <1>2, Elsewhere DEF OthersMeasure, rowVars, checkVars, ghostVars, KnowledgeInv, Knowledge
<1>3. ASSUME NEW c \in Components, BeginProbe(c) PROVE KnowledgeInv'
  <2>1. /\ UNCHANGED <<now, rowVars, ghostVars>> /\ check'[c] = "probe"
        /\ memory'[c] = [f \in Families |-> Remember(latest[c], history[c], f)]
        /\ run'[c] => Due(latest[c]["down"], now)
    BY <1>3 DEF BeginProbe, BuildContext, TypeOK
  <2>2. memory'[c]["down"] = Remember(latest[c], history[c], "down")
    BY <2>1 DEF Families
  <2>3. Knowledge(c)'
    BY <1>0, <2>1, <2>2 DEF Knowledge, RowInv, TryInv, CheckInv, rowVars, ghostVars
  <2>4. ASSUME NEW d \in Components \ {c} PROVE Knowledge(d)'
    <3>1. check'[d] = check[d] /\ memory'[d] = memory[d] /\ run'[d] = run[d]
      BY <1>3 DEF BeginProbe, BuildContext, TypeOK
    <3> QED
      BY <1>0, <2>1, <3>1, Elsewhere DEF rowVars, ghostVars
  <2> QED
    BY <2>3, <2>4 DEF KnowledgeInv, Knowledge
<1>4. ASSUME NEW c \in Components, BeginLifecycleProbe(c) PROVE KnowledgeInv'
  <2>1. UNCHANGED <<now, rowVars, ghostVars>> /\ ~run'[c]
    BY <1>4 DEF BeginLifecycleProbe, TypeOK
  <2>2. memory'[c]["down"] = Remember(latest[c], history[c], "down")
    BY <1>4 DEF BeginLifecycleProbe, TypeOK, SpeedRows, Families
  <2>3. Knowledge(c)'
    BY <1>0, <2>1, <2>2 DEF Knowledge, RowInv, TryInv, CheckInv, rowVars, ghostVars
  <2>4. ASSUME NEW d \in Components \ {c} PROVE Knowledge(d)'
    <3>1. check'[d] = check[d] /\ memory'[d] = memory[d] /\ run'[d] = run[d]
      BY <1>4 DEF BeginLifecycleProbe, TypeOK
    <3> QED
      BY <1>0, <2>1, <3>1, Elsewhere DEF rowVars, ghostVars
  <2> QED
    BY <2>3, <2>4 DEF KnowledgeInv, Knowledge
<1>5. ASSUME NEW c \in Components,
             FinishWithoutTunnel(c) \/ FinishProbeFailed(c) \/ FinishCached(c)
      PROVE  KnowledgeInv'
  BY <1>5, FinishCachedKnows
<1>6. ASSUME NEW c \in Components, FinishLive(c) PROVE KnowledgeInv'
  BY <1>6, FinishLiveKnows
<1>7. ASSUME NEW c \in Components, CheckRaises(c) PROVE KnowledgeInv'
  <2>1. UNCHANGED <<now, rowVars, ghostVars>> /\ check'[c] = "none" /\ ~run'[c]
    BY <1>7 DEF CheckRaises, TypeOK
  <2>2. Knowledge(c)'
    BY <1>0, <2>1 DEF Knowledge, RowInv, TryInv, CheckInv, rowVars, ghostVars
  <2>3. ASSUME NEW d \in Components \ {c} PROVE Knowledge(d)'
    <3>1. check'[d] = check[d] /\ memory'[d] = memory[d] /\ run'[d] = run[d]
      BY <1>7 DEF CheckRaises, TypeOK
    <3> QED
      BY <1>0, <2>1, <3>1, Elsewhere DEF rowVars, ghostVars
  <2> QED
    BY <2>2, <2>3 DEF KnowledgeInv, Knowledge
<1>8. ASSUME NEW c \in Components, SaveWithoutHandle(c) PROVE KnowledgeInv'
  <2>1. /\ Write(c, BareRow) /\ BareRow \in SpeedRows /\ check[c] = "none"
        /\ UNCHANGED <<now, checkVars, lastGood, goods, lastTry>>
    BY <1>8, BareRowType DEF SaveWithoutHandle
  <2>2. RowInv(c)' /\ TryInv(c)'
    BY <2>1, QuietRowKnows
  <2>3. CheckInv(c)'
    BY <1>0, <2>1 DEF CheckInv, Knowledge, checkVars
  <2>4. ASSUME NEW d \in Components \ {c} PROVE Knowledge(d)'
    <3>1. latest'[d] = latest[d] /\ history'[d] = history[d] /\ gap'[d] = gap[d]
      BY <2>1 DEF Write, TypeOK
    <3> QED
      BY <1>0, <2>1, <3>1, Elsewhere DEF checkVars
  <2> QED
    BY <2>2, <2>3, <2>4 DEF KnowledgeInv, Knowledge
<1>9. CASE UNCHANGED vars
  BY <1>0, <1>9, Elsewhere DEF vars, rowVars, checkVars, ghostVars, KnowledgeInv, Knowledge
<1> QED
  BY <1>1, <1>2, <1>3, <1>4, <1>5, <1>6, <1>7, <1>8, <1>9 DEF Next

LEMMA InitKnowledge == Init => KnowledgeInv
<1> SUFFICES ASSUME Init, NEW c \in Components PROVE Knowledge(c)
  BY DEF KnowledgeInv, Knowledge
<1>1. /\ latest[c]["down"] = NoSeries /\ history[c]["down"] = NoSeries
      /\ lastGood[c]["down"] = 0 /\ goods[c] = 0 /\ lastTry[c] = NoTest
      /\ check[c] = "none" /\ ~run[c]
  BY DEF Init, BareRow, Families, Never
<1>2. HistoryKnows(NoSeries, 0, 0) /\ Counted(0, 0)
  BY NoSeriesKnows DEF HistoryKnows, Samples, NoSeries, Never, Counted
<1> QED
  BY <1>1, <1>2, NoSeriesKnows DEF Knowledge, RowInv, TryInv, CheckInv

----------------------------------------------------------------------------
(* The theorems *)

\* Rows, open checks and the history of each component agree.
THEOREM InductiveInvariant == Spec => []IInv
<1>1. Init => IInv
  BY InitTypeOK, InitKnowledge DEF IInv
<1>2. IInv /\ [Next]_vars => IInv'
  BY TypeStep, KnowledgeStep DEF IInv
<1> QED
  BY <1>1, <1>2, PTL DEF Spec

LEMMA RecalledKnows ==
  ASSUME IInv, NEW c \in Components
  PROVE  /\ MemoryKnows(Recalled(c, "down"), lastGood[c]["down"], goods[c])
         /\ Recalled(c, "down").attempt = LastLive(latest[c]["down"])
<1>1. /\ latest[c] \in SpeedRows /\ history[c] \in SpeedRows
      /\ lastGood[c]["down"] \in Nat /\ goods[c] \in Nat /\ RowInv(c)
  BY DEF IInv, TypeOK, Families, KnowledgeInv
<1> QED
  BY <1>1, RememberKnows DEF RowInv, Recalled, Remember

\* No sequence of failed, deferred, lifecycle and bare rows forgets the newest
\* successful download.
THEOREM SuccessIsNeverForgotten == Spec => []SuccessRemembered
<1>1. IInv => SuccessRemembered
  BY RecalledKnows DEF SuccessRemembered, MemoryKnows
<1> QED
  BY <1>1, InductiveInvariant, PTL

\* Nor miscounts the successful downloads.
THEOREM EverySampleCounts == Spec => []SamplesCounted
<1>1. IInv => SamplesCounted
  BY RecalledKnows DEF SamplesCounted, MemoryKnows
<1> QED
  BY <1>1, InductiveInvariant, PTL

\* Between two rows without a speed test the newest attempt stays known.
THEOREM AttemptIsNeverForgotten == Spec => []AttemptRemembered
<1>1. IInv => AttemptRemembered
  BY RecalledKnows DEF AttemptRemembered, IInv, KnowledgeInv, TryInv
<1> QED
  BY <1>1, InductiveInvariant, PTL

\* A row with network details shows a speed once there is one to show.
THEOREM SpeedIsShown == Spec => []SpeedStaysVisible
<1>1. IInv => SpeedStaysVisible
  BY DEF SpeedStaysVisible, IInv, KnowledgeInv, RowInv, RowKnows
<1> QED
  BY <1>1, InductiveInvariant, PTL

\* The interval, and the back-off after a 429, are kept through any cached rows.
THEOREM SpacingIsKept == Spec => TestsAreSpaced
<1> DEFINE Spaced ==
      \A c \in Components :
        lastTry'[c] # lastTry[c] /\ lastTry[c] # NoTest /\ ~gap[c]
          => lastTry'[c].at >= lastTry[c].at + RetryAfter(lastTry[c])
<1>1. IInv /\ [Next]_vars => [Spaced]_vars
  <2> SUFFICES ASSUME IInv, Next, NEW c \in Components,
                      lastTry'[c] # lastTry[c], lastTry[c] # NoTest, ~gap[c]
               PROVE  lastTry'[c].at >= lastTry[c].at + RetryAfter(lastTry[c])
    OBVIOUS
  <2>1. PICK d \in Components : FinishLive(d)
    BY DEF Next, Tick, OthersMeasure, BeginProbe, BeginLifecycleProbe, FinishWithoutTunnel,
           FinishProbeFailed, FinishCached, CheckRaises, SaveWithoutHandle, ghostVars
  <2>2. d = c /\ lastTry'[c].at = now
    BY <2>1 DEF FinishLive, IInv, TypeOK
  <2>3. Due(latest[c]["down"], now) /\ LastLive(latest[c]["down"]) = lastTry[c]
    BY <2>1, <2>2 DEF FinishLive, IInv, KnowledgeInv, CheckInv, TryInv
  <2>4. latest[c]["down"] \in Series /\ RowInv(c)
    BY DEF IInv, TypeOK, SpeedRows, Families, KnowledgeInv
  <2>5. lastTry[c].live
    BY <2>3, <2>4, LastLiveIsLive
  <2>6. latest[c]["down"].test # NoTest
    BY <2>3, <2>4, NoSeriesKnows DEF RowInv, RowKnows
  <2>7. now >= lastTry[c].at + RetryAfter(lastTry[c])
    BY <2>3, <2>5, <2>6 DEF Due
  <2> QED
    BY <2>2, <2>7
<1>2. [][Spaced]_vars => TestsAreSpaced
  BY PTL DEF TestsAreSpaced
<1> QED
  BY <1>1, <1>2, InductiveInvariant, PTL DEF Spec

----------------------------------------------------------------------------
(* What the readers of the rows see                                        *)

\* A measurement has a time, and a good one is the newest success.
Dated(s) == s.test.result = "good" => s.test.at # Never /\ s.success \in {Never, s.test.at}
\* A row that knows a success shows a test, if only a failed one.
Shows(s) == /\ Dated(s)
            /\ s.success # Never => s.test # NoTest /\ (Failed(s.test) => s.test.at # Never)
ShowsInv == \A c \in Components, f \in Families : Shows(latest[c][f]) /\ Dated(memory[c][f])

LEMMA CachedShows ==
  ASSUME NEW m \in Series, Dated(m)
  PROVE  Shows(ApplyCached(m))
<1> DEFINE s == ApplyCached(m)
           d == Displayed(m)
<1>1. /\ s.test = d
      /\ m.success # Never => s.success = m.success
      /\ m.success = Never => s.success = (IF d.result = "good" THEN d.at ELSE Never)
  BY DEF ApplyCached
<1>2. CASE m.test.result = "good"
  <2>1. m.test \in Tests
    BY <1>2 DEF Series, NoTest
  <2>2. d = [m.test EXCEPT !.live = FALSE]
    BY <1>2 DEF Displayed
  <2>3. d.result = "good" /\ d.at = m.test.at /\ d.at # Never /\ m.success \in {Never, d.at}
    BY <1>2, <2>1, <2>2 DEF Tests, Dated
  <2> HIDE DEF d, s
  <2>4. s.success = d.at /\ d # NoTest /\ ~Failed(d)
    BY <1>1, <2>3 DEF NoTest, Failed
  <2>5. Shows(s)
    BY <1>1, <2>3, <2>4 DEF Shows, Dated
  <2>6. QED BY <2>5 DEF s
<1>3. CASE m.test.result # "good" /\ m.success # Never
  <2>1. d.result = "good" /\ d.at = m.success
    BY <1>3 DEF Displayed
  <2> HIDE DEF d, s
  <2>2. s.success = d.at /\ d # NoTest /\ ~Failed(d)
    BY <1>1, <1>3, <2>1 DEF NoTest, Failed
  <2>3. Shows(s)
    BY <1>1, <1>3, <2>1, <2>2 DEF Shows, Dated
  <2>4. QED BY <2>3 DEF s
<1>4. CASE m.test.result # "good" /\ m.success = Never
  <2>1. d.result # "good"
    <3>1. CASE m.test = NoTest
      BY <1>4, <3>1 DEF Displayed, Deferred, NoTest
    <3>2. CASE m.test \in Tests
      <4>1. m.test # NoTest
        BY <3>2 DEF Tests, Results, NoTest
      <4>2. d = [m.test EXCEPT !.live = FALSE]
        BY <1>4, <4>1 DEF Displayed
      <4>3. QED BY <1>4, <3>2, <4>2 DEF Tests
    <3>3. QED BY <3>1, <3>2 DEF Series
  <2> HIDE DEF d, s
  <2>2. s.success = Never
    BY <1>1, <1>4, <2>1
  <2>3. Shows(s)
    BY <1>1, <2>1, <2>2 DEF Shows, Dated
  <2>4. QED BY <2>3 DEF s
<1>5. QED BY <1>2, <1>3, <1>4

LEMMA LiveShows ==
  ASSUME NEW m \in Series, NEW result \in Results, NEW t \in Nat \ {Never}
  PROVE  Shows(RecordLive(m, result, t))
BY DEF RecordLive, Shows, Dated, NoTest

LEMMA NoSeriesShows == Shows(NoSeries)
BY DEF NoSeries, NoTest, Shows, Dated

\* A context takes the success from where the row shows it.
LEMMA ContextDated ==
  ASSUME NEW latest0 \in SpeedRows, NEW history0 \in SpeedRows, NEW f \in Families, Shows(latest0[f])
  PROVE  Dated(Remember(latest0, history0, f))
<1> DEFINE s == latest0[f]
           m == Remember(latest0, history0, f)
<1>1. m.test = s.test /\ (LastSuccess(s) # Never => m.success = LastSuccess(s))
  BY DEF Remember
<1>2. s.test.result = "good" => LastSuccess(s) = s.test.at /\ s.test.at # Never
  BY DEF LastSuccess, Shows, Dated
<1>3. QED BY <1>1, <1>2 DEF Dated

\* Every row that is written shows what it knows.
LEMMA WrittenRowShows ==
  ASSUME TypeOK, ShowsInv, NEW c \in Components
  PROVE  /\ \A f \in Families : Shows(BareRow[f])
         /\ \A offered \in BOOLEAN, f \in Families : Shows(CachedRow(c, offered)[f])
         /\ \A result \in [Families -> Results], f \in Families : Shows(LiveRow(c, result)[f])
<1>1. \A f \in Families : memory[c][f] \in Series /\ Dated(memory[c][f])
  BY DEF TypeOK, SpeedRows, ShowsInv
<1>2. now \in Nat \ {Never}
  BY ClockAssumption DEF TypeOK, Never
<1>3. \A f \in Families : Shows(BareRow[f])
  BY NoSeriesShows DEF BareRow
<1>4. \A offered \in BOOLEAN, f \in Families : Shows(CachedRow(c, offered)[f])
  BY <1>1, NoSeriesShows, CachedShows DEF CachedRow
<1>5. \A result \in [Families -> Results], f \in Families : Shows(LiveRow(c, result)[f])
  BY <1>1, <1>2, NoSeriesShows, CachedShows, LiveShows DEF LiveRow
<1>6. QED BY <1>3, <1>4, <1>5

\* A row is written and its check is over.
LEMMA WriteShows ==
  ASSUME TypeOK, ShowsInv, NEW c \in Components, NEW row, Write(c, row), \A f \in Families : Shows(row[f]),
         memory' = memory \/ memory' = [memory EXCEPT ![c] = BareRow]
  PROVE  ShowsInv'
<1>1. \A d \in Components : latest'[d] = IF d = c THEN row ELSE latest[d]
  BY DEF Write, TypeOK
<1>2. \A d \in Components, f \in Families : Dated(memory'[d][f])
  <2>1. \A d \in Components, f \in Families : Dated(memory[d][f])
    BY DEF ShowsInv
  <2>2. \A f \in Families : Dated(BareRow[f])
    BY NoSeriesShows DEF BareRow, Shows
  <2>3. CASE memory' = memory
    BY <2>1, <2>3
  <2>4. CASE memory' = [memory EXCEPT ![c] = BareRow]
    <3>1. \A d \in Components : memory'[d] = IF d = c THEN BareRow ELSE memory[d]
      BY <2>4 DEF TypeOK
    <3>2. QED BY <2>1, <2>2, <3>1
  <2>5. QED BY <2>3, <2>4
<1>3. QED BY <1>1, <1>2 DEF ShowsInv, Shows, Dated

LEMMA ShowsStep == TypeOK /\ ShowsInv /\ [Next]_vars => ShowsInv'
<1> SUFFICES ASSUME TypeOK, ShowsInv, [Next]_vars PROVE ShowsInv'
  OBVIOUS
<1>1. ASSUME UNCHANGED latest, \A c \in Components, f \in Families : Dated(memory'[c][f]) PROVE ShowsInv'
  BY <1>1 DEF ShowsInv, Shows, Dated
<1>2. CASE Tick \/ OthersMeasure \/ UNCHANGED vars
  BY <1>1, <1>2 DEF Tick, OthersMeasure, vars, rowVars, checkVars, ShowsInv
<1>3. ASSUME NEW c \in Components, BeginProbe(c) \/ BeginLifecycleProbe(c) \/ CheckRaises(c) PROVE ShowsInv'
  <2>1. UNCHANGED latest
    BY <1>3 DEF BeginProbe, BeginLifecycleProbe, CheckRaises, rowVars
  <2>2. \A f \in Families : Dated(Remember(latest[c], history[c], f)) /\ Dated(BareRow[f]) /\ Dated(NoSeries)
    BY ContextDated, NoSeriesShows DEF TypeOK, ShowsInv, BareRow, Shows
  <2>3. \A d \in Components \ {c} : memory'[d] = memory[d]
    BY <1>3 DEF BeginProbe, BuildContext, BeginLifecycleProbe, CheckRaises, TypeOK
  <2>4. ASSUME NEW f \in Families PROVE Dated(memory'[c][f])
    <3>1. CASE BeginProbe(c)
      BY <2>2, <3>1 DEF BeginProbe, BuildContext, TypeOK
    <3>2. CASE BeginLifecycleProbe(c)
      BY <2>2, <3>2 DEF BeginLifecycleProbe, TypeOK, SpeedRows, Families
    <3>3. CASE CheckRaises(c)
      BY <2>2, <3>3 DEF CheckRaises, TypeOK
    <3>4. QED BY <1>3, <3>1, <3>2, <3>3
  <2>5. QED BY <1>1, <2>1, <2>3, <2>4 DEF ShowsInv
<1>4. ASSUME NEW c \in Components,
             FinishWithoutTunnel(c) \/ FinishProbeFailed(c) \/ FinishCached(c) \/ SaveWithoutHandle(c)
      PROVE  ShowsInv'
  <2>1. memory' = memory \/ memory' = [memory EXCEPT ![c] = BareRow]
    BY <1>4 DEF FinishWithoutTunnel, FinishProbeFailed, FinishCached, SaveWithoutHandle, Conclude, checkVars
  <2>2. \/ Write(c, BareRow) \/ Write(c, CachedRow(c, FALSE)) \/ Write(c, CachedRow(c, TRUE))
        \/ Write(c, CachedRow(c, UploadSupported))
    BY <1>4 DEF FinishWithoutTunnel, FinishProbeFailed, FinishCached, SaveWithoutHandle
  <2>3. QED BY <2>1, <2>2, WrittenRowShows, WriteShows, UploadAssumption
<1>5. ASSUME NEW c \in Components, FinishLive(c) PROVE ShowsInv'
  <2>1. PICK result \in [Families -> Results] : Write(c, LiveRow(c, result))
    BY <1>5 DEF FinishLive, LiveRow
  <2>2. memory' = [memory EXCEPT ![c] = BareRow]
    BY <1>5 DEF FinishLive, Conclude
  <2>3. QED BY <2>1, <2>2, WrittenRowShows, WriteShows
<1>6. QED BY <1>2, <1>3, <1>4, <1>5 DEF Next

\* The chart and the summary show the same speed of the same time.
THEOREM ViewsCorrect == Spec => []ViewsAgree
<1>1. Init => TypeOK /\ ShowsInv
  BY InitTypeOK, NoSeriesShows DEF Init, ShowsInv, BareRow, Shows
<1>2. TypeOK /\ ShowsInv /\ [Next]_vars => (TypeOK /\ ShowsInv)'
  BY TypeStep, ShowsStep
<1>3. ASSUME TypeOK, ShowsInv PROVE ViewsAgree
  <2>1. ASSUME NEW s \in Series, Shows(s)
        PROVE  ChartPoint(s) = Summary(s) /\ (Summary(s).ok = "yes" => Summary(s).shown = SummarySuccessAt(s))
    <3>1. s.test = NoTest \/ s.test.result = "good" \/ Failed(s.test)
      BY DEF Series, Tests, Results, Failed
    <3>2. CASE s.test.result = "good"
      BY <2>1, <3>2 DEF ChartPoint, Summary, SummarySuccessAt, View, Shows, Dated
    <3>3. CASE s.test.result # "good" /\ s.success # Never
      BY <2>1, <3>1, <3>3 DEF ChartPoint, Summary, SummarySuccessAt, View, Stamp, Shows
    <3>4. CASE s.test.result # "good" /\ s.success = Never
      BY <3>4 DEF ChartPoint, Summary, View
    <3>5. QED BY <3>2, <3>3, <3>4
  <2>2. QED BY <1>3, <2>1 DEF ViewsAgree, TypeOK, SpeedRows, ShowsInv
<1>4. QED BY <1>1, <1>2, <1>3, PTL DEF Spec

=============================================================================
