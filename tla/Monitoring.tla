------------------------------ MODULE Monitoring ------------------------------
(***************************************************************************)
(* The health-check scheduler of the worker process, cycle by cycle, and   *)
(* the manual checks of the API process, over the rows of                  *)
(* monitored_components and check_results.                                 *)
(*                                                                         *)
(* A cycle is one transaction: the due components are read once, the host  *)
(* WAN measurement takes its turn, one VPN is picked for a speed test, the *)
(* checks follow one after the other, and one commit ends it.  What raises *)
(* on the way discards the whole cycle.  Persistent components are the     *)
(* subject of VpnSupervisor; every component here is ephemeral.            *)
(*                                                                         *)
(* Times are ages: how long ago something happened.  Only the order of two *)
(* ages and whether an interval has passed matter, so ages past the        *)
(* interval are packed (Aged) and the state space is finite.               *)
(***************************************************************************)
EXTENDS HealthChecks, Naturals, FiniteSets

CONSTANTS OpenVpn, Xray, Http,   \* the components of each kind
          Id,                    \* per component, its place in the order of the ids
          None,
          Poll,                  \* poll_interval_seconds
          TestInterval,          \* speed_test_interval_seconds, also of the WAN
          Gap,                   \* SPEED_TEST_MIN_GAP_SECONDS
          MaxEvents              \* bound of crashes, edits and manual checks together

ASSUME IntervalAssumption == {Poll, TestInterval, Gap} \subseteq Nat \ {0}
ASSUME BoundAssumption == MaxEvents \in Nat

Vpn == OpenVpn \cup Xray
Components == Vpn \cup Http

\* An empty entry is no component, no age and no result.
ASSUME NoneAssumption == None \notin Components \cup Nat \cup [since : Nat, test : Nat \cup {None}]
ASSUME FiniteAssumption == IsFiniteSet(Components)
ASSUME IdAssumption == /\ Id \in [Components -> Nat]
                       /\ \A c, d \in Components : Id[c] = Id[d] => c = d

\* due.sort: VPN components first, then by id.
Before(c, d) == IF c \in Vpn <=> d \in Vpn THEN Id[c] <= Id[d] ELSE c \in Vpn
First(due) == CHOOSE c \in due : \A d \in due : Before(c, d)

VARIABLES
  row,       \* state of the component's row; "broken": every check of it raises
  last,      \* age of last_checked_at
  newest,    \* age of the newest check result
  tested,    \* age of the last speed test the newest result knows of
  pc,        \* where the worker's cycle is
  todo,      \* due components still to be checked
  bad,       \* due components whose row was broken when the cycle read it
  allowed,   \* those that may run a speed test in this cycle
  run,       \* run_speed_test of the check in progress
  mine,      \* per component, the result of this cycle, not committed yet
  slot,      \* age of the worker's _speed_test_last_at
  wan,       \* age of the latest host WAN baseline
  manual,    \* the manual check in progress: its component, the age of its start
  met,       \* components whose check in progress saw another one recorded: the
             \* worker's, and the manual one
  crossed,   \* components whose newest commit was of such a check (history)
  events

dbVars     == <<row, last, newest, tested, crossed>>
cycleVars  == <<todo, bad, allowed, run, mine>>
vars == <<dbVars, pc, cycleVars, slot, wan, manual, met, events>>

Actors == {"worker", "manual"}
----------------------------------------------------------------------------
\* Ages.  The stamps of one kind that are past the interval keep their order
\* and nothing else.
Known(ages) == ages \ {None}
Aged(age, ages, interval) ==
  IF age = None THEN None
  ELSE IF age < interval - 1 THEN age + 1
  ELSE interval - 1 + Cardinality({a \in Known(ages) : interval - 1 <= a /\ a <= age})

Capped(age, interval) == IF age = None \/ age = interval THEN age ELSE age + 1
Passed(age, interval) == age # None => age >= interval
Newer(age, other) == other # None => age <= other

Manual(c) == IF manual = None THEN FALSE ELSE manual.c = c
CheckAges(c) == {last[c], newest[c]} \cup (IF mine[c] = None THEN {} ELSE {mine[c].since})
                  \cup (IF Manual(c) THEN {manual.since} ELSE {})
TestAges == {tested[c] : c \in Vpn}
              \cup {mine[c].test : c \in {d \in Components : mine[d] # None}}

\* Time passes while the worker sleeps, checks, has measured the WAN, or is
\* gone; its other steps take none.  It also ends the sleep.
Tick ==
  /\ pc \in {"asleep", "pick", "check", "down"}
  /\ last' = [c \in Components |-> Aged(last[c], CheckAges(c), Poll)]
  /\ newest' = [c \in Components |-> Aged(newest[c], CheckAges(c), Poll)]
  /\ tested' = [c \in Components |-> Aged(tested[c], TestAges, TestInterval)]
  /\ mine' = [c \in Components |-> IF mine[c] = None THEN None ELSE
                [since |-> Aged(mine[c].since, CheckAges(c), Poll),
                 test |-> Aged(mine[c].test, TestAges, TestInterval)]]
  /\ manual' = IF manual = None THEN None ELSE
                 [manual EXCEPT !.since = Aged(@, CheckAges(manual.c), Poll)]
  /\ slot' = Capped(slot, Gap) /\ wan' = Capped(wan, TestInterval)
  /\ pc' = IF pc = "asleep" THEN "rested" ELSE pc
  /\ UNCHANGED <<row, crossed, todo, bad, allowed, run, met, events>>
----------------------------------------------------------------------------
Init ==
  /\ row = [c \in Components |-> "active"]
  /\ last = [c \in Components |-> None] /\ newest = last /\ tested = last
  /\ pc = "rested" /\ todo = {} /\ bad = {} /\ allowed = {} /\ run = FALSE
  /\ mine = [c \in Components |-> None]
  /\ slot = Gap /\ wan = None
  /\ manual = None /\ met = [p \in Actors |-> {}] /\ crossed = {} /\ events = 0

Event == events < MaxEvents /\ events' = events + 1

\* Rows this cycle has updated and not committed.
Locked == {c \in Components : mine[c] # None}
            \ (IF pc = "check" THEN {First(todo)} ELSE {})

\* Mutant: a component never checked is not due.
IsDueOnceChecked(c) == row[c] \in {"active", "broken"} /\ last[c] # None /\ last[c] >= Poll

\* is_due.
IsDue(c) == row[c] \in {"active", "broken"} /\ Passed(last[c], Poll)

\* should_run_speed_test, by the interval.
TestDue(c) == c \in Vpn /\ Passed(tested[c], TestInterval)

\* try_acquire_speed_test_slot.
SlotFree == slot >= Gap

\* The attempt a new context knows of.  When the newest result has none, an
\* older row may still know a success of any age.
Recalled(c) == IF c \in Vpn /\ tested[c] = None THEN {None} \cup 0..TestInterval
                                               ELSE {tested[c]}

\* How a check may end with a result: one without network details loses the
\* memory, a live test replaces it.  What raises within a VPN check and becomes an
\* error may have taken the slot.
ResultsOf(c) == IF c \in Http THEN HttpResults
                ELSE IF c \in OpenVpn THEN OpenVpnResults ELSE XrayResults
Endings(c, mayTest) ==
  {e \in [late : BOOLEAN, test : {"measured", "kept", "lost"}, slot : BOOLEAN] :
     /\ e.slot => mayTest
     /\ \E r \in ResultsOf(c) :
          /\ e.late = r[2]
          /\ CASE r[1] = "up" -> e.slot = mayTest /\ e.test = (IF mayTest THEN "measured" ELSE "kept")
               [] r[1] = "down" -> e.test = "kept" /\ ~e.slot
               [] r[1] = "timeout" -> e.test = "lost" /\ ~e.slot
               [] r[1] = "error" -> e.test = "lost"}
SinceAfter(e, since) == IF e.late THEN 0 ELSE since
TestAfter(e, test) == IF e.test = "measured" THEN 0 ELSE IF e.test = "kept" THEN test ELSE None
TakeSlot(e) == slot' = IF e.slot THEN 0 ELSE slot

\* Mutant: the time at which the result is written.
StampNow(result) == 0

\* What last_checked_at becomes: the checked_at of the result.
Stamp(result) == result.since

InProgress(p, c) == IF p = "worker" THEN mine[c] # None ELSE Manual(c)

\* Actor commits the results of the components in done.  The newest row is the
\* one of the latest checked_at, last_checked_at what was written last.
Record(actor, done, result) ==
  LET isNewest(c) == c \in done /\ Newer(result[c].since, newest[c])
  IN /\ last' = [c \in Components |-> IF c \in done THEN Stamp(result[c]) ELSE last[c]]
     /\ newest' = [c \in Components |-> IF isNewest(c) THEN result[c].since ELSE newest[c]]
     /\ tested' = [c \in Components |-> IF isNewest(c) THEN result[c].test ELSE tested[c]]
     /\ crossed' = (crossed \ done) \cup (done \cap met[actor])
     /\ met' = [p \in Actors |-> IF p = actor THEN {}
                                ELSE met[p] \cup {c \in done : InProgress(p, c)}]

----------------------------------------------------------------------------
\* The worker's cycle.

\* list_due_components, from rows read at once.
BeginCycle ==
  /\ pc = "rested" /\ pc' = "wan"
  /\ todo' = {c \in Components : IsDue(c)}
  /\ bad' = {c \in Components : IsDue(c) /\ row[c] = "broken"}
  /\ UNCHANGED <<dbVars, allowed, run, mine, slot, wan, manual, met, events>>

\* _should_run_host_wan; a baseline is never a skipped one here, because no
\* ephemeral session is open: the checks of this process run one by one.
WanIsDue == Passed(wan, TestInterval)

\* _store_baseline, in memory and in the file.
StoreBaseline == wan' = 0

\* run_host_wan_speed_if_due.  A measurement without any success is dropped
\* when there is an earlier baseline: it is due again in the next cycle.
RunHostWan ==
  /\ pc = "wan" /\ pc' = "pick"
  /\ IF WanIsDue /\ SlotFree
     THEN /\ slot' = 0
          /\ \E download, upload \in Transfers :
               IF wan = None \/ Measured(download) \/ Measured(upload)
               THEN StoreBaseline ELSE UNCHANGED wan
     ELSE UNCHANGED <<slot, wan>>
  /\ UNCHANGED <<dbVars, cycleVars, manual, met, events>>

\* Mutant: only the hourly key decides.
AnyAttempts(due) == due

\* pick_staggered_speed_test_component_ids with its limit of one: the oldest
\* attempt first, no attempt before any; the hourly key decides among equals.
OldestAttempts(due) ==
  LET untested == {c \in due : tested[c] = None}
  IN IF untested # {} THEN untested ELSE {c \in due : \A d \in due : tested[d] <= tested[c]}

\* Mutant: every component that is due may measure.
PickAll ==
  /\ pc = "pick" /\ pc' = "next"
  /\ allowed' = {c \in todo : TestDue(c)}
  /\ UNCHANGED <<dbVars, todo, bad, run, mine, slot, wan, manual, met, events>>

\* The VPN that may measure in this cycle.
Pick ==
  /\ pc = "pick" /\ pc' = "next"
  /\ LET due == {c \in todo : TestDue(c)}
     IN IF due = {} THEN allowed' = {} ELSE \E c \in OldestAttempts(due) : allowed' = {c}
  /\ UNCHANGED <<dbVars, todo, bad, run, mine, slot, wan, manual, met, events>>

\* run_check reads the context, then the check begins.
StartCheck ==
  /\ pc = "next" /\ todo # {} /\ First(todo) \notin bad
  /\ LET c == First(todo) IN
       /\ run' = (TestDue(c) /\ c \in allowed)
       /\ \E test \in Recalled(c) : mine' = [mine EXCEPT ![c] = [since |-> 0, test |-> test]]
  /\ pc' = "check"
  /\ UNCHANGED <<dbVars, todo, bad, allowed, slot, wan, manual, met, events>>

\* The result is flushed with last_checked_at, which locks the component's row.
FinishCheck ==
  /\ pc = "check" /\ pc' = "next"
  /\ LET c == First(todo) IN
       /\ row[c] # "gone"
       /\ \E e \in Endings(c, run /\ SlotFree) :
            /\ mine' = [mine EXCEPT ![c] = [since |-> SinceAfter(e, @.since), test |-> TestAfter(e, @.test)]]
            /\ TakeSlot(e)
  /\ todo' = todo \ {First(todo)} /\ run' = FALSE
  /\ UNCHANGED <<dbVars, bad, allowed, wan, manual, met, events>>

EndCycle == /\ todo' = {} /\ bad' = {} /\ allowed' = {} /\ run' = FALSE
            /\ mine' = [c \in Components |-> None]

Commit ==
  /\ pc = "next" /\ todo = {} /\ pc' = "asleep"
  /\ Record("worker", Locked, mine)
  /\ EndCycle
  /\ UNCHANGED <<row, slot, wan, manual, events>>

\* What leaves the cycle by an exception rolls it back.
RollBack(next) ==
  /\ pc' = next /\ EndCycle
  /\ met' = [met EXCEPT !["worker"] = {}]
  /\ UNCHANGED <<dbVars, manual>>

\* A check that raises.  The row may make every check raise: a VPN without a
\* config_text or with inbounds that are no list, a URL httpx cannot parse.  Or one
\* check does, of any kind: JSON nested too deeply, a body with a NUL the column
\* refuses when the result is flushed, a program that cannot be started, a
\* process that cannot be killed once the speed test was made.
CheckRaises ==
  /\ \/ pc = "next" /\ todo # {} /\ First(todo) \in bad /\ UNCHANGED slot
     \/ pc = "check" /\ slot' \in {slot} \cup (IF run /\ SlotFree THEN {0} ELSE {})
  /\ RollBack("asleep")
  /\ UNCHANGED <<wan, events>>

\* The UPDATE of last_checked_at finds no row.
ComponentVanished ==
  /\ pc = "check" /\ row[First(todo)] = "gone"
  /\ \E e \in Endings(First(todo), run /\ SlotFree) : TakeSlot(e)
  /\ RollBack("asleep")
  /\ UNCHANGED <<wan, events>>

\* The process dies, or the database refuses a statement of the cycle.
CycleFails ==
  /\ pc # "down" /\ Event
  /\ \/ pc # "asleep" /\ RollBack("asleep")
     \/ RollBack("down")
  /\ UNCHANGED <<slot, wan>>

\* A new process: a fresh slot; the baseline is read back from its file.
Restart ==
  /\ pc = "down" /\ pc' = "rested"
  /\ slot' = Gap
  /\ UNCHANGED <<dbVars, cycleVars, wan, manual, met, events>>

----------------------------------------------------------------------------
\* run_manual_check in the API process, of any component, also an inactive one.
RequestCheck ==
  /\ manual = None /\ Event
  /\ \E c \in Components : /\ row[c] \in {"active", "inactive"}
                          /\ manual' = [c |-> c, since |-> 0]
  /\ UNCHANGED <<dbVars, pc, cycleVars, slot, wan, met>>

\* The UPDATE waits while the cycle holds the row, and fails when there is no
\* row.  checked_at is the start of the check or the time of an error; which
\* attempt the result knows of, with this process's slot, is left open.
RecordManual ==
  /\ manual # None /\ manual.c \notin Locked
  /\ IF row[manual.c] = "gone"
     THEN met' = [met EXCEPT !["manual"] = {}] /\ UNCHANGED <<last, newest, tested, crossed>>
     ELSE \E since \in 0..manual.since,
             test \in (IF manual.c \in Vpn THEN {None} \cup 0..TestInterval ELSE {None}) :
            Record("manual", {manual.c}, [c \in {manual.c} |-> [since |-> since, test |-> test]])
  /\ manual' = None
  /\ UNCHANGED <<row, pc, cycleVars, slot, wan, events>>

\* A manual check that raises is answered with an error.
ManualRaises ==
  /\ manual # None /\ manual' = None
  /\ met' = [met EXCEPT !["manual"] = {}]
  /\ UNCHANGED <<dbVars, pc, cycleVars, slot, wan, events>>

\* A PATCH is checked by itself, not with the row it changes: a VPN type without
\* a configuration passes, in one step or in two, and so does any text as a URL.
Patches(c) == {"active", "inactive", "broken"}

\* Administrators edit components; an UPDATE or DELETE waits for the row too.
EditComponent ==
  /\ Event
  /\ \E c \in Components \ Locked : \E new \in Patches(c) :
       /\ row[c] \notin {"gone", new} /\ row' = [row EXCEPT ![c] = new]
  /\ UNCHANGED <<last, newest, tested, crossed, pc, cycleVars, slot, wan, manual, met>>

DeleteComponent ==
  /\ Event
  /\ \E c \in Components \ Locked :
       /\ row[c] # "gone" /\ row' = [row EXCEPT ![c] = "gone"]
       /\ last' = [last EXCEPT ![c] = None] /\ newest' = [newest EXCEPT ![c] = None]
       /\ tested' = [tested EXCEPT ![c] = None] /\ crossed' = crossed \ {c}
  /\ UNCHANGED <<pc, cycleVars, slot, wan, manual, met>>

\* purge_check_history with keep = 0; last_checked_at stays.
PurgeHistory ==
  /\ Event
  /\ \E c \in Components :
       /\ newest[c] # None /\ newest' = [newest EXCEPT ![c] = None]
       /\ tested' = [tested EXCEPT ![c] = None]
  /\ UNCHANGED <<row, last, crossed, pc, cycleVars, slot, wan, manual, met>>

----------------------------------------------------------------------------
WorkerStep == \/ BeginCycle \/ RunHostWan \/ Pick \/ StartCheck \/ FinishCheck
              \/ Commit \/ CheckRaises \/ ComponentVanished \/ Restart
AdminStep == RequestCheck \/ RecordManual \/ ManualRaises \/ EditComponent \/ DeleteComponent \/ PurgeHistory

Next == Tick \/ WorkerStep \/ CycleFails \/ AdminStep

\* The worker's thread runs and is restarted by its container, and time goes
\* on; administrators may stop at any point.
Spec == Init /\ [][Next]_vars /\ WF_vars(Tick) /\ WF_vars(WorkerStep)

----------------------------------------------------------------------------
\* Every variable keeps to its type: ages are ages also after packing, and at most
\* one component may run a speed test in a cycle.
Ages == Nat \cup {None}
TypeOK ==
  /\ row \in [Components -> {"active", "inactive", "broken", "gone"}]
  /\ {last, newest, tested} \subseteq [Components -> Ages]
  /\ pc \in {"rested", "wan", "pick", "next", "check", "asleep", "down"}
  /\ todo \subseteq Components
  /\ {bad, allowed, crossed} \subseteq SUBSET Components
  /\ Cardinality(allowed) <= 1 /\ run \in BOOLEAN
  /\ mine \in [Components -> [since : Nat, test : Ages] \cup {None}]
  /\ slot \in 0..Gap /\ wan \in 0..TestInterval \cup {None}
  /\ manual \in [c : Components, since : Nat] \cup {None}
  /\ met \in [Actors -> SUBSET Components]
  /\ events \in 0..MaxEvents

\* The next check is counted from the newest result: last_checked_at is the
\* time of the newest row, whatever was rolled back, vanished or purged.  When the
\* last recorded check overlapped one recorded meanwhile by the other process, it
\* may be the time of an older row, never a later one: the next check comes
\* early, not late (run_check, monitoring_service.py:302-305).
LastCheckedIsNewest ==
  \A c \in Components : newest[c] # None =>
    /\ last[c] # None /\ last[c] >= newest[c]
    /\ c \notin crossed => last[c] = newest[c]

Recorded(c) == \/ Commit /\ mine[c] # None
               \/ RecordManual /\ Manual(c)

\* A component that stays active is checked again and again, and its results
\* are recorded, if from some point on no check raises: the cycles that fail
\* before, the crashes, edits and manual checks lose nothing for good
\* (run_due_checks).  A single check that raises in every cycle is enough to
\* keep all results from being recorded: the premise is about every component.
ChecksRecorded ==
  \A c \in Components :
    <>[](row[c] = "active") /\ <>[][~CheckRaises]_vars => []<><<Recorded(c)>>_vars

\* The check of a VPN that was to run a speed test and did not, or whose result
\* loses the memory of the last attempt.
Hindered ==
  /\ pc = "check" /\ pc' = "next"
  /\ LET c == First(todo) IN
       \/ run /\ mine'[c].test # 0
       \/ mine[c].test # None /\ mine'[c].test = None
Attempted(v) == /\ Commit /\ mine[v] # None /\ mine[v].test # None
                /\ tested[v] # None => mine[v].test < tested[v]

\* Speed tests take turns: with no manual check and no check that raises in the
\* end, if the one that is picked can always measure, every active VPN is measured
\* again and again (speed_test_stagger_key and the pick of the oldest attempt).
TurnsTaken ==
  \A v \in Vpn :
    /\ <>[](row[v] = "active" /\ manual = None)
    /\ <>[][~Hindered /\ ~CheckRaises]_vars
    => []<><<Attempted(v)>>_vars
=============================================================================
