----------------------------- MODULE StatusPage -----------------------------
(***************************************************************************)
(* The public status page of one project: the rows it is built from        *)
(* (components, check results, incidents with their updates), everybody    *)
(* who writes them, and the reader that builds a page with one SELECT      *)
(* after another while they write.  Every request has a transaction of its *)
(* own at READ COMMITTED; a PATCH of an incident reads, checks and writes  *)
(* the columns it changed.  Titles, messages and names are left out.     *)
(***************************************************************************)
EXTENDS UptimeStats

CONSTANTS Components, Incidents, Editors, None,
          Stamps,      \* times an administrator types in
          MaxTime, MaxEvents, MaxUpdates   \* bounds

ASSUME StampAssumption ==
  Stamps \subseteq Nat /\ {MaxTime, MaxEvents} \subseteq Nat /\ MaxUpdates \in Nat \ {0}

ASSUME FiniteAssumption == IsFiniteSet(Components)

VARIABLES now, events,
          component,  \* monitored_components: "active", "inactive" or "deleted"
          grouped,    \* the components of the project's group; is it active
          results,    \* per component: rows of check_results
          incident,   \* rows of incidents with their updates, None where there is none
          patch,      \* per administrator: the PATCH under way
          skewed,     \* incidents two PATCHes changed at once (history)
          page,       \* the page being built
          arrivals    \* results committed since that began (history)
rowVars  == <<component, grouped, results>>
incVars  == <<incident, patch, skewed>>
pageVars == <<page, arrivals>>
vars == <<now, events, rowVars, incVars, pageVars>>

Checks == [at : 0..MaxTime, outcome : Outcomes]
Statuses == {"investigating", "resolved"}
ActiveStatuses == {"investigating"}    \* with identified and monitoring
NoTime == -1
Updates == [at : 0..MaxTime, status : Statuses]
Rows == [scope : Components \cup {None}, starts : 0..MaxTime,
         ends : 0..MaxTime \cup {NoTime}, updates : SUBSET Updates]
ASSUME NoneAssumption == None \notin Components \cup Incidents \cup Rows
NoPatch == [on |-> None, old |-> None, new |-> None]
NoPage == [pc |-> "idle", first |-> 0, last |-> 0, shown |-> {}, counted |-> {}, timed |-> {},
           clock |-> 0, latest |-> {}]

TypeOK ==
  /\ now \in 0..MaxTime /\ events \in 0..MaxEvents
  /\ component \in [Components -> {"active", "inactive", "deleted"}]
  /\ grouped \in [members : SUBSET Components, active : BOOLEAN]
  /\ results \in [Components -> SUBSET Checks]
  /\ incident \in [Incidents -> Rows \cup {None}]
  /\ \A i \in Incidents : incident[i] # None =>
       /\ Cardinality(incident[i].updates) <= MaxUpdates
       /\ incident[i].scope # None => component[incident[i].scope] # "deleted"
  /\ \A a \in Editors : patch[a] = NoPatch \/ {patch[a].old, patch[a].new} \subseteq Rows
  /\ skewed \subseteq Incidents /\ arrivals \subseteq Components \X Checks
  /\ page.pc \in {"idle", "clock", "times", "latest", "done"}
  /\ page.shown \subseteq Components /\ page.counted \cup page.timed \cup page.latest \subseteq Components \X Checks

Init ==
  /\ now = 0 /\ events = 0
  /\ component = [c \in Components |-> "active"]
  /\ grouped \in [members : {{}, Components}, active : {TRUE}]
  /\ results = [c \in Components |-> {}]
  /\ incident = [i \in Incidents |-> None]
  /\ patch = [a \in Editors |-> NoPatch] /\ skewed = {}
  /\ page = NoPage /\ arrivals = {}

Event == events < MaxEvents /\ events' = events + 1
Tick == now < MaxTime /\ now' = now + 1 /\ UNCHANGED <<events, rowVars, incVars, pageVars>>

----------------------------------------------------------------------------
\* A result becomes visible when its cycle commits, up to a second after the
\* check; the processes that check a component do not commit in order.
SaveResult(c) ==
  /\ Event /\ component[c] # "deleted"
  /\ \E at \in {now, now - 1} \cap Nat, o \in Outcomes :
       /\ \A r \in results[c] : r.at # at
       /\ results' = [results EXCEPT ![c] = @ \cup {[at |-> at, outcome |-> o]}]
       /\ arrivals' = IF page.pc = "idle" THEN {} ELSE arrivals \cup {<<c, [at |-> at, outcome |-> o]>>}
  /\ UNCHANGED <<now, component, grouped, incVars, page>>

\* purge_for_component with the number of rows to keep.
PurgeResults(c) ==
  /\ Event
  /\ \E kept \in {{}} \cup IF Cardinality(results[c]) > 1 THEN {{Newest(results[c])}} ELSE {} :
       results[c] # {} /\ results' = [results EXCEPT ![c] = kept]
  /\ UNCHANGED <<now, component, grouped, incVars, pageVars>>

SwitchComponent(c) ==
  /\ Event /\ component[c] # "deleted"
  /\ component' = [component EXCEPT ![c] = IF @ = "active" THEN "inactive" ELSE "active"]
  /\ UNCHANGED <<now, grouped, results, incVars, pageVars>>

SwitchGroup ==
  /\ Event /\ grouped' = [grouped EXCEPT !.active = ~@]
  /\ UNCHANGED <<now, component, results, incVars, pageVars>>

\* The foreign keys: results go with the component, incidents stay and lose
\* their scope.
Unscoped(row, c) == IF row # None /\ row.scope = c THEN [row EXCEPT !.scope = None] ELSE row
\* Mutant: the incidents of a deleted component keep it.
DeleteComponentDangling(c) ==
  /\ Event /\ component[c] # "deleted"
  /\ component' = [component EXCEPT ![c] = "deleted"]
  /\ grouped' = [grouped EXCEPT !.members = @ \ {c}]
  /\ results' = [results EXCEPT ![c] = {}]
  /\ UNCHANGED <<now, incVars, pageVars>>

DeleteComponent(c) ==
  /\ Event /\ component[c] # "deleted"
  /\ component' = [component EXCEPT ![c] = "deleted"]
  /\ grouped' = [grouped EXCEPT !.members = @ \ {c}]
  /\ results' = [results EXCEPT ![c] = {}]
  /\ incident' = [i \in Incidents |-> Unscoped(incident[i], c)]
  /\ UNCHANGED <<now, patch, skewed, pageVars>>

----------------------------------------------------------------------------
Exists(i) == incident[i] # None
Scopes == {c \in Components : component[c] # "deleted"} \cup {None}
Typed == (Stamps \cup {now}) \cap 0..MaxTime
InOrder(row) == row.ends = NoTime \/ row.ends >= row.starts

CreateIncident(i) ==
  /\ Event /\ ~Exists(i)
  /\ \E scope \in Scopes, posted \in Typed, st \in Statuses, ends \in Typed \cup {NoTime} :
     \E starts \in Typed \cup {posted} :
       LET row == [scope |-> scope, starts |-> starts, ends |-> ends,
                   updates |-> {[at |-> posted, status |-> st]}] IN
       /\ InOrder(row)
       /\ incident' = [incident EXCEPT ![i] = row]
  /\ UNCHANGED <<now, rowVars, patch, skewed, pageVars>>

\* update_incident: the checks are made on the row as it was read.
Changed(row, scope, starts, ends) == [row EXCEPT !.scope = scope, !.starts = starts, !.ends = ends]
Patched(row) == {Changed(row, s, a, b) : s \in Scopes \cup {row.scope}, a \in Typed \cup {row.starts},
                                         b \in Typed \cup {row.ends, NoTime}}
\* Mutant: the order of the two times is not checked.
BeginPatchUnchecked(a, i) ==
  /\ Event /\ Exists(i) /\ patch[a] = NoPatch
  /\ \E new \in Patched(incident[i]) \ {incident[i]} :
       patch' = [patch EXCEPT ![a] = [on |-> i, old |-> incident[i], new |-> new]]
  /\ skewed' = IF \E x \in Editors \ {a} : patch[x].on = i THEN skewed \cup {i} ELSE skewed
  /\ UNCHANGED <<now, rowVars, incident, pageVars>>

BeginPatch(a, i) ==
  /\ Event /\ Exists(i) /\ patch[a] = NoPatch
  /\ \E new \in {n \in Patched(incident[i]) \ {incident[i]} : InOrder(n)} :
       patch' = [patch EXCEPT ![a] = [on |-> i, old |-> incident[i], new |-> new]]
  /\ skewed' = IF \E x \in Editors \ {a} : patch[x].on = i THEN skewed \cup {i} ELSE skewed
  /\ UNCHANGED <<now, rowVars, incident, pageVars>>

\* The UPDATE has the columns that changed; a component that is gone by now
\* and an incident that is gone make it fail.
Column(cur, old, new) == IF new = old THEN cur ELSE new
WritePatch(a) ==
  LET p == patch[a]
      cur == incident[p.on]
      row == Changed(cur, Column(cur.scope, p.old.scope, p.new.scope),
                     Column(cur.starts, p.old.starts, p.new.starts),
                     Column(cur.ends, p.old.ends, p.new.ends)) IN
  /\ p # NoPatch /\ patch' = [patch EXCEPT ![a] = NoPatch]
  /\ incident' = IF Exists(p.on) /\ row.scope \in Scopes THEN [incident EXCEPT ![p.on] = row] ELSE incident
  /\ UNCHANGED <<now, events, rowVars, skewed, pageVars>>

DeleteIncident(i) ==
  /\ Event /\ Exists(i) /\ incident' = [incident EXCEPT ![i] = None]
  /\ patch' = [a \in Editors |-> IF patch[a].on = i THEN NoPatch ELSE patch[a]]
  /\ skewed' = skewed \ {i}
  /\ UNCHANGED <<now, rowVars, pageVars>>

\* No two updates of an incident are posted in the same instant.
WriteUpdates(i, set) ==
  /\ Event /\ Exists(i) /\ Cardinality(set) <= MaxUpdates /\ set # incident[i].updates
  /\ IsInjective([u \in set |-> u.at])
  /\ incident' = [incident EXCEPT ![i].updates = set]
  /\ UNCHANGED <<now, rowVars, patch, skewed, pageVars>>

AddUpdate(i) == \E at \in Typed, st \in Statuses :
                  Exists(i) /\ WriteUpdates(i, incident[i].updates \cup {[at |-> at, status |-> st]})
DeleteUpdate(i) == Exists(i) /\ \E u \in incident[i].updates : WriteUpdates(i, incident[i].updates \ {u})
UpdateEntry(i) ==
  Exists(i) /\ \E u \in incident[i].updates, at \in Typed, st \in Statuses :
    WriteUpdates(i, (incident[i].updates \ {u}) \cup {[at |-> at, status |-> st]})

----------------------------------------------------------------------------
\* get_system_status reads the components and the counts of their days ...
InRange(r, p) == DayStart(p.first) <= r.at /\ r.at < DayEnd(p.last)
Loaded == {c \in Components : component[c] = "active"}
ReadRows(p, shown) == {x \in shown \X Checks : x[2] \in results[x[1]] /\ InRange(x[2], p)}

BeginPage ==
  /\ page.pc = "idle" /\ Event
  /\ \E last \in 0..DayOf(now) : \E first \in {last, last - 1} \cap Nat :
       LET p == [NoPage EXCEPT !.last = last, !.first = first] IN
       page' = [p EXCEPT !.pc = "clock", !.shown = Loaded, !.counted = ReadRows(p, Loaded)]
  /\ arrivals' = {}
  /\ UNCHANGED <<now, rowVars, incVars>>

\* ... looks at the clock, then reads the times of the checks and the newest
\* one before the range ...
ReadClock == /\ page.pc = "clock" /\ page' = [page EXCEPT !.pc = "times", !.clock = now]
             /\ UNCHANGED <<now, events, rowVars, incVars, arrivals>>
ReadTimes ==
  /\ page.pc = "times"
  /\ page' = [page EXCEPT !.pc = "latest",
                !.timed = {x \in page.shown \X Checks : x[2] \in results[x[1]] /\ x[2].at < DayEnd(page.last)}]
  /\ UNCHANGED <<now, events, rowVars, incVars, arrivals>>

\* ... and the newest result of every component, for the alerts.
ReadLatest ==
  /\ page.pc = "latest"
  /\ page' = [page EXCEPT !.pc = "done",
                !.latest = {<<c, Newest(results[c])>> : c \in {x \in page.shown : results[x] # {}}}]
  /\ UNCHANGED <<now, events, rowVars, incVars, arrivals>>

Answer == /\ page.pc = "done" /\ page' = NoPage /\ arrivals' = {}
          /\ UNCHANGED <<now, events, rowVars, incVars>>

----------------------------------------------------------------------------
\* The bars of services and groups, and the uptime of the whole project.
Bar(c, d, p) == Stats({r \in Checks : <<c, r>> \in p.counted /\ DayOf(r.at) = d})
BarDowntime(c, d, p) ==
  ShownDowntime({r \in Checks : <<c, r>> \in p.timed}, d, p.first, p.clock)
GroupOf(S) == LET g == {c \in S : grouped.active /\ c \in grouped.members} IN {g, S \ g} \ {{}}
GroupStatus(S, d, p) == FoldLeft(MergeStatus, "no_data", SetToSeq({StatusOf(Bar(c, d, p)) : c \in S}))
SumBars(S, days, p) ==
  FoldLeft(LAMBDA sum, k : AddStats(sum, Bar(k[1], k[2], p)), NoStats, SetToSeq(S \X days))

\* The incidents: the SELECT for the range, then the test of each day.
OnTimeline(row, first, last) ==
  row.starts < DayEnd(last) /\ (row.ends = NoTime \/ row.ends >= DayStart(first))
\* Mutant: an incident that ends at midnight is not of the day that begins.
OverlapsDayOpen(row, d) ==
  row.starts < DayEnd(d) /\ (IF row.ends = NoTime THEN now + 1 ELSE row.ends) > DayStart(d)

OverlapsDay(row, d) ==
  row.starts < DayEnd(d) /\ (IF row.ends = NoTime THEN now ELSE row.ends) >= DayStart(d)

DayEntry(row, d) ==
  LET sofar == {u \in row.updates : u.at < DayEnd(d)} IN
  IF sofar # {} THEN Newest(sofar) ELSE Newest(row.updates)

IncidentAlert(i) == /\ Exists(i) /\ incident[i].updates # {}
                    /\ Newest(incident[i].updates).status \in ActiveStatuses
ServiceAlerts(p) == {x \in p.latest : x[2].outcome # "up"}

Next ==
  \/ Tick \/ SwitchGroup \/ BeginPage \/ ReadClock \/ ReadTimes \/ ReadLatest \/ Answer
  \/ \E c \in Components : SaveResult(c) \/ PurgeResults(c) \/ SwitchComponent(c) \/ DeleteComponent(c)
  \/ \E i \in Incidents : CreateIncident(i) \/ DeleteIncident(i) \/ AddUpdate(i) \/ DeleteUpdate(i)
                          \/ UpdateEntry(i)
  \/ \E a \in Editors : WritePatch(a) \/ \E i \in Incidents : BeginPatch(a, i)
Spec == Init /\ [][Next]_vars

----------------------------------------------------------------------------
(***************************************************************************)
(* Properties.                                                             *)
(***************************************************************************)
Ranges == {r \in (0..DayOf(now)) \X (0..DayOf(now)) : r[1] <= r[2]}

\* The seconds of downtime a day shows are the seconds at which the newest
\* check had found an outage, whatever the first day of the range, when the
\* day has checks and so has the day before it or the range begins with it.
UptimeExact ==
  \A c \in Components, d \in 0..DayOf(now), first \in 0..DayOf(now) :
    /\ first <= d /\ OnDay(results[c], d) # {}
    /\ d = first \/ OnDay(results[c], d - 1) # {}
    => ShownDowntime(results[c], d, first, now) = Cardinality(OutageSeconds(results[c], d, now))

\* The SELECTs of one page see different rows and no common clock; still,
\* apart from results that were committed meanwhile, an alert is one the bars
\* know of and downtime is shown for a day with checks, ...
TornOnlyByArrivals(p) ==
  /\ \A x \in ServiceAlerts(p) : InRange(x[2], p) => x \in p.counted \cup arrivals
  /\ \A c \in p.shown, d \in p.first..p.last :
       BarDowntime(c, d, p) > 0 => \/ Bar(c, d, p).total > 0
                                   \/ \E x \in arrivals : x[1] = c /\ DayOf(x[2].at) = d
\* ... a day has no more downtime than it has seconds, and never less than
\* none, ...
DowntimeInDay(p) == \A c \in p.shown, d \in p.first..p.last : BarDowntime(c, d, p) \in 0..DayLength
\* ... a group is never shown better than the sum of its checks, and the
\* groups add up to the number the list of projects shows.
GroupsAddUp(p) ==
  /\ \A S \in GroupOf(p.shown), d \in p.first..p.last :
       Priority[StatusOf(SumBars(S, {d}, p))] <= Priority[GroupStatus(S, d, p)]
  /\ LET sums == SetToSeq({<<S, SumBars(S, p.first..p.last, p)>> : S \in GroupOf(p.shown)}) IN
     FoldLeft(LAMBDA sum, x : AddStats(sum, x[2]), NoStats, sums) = SumBars(p.shown, p.first..p.last, p)

PageCoherent == page.pc = "done" => /\ TornOnlyByArrivals(page) /\ DowntimeInDay(page) /\ GroupsAddUp(page)

\* An incident never ends before it starts, except when two PATCHes changed
\* it at once: each checks the row it read and writes only its own columns.
EndsAfterStart == \A i \in Incidents : Exists(i) => InOrder(incident[i]) \/ i \in skewed

\* The SELECT of the timeline and the test of each day agree: an incident is
\* loaded for a range exactly when some day of the range shows it.
TimelineComplete ==
  \A i \in Incidents : Exists(i) /\ i \notin skewed =>
    \A r \in Ranges : OnTimeline(incident[i], r[1], r[2])
                       <=> \E d \in r[1]..r[2] : OverlapsDay(incident[i], d)

\* The bar of a day shows an incident as one that goes on.
BarActive(i, d) == /\ OverlapsDay(incident[i], d) /\ incident[i].updates # {}
                   /\ DayEntry(incident[i], d).status \in ActiveStatuses

\* The alerts look at the newest update alone, the bar of today at the times of
\* the incident and the newest update up to now.  They contradict each other for
\* two reasons only: the incident is over or yet to begin by its own times, which
\* the alerts ignore, or its newest update is dated later than today.
NotOfToday(row) == \/ row.starts >= DayEnd(DayOf(now))
                   \/ row.ends # NoTime /\ row.ends < DayStart(DayOf(now))
DatedLater(row) == \E u \in row.updates : u.at >= DayEnd(DayOf(now))

AlertsMatchBars ==
  \A i \in Incidents : Exists(i) =>
    \/ IncidentAlert(i) <=> BarActive(i, DayOf(now))
    \/ IncidentAlert(i) /\ NotOfToday(incident[i])
    \/ DatedLater(incident[i])

IncidentViewsAgree == TimelineComplete /\ AlertsMatchBars
=============================================================================
