-------------------------- MODULE StatusPage_proofs --------------------------
(***************************************************************************)
(* Proofs about StatusPage, for any components, incidents, administrators  *)
(* and times.                                                              *)
(***************************************************************************)
EXTENDS StatusPage, UptimeStats_proofs

----------------------------------------------------------------------------
(* Rows.                                                                   *)

\* The newest of some rows is one of them.
LEMMA NewestIsOne ==
  ASSUME NEW rows, rows # {}, \A r \in rows : r.at \in 0..MaxTime
  PROVE  Newest(rows) \in rows /\ \A r \in rows : r.at <= Newest(rows).at
<1> DEFINE times == {r.at : r \in rows}
<1>1. MaxTime \in Nat /\ times \in SUBSET (0..MaxTime) /\ times # {}
  BY StampAssumption
<1>2. PICK m \in times : \A n \in times : n <= m
  BY <1>1, GreatestExists
<1>3. PICK r \in rows : \A q \in rows : q.at <= r.at
  BY <1>2
<1>4. QED BY <1>3 DEF Newest

----------------------------------------------------------------------------
(* Types.                                                                  *)

Patches == [on : Incidents, old : Rows, new : Rows]
Shown == SUBSET (Components \X Checks)
Pages == [pc : {"idle", "clock", "times", "latest", "done"}, first : Nat, last : Nat,
          shown : SUBSET Components, counted : Shown, timed : Shown, clock : Nat, latest : Shown]

\* What TypeOK says of the rows of incidents.
RowOK(row, alive) == /\ row \in Rows /\ Cardinality(row.updates) <= MaxUpdates
                     /\ row.scope # None => row.scope \in alive
Alive == {c \in Components : component[c] # "deleted"}
IncidentsOK == /\ incident \in [Incidents -> Rows \cup {None}]
               /\ \A i \in Incidents : incident[i] # None => RowOK(incident[i], Alive)

\* The other variables.
OthersOK ==
  /\ now \in 0..MaxTime /\ events \in 0..MaxEvents
  /\ component \in [Components -> {"active", "inactive", "deleted"}]
  /\ grouped \in [members : SUBSET Components, active : BOOLEAN]
  /\ results \in [Components -> SUBSET Checks]
  /\ skewed \subseteq Incidents /\ arrivals \subseteq Components \X Checks
  /\ patch \in [Editors -> {NoPatch} \cup Patches]
  /\ page \in Pages

TypeInv == OthersOK /\ IncidentsOK

LEMMA TypeInvIsType == TypeInv => TypeOK
<1> SUFFICES ASSUME TypeInv PROVE TypeOK
  OBVIOUS
<1>1. ASSUME NEW a \in Editors
      PROVE  patch[a] = NoPatch \/ {patch[a].old, patch[a].new} \subseteq Rows
  BY DEF TypeInv, OthersOK, Patches
<1>2. /\ page.pc \in {"idle", "clock", "times", "latest", "done"}
      /\ page.shown \subseteq Components
      /\ page.counted \cup page.timed \cup page.latest \subseteq Components \X Checks
  BY DEF TypeInv, OthersOK, Pages, Shown
<1>3. ASSUME NEW i \in Incidents, incident[i] # None
      PROVE  /\ Cardinality(incident[i].updates) <= MaxUpdates
             /\ incident[i].scope # None => component[incident[i].scope] # "deleted"
  BY <1>3 DEF TypeInv, IncidentsOK, RowOK, Alive
<1>4. QED BY <1>1, <1>2, <1>3 DEF TypeInv, TypeOK, OthersOK, IncidentsOK

LEMMA Constants ==
  /\ MaxTime \in Nat /\ MaxEvents \in Nat /\ MaxUpdates \in Nat \ {0}
  /\ Typed \subseteq 0..MaxTime
  /\ \A row \in Rows : row # None
  /\ \A i \in Incidents : i # None
BY StampAssumption, NoneAssumption DEF Typed

LEMMA NoneRow == None \notin Rows /\ None \notin Components /\ None \notin Incidents
BY NoneAssumption

LEMMA EventType ==
  ASSUME OthersOK, Event
  PROVE  events' \in 0..MaxEvents
BY Constants DEF OthersOK, Event

LEMMA InitType == Init => TypeInv
<1> SUFFICES ASSUME Init PROVE TypeInv
  OBVIOUS
<1>1. now \in 0..MaxTime /\ events \in 0..MaxEvents
  BY Constants DEF Init
<1>2. component \in [Components -> {"active", "inactive", "deleted"}] /\ results \in [Components -> SUBSET Checks]
  BY DEF Init
<1>3. grouped \in [members : SUBSET Components, active : BOOLEAN]
  BY DEF Init
<1>4. patch \in [Editors -> {NoPatch} \cup Patches] /\ incident \in [Incidents -> Rows \cup {None}]
  BY DEF Init
<1>5. page \in Pages
  BY DEF Init, NoPage, Pages, Shown
<1>6. QED BY <1>1, <1>2, <1>3, <1>4, <1>5 DEF Init, TypeInv, OthersOK, IncidentsOK

\* Rows of a table that is not touched stay in order as long as no component goes.
LEMMA IncidentsKept ==
  ASSUME IncidentsOK, incident' = incident, Alive \subseteq Alive'
  PROVE  IncidentsOK'
BY DEF IncidentsOK, RowOK

LEMMA AliveKept ==
  ASSUME component' = component
  PROVE  Alive' = Alive
BY DEF Alive

\* One row of the table is replaced.
LEMMA IncidentReplaced ==
  ASSUME IncidentsOK, NEW i \in Incidents, NEW row \in Rows \cup {None},
         row # None => RowOK(row, Alive),
         incident' = [incident EXCEPT ![i] = row], component' = component
  PROVE  IncidentsOK'
<1>1. incident' \in [Incidents -> Rows \cup {None}]
  BY DEF IncidentsOK
<1>2. ASSUME NEW j \in Incidents, incident'[j] # None PROVE RowOK(incident'[j], Alive)
  BY <1>2 DEF IncidentsOK
<1>3. QED BY <1>1, <1>2, AliveKept DEF IncidentsOK


\* Steps of the clock, the checks and the switches.
LEMMA SaveResultType ==
  ASSUME TypeInv, NEW c \in Components, SaveResult(c)
  PROVE  TypeInv'
<1>1. PICK at \in {now, now - 1} \cap Nat, o \in Outcomes :
        /\ results' = [results EXCEPT ![c] = @ \cup {[at |-> at, outcome |-> o]}]
        /\ arrivals' = IF page.pc = "idle" THEN {} ELSE arrivals \cup {<<c, [at |-> at, outcome |-> o]>>}
  BY DEF SaveResult
<1>2. [at |-> at, outcome |-> o] \in Checks
  <2>1. at \in 0..MaxTime
    BY Constants DEF TypeInv, OthersOK
  <2>2. QED BY <2>1 DEF Checks
<1>3. results' \in [Components -> SUBSET Checks] /\ arrivals' \subseteq Components \X Checks
  BY <1>1, <1>2 DEF TypeInv, OthersOK
<1>4. events' \in 0..MaxEvents
  BY EventType DEF SaveResult, TypeInv
<1>5. OthersOK'
  BY <1>3, <1>4 DEF SaveResult, incVars, TypeInv, OthersOK
<1>6. IncidentsOK'
  BY AliveKept, IncidentsKept DEF SaveResult, incVars, TypeInv
<1>7. QED BY <1>5, <1>6 DEF TypeInv

LEMMA NewestResult ==
  ASSUME OthersOK, NEW c \in Components, results[c] # {}
  PROVE  Newest(results[c]) \in Checks
<1>1. \A r \in results[c] : r \in Checks /\ r.at \in 0..MaxTime
  BY DEF OthersOK, Checks
<1>2. QED BY <1>1, NewestIsOne

LEMMA PurgeResultsType ==
  ASSUME TypeInv, NEW c \in Components, PurgeResults(c)
  PROVE  TypeInv'
<1>1. PICK kept \in {{}} \cup IF Cardinality(results[c]) > 1 THEN {{Newest(results[c])}} ELSE {} :
        results[c] # {} /\ results' = [results EXCEPT ![c] = kept]
  BY DEF PurgeResults
<1>2. kept \subseteq Checks
  BY <1>1, NewestResult DEF TypeInv
<1>3. results' \in [Components -> SUBSET Checks]
  BY <1>1, <1>2 DEF TypeInv, OthersOK
<1>4. events' \in 0..MaxEvents
  BY EventType DEF PurgeResults, TypeInv
<1>5. OthersOK'
  BY <1>3, <1>4 DEF PurgeResults, incVars, pageVars, TypeInv, OthersOK
<1>6. IncidentsOK'
  BY AliveKept, IncidentsKept DEF PurgeResults, incVars, TypeInv
<1>7. QED BY <1>5, <1>6 DEF TypeInv

LEMMA SwitchComponentType ==
  ASSUME TypeInv, NEW c \in Components, SwitchComponent(c)
  PROVE  TypeInv'
<1>1. /\ component' \in [Components -> {"active", "inactive", "deleted"}]
      /\ \A d \in Components : component[d] # "deleted" => component'[d] # "deleted"
  BY DEF SwitchComponent, TypeInv, OthersOK
<1>2. events' \in 0..MaxEvents
  BY EventType DEF SwitchComponent, TypeInv
<1>3. OthersOK'
  BY <1>1, <1>2 DEF SwitchComponent, incVars, pageVars, TypeInv, OthersOK
<1>4. Alive \subseteq Alive'
  BY <1>1 DEF Alive
<1>5. IncidentsOK'
  BY <1>4, IncidentsKept DEF SwitchComponent, incVars, TypeInv
<1>6. QED BY <1>3, <1>5 DEF TypeInv

LEMMA SwitchGroupType ==
  ASSUME TypeInv, SwitchGroup
  PROVE  TypeInv'
<1>1. grouped' \in [members : SUBSET Components, active : BOOLEAN]
  BY DEF SwitchGroup, TypeInv, OthersOK
<1>2. events' \in 0..MaxEvents
  BY EventType DEF SwitchGroup, TypeInv
<1>3. OthersOK'
  BY <1>1, <1>2 DEF SwitchGroup, incVars, pageVars, TypeInv, OthersOK
<1>4. IncidentsOK'
  BY AliveKept, IncidentsKept DEF SwitchGroup, incVars, TypeInv
<1>5. QED BY <1>3, <1>4 DEF TypeInv

LEMMA ClockType ==
  ASSUME TypeInv, Tick
  PROVE  TypeInv'
<1>1. now' \in 0..MaxTime
  BY Constants DEF Tick, TypeInv, OthersOK
<1>2. OthersOK'
  BY <1>1 DEF Tick, rowVars, incVars, pageVars, TypeInv, OthersOK
<1>3. IncidentsOK'
  BY AliveKept, IncidentsKept DEF Tick, rowVars, incVars, TypeInv
<1>4. QED BY <1>2, <1>3 DEF TypeInv

LEMMA UnscopedRow ==
  ASSUME NEW row \in Rows, NEW c
  PROVE  /\ Unscoped(row, c) \in Rows
         /\ Unscoped(row, c).scope = IF row.scope = c THEN None ELSE row.scope
         /\ Unscoped(row, c).updates = row.updates
         /\ Unscoped(row, c).starts = row.starts /\ Unscoped(row, c).ends = row.ends
BY Constants DEF Unscoped, Rows

LEMMA DeleteComponentType ==
  ASSUME TypeInv, NEW c \in Components, DeleteComponent(c)
  PROVE  TypeInv'
<1>1. /\ component' \in [Components -> {"active", "inactive", "deleted"}]
      /\ Alive' = Alive \ {c}
  BY DEF DeleteComponent, Alive, TypeInv, OthersOK
<1>2. results' \in [Components -> SUBSET Checks] /\ grouped' \in [members : SUBSET Components, active : BOOLEAN]
  BY DEF DeleteComponent, TypeInv, OthersOK
<1>3. events' \in 0..MaxEvents
  BY EventType DEF DeleteComponent, TypeInv
<1>4. OthersOK'
  BY <1>1, <1>2, <1>3 DEF DeleteComponent, pageVars, TypeInv, OthersOK
<1>5. incident' = [i \in Incidents |-> Unscoped(incident[i], c)]
  BY DEF DeleteComponent
<1>6. ASSUME NEW i \in Incidents, incident[i] = None PROVE incident'[i] = None
  BY <1>5, <1>6 DEF Unscoped
<1>7. ASSUME NEW i \in Incidents, incident[i] # None PROVE incident'[i] \in Rows /\ RowOK(incident'[i], Alive')
  <2>1. incident[i] \in Rows /\ RowOK(incident[i], Alive)
    BY <1>7 DEF TypeInv, IncidentsOK
  <2>2. QED BY <1>1, <1>5, <2>1, UnscopedRow DEF RowOK
<1>8. IncidentsOK'
  <2>1. incident' \in [Incidents -> Rows \cup {None}]
    BY <1>5, <1>6, <1>7
  <2>2. QED BY <1>6, <1>7, <2>1 DEF IncidentsOK
<1>9. QED BY <1>4, <1>8 DEF TypeInv

\* Steps of the administrators who edit incidents.
LEMMA IncidentStep ==
  ASSUME TypeInv, Event, NEW i \in Incidents, NEW row \in Rows \cup {None},
         row # None => RowOK(row, Alive),
         incident' = [incident EXCEPT ![i] = row],
         patch' \in [Editors -> {NoPatch} \cup Patches], skewed' \subseteq Incidents,
         UNCHANGED <<now, rowVars, pageVars>>
  PROVE  TypeInv'
<1>1. events' \in 0..MaxEvents
  BY EventType DEF TypeInv
<1>2. OthersOK'
  BY <1>1 DEF rowVars, pageVars, TypeInv, OthersOK
<1>3. IncidentsOK'
  BY IncidentReplaced DEF rowVars, TypeInv
<1>4. QED BY <1>2, <1>3 DEF TypeInv

LEMMA ScopesAlive == Scopes = Alive \cup {None}
BY DEF Scopes, Alive

\* The row of a new incident.
LEMMA CreatedRow ==
  ASSUME TypeInv, NEW i \in Incidents, CreateIncident(i)
  PROVE  \E row \in Rows : /\ RowOK(row, Alive) /\ InOrder(row)
                           /\ incident' = [incident EXCEPT ![i] = row]
<1>1. PICK scope \in Scopes, posted \in Typed, st \in Statuses, ends \in Typed \cup {NoTime} :
      \E starts \in Typed \cup {posted} :
        /\ InOrder([scope |-> scope, starts |-> starts, ends |-> ends,
                    updates |-> {[at |-> posted, status |-> st]}])
        /\ incident' = [incident EXCEPT ![i] = [scope |-> scope, starts |-> starts, ends |-> ends,
                                                updates |-> {[at |-> posted, status |-> st]}]]
  BY DEF CreateIncident
<1>2. PICK starts \in Typed \cup {posted} :
        /\ InOrder([scope |-> scope, starts |-> starts, ends |-> ends,
                    updates |-> {[at |-> posted, status |-> st]}])
        /\ incident' = [incident EXCEPT ![i] = [scope |-> scope, starts |-> starts, ends |-> ends,
                                                updates |-> {[at |-> posted, status |-> st]}]]
  BY <1>1
<1> DEFINE first == [at |-> posted, status |-> st]
           row == [scope |-> scope, starts |-> starts, ends |-> ends, updates |-> {first}]
<1>3. first \in Updates
  BY Constants DEF Updates
<1>4. row \in Rows
  BY <1>3, Constants DEF Rows, Scopes
<1>5. Cardinality({first}) = 1
  BY FS_Singleton
<1>6. RowOK(row, Alive)
  BY <1>4, <1>5, Constants, ScopesAlive DEF RowOK
<1>7. InOrder(row) /\ incident' = [incident EXCEPT ![i] = row]
  BY <1>2
<1>8. QED BY <1>4, <1>6, <1>7

LEMMA CreateIncidentType ==
  ASSUME TypeInv, NEW i \in Incidents, CreateIncident(i)
  PROVE  TypeInv'
<1>1. PICK row \in Rows : RowOK(row, Alive) /\ incident' = [incident EXCEPT ![i] = row]
  BY CreatedRow
<1>2. patch' \in [Editors -> {NoPatch} \cup Patches] /\ skewed' \subseteq Incidents
  BY DEF CreateIncident, TypeInv, OthersOK
<1>3. QED BY <1>1, <1>2, IncidentStep DEF CreateIncident

IsChanged(new, row, scope, starts, ends) ==
  /\ new \in Rows /\ new.updates = row.updates
  /\ new.scope = scope /\ new.starts = starts /\ new.ends = ends

LEMMA ChangedRow ==
  ASSUME NEW row \in Rows, NEW scope \in Components \cup {None}, NEW starts \in 0..MaxTime,
         NEW ends \in 0..MaxTime \cup {NoTime}
  PROVE  IsChanged(Changed(row, scope, starts, ends), row, scope, starts, ends)
BY DEF Changed, Rows, IsChanged

LEMMA PatchedRows ==
  ASSUME NEW row \in Rows, NEW n \in Patched(row)
  PROVE  n \in Rows
<1>1. PICK s \in Scopes \cup {row.scope}, a \in Typed \cup {row.starts}, b \in Typed \cup {row.ends, NoTime} :
        n = Changed(row, s, a, b)
  BY DEF Patched
<1>2. s \in Components \cup {None} /\ a \in 0..MaxTime /\ b \in 0..MaxTime \cup {NoTime}
  BY Constants DEF Scopes, Rows
<1>3. QED BY <1>1, <1>2, ChangedRow DEF IsChanged

LEMMA BeginPatchType ==
  ASSUME TypeInv, NEW a \in Editors, NEW i \in Incidents, BeginPatch(a, i)
  PROVE  TypeInv'
<1>1. PICK n \in Patched(incident[i]) :
        patch' = [patch EXCEPT ![a] = [on |-> i, old |-> incident[i], new |-> n]]
  BY DEF BeginPatch
<1>2. incident[i] \in Rows
  BY DEF BeginPatch, Exists, TypeInv, IncidentsOK
<1>3. [on |-> i, old |-> incident[i], new |-> n] \in Patches
  BY <1>2, PatchedRows DEF Patches
<1>4. patch' \in [Editors -> {NoPatch} \cup Patches]
  BY <1>1, <1>3 DEF TypeInv, OthersOK
<1>5. skewed' \subseteq Incidents
  BY DEF BeginPatch, TypeInv, OthersOK
<1>6. events' \in 0..MaxEvents
  BY EventType DEF BeginPatch, TypeInv
<1>7. OthersOK'
  BY <1>4, <1>5, <1>6 DEF BeginPatch, rowVars, pageVars, TypeInv, OthersOK
<1>8. IncidentsOK'
  BY AliveKept, IncidentsKept DEF BeginPatch, rowVars, TypeInv
<1>9. QED BY <1>7, <1>8 DEF TypeInv

LEMMA ColumnIsOne ==
  ASSUME NEW cur, NEW old, NEW new
  PROVE  Column(cur, old, new) \in {cur, new} /\ (cur = old => Column(cur, old, new) = new)
BY DEF Column

\* The row a PATCH would write over the one the table has now.
Written(p) == Changed(incident[p.on], Column(incident[p.on].scope, p.old.scope, p.new.scope),
                      Column(incident[p.on].starts, p.old.starts, p.new.starts),
                      Column(incident[p.on].ends, p.old.ends, p.new.ends))

LEMMA WrittenRow ==
  ASSUME TypeInv, NEW p \in Patches, Exists(p.on)
  PROVE  /\ Written(p) \in Rows
         /\ Written(p).scope = Column(incident[p.on].scope, p.old.scope, p.new.scope)
         /\ Written(p).starts = Column(incident[p.on].starts, p.old.starts, p.new.starts)
         /\ Written(p).ends = Column(incident[p.on].ends, p.old.ends, p.new.ends)
         /\ Written(p).updates = incident[p.on].updates
<1> DEFINE cur == incident[p.on]
           scope == Column(incident[p.on].scope, p.old.scope, p.new.scope)
           starts == Column(incident[p.on].starts, p.old.starts, p.new.starts)
           ends == Column(incident[p.on].ends, p.old.ends, p.new.ends)
<1>1. p.on \in Incidents /\ p.old \in Rows /\ p.new \in Rows /\ incident[p.on] \in Rows
  BY DEF Patches, Exists, TypeInv, IncidentsOK
<1>2. scope \in Components \cup {None} /\ starts \in 0..MaxTime /\ ends \in 0..MaxTime \cup {NoTime}
  BY <1>1 DEF Rows, Column
<1>3. Written(p) = Changed(cur, scope, starts, ends)
  BY DEF Written
<1>4. cur \in Rows
  BY <1>1
<1> HIDE DEF cur, scope, starts, ends
<1>5. /\ Changed(cur, scope, starts, ends) \in Rows
      /\ Changed(cur, scope, starts, ends).scope = scope
      /\ Changed(cur, scope, starts, ends).starts = starts
      /\ Changed(cur, scope, starts, ends).ends = ends
      /\ Changed(cur, scope, starts, ends).updates = cur.updates
  <2>1. \A s \in Components \cup {None}, from \in 0..MaxTime, to \in 0..MaxTime \cup {NoTime} :
          IsChanged(Changed(cur, s, from, to), cur, s, from, to)
    BY <1>4, ChangedRow
  <2>2. QED BY <1>2, <2>1 DEF IsChanged
<1>6. QED BY <1>3, <1>5 DEF cur, scope, starts, ends

LEMMA WritePatchType ==
  ASSUME TypeInv, NEW a \in Editors, WritePatch(a)
  PROVE  TypeInv'
<1> DEFINE p == patch[a]
<1>1. p \in Patches /\ patch' \in [Editors -> {NoPatch} \cup Patches]
  BY DEF WritePatch, TypeInv, OthersOK
<1>2. OthersOK'
  BY <1>1 DEF WritePatch, rowVars, pageVars, TypeInv, OthersOK
<1>3. incident' = IF Exists(p.on) /\ Written(p).scope \in Scopes
                  THEN [incident EXCEPT ![p.on] = Written(p)] ELSE incident
  BY DEF WritePatch, Written
<1>4. component' = component
  BY DEF WritePatch, rowVars
<1>5. CASE Exists(p.on) /\ Written(p).scope \in Scopes
  <2>1. p.on \in Incidents /\ Written(p) \in Rows /\ Written(p).updates = incident[p.on].updates
    BY <1>1, <1>5, WrittenRow DEF Patches
  <2>2. RowOK(incident[p.on], Alive)
    BY <1>5, <2>1 DEF TypeInv, IncidentsOK, Exists
  <2>3. RowOK(Written(p), Alive)
    BY <1>5, <2>1, <2>2, ScopesAlive DEF RowOK
  <2>4. IncidentsOK'
    BY <1>3, <1>4, <1>5, <2>1, <2>3, IncidentReplaced DEF TypeInv
  <2>5. QED BY <1>2, <2>4 DEF TypeInv
<1>6. CASE ~(Exists(p.on) /\ Written(p).scope \in Scopes)
  <2>1. IncidentsOK'
    BY <1>3, <1>4, <1>6, AliveKept, IncidentsKept DEF TypeInv
  <2>2. QED BY <1>2, <2>1 DEF TypeInv
<1>7. QED BY <1>5, <1>6

LEMMA DeleteIncidentType ==
  ASSUME TypeInv, NEW i \in Incidents, DeleteIncident(i)
  PROVE  TypeInv'
<1>1. patch' \in [Editors -> {NoPatch} \cup Patches] /\ skewed' \subseteq Incidents
  BY DEF DeleteIncident, TypeInv, OthersOK
<1>2. QED BY <1>1, IncidentStep DEF DeleteIncident

LEMMA WriteUpdatesType ==
  ASSUME TypeInv, NEW i \in Incidents, NEW set \in SUBSET Updates, WriteUpdates(i, set)
  PROVE  TypeInv'
<1> DEFINE row == [incident[i] EXCEPT !.updates = set]
<1>1. RowOK(incident[i], Alive)
  BY DEF WriteUpdates, Exists, TypeInv, IncidentsOK
<1>2. row \in Rows /\ row.scope = incident[i].scope /\ row.updates = set
  BY <1>1 DEF RowOK, Rows
<1>3. RowOK(row, Alive)
  BY <1>1, <1>2 DEF RowOK, WriteUpdates
<1>4. patch' \in [Editors -> {NoPatch} \cup Patches] /\ skewed' \subseteq Incidents
  BY DEF WriteUpdates, TypeInv, OthersOK
<1>5. incident' = [incident EXCEPT ![i] = row]
  BY DEF WriteUpdates, TypeInv, IncidentsOK
<1>6. QED BY <1>2, <1>3, <1>4, <1>5, IncidentStep DEF WriteUpdates

LEMMA SomeUpdate ==
  ASSUME NEW at \in Typed, NEW st \in Statuses
  PROVE  [at |-> at, status |-> st] \in Updates
BY Constants DEF Updates

\* Every write of the updates leaves updates.
LEMMA UpdatesWritten ==
  ASSUME TypeInv, NEW i \in Incidents, AddUpdate(i) \/ DeleteUpdate(i) \/ UpdateEntry(i)
  PROVE  Exists(i) /\ \E set \in SUBSET Updates : WriteUpdates(i, set)
<1>1. Exists(i)
  BY DEF AddUpdate, DeleteUpdate, UpdateEntry
<1>2. incident[i].updates \subseteq Updates
  BY <1>1 DEF Exists, TypeInv, IncidentsOK, RowOK, Rows
<1>3. CASE AddUpdate(i)
  <2>1. PICK at \in Typed, st \in Statuses :
          WriteUpdates(i, incident[i].updates \cup {[at |-> at, status |-> st]})
    BY <1>3 DEF AddUpdate
  <2>2. QED BY <1>1, <1>2, <2>1, SomeUpdate
<1>4. CASE DeleteUpdate(i)
  <2>1. PICK u \in incident[i].updates : WriteUpdates(i, incident[i].updates \ {u})
    BY <1>4 DEF DeleteUpdate
  <2>2. QED BY <1>1, <1>2, <2>1
<1>5. CASE UpdateEntry(i)
  <2>1. PICK u \in incident[i].updates, at \in Typed, st \in Statuses :
          WriteUpdates(i, (incident[i].updates \ {u}) \cup {[at |-> at, status |-> st]})
    BY <1>5 DEF UpdateEntry
  <2>2. QED BY <1>1, <1>2, <2>1, SomeUpdate
<1>6. QED BY <1>3, <1>4, <1>5

LEMMA UpdatesType ==
  ASSUME TypeInv, NEW i \in Incidents, AddUpdate(i) \/ DeleteUpdate(i) \/ UpdateEntry(i)
  PROVE  TypeInv'
BY UpdatesWritten, WriteUpdatesType

\* Steps of the reader.
LEMMA PageStep ==
  ASSUME TypeInv, page' \in Pages, arrivals' \subseteq Components \X Checks,
         events' \in 0..MaxEvents, UNCHANGED <<now, rowVars, incVars>>
  PROVE  TypeInv'
<1>1. OthersOK'
  BY DEF rowVars, incVars, TypeInv, OthersOK
<1>2. IncidentsOK'
  BY AliveKept, IncidentsKept DEF rowVars, incVars, TypeInv
<1>3. QED BY <1>1, <1>2 DEF TypeInv

LEMMA BeginPageType ==
  ASSUME TypeInv, BeginPage
  PROVE  TypeInv'
<1>1. PICK last \in 0..DayOf(now) : \E first \in {last, last - 1} \cap Nat :
        page' = [[NoPage EXCEPT !.last = last, !.first = first] EXCEPT
                  !.pc = "clock", !.shown = Loaded,
                  !.counted = ReadRows([NoPage EXCEPT !.last = last, !.first = first], Loaded)]
  BY DEF BeginPage
<1>0. PICK first \in {last, last - 1} \cap Nat :
        page' = [[NoPage EXCEPT !.last = last, !.first = first] EXCEPT
                  !.pc = "clock", !.shown = Loaded,
                  !.counted = ReadRows([NoPage EXCEPT !.last = last, !.first = first], Loaded)]
  BY <1>1
<1>2. first \in Nat /\ last \in Nat
  BY <1>1, DayBounds DEF TypeInv, OthersOK
<1>3. Loaded \in SUBSET Components
  BY DEF Loaded
<1>4. ReadRows([NoPage EXCEPT !.last = last, !.first = first], Loaded) \in Shown
  BY <1>3 DEF ReadRows, Shown
<1>5. page' \in Pages
  BY <1>0, <1>2, <1>3, <1>4 DEF NoPage, Pages, Shown
<1>6. events' \in 0..MaxEvents
  BY EventType DEF BeginPage, TypeInv
<1>7. QED BY <1>5, <1>6, PageStep DEF BeginPage

LEMMA ReadsType ==
  ASSUME TypeInv, ReadClock \/ ReadTimes \/ ReadLatest
  PROVE  TypeInv'
<1>1. page \in Pages /\ now \in Nat /\ OthersOK
  BY Constants DEF TypeInv, OthersOK
<1>2. page' \in Pages
  <2>1. CASE ReadClock
    BY <1>1, <2>1 DEF ReadClock, Pages
  <2>2. CASE ReadTimes
    <3>1. {x \in page.shown \X Checks : x[2] \in results[x[1]] /\ x[2].at < DayEnd(page.last)} \in Shown
      BY <1>1 DEF Pages, Shown
    <3>2. QED BY <1>1, <2>2, <3>1 DEF ReadTimes, Pages
  <2>3. CASE ReadLatest
    <3> DEFINE newest == {<<c, Newest(results[c])>> : c \in {x \in page.shown : results[x] # {}}}
    <3>1. \A c \in page.shown : results[c] # {} => c \in Components /\ Newest(results[c]) \in Checks
      BY <1>1, NewestResult DEF Pages
    <3>2. newest \in Shown
      BY <3>1, <1>1 DEF Pages, Shown
    <3>3. page' = [page EXCEPT !.pc = "done", !.latest = newest]
      BY <2>3 DEF ReadLatest
    <3> HIDE DEF newest
    <3>4. QED BY <1>1, <3>2, <3>3 DEF Pages
  <2>4. QED BY <2>1, <2>2, <2>3
<1>3. arrivals' \subseteq Components \X Checks /\ events' \in 0..MaxEvents
  BY DEF ReadClock, ReadTimes, ReadLatest, TypeInv, OthersOK
<1>4. UNCHANGED <<now, rowVars, incVars>>
  BY DEF ReadClock, ReadTimes, ReadLatest
<1>5. QED BY <1>2, <1>3, <1>4, PageStep

LEMMA AnswerType ==
  ASSUME TypeInv, Answer
  PROVE  TypeInv'
<1>1. page' \in Pages
  BY DEF Answer, NoPage, Pages, Shown
<1>2. arrivals' \subseteq Components \X Checks /\ events' \in 0..MaxEvents
  BY DEF Answer, TypeInv, OthersOK
<1>3. QED BY <1>1, <1>2, PageStep DEF Answer

LEMMA StutterType ==
  ASSUME TypeInv, UNCHANGED vars
  PROVE  TypeInv'
<1>1. page' \in Pages /\ arrivals' \subseteq Components \X Checks /\ events' \in 0..MaxEvents
  BY DEF vars, pageVars, TypeInv, OthersOK
<1>2. QED BY <1>1, PageStep DEF vars

LEMMA TypeStep == TypeInv /\ [Next]_vars => TypeInv'
<1> SUFFICES ASSUME TypeInv, [Next]_vars PROVE TypeInv'
  OBVIOUS
<1>1. CASE Tick \/ SwitchGroup
  BY <1>1, ClockType, SwitchGroupType
<1>2. CASE BeginPage \/ ReadClock \/ ReadTimes \/ ReadLatest \/ Answer
  BY <1>2, BeginPageType, ReadsType, AnswerType
<1>3. ASSUME NEW c \in Components, SaveResult(c) \/ PurgeResults(c) \/ SwitchComponent(c) \/ DeleteComponent(c)
      PROVE  TypeInv'
  BY <1>3, SaveResultType, PurgeResultsType, SwitchComponentType, DeleteComponentType
<1>4. ASSUME NEW i \in Incidents,
             CreateIncident(i) \/ DeleteIncident(i) \/ AddUpdate(i) \/ DeleteUpdate(i) \/ UpdateEntry(i)
      PROVE  TypeInv'
  BY <1>4, CreateIncidentType, DeleteIncidentType, UpdatesType
<1>5. ASSUME NEW a \in Editors, WritePatch(a) \/ \E i \in Incidents : BeginPatch(a, i)
      PROVE  TypeInv'
  BY <1>5, WritePatchType, BeginPatchType
<1>6. QED BY <1>1, <1>2, <1>3, <1>4, <1>5, StutterType DEF Next

\* The tables, the administrators' unfinished PATCHes and the page under way
\* have their types; no incident has more updates than may be written, and
\* none is scoped to a component that is deleted.
THEOREM TypeCorrect == Spec => []TypeOK
<1>1. Spec => []TypeInv
  BY InitType, TypeStep, PTL DEF Spec
<1>2. QED BY <1>1, TypeInvIsType, PTL

----------------------------------------------------------------------------
(* An incident ends after it starts.                                       *)

SameTimes(r, s) == r.starts = s.starts /\ r.ends = s.ends

\* A PATCH under way is one of an incident there is, has been checked, and
\* knows the times the row has, unless another PATCH of the incident was
\* under way with it.
PatchOK(a) ==
  patch[a] # NoPatch =>
    /\ Exists(patch[a].on) /\ InOrder(patch[a].new)
    /\ patch[a].on \notin skewed => SameTimes(patch[a].old, incident[patch[a].on])
Alone == \A a, b \in Editors :
           a # b /\ patch[a] # NoPatch /\ patch[b] # NoPatch /\ patch[a].on = patch[b].on
             => patch[a].on \in skewed
PatchesOK == \A a \in Editors : PatchOK(a)
PatchInv == PatchesOK /\ Alone /\ EndsAfterStart

LEMMA InitPatch == Init => PatchInv
BY DEF Init, PatchInv, PatchesOK, PatchOK, Alone, EndsAfterStart, Exists

LEMMA SameOrder ==
  ASSUME NEW r, NEW s, SameTimes(r, s), InOrder(r)
  PROVE  InOrder(s)
BY DEF SameTimes, InOrder

LEMMA PatchOn ==
  ASSUME TypeInv, NEW a \in Editors, patch[a] # NoPatch
  PROVE  patch[a] \in Patches /\ patch[a].on \in Incidents /\ patch[a].old \in Rows /\ patch[a].new \in Rows
BY DEF TypeInv, OthersOK, Patches

\* Steps that leave the times of every incident alone, and the PATCHes.
LEMMA TimesKept ==
  ASSUME TypeInv, PatchInv, UNCHANGED <<patch, skewed>>,
         \A i \in Incidents : Exists(i)' <=> Exists(i),
         \A i \in Incidents : Exists(i) => SameTimes(incident[i], incident'[i])
  PROVE  PatchInv'
<1>1. ASSUME NEW a \in Editors, patch[a] # NoPatch
      PROVE  /\ Exists(patch[a].on)' /\ InOrder(patch[a].new)
             /\ patch[a].on \notin skewed => SameTimes(patch[a].old, incident'[patch[a].on])
  <2>1. patch[a].on \in Incidents
    BY <1>1, PatchOn
  <2>2. /\ Exists(patch[a].on) /\ InOrder(patch[a].new)
        /\ patch[a].on \notin skewed => SameTimes(patch[a].old, incident[patch[a].on])
    BY <1>1 DEF PatchInv, PatchesOK, PatchOK
  <2>3. SameTimes(incident[patch[a].on], incident'[patch[a].on])
    BY <2>1, <2>2
  <2>4. QED BY <2>1, <2>2, <2>3 DEF SameTimes
<1>2. PatchesOK'
  BY <1>1 DEF PatchesOK, PatchOK, Exists, InOrder, SameTimes
<1>3. Alone'
  BY DEF PatchInv, Alone
<1>4. EndsAfterStart'
  <2>1. ASSUME NEW i \in Incidents, Exists(i), i \notin skewed PROVE InOrder(incident'[i])
    BY <2>1, SameOrder DEF PatchInv, EndsAfterStart
  <2>2. QED BY <2>1 DEF EndsAfterStart, Exists, InOrder
<1>5. QED BY <1>2, <1>3, <1>4 DEF PatchInv

LEMMA SameTable ==
  ASSUME TypeInv, PatchInv, UNCHANGED incVars
  PROVE  PatchInv'
BY TimesKept DEF incVars, Exists, SameTimes

LEMMA DeleteComponentTimes ==
  ASSUME TypeInv, PatchInv, NEW c \in Components, DeleteComponent(c)
  PROVE  PatchInv'
<1>1. incident' = [i \in Incidents |-> Unscoped(incident[i], c)] /\ UNCHANGED <<patch, skewed>>
  BY DEF DeleteComponent
<1>2. ASSUME NEW i \in Incidents
      PROVE  /\ Exists(i)' <=> Exists(i)
             /\ Exists(i) => SameTimes(incident[i], incident'[i])
  <2>1. CASE incident[i] = None
    BY <1>1, <2>1 DEF Exists, Unscoped
  <2>2. CASE incident[i] # None
    <3>1. incident[i] \in Rows /\ incident'[i] = Unscoped(incident[i], c)
      BY <1>1, <2>2 DEF TypeInv, IncidentsOK
    <3>2. QED BY <2>2, <3>1, UnscopedRow, Constants DEF Exists, SameTimes
  <2>3. QED BY <2>1, <2>2
<1>3. QED BY <1>1, <1>2, TimesKept

LEMMA UpdatesTimes ==
  ASSUME TypeInv, PatchInv, NEW i \in Incidents, AddUpdate(i) \/ DeleteUpdate(i) \/ UpdateEntry(i)
  PROVE  PatchInv'
<1>1. PICK set \in SUBSET Updates : WriteUpdates(i, set)
  BY UpdatesWritten
<1> DEFINE row == [incident[i] EXCEPT !.updates = set]
<1>2. /\ Exists(i) /\ incident' = [incident EXCEPT ![i] = row] /\ UNCHANGED <<patch, skewed>>
      /\ incident \in [Incidents -> Rows \cup {None}] /\ incident[i] \in Rows
  BY <1>1 DEF WriteUpdates, TypeInv, IncidentsOK, Exists
<1>3. SameTimes(incident[i], row) /\ row \in Rows /\ row # None
  BY <1>2, Constants DEF SameTimes, Rows
<1> HIDE DEF row
<1>4. ASSUME NEW j \in Incidents
      PROVE  /\ Exists(j)' <=> Exists(j)
             /\ Exists(j) => SameTimes(incident[j], incident'[j])
  BY <1>2, <1>3 DEF Exists, SameTimes
<1>5. QED BY <1>2, <1>4, TimesKept

\* A row is created or dropped while no PATCH of it is under way.
LEMMA FreshRow ==
  ASSUME TypeInv, PatchInv, NEW i \in Incidents, NEW row \in Rows, InOrder(row),
         ~Exists(i), incident' = [incident EXCEPT ![i] = row], UNCHANGED <<patch, skewed>>
  PROVE  PatchInv'
<1>1. \A j \in Incidents \ {i} : incident'[j] = incident[j]
  BY DEF TypeInv, IncidentsOK
<1>2. incident'[i] = row /\ row # None
  BY Constants DEF TypeInv, IncidentsOK
<1>3. ASSUME NEW a \in Editors, patch[a] # NoPatch
      PROVE  patch[a].on \in Incidents \ {i} /\ Exists(patch[a].on) /\ InOrder(patch[a].new)
             /\ (patch[a].on \notin skewed => SameTimes(patch[a].old, incident[patch[a].on]))
  BY <1>3, PatchOn DEF PatchInv, PatchesOK, PatchOK
<1>4. PatchesOK'
  BY <1>1, <1>3 DEF PatchesOK, PatchOK, Exists, InOrder, SameTimes
<1>5. Alone'
  BY DEF PatchInv, Alone
<1>6. EndsAfterStart'
  BY <1>1, <1>2 DEF PatchInv, EndsAfterStart, Exists, InOrder
<1>7. QED BY <1>4, <1>5, <1>6 DEF PatchInv

LEMMA CreateIncidentTimes ==
  ASSUME TypeInv, PatchInv, NEW i \in Incidents, CreateIncident(i)
  PROVE  PatchInv'
<1>1. PICK row \in Rows : InOrder(row) /\ incident' = [incident EXCEPT ![i] = row]
  BY CreatedRow
<1>2. QED BY <1>1, FreshRow DEF CreateIncident

LEMMA BeginPatchTimes ==
  ASSUME TypeInv, PatchInv, NEW a \in Editors, NEW i \in Incidents, BeginPatch(a, i)
  PROVE  PatchInv'
<1>1. PICK n \in Patched(incident[i]) :
        InOrder(n) /\ patch' = [patch EXCEPT ![a] = [on |-> i, old |-> incident[i], new |-> n]]
  BY DEF BeginPatch
<1>2. /\ Exists(i) /\ patch[a] = NoPatch /\ incident' = incident
      /\ skewed' = IF \E x \in Editors \ {a} : patch[x].on = i THEN skewed \cup {i} ELSE skewed
      /\ patch \in [Editors -> {NoPatch} \cup Patches] /\ i # None
  BY Constants DEF BeginPatch, TypeInv, OthersOK
<1>3. /\ skewed \subseteq skewed'
      /\ \A x \in Editors \ {a} : patch[x].on = i => i \in skewed'
  BY <1>2
<1>4. patch'[a] = [on |-> i, old |-> incident[i], new |-> n] /\ \A x \in Editors \ {a} : patch'[x] = patch[x]
  BY <1>1, <1>2
<1>5. ASSUME NEW x \in Editors PROVE PatchOK(x)'
  <2>1. CASE x = a
    BY <1>1, <1>2, <1>4, <2>1 DEF PatchOK, Exists, InOrder, SameTimes
  <2>2. CASE x # a
    <3>1. PatchOK(x) /\ patch'[x] = patch[x]
      BY <1>4, <2>2 DEF PatchInv, PatchesOK
    <3>2. QED BY <1>2, <1>3, <3>1 DEF PatchOK, Exists, InOrder, SameTimes
  <2>3. QED BY <2>1, <2>2
<1>6. Alone'
  <2>1. ASSUME NEW x \in Editors, NEW y \in Editors, x # y, patch'[x] # NoPatch, patch'[y] # NoPatch,
               patch'[x].on = patch'[y].on
        PROVE  patch'[x].on \in skewed'
    <3>1. CASE x = a
      BY <1>3, <1>4, <2>1, <3>1
    <3>2. CASE y = a
      BY <1>3, <1>4, <2>1, <3>2
    <3>3. CASE x # a /\ y # a
      BY <1>3, <1>4, <2>1, <3>3 DEF PatchInv, Alone
    <3>4. QED BY <3>1, <3>2, <3>3
  <2>2. QED BY <2>1 DEF Alone
<1>7. EndsAfterStart'
  BY <1>2, <1>3 DEF PatchInv, EndsAfterStart, Exists, InOrder
<1>8. QED BY <1>5, <1>6, <1>7 DEF PatchInv, PatchesOK

LEMMA WritePatchTimes ==
  ASSUME TypeInv, PatchInv, NEW a \in Editors, WritePatch(a)
  PROVE  PatchInv'
<1> DEFINE p == patch[a]
<1>1. /\ p # NoPatch /\ p \in Patches /\ p.on \in Incidents /\ p.old \in Rows /\ p.new \in Rows
      /\ patch' = [patch EXCEPT ![a] = NoPatch] /\ skewed' = skewed
      /\ patch \in [Editors -> {NoPatch} \cup Patches]
  BY PatchOn DEF WritePatch, TypeInv, OthersOK
<1>2. incident' = IF Exists(p.on) /\ Written(p).scope \in Scopes
                  THEN [incident EXCEPT ![p.on] = Written(p)] ELSE incident
  BY DEF WritePatch, Written
<1>3. /\ Exists(p.on) /\ InOrder(p.new)
      /\ p.on \notin skewed => SameTimes(p.old, incident[p.on])
  BY <1>1 DEF PatchInv, PatchesOK, PatchOK
<1>4. Written(p) \in Rows /\ (p.on \notin skewed => SameTimes(p.new, Written(p)))
  BY <1>1, <1>3, WrittenRow, ColumnIsOne DEF SameTimes
<1>5. \A j \in Incidents \ {p.on} : incident'[j] = incident[j]
  BY <1>1, <1>2 DEF TypeInv, IncidentsOK
<1>6. incident'[p.on] \in {incident[p.on], Written(p)} /\ incident'[p.on] # None
  BY <1>1, <1>2, <1>3, <1>4, Constants DEF TypeInv, IncidentsOK, Exists
<1>7. ASSUME NEW x \in Editors PROVE PatchOK(x)'
  <2>1. CASE x = a
    BY <1>1, <2>1 DEF PatchOK
  <2>2. CASE x # a /\ patch[x] # NoPatch
    <3>1. patch'[x] = patch[x] /\ PatchOK(x) /\ patch[x].on \in Incidents
      BY <1>1, <2>2, PatchOn DEF PatchInv, PatchesOK
    <3>2. patch[x].on = p.on => p.on \in skewed
      BY <1>1, <2>2 DEF PatchInv, Alone
    <3>3. QED BY <1>1, <1>3, <1>5, <1>6, <3>1, <3>2 DEF PatchOK, Exists, InOrder, SameTimes
  <2>3. CASE x # a /\ patch[x] = NoPatch
    BY <1>1, <2>3 DEF PatchOK
  <2>4. QED BY <2>1, <2>2, <2>3
<1>8. Alone'
  BY <1>1 DEF PatchInv, Alone
<1>9. ASSUME NEW i \in Incidents, incident'[i] # None, i \notin skewed PROVE InOrder(incident'[i])
  <2>1. CASE i = p.on
    <3>1. InOrder(incident[i]) /\ InOrder(Written(p))
      BY <1>3, <1>4, <1>9, <2>1, SameOrder DEF PatchInv, EndsAfterStart
    <3>2. QED BY <1>6, <2>1, <3>1
  <2>2. CASE i # p.on
    BY <1>5, <1>9, <2>2 DEF PatchInv, EndsAfterStart, Exists
  <2>3. QED BY <2>1, <2>2
<1>10. EndsAfterStart'
  BY <1>1, <1>9 DEF EndsAfterStart, Exists, InOrder
<1>11. QED BY <1>7, <1>8, <1>10 DEF PatchInv, PatchesOK

LEMMA DeleteIncidentTimes ==
  ASSUME TypeInv, PatchInv, NEW i \in Incidents, DeleteIncident(i)
  PROVE  PatchInv'
<1>1. /\ incident' = [incident EXCEPT ![i] = None]
      /\ patch' = [a \in Editors |-> IF patch[a].on = i THEN NoPatch ELSE patch[a]]
      /\ skewed' = skewed \ {i}
  BY DEF DeleteIncident
<1>2. incident'[i] = None /\ \A j \in Incidents \ {i} : incident'[j] = incident[j]
  BY <1>1 DEF TypeInv, IncidentsOK
<1>3. ASSUME NEW a \in Editors, patch'[a] # NoPatch
      PROVE  patch'[a] = patch[a] /\ patch[a] # NoPatch /\ patch[a].on \in Incidents \ {i}
  BY <1>1, <1>3, PatchOn
<1>4. PatchesOK'
  <2>1. ASSUME NEW a \in Editors, patch'[a] # NoPatch PROVE PatchOK(a)'
    <3>1. PatchOK(a)
      BY DEF PatchInv, PatchesOK
    <3>2. QED BY <1>1, <1>2, <1>3, <2>1, <3>1 DEF PatchOK, Exists, InOrder, SameTimes
  <2>2. QED BY <2>1 DEF PatchesOK, PatchOK
<1>5. Alone'
  BY <1>1, <1>3 DEF PatchInv, Alone
<1>6. EndsAfterStart'
  BY <1>1, <1>2 DEF PatchInv, EndsAfterStart, Exists, InOrder
<1>7. QED BY <1>4, <1>5, <1>6 DEF PatchInv

LEMMA PatchStep == TypeInv /\ PatchInv /\ [Next]_vars => PatchInv'
<1> SUFFICES ASSUME TypeInv, PatchInv, [Next]_vars PROVE PatchInv'
  OBVIOUS
<1>1. CASE Tick \/ SwitchGroup \/ BeginPage \/ ReadClock \/ ReadTimes \/ ReadLatest \/ Answer \/ UNCHANGED vars
  BY <1>1, SameTable DEF Tick, SwitchGroup, BeginPage, ReadClock, ReadTimes, ReadLatest, Answer, vars
<1>2. ASSUME NEW c \in Components, SaveResult(c) \/ PurgeResults(c) \/ SwitchComponent(c)
      PROVE  PatchInv'
  BY <1>2, SameTable DEF SaveResult, PurgeResults, SwitchComponent
<1>3. ASSUME NEW i \in Incidents,
             CreateIncident(i) \/ DeleteIncident(i) \/ AddUpdate(i) \/ DeleteUpdate(i) \/ UpdateEntry(i)
      PROVE  PatchInv'
  BY <1>3, CreateIncidentTimes, DeleteIncidentTimes, UpdatesTimes
<1>4. ASSUME NEW a \in Editors, WritePatch(a) \/ \E i \in Incidents : BeginPatch(a, i)
      PROVE  PatchInv'
  BY <1>4, WritePatchTimes, BeginPatchTimes
<1>5. QED BY <1>1, <1>2, <1>3, <1>4, DeleteComponentTimes DEF Next

\* An incident ends after it starts unless two PATCHes of it were under way
\* at once: each was checked against the row it had read.
THEOREM EndsAfterStartCorrect == Spec => []EndsAfterStart
<1>1. Init => TypeInv /\ PatchInv
  BY InitType, InitPatch
<1>2. TypeInv /\ PatchInv /\ [Next]_vars => (TypeInv /\ PatchInv)'
  BY TypeStep, PatchStep
<1>3. TypeInv /\ PatchInv => EndsAfterStart
  BY DEF PatchInv
<1>4. QED BY <1>1, <1>2, <1>3, PTL DEF Spec

----------------------------------------------------------------------------
(* The views of an incident.                                               *)

\* The day of a time, against the days that are over before it or begin after.
LEMMA DayOfLate ==
  ASSUME NEW t \in Nat, NEW d \in Nat, DayEnd(d) <= t
  PROVE  d <= DayOf(t)
<1>1. DayOf(t) <= d => DayEnd(DayOf(t)) <= DayEnd(d) /\ DayEnd(DayOf(t)) \in Int /\ DayEnd(d) \in Int
  BY DayBounds, DayOrder
<1>2. QED BY <1>1, DayBounds

LEMMA DayOfEarly ==
  ASSUME NEW t \in Nat, NEW d \in Nat, t < DayEnd(d)
  PROVE  DayOf(t) <= d
<1>1. d + 1 <= DayOf(t) => /\ DayStart(d + 1) <= DayStart(DayOf(t))
                           /\ DayStart(d + 1) \in Int /\ DayStart(DayOf(t)) \in Int
  BY DayBounds, DayOrder
<1>2. QED BY <1>1, DayBounds DEF DayEnd

\* The SELECT of a range of days that have begun finds a row exactly when one
\* of the days shows it, if the row ends after it starts.
LEMMA TimelineOfRow ==
  ASSUME NEW row \in Rows, InOrder(row), now \in Nat,
         NEW first \in Nat, NEW last \in Nat, first <= last, last <= DayOf(now)
  PROVE  OnTimeline(row, first, last) <=> \E d \in first..last : OverlapsDay(row, d)
<1> DEFINE day == DayOf(row.starts)
           end == IF row.ends = NoTime THEN now ELSE row.ends
<1>1. row.starts \in Nat /\ end \in Nat /\ (row.ends = NoTime \/ row.ends \in Nat)
  BY Constants DEF Rows
<1>2. \A d \in first..last : /\ DayStart(d) \in Int /\ DayEnd(d) \in Int
                             /\ DayStart(first) <= DayStart(d) /\ DayEnd(d) <= DayEnd(last)
                             /\ DayStart(d) <= DayStart(DayOf(now))
  BY DayOrder, DayBounds
<1>3. \A d \in first..last : DayStart(d) <= now
  BY <1>2, DayBounds, DayOrder
<1>4. /\ DayStart(first) \in Int /\ DayEnd(first) \in Int /\ DayEnd(last) \in Int
      /\ day \in Nat /\ DayStart(day) \in Int /\ DayEnd(day) \in Int
      /\ DayStart(day) <= row.starts /\ row.starts < DayEnd(day)
  <2>1. day \in Nat /\ DayStart(day) <= row.starts /\ row.starts < DayEnd(day)
    BY <1>1, DayBounds
  <2>2. \A d \in Nat : DayStart(d) \in Nat /\ DayEnd(d) \in Nat
    BY DaySpan
  <2> HIDE DEF day
  <2>3. QED BY <2>1, <2>2
<1>5. ASSUME OnTimeline(row, first, last) PROVE \E d \in first..last : OverlapsDay(row, d)
  <2>1. CASE row.starts < DayEnd(first)
    <3>1. OverlapsDay(row, first)
      BY <1>1, <1>3, <1>5, <2>1 DEF OnTimeline, OverlapsDay
    <3>2. QED BY <3>1
  <2>2. CASE ~(row.starts < DayEnd(first))
    <3>1. first <= day /\ day <= last
      BY <1>1, <1>4, <1>5, <2>2, DayOfLate, DayOfEarly DEF OnTimeline
    <3>2. row.ends # NoTime => row.ends >= row.starts
      BY DEF InOrder
    <3>3. end >= DayStart(day)
      BY <1>1, <1>3, <1>4, <3>1, <3>2
    <3>4. OverlapsDay(row, day)
      BY <1>4, <3>3 DEF OverlapsDay
    <3>5. QED BY <1>4, <3>1, <3>4
  <2>3. QED BY <2>1, <2>2
<1>6. ASSUME NEW d \in first..last, OverlapsDay(row, d) PROVE OnTimeline(row, first, last)
  BY <1>1, <1>2, <1>4, <1>6 DEF OverlapsDay, OnTimeline
<1>7. QED BY <1>5, <1>6

LEMMA TimelineCompleteHolds == TypeInv /\ EndsAfterStart => TimelineComplete
<1> SUFFICES ASSUME TypeInv, EndsAfterStart, NEW i \in Incidents, Exists(i), i \notin skewed, NEW r \in Ranges
             PROVE  OnTimeline(incident[i], r[1], r[2]) <=> \E d \in r[1]..r[2] : OverlapsDay(incident[i], d)
  BY DEF TimelineComplete
<1>1. incident[i] \in Rows /\ InOrder(incident[i]) /\ now \in Nat
  BY DEF TypeInv, OthersOK, IncidentsOK, Exists, EndsAfterStart
<1>2. r[1] \in Nat /\ r[2] \in Nat /\ r[1] <= r[2] /\ r[2] <= DayOf(now)
  BY <1>1, DayBounds DEF Ranges
<1>3. QED BY <1>1, <1>2, TimelineOfRow

LEMMA AlertsMatchBarsHolds == TypeInv => AlertsMatchBars
<1> SUFFICES ASSUME TypeInv, NEW i \in Incidents, Exists(i), ~DatedLater(incident[i])
             PROVE  \/ IncidentAlert(i) <=> BarActive(i, DayOf(now))
                    \/ IncidentAlert(i) /\ NotOfToday(incident[i])
  BY DEF AlertsMatchBars
<1> DEFINE row == incident[i]
<1>1. /\ now \in Nat /\ \A u \in row.updates : u.at \in Nat
      /\ row.starts \in Nat /\ (row.ends = NoTime \/ row.ends \in Nat)
  BY Constants DEF TypeInv, OthersOK, IncidentsOK, Exists, Rows, Updates
<1>2. /\ DayEnd(DayOf(now)) \in Int /\ DayStart(DayOf(now)) \in Int
      /\ DayStart(DayOf(now)) <= now
  BY <1>1, DayBounds, DayOrder
<1>3. {u \in row.updates : u.at < DayEnd(DayOf(now))} = row.updates
  BY <1>1, <1>2 DEF DatedLater
<1>4. row.updates # {} => (IncidentAlert(i) <=> DayEntry(row, DayOf(now)).status \in ActiveStatuses)
  BY <1>3 DEF IncidentAlert, DayEntry
<1>5. OverlapsDay(row, DayOf(now)) \/ NotOfToday(row)
  BY <1>1, <1>2 DEF OverlapsDay, NotOfToday
<1>6. QED BY <1>4, <1>5 DEF BarActive, IncidentAlert

\* The timeline of a range loads an incident exactly when a day of it shows
\* the incident, and an alert and the bar of today contradict each other only
\* by an incident that is not of today or an update dated later.
THEOREM IncidentViewsCorrect == Spec => []IncidentViewsAgree
<1>1. TypeInv /\ EndsAfterStart => IncidentViewsAgree
  BY TimelineCompleteHolds, AlertsMatchBarsHolds DEF IncidentViewsAgree
<1>2. Spec => []TypeInv
  BY InitType, TypeStep, PTL DEF Spec
<1>3. QED BY <1>1, <1>2, EndsAfterStartCorrect, PTL

----------------------------------------------------------------------------
(* What one page says of a day.                                            *)

\* The results of the components on the page, as the tables have them now.
Held == {x \in page.shown \X Checks : x[2] \in results[x[1]]}
\* Those of the range which the bars do not count came while the page was built.
Known(S) == \A x \in S : InRange(x[2], page) => x \in page.counted \cup arrivals
PageInv == page.pc # "idle" => Known(Held) /\ Known(page.timed) /\ Known(page.latest)

LEMMA InitPage == Init => PageInv
BY DEF Init, NoPage, PageInv

\* Results that are no more, and results that have just arrived.
LEMMA KnownStays ==
  ASSUME TypeInv, PageInv, page' = page, arrivals \subseteq arrivals', page.pc # "idle",
         Held' \subseteq Held \cup arrivals'
  PROVE  PageInv'
<1>1. Known(Held) /\ Known(page.timed) /\ Known(page.latest)
  BY DEF PageInv
<1>2. Known(page.timed)' /\ Known(page.latest)' /\ Known(Held)'
  BY <1>1 DEF Known, InRange
<1>3. QED BY <1>2 DEF PageInv

LEMMA IdlePage ==
  ASSUME page'.pc = "idle"
  PROVE  PageInv'
BY DEF PageInv

LEMMA SamePage ==
  ASSUME TypeInv, PageInv, UNCHANGED pageVars,
         \A c \in Components : results'[c] \subseteq results[c]
  PROVE  PageInv'
<1>1. page' = page /\ arrivals' = arrivals
  BY DEF pageVars
<1>2. page.shown \subseteq Components
  BY DEF TypeInv, OthersOK, Pages
<1>3. Held' \subseteq Held
  BY <1>1, <1>2 DEF Held
<1>4. QED BY <1>1, <1>3, KnownStays, IdlePage

LEMMA SaveResultPage ==
  ASSUME TypeInv, PageInv, NEW c \in Components, SaveResult(c)
  PROVE  PageInv'
<1>1. PICK r : /\ results' = [results EXCEPT ![c] = @ \cup {r}]
               /\ arrivals' = IF page.pc = "idle" THEN {} ELSE arrivals \cup {<<c, r>>}
  BY DEF SaveResult
<1>2. page' = page
  BY DEF SaveResult
<1>3. CASE page.pc # "idle"
  <2>1. results \in [Components -> SUBSET Checks] /\ page.shown \subseteq Components
    BY DEF TypeInv, OthersOK, Pages
  <2>2. ASSUME NEW x \in Held' PROVE x \in Held \cup arrivals'
    <3>1. x \in page.shown \X Checks /\ x[2] \in results'[x[1]]
      BY <1>2 DEF Held
    <3>2. CASE x[1] = c /\ x[2] = r
      BY <1>1, <1>3, <3>1, <3>2
    <3>3. CASE ~(x[1] = c /\ x[2] = r)
      <4>1. x[2] \in results[x[1]]
        BY <1>1, <2>1, <3>1, <3>3
      <4>2. QED BY <3>1, <4>1 DEF Held
    <3>4. QED BY <3>2, <3>3
  <2>3. QED BY <1>1, <1>2, <1>3, <2>2, KnownStays
<1>4. QED BY <1>2, <1>3, IdlePage

LEMMA BeginPageHolds ==
  ASSUME TypeInv, BeginPage
  PROVE  PageInv'
<1>1. PICK last \in 0..DayOf(now) : \E first \in {last, last - 1} \cap Nat :
        page' = [[NoPage EXCEPT !.last = last, !.first = first] EXCEPT
                  !.pc = "clock", !.shown = Loaded,
                  !.counted = ReadRows([NoPage EXCEPT !.last = last, !.first = first], Loaded)]
  BY DEF BeginPage
<1>2. PICK first \in {last, last - 1} \cap Nat :
        page' = [[NoPage EXCEPT !.last = last, !.first = first] EXCEPT
                  !.pc = "clock", !.shown = Loaded,
                  !.counted = ReadRows([NoPage EXCEPT !.last = last, !.first = first], Loaded)]
  BY <1>1
<1> DEFINE p == [NoPage EXCEPT !.last = last, !.first = first]
<1>3. p.first = first /\ p.last = last
  BY DEF NoPage
<1>4. /\ page'.first = first /\ page'.last = last /\ page'.shown = Loaded
      /\ page'.counted = ReadRows(p, Loaded) /\ page'.timed = {} /\ page'.latest = {}
  BY <1>2 DEF NoPage
<1>5. results' = results
  BY DEF BeginPage, rowVars
<1> HIDE DEF p
<1>6. ASSUME NEW x \in Held', InRange(x[2], page') PROVE x \in page'.counted
  <2>1. x \in Loaded \X Checks /\ x[2] \in results[x[1]]
    BY <1>4, <1>5 DEF Held
  <2>2. InRange(x[2], p)
    BY <1>3, <1>4, <1>6 DEF InRange
  <2>3. QED BY <1>4, <2>1, <2>2 DEF ReadRows
<1>7. Known(Held)'
  BY <1>6 DEF Known, InRange
<1>8. QED BY <1>4, <1>7 DEF PageInv, Known

LEMMA ReadsHeld ==
  ASSUME TypeInv, PageInv, ReadClock \/ ReadTimes \/ ReadLatest
  PROVE  PageInv'
<1>1. page \in Pages /\ OthersOK /\ page.pc # "idle" /\ page.shown \subseteq Components
  BY DEF TypeInv, OthersOK, Pages, ReadClock, ReadTimes, ReadLatest
<1>2. UNCHANGED <<results, arrivals>>
  BY DEF ReadClock, ReadTimes, ReadLatest, rowVars
<1>3. /\ page'.first = page.first /\ page'.last = page.last
      /\ page'.shown = page.shown /\ page'.counted = page.counted
  BY <1>1 DEF ReadClock, ReadTimes, ReadLatest, Pages
<1>4. page'.timed \subseteq page.timed \cup Held
  <2>1. CASE ReadClock \/ ReadLatest
    BY <1>1, <2>1 DEF ReadClock, ReadLatest, Pages
  <2>2. CASE ReadTimes
    <3> DEFINE read == {x \in page.shown \X Checks : x[2] \in results[x[1]] /\ x[2].at < DayEnd(page.last)}
    <3>1. page'.timed = read
      BY <1>1, <2>2 DEF ReadTimes, Pages
    <3>2. read \subseteq Held
      BY DEF Held
    <3>3. QED BY <3>1, <3>2
  <2>3. QED BY <2>1, <2>2
<1>5. page'.latest \subseteq page.latest \cup Held
  <2>1. CASE ReadClock \/ ReadTimes
    BY <1>1, <2>1 DEF ReadClock, ReadTimes, Pages
  <2>2. CASE ReadLatest
    <3>1. ASSUME NEW c \in page.shown, results[c] # {}
          PROVE  <<c, Newest(results[c])>> \in Held
      <4>1. \A r \in results[c] : r \in Checks /\ r.at \in 0..MaxTime
        BY <1>1 DEF OthersOK, Checks
      <4>2. Newest(results[c]) \in results[c] /\ Newest(results[c]) \in Checks
        BY <3>1, <4>1, NewestIsOne
      <4>3. QED BY <4>2 DEF Held
    <3> DEFINE newest == {<<c, Newest(results[c])>> : c \in {x \in page.shown : results[x] # {}}}
    <3>2. newest \subseteq Held
      BY <3>1
    <3>3. page'.latest = newest
      BY <1>1, <2>2 DEF ReadLatest, Pages
    <3>4. QED BY <3>2, <3>3
  <2>3. QED BY <2>1, <2>2
<1>6. Held' = Held
  BY <1>2, <1>3 DEF Held
<1>7. \A r : InRange(r, page') <=> InRange(r, page)
  BY <1>3 DEF InRange
<1>8. Known(Held) /\ Known(page.timed) /\ Known(page.latest)
  BY <1>1 DEF PageInv
<1>9. Known(Held)' /\ Known(page.timed)' /\ Known(page.latest)'
  BY <1>2, <1>3, <1>4, <1>5, <1>6, <1>7, <1>8 DEF Known, InRange
<1>10. QED BY <1>9 DEF PageInv

LEMMA PageInvStep == TypeInv /\ PageInv /\ [Next]_vars => PageInv'
<1> SUFFICES ASSUME TypeInv, PageInv, [Next]_vars PROVE PageInv'
  OBVIOUS
<1>1. CASE Tick \/ SwitchGroup \/ UNCHANGED vars
  BY <1>1, SamePage DEF Tick, SwitchGroup, vars, rowVars
<1>2. CASE BeginPage \/ ReadClock \/ ReadTimes \/ ReadLatest
  BY <1>2, BeginPageHolds, ReadsHeld
<1>3. CASE Answer
  BY <1>3, IdlePage DEF Answer, NoPage
<1>4. ASSUME NEW c \in Components, PurgeResults(c) PROVE PageInv'
  <2>1. PICK kept \in {{}} \cup IF Cardinality(results[c]) > 1 THEN {{Newest(results[c])}} ELSE {} :
          results[c] # {} /\ results' = [results EXCEPT ![c] = kept]
    BY <1>4 DEF PurgeResults
  <2>2. \A r \in results[c] : r.at \in 0..MaxTime
    BY DEF TypeInv, OthersOK, Checks
  <2>3. kept \subseteq results[c]
    BY <2>1, <2>2, NewestIsOne
  <2>4. \A d \in Components : results'[d] \subseteq results[d]
    BY <2>1, <2>3 DEF TypeInv, OthersOK
  <2>5. QED BY <1>4, <2>4, SamePage DEF PurgeResults
<1>5. ASSUME NEW c \in Components, DeleteComponent(c) PROVE PageInv'
  BY <1>5, SamePage DEF DeleteComponent, TypeInv, OthersOK
<1>6. ASSUME NEW c \in Components, SwitchComponent(c) PROVE PageInv'
  BY <1>6, SamePage DEF SwitchComponent
<1>7. ASSUME NEW i \in Incidents,
             CreateIncident(i) \/ DeleteIncident(i) \/ AddUpdate(i) \/ DeleteUpdate(i) \/ UpdateEntry(i)
      PROVE  PageInv'
  BY <1>7, SamePage DEF CreateIncident, DeleteIncident, AddUpdate, DeleteUpdate, UpdateEntry, WriteUpdates, rowVars
<1>8. ASSUME NEW a \in Editors, WritePatch(a) \/ \E i \in Incidents : BeginPatch(a, i)
      PROVE  PageInv'
  BY <1>8, SamePage DEF WritePatch, BeginPatch, rowVars
<1>9. QED BY <1>1, <1>2, <1>3, <1>4, <1>5, <1>6, <1>7, <1>8, SaveResultPage DEF Next

LEMMA ChecksFinite == IsFiniteSet(Checks)
<1> DEFINE pairs == (0..MaxTime) \X Outcomes
           check == [x \in pairs |-> [at |-> x[1], outcome |-> x[2]]]
<1>1. IsFiniteSet(0..MaxTime)
  BY FS_Interval, Constants
<1>2. IsFiniteSet(Outcomes)
  <2>1. Outcomes = {"up", "degraded"} \cup {"down"} /\ {"up", "degraded"} = {"up"} \cup {"degraded"}
    BY DEF Outcomes
  <2>2. IsFiniteSet({"up"}) /\ IsFiniteSet({"degraded"}) /\ IsFiniteSet({"down"})
    BY FS_Singleton
  <2>3. IsFiniteSet({"up", "degraded"})
    BY <2>1, <2>2, FS_Union
  <2>4. QED BY <2>1, <2>2, <2>3, FS_Union
<1>3. IsFiniteSet(pairs)
  BY <1>1, <1>2, FS_Product
<1>4. \A r \in Checks : \E x \in pairs : r = check[x]
  <2>1. ASSUME NEW r \in Checks PROVE r = check[<<r.at, r.outcome>>] /\ <<r.at, r.outcome>> \in pairs
    BY DEF Checks
  <2>2. QED BY <2>1
<1> HIDE DEF check
<1>5. Checks \subseteq {check[x] : x \in pairs}
  BY <1>4
<1> HIDE DEF pairs
<1>6. IsFiniteSet({check[x] : x \in pairs})
  BY <1>3, ImageFinite
<1>7. QED BY <1>5, <1>6, FS_Subset

\* A day of a component that has a check has a total.
LEMMA DayCounted ==
  ASSUME NEW c, NEW d, NEW p, NEW r \in Checks, <<c, r>> \in p.counted, DayOf(r.at) = d
  PROVE  Bar(c, d, p).total > 0
<1> DEFINE S == {q \in Checks : <<c, q>> \in p.counted /\ DayOf(q.at) = d}
<1>1. IsFiniteSet(S) /\ S # {}
  BY ChecksFinite, FS_Subset
<1>2. Cardinality(S) \in Nat /\ Cardinality(S) # 0
  BY <1>1, FS_CardinalityType, FS_EmptySet
<1>3. Bar(c, d, p).total = Cardinality(S)
  BY DEF Bar, Stats
<1>4. QED BY <1>2, <1>3

LEMMA TornHolds == TypeInv /\ PageInv => (page.pc = "done" => TornOnlyByArrivals(page))
<1> SUFFICES ASSUME TypeInv, PageInv, page.pc = "done" PROVE TornOnlyByArrivals(page)
  OBVIOUS
<1>1. Known(page.timed) /\ Known(page.latest)
  BY DEF PageInv
<1>2. \A x \in ServiceAlerts(page) : InRange(x[2], page) => x \in page.counted \cup arrivals
  BY <1>1 DEF Known, ServiceAlerts
<1>3. ASSUME NEW c \in page.shown, NEW d \in page.first..page.last, BarDowntime(c, d, page) > 0
      PROVE  \/ Bar(c, d, page).total > 0
             \/ \E x \in arrivals : x[1] = c /\ DayOf(x[2].at) = d
  <2> DEFINE checks == {r \in Checks : <<c, r>> \in page.timed}
  <2>1. OnDay(checks, d) # {}
    BY <1>3 DEF BarDowntime, ShownDowntime
  <2>2. PICK r \in Checks : <<c, r>> \in page.timed /\ DayOf(r.at) = d
    BY <2>1 DEF OnDay
  <2>3. r.at \in Nat /\ page.first \in Nat /\ page.last \in Nat /\ page.first <= d /\ d <= page.last /\ d \in Int
    BY Constants DEF Checks, TypeInv, OthersOK, Pages
  <2>4. InRange(r, page)
    <3>1. DayStart(d) <= r.at /\ r.at < DayEnd(d)
      BY <2>2, <2>3, DayBounds
    <3>2. /\ DayStart(page.first) <= DayStart(d) /\ DayEnd(d) <= DayEnd(page.last)
          /\ {DayStart(page.first), DayStart(d), DayEnd(d), DayEnd(page.last)} \subseteq Int
      BY <2>3, DayOrder
    <3>3. QED BY <2>3, <3>1, <3>2 DEF InRange
  <2>5. <<c, r>> \in page.counted \cup arrivals
    BY <1>1, <2>2, <2>4 DEF Known
  <2>6. QED BY <2>2, <2>5, DayCounted
<1>4. QED BY <1>2, <1>3 DEF TornOnlyByArrivals

\* The SELECTs of a page may see different rows, yet, apart from results that
\* were committed while it was built, an alert of the range is of a check the
\* bars count and downtime is shown only for a day with checks.
THEOREM PageTornOnlyByArrivals == Spec => [](page.pc = "done" => TornOnlyByArrivals(page))
<1>1. Init => TypeInv /\ PageInv
  BY InitType, InitPage
<1>2. TypeInv /\ PageInv /\ [Next]_vars => (TypeInv /\ PageInv)'
  BY TypeStep, PageInvStep
<1>3. QED BY <1>1, <1>2, TornHolds, PTL DEF Spec

----------------------------------------------------------------------------
(* The seconds of downtime.                                                *)

\* What a component's rows of check_results are: one for each time, none of the future.
Dated(rows, t) == /\ \A e, f \in rows : e.at = f.at => e = f
                  /\ \A e \in rows : e.at <= t
ResultsOK == \A c \in Components : Dated(results[c], now)

LEMMA InitResults == Init => ResultsOK
BY DEF Init, ResultsOK, Dated

LEMMA FewerResults ==
  ASSUME TypeInv, ResultsOK, now <= now', now' \in Nat,
         \A c \in Components : results'[c] \subseteq results[c]
  PROVE  ResultsOK'
<1>1. \A c \in Components : \A e \in results[c] : e.at \in Nat
  BY Constants DEF TypeInv, OthersOK, Checks
<1>2. now \in Nat
  BY DEF TypeInv, OthersOK
<1>3. QED BY <1>1, <1>2 DEF ResultsOK, Dated

LEMMA SaveResultDated ==
  ASSUME TypeInv, ResultsOK, NEW c \in Components, SaveResult(c)
  PROVE  ResultsOK'
<1>1. PICK at \in {now, now - 1} \cap Nat, o \in Outcomes :
        /\ \A r \in results[c] : r.at # at
        /\ results' = [results EXCEPT ![c] = @ \cup {[at |-> at, outcome |-> o]}]
  BY DEF SaveResult
<1>2. now' = now /\ now \in Nat
  BY DEF SaveResult, TypeInv, OthersOK
<1>3. \A d \in Components : d # c => results'[d] = results[d]
  BY <1>1 DEF TypeInv, OthersOK
<1>4. results'[c] = results[c] \cup {[at |-> at, outcome |-> o]}
  BY <1>1 DEF TypeInv, OthersOK
<1>5. Dated(results[c], now)
  BY DEF ResultsOK
<1>6. Dated(results'[c], now)
  BY <1>1, <1>2, <1>4, <1>5 DEF Dated
<1>7. QED BY <1>2, <1>3, <1>6 DEF ResultsOK

LEMMA PurgeKeeps ==
  ASSUME TypeInv, NEW c \in Components, PurgeResults(c)
  PROVE  \A d \in Components : results'[d] \subseteq results[d]
<1>1. PICK kept \in {{}} \cup IF Cardinality(results[c]) > 1 THEN {{Newest(results[c])}} ELSE {} :
        results[c] # {} /\ results' = [results EXCEPT ![c] = kept]
  BY DEF PurgeResults
<1>2. \A r \in results[c] : r.at \in 0..MaxTime
  BY DEF TypeInv, OthersOK, Checks
<1>3. kept \subseteq results[c]
  BY <1>1, <1>2, NewestIsOne
<1>4. QED BY <1>1, <1>3 DEF TypeInv, OthersOK

LEMMA ResultsStep == TypeInv /\ ResultsOK /\ [Next]_vars => ResultsOK'
<1> SUFFICES ASSUME TypeInv, ResultsOK, [Next]_vars PROVE ResultsOK'
  OBVIOUS
<1>0. now \in Nat
  BY DEF TypeInv, OthersOK
<1>1. CASE UNCHANGED <<now, results>>
  BY <1>1 DEF ResultsOK
<1>2. CASE Tick
  <2>1. now' = now + 1 /\ results' = results
    BY <1>2 DEF Tick, rowVars
  <2>2. QED BY <1>0, <2>1, FewerResults
<1>3. ASSUME NEW c \in Components, PurgeResults(c) \/ DeleteComponent(c) PROVE ResultsOK'
  <2>1. now' = now
    BY <1>3 DEF PurgeResults, DeleteComponent
  <2>2. \A d \in Components : results'[d] \subseteq results[d]
    BY <1>3, PurgeKeeps DEF DeleteComponent, TypeInv, OthersOK
  <2>3. QED BY <1>0, <2>1, <2>2, FewerResults
<1>4. CASE SwitchGroup \/ BeginPage \/ ReadClock \/ ReadTimes \/ ReadLatest \/ Answer \/ UNCHANGED vars
  BY <1>1, <1>4 DEF SwitchGroup, BeginPage, ReadClock, ReadTimes, ReadLatest, Answer, vars, rowVars
<1>5. ASSUME NEW c \in Components, SwitchComponent(c) PROVE ResultsOK'
  BY <1>1, <1>5 DEF SwitchComponent
<1>6. ASSUME NEW i \in Incidents,
             CreateIncident(i) \/ DeleteIncident(i) \/ AddUpdate(i) \/ DeleteUpdate(i) \/ UpdateEntry(i)
      PROVE  ResultsOK'
  BY <1>1, <1>6 DEF CreateIncident, DeleteIncident, AddUpdate, DeleteUpdate, UpdateEntry, WriteUpdates, rowVars
<1>7. ASSUME NEW a \in Editors, WritePatch(a) \/ \E i \in Incidents : BeginPatch(a, i)
      PROVE  ResultsOK'
  BY <1>1, <1>7 DEF WritePatch, BeginPatch, rowVars
<1>8. QED BY <1>2, <1>3, <1>4, <1>5, <1>6, <1>7, SaveResultDated DEF Next

LEMMA RowsAreEvents ==
  ASSUME NEW rows \in SUBSET Checks, \A e, f \in rows : e.at = f.at => e = f
  PROVE  EventsOK(rows)
<1>1. IsFiniteSet(rows)
  BY ChecksFinite, FS_Subset
<1>2. \A e \in rows : e.at \in Nat /\ e.outcome \in Outcomes
  BY DEF Checks
<1>3. QED BY <1>1, <1>2 DEF EventsOK

\* The seconds of downtime a day shows are those at which the newest check
\* had found an outage, for every component, day and range.
THEOREM UptimeExactCorrect == Spec => []UptimeExact
<1>1. ASSUME TypeInv, ResultsOK PROVE UptimeExact
  <2> SUFFICES ASSUME NEW c \in Components, NEW d \in 0..DayOf(now), NEW first \in 0..DayOf(now),
                      OnDay(results[c], d) # {}, d = first \/ OnDay(results[c], d - 1) # {}
               PROVE  ShownDowntime(results[c], d, first, now) = Cardinality(OutageSeconds(results[c], d, now))
    BY DEF UptimeExact
  <2>1. results[c] \in SUBSET Checks /\ now \in Nat /\ Dated(results[c], now)
    BY <1>1 DEF TypeInv, OthersOK, ResultsOK
  <2>2. EventsOK(results[c]) /\ \A e \in results[c] : e.at <= now
    BY <2>1, RowsAreEvents DEF Dated
  <2>3. QED BY <2>1, <2>2, DowntimeIsExact
<1>2. Spec => []TypeInv
  BY InitType, TypeStep, PTL DEF Spec
<1>3. Spec => []ResultsOK
  BY InitResults, ResultsStep, <1>2, PTL DEF Spec
<1>4. QED BY <1>1, <1>2, <1>3, PTL

\* The times a page has read: one row for each of them too.
TimedOK == \A c \in Components, e, f \in Checks :
             <<c, e>> \in page.timed /\ <<c, f>> \in page.timed /\ e.at = f.at => e = f

LEMMA TimedStep == TypeInv /\ ResultsOK /\ TimedOK /\ [Next]_vars => TimedOK'
<1> SUFFICES ASSUME TypeInv, ResultsOK, TimedOK, [Next]_vars PROVE TimedOK'
  OBVIOUS
<1>0. page \in Pages
  BY DEF TypeInv, OthersOK
<1>1. CASE page'.timed = page.timed
  BY <1>1 DEF TimedOK
<1>2. CASE page'.timed = {}
  BY <1>2 DEF TimedOK
<1>3. CASE ReadTimes
  <2>1. page'.timed = {x \in page.shown \X Checks : x[2] \in results[x[1]] /\ x[2].at < DayEnd(page.last)}
    BY <1>0, <1>3 DEF ReadTimes, Pages
  <2>2. ASSUME NEW c \in Components, NEW e, <<c, e>> \in page'.timed PROVE e \in results[c]
    BY <2>1, <2>2
  <2>3. QED BY <2>2 DEF TimedOK, ResultsOK, Dated
<1>4. CASE ReadClock \/ ReadLatest
  BY <1>0, <1>1, <1>4 DEF ReadClock, ReadLatest, Pages
<1>5. CASE Answer
  BY <1>2, <1>5 DEF Answer, NoPage
<1>6. CASE BeginPage
  <2>1. PICK last \in 0..DayOf(now) : \E first \in {last, last - 1} \cap Nat :
          page' = [[NoPage EXCEPT !.last = last, !.first = first] EXCEPT
                    !.pc = "clock", !.shown = Loaded,
                    !.counted = ReadRows([NoPage EXCEPT !.last = last, !.first = first], Loaded)]
    BY <1>6 DEF BeginPage
  <2>2. page'.timed = {}
    BY <2>1 DEF NoPage
  <2>3. QED BY <1>2, <2>2
<1>7. CASE Tick \/ SwitchGroup \/ UNCHANGED vars
  BY <1>1, <1>7 DEF Tick, SwitchGroup, vars, pageVars
<1>8. ASSUME NEW c \in Components, SaveResult(c) \/ PurgeResults(c) \/ SwitchComponent(c) \/ DeleteComponent(c)
      PROVE  TimedOK'
  BY <1>1, <1>8 DEF SaveResult, PurgeResults, SwitchComponent, DeleteComponent, pageVars
<1>9. ASSUME NEW i \in Incidents,
             CreateIncident(i) \/ DeleteIncident(i) \/ AddUpdate(i) \/ DeleteUpdate(i) \/ UpdateEntry(i)
      PROVE  TimedOK'
  BY <1>1, <1>9 DEF CreateIncident, DeleteIncident, AddUpdate, DeleteUpdate, UpdateEntry, WriteUpdates, pageVars
<1>10. ASSUME NEW a \in Editors, WritePatch(a) \/ \E i \in Incidents : BeginPatch(a, i)
       PROVE  TimedOK'
  BY <1>1, <1>10 DEF WritePatch, BeginPatch, pageVars
<1>11. QED BY <1>3, <1>4, <1>5, <1>6, <1>7, <1>8, <1>9, <1>10 DEF Next

LEMMA DowntimeInDayHolds == TypeInv /\ TimedOK => DowntimeInDay(page)
<1> SUFFICES ASSUME TypeInv, TimedOK, NEW c \in page.shown, NEW d \in page.first..page.last
             PROVE  BarDowntime(c, d, page) \in 0..DayLength
  BY DEF DowntimeInDay
<1> DEFINE rows == {r \in Checks : <<c, r>> \in page.timed}
<1>1. c \in Components /\ d \in Nat /\ page.clock \in Nat
  BY DEF TypeInv, OthersOK, Pages
<1>2. rows \in SUBSET Checks /\ \A e, f \in rows : e.at = f.at => e = f
  BY <1>1 DEF TimedOK
<1>3. EventsOK(rows)
  BY <1>2, RowsAreEvents
<1> HIDE DEF rows
<1>4. ShownDowntime(rows, d, page.first, page.clock) \in 0..DayLength
  BY <1>1, <1>3, DowntimeFitsDay
<1>5. QED BY <1>4 DEF BarDowntime, rows

----------------------------------------------------------------------------
(* The checks of a group.                                                  *)

\* Counted checks of some cells, a cell being a component and a day.
In(cells, p) == {x \in p.counted : <<x[1], DayOf(x[2].at)>> \in cells}
Of(xs, o) == {x \in xs : x[2].outcome = o}
Tally(xs) == [total |-> Cardinality(xs), up |-> Cardinality(Of(xs, "up")),
              degraded |-> Cardinality(Of(xs, "degraded")), failed |-> Cardinality(Of(xs, "down"))]

LEMMA TallyType ==
  ASSUME NEW xs, IsFiniteSet(xs)
  PROVE  Tally(xs) \in AllStats
<1>1. \A o : IsFiniteSet(Of(xs, o))
  BY FS_Subset DEF Of
<1>2. Cardinality(xs) \in Nat /\ \A o : Cardinality(Of(xs, o)) \in Nat
  BY <1>1, FS_CardinalityType
<1>3. QED BY <1>2 DEF Tally, AllStats

LEMMA CardinalityAdds ==
  ASSUME NEW xs, NEW ys, IsFiniteSet(xs), IsFiniteSet(ys), xs \cap ys = {}
  PROVE  Cardinality(xs \cup ys) = Cardinality(xs) + Cardinality(ys)
<1>1. Cardinality(xs \cup ys) = Cardinality(xs) + Cardinality(ys) - Cardinality(xs \cap ys)
  BY FS_Union
<1>2. Cardinality(xs \cap ys) = 0 /\ Cardinality(xs) \in Nat /\ Cardinality(ys) \in Nat
  BY FS_EmptySet, FS_CardinalityType
<1>3. QED BY <1>1, <1>2

LEMMA TallyAdds ==
  ASSUME NEW xs, NEW ys, IsFiniteSet(xs), IsFiniteSet(ys), xs \cap ys = {}
  PROVE  Tally(xs \cup ys) = AddStats(Tally(xs), Tally(ys))
<1>1. ASSUME NEW o PROVE Cardinality(Of(xs \cup ys, o)) = Cardinality(Of(xs, o)) + Cardinality(Of(ys, o))
  <2>1. Of(xs \cup ys, o) = Of(xs, o) \cup Of(ys, o) /\ Of(xs, o) \cap Of(ys, o) = {}
    BY DEF Of
  <2>2. IsFiniteSet(Of(xs, o)) /\ IsFiniteSet(Of(ys, o))
    BY FS_Subset DEF Of
  <2>3. QED BY <2>1, <2>2, CardinalityAdds
<1>2. Cardinality(xs \cup ys) = Cardinality(xs) + Cardinality(ys)
  BY CardinalityAdds
<1>3. Tally(xs) \in AllStats /\ Tally(ys) \in AllStats
  BY TallyType
<1>4. AddStats(Tally(xs), Tally(ys)) =
        [total |-> Tally(xs).total + Tally(ys).total, up |-> Tally(xs).up + Tally(ys).up,
         degraded |-> Tally(xs).degraded + Tally(ys).degraded, failed |-> Tally(xs).failed + Tally(ys).failed]
  BY <1>3, AddStatsIs
<1>5. QED BY <1>1, <1>2, <1>4 DEF Tally

\* The bar of a day is the tally of its cell.
LEMMA BarIsTally ==
  ASSUME NEW c \in Components, NEW d, NEW p, p.counted \in Shown
  PROVE  Bar(c, d, p) = Tally(In({<<c, d>>}, p))
<1> DEFINE rows == {r \in Checks : <<c, r>> \in p.counted /\ DayOf(r.at) = d}
           cells == In({<<c, d>>}, p)
<1>1. ASSUME NEW rs \in SUBSET rows, NEW xs \in SUBSET cells, \A r \in Checks : r \in rs <=> <<c, r>> \in xs
      PROVE  Cardinality(rs) = Cardinality(xs)
  <2> DEFINE pair == [r \in rs |-> <<c, r>>]
  <2>1. IsFiniteSet(rs)
    BY ChecksFinite, FS_Subset
  <2>2. \A x \in xs : x[1] = c /\ x[2] \in Checks /\ x = <<c, x[2]>>
    BY DEF In, Shown
  <2>3. \A x \in xs : x[2] \in rs /\ pair[x[2]] = x
    BY <1>1, <2>2
  <2>4. pair \in [rs -> xs]
    BY <1>1
  <2>5. \A r, q \in rs : pair[r] = pair[q] => r = q
    OBVIOUS
  <2>6. pair \in Bijection(rs, xs)
    BY <2>3, <2>4, <2>5 DEF Bijection, Injection, Surjection, IsInjective
  <2>7. QED BY <2>1, <2>6, FS_Bijection DEF ExistsBijection
<1>2. \A r \in Checks : r \in rows <=> <<c, r>> \in cells
  BY DEF In
<1>3. \A o, r : r \in Checks => (r \in {e \in rows : e.outcome = o} <=> <<c, r>> \in Of(cells, o))
  BY <1>2 DEF Of
<1>4. Cardinality(rows) = Cardinality(cells)
  BY <1>1, <1>2
<1>5. ASSUME NEW o PROVE With(rows, o) = Cardinality(Of(cells, o))
  <2> DEFINE rs == {e \in rows : e.outcome = o}
             xs == Of(cells, o)
  <2>1. rs \in SUBSET rows /\ xs \in SUBSET cells
    BY DEF Of
  <2>2. \A r \in Checks : r \in rs <=> <<c, r>> \in xs
    BY <1>3
  <2> HIDE DEF rs, xs
  <2>3. Cardinality(rs) = Cardinality(xs)
    BY <1>1, <2>1, <2>2
  <2>4. QED BY <2>3 DEF With, rs, xs
<1> HIDE DEF rows, cells
<1>6. Stats(rows) = Tally(cells)
  BY <1>4, <1>5 DEF Stats, Tally
<1>7. QED BY <1>6 DEF Bar, rows, cells

LEMMA CountedFinite ==
  ASSUME NEW p, p.counted \in Shown
  PROVE  /\ IsFiniteSet(p.counted) /\ \A cells : IsFiniteSet(In(cells, p)) /\ In(cells, p) \subseteq p.counted
<1>1. IsFiniteSet(Components \X Checks)
  BY FiniteAssumption, ChecksFinite, FS_Product
<1>2. IsFiniteSet(p.counted)
  BY <1>1, FS_Subset DEF Shown
<1>3. \A cells : In(cells, p) \subseteq p.counted
  BY DEF In
<1>4. QED BY <1>2, <1>3, FS_Subset

LEMMA CellsAdd ==
  ASSUME NEW p, p.counted \in Shown, NEW A, NEW B, A \cap B = {}
  PROVE  Tally(In(A \cup B, p)) = AddStats(Tally(In(A, p)), Tally(In(B, p)))
<1>1. In(A \cup B, p) = In(A, p) \cup In(B, p) /\ In(A, p) \cap In(B, p) = {}
  BY DEF In
<1>2. QED BY <1>1, CountedFinite, TallyAdds

LEMMA NoCells ==
  ASSUME NEW p
  PROVE  Tally(In({}, p)) = NoStats
<1>1. In({}, p) = {} /\ \A o : Of({}, o) = {}
  BY DEF In, Of
<1>2. QED BY <1>1, FS_EmptySet DEF Tally, NoStats

\* The loop over the services and days of a group.
BarsOf(q, n, p) == [k \in 1..n |-> Bar(q[k][1], q[k][2], p)]
Added(sum, n, val) == \E g : Adds(g, n, val) /\ sum = g[1..n]

LEMMA SumBarsAdds ==
  ASSUME NEW p, p.counted \in Shown, NEW S \in SUBSET Components, NEW days, IsFiniteSet(days),
         NEW q, q = SetToSeq(S \X days), NEW n, n = Cardinality(S \X days)
  PROVE  BarsOf(q, n, p) \in [1..n -> AllStats] /\ Added(SumBars(S, days, p), n, BarsOf(q, n, p))
<1> DEFINE val == BarsOf(q, n, p)
           Iterates(g) == g = [t \in SUBSET (1..n) |->
             IF t = {} THEN NoStats ELSE AddStats(g[t \ {Max(t)}], Bar(q[Max(t)][1], q[Max(t)][2], p))]
           iter == CHOOSE g : Iterates(g)
<1>1. IsFiniteSet(S \X days)
  BY FiniteAssumption, FS_Subset, FS_Product
<1>2. n \in Nat /\ q \in [1..n -> S \X days]
  BY <1>1, SetToSeqIs
<1>3. val \in [1..n -> AllStats]
  <2>1. ASSUME NEW k \in 1..n PROVE Bar(q[k][1], q[k][2], p) \in AllStats
    <3>1. q[k][1] \in Components
      BY <1>2
    <3>2. Bar(q[k][1], q[k][2], p) = Tally(In({<<q[k][1], q[k][2]>>}, p))
      BY <3>1, BarIsTally
    <3>3. IsFiniteSet(In({<<q[k][1], q[k][2]>>}, p))
      BY CountedFinite
    <3>4. QED BY <3>2, <3>3, TallyType
  <2>2. QED BY <2>1 DEF BarsOf
<1>4. \A g : Adds(g, n, val) <=> Iterates(g)
  <2>1. ASSUME NEW t \in SUBSET (1..n), t # {}
        PROVE  val[Max(t)] = Bar(q[Max(t)][1], q[Max(t)][2], p)
    <3>1. Max(t) \in 1..n
      BY <1>2, <2>1, GreatestIsIn
    <3>2. QED BY <3>1 DEF BarsOf
  <2> HIDE DEF val
  <2>2. ASSUME NEW g
        PROVE  [t \in SUBSET (1..n) |->
                  IF t = {} THEN NoStats ELSE AddStats(g[t \ {Max(t)}], val[Max(t)])]
               = [t \in SUBSET (1..n) |->
                  IF t = {} THEN NoStats ELSE AddStats(g[t \ {Max(t)}], Bar(q[Max(t)][1], q[Max(t)][2], p))]
    BY <2>1
  <2>3. QED BY <2>2 DEF Adds
<1>5. \E g : Iterates(g)
  <2>1. \E g : Adds(g, n, val)
    <3> HIDE DEF val
    <3>1. QED BY <1>2, <1>3, AddsExists
  <2> HIDE DEF Iterates, val
  <2>2. QED BY <1>4, <2>1
<1>6. Iterates(iter)
  <2> HIDE DEF Iterates
  <2>1. QED BY <1>5
<1>7. SumBars(S, days, p) = iter[1..n]
  <2>1. DOMAIN q = 1..n
    BY <1>2
  <2>2. QED BY <2>1 DEF SumBars, FoldLeft, MapThenFoldSet
<1>8. Adds(iter, n, val)
  <2> HIDE DEF Iterates, iter, val
  <2>1. QED BY <1>4, <1>6
<1> HIDE DEF iter
<1>9. QED BY <1>3, <1>7, <1>8 DEF Added

\* What holds of every bar and is kept by adding holds of the sum.
LEMMA SumKeeps ==
  ASSUME NEW p, p.counted \in Shown, NEW S \in SUBSET Components, NEW days, IsFiniteSet(days),
         NEW R \in SUBSET AllStats, NoStats \in R, \A a, b \in R : AddStats(a, b) \in R,
         \A c \in S, d \in days : Bar(c, d, p) \in R
  PROVE  SumBars(S, days, p) \in R
<1> DEFINE q == SetToSeq(S \X days)
           n == Cardinality(S \X days)
           val == BarsOf(q, n, p)
<1>1. n \in Nat /\ q \in [1..n -> S \X days]
  BY FiniteAssumption, FS_Subset, FS_Product, SetToSeqIs
<1>2. val \in [1..n -> AllStats] /\ Added(SumBars(S, days, p), n, val)
  BY SumBarsAdds
<1>3. PICK g : Adds(g, n, val) /\ SumBars(S, days, p) = g[1..n]
  BY <1>2 DEF Added
<1>4. \A k \in 1..n : val[k] \in R
  BY <1>1 DEF BarsOf
<1>5. \A r \in R, k \in 1..n : AddStats(r, val[k]) \in R
  BY <1>4
<1> HIDE DEF val, n, q
<1>6. PICK h \in [0..n -> R] : IsSums(h, g, n, val)
  BY <1>1, <1>2, <1>3, <1>5, AddsPrefixes
<1>7. n \in 0..n
  BY <1>1
<1>8. QED BY <1>3, <1>6, <1>7 DEF IsSums

\* The sum of the bars counts every check of the cells once.
LEMMA SumIsTally ==
  ASSUME NEW p, p.counted \in Shown, NEW S \in SUBSET Components, NEW days, IsFiniteSet(days)
  PROVE  SumBars(S, days, p) = Tally(In(S \X days, p))
<1> DEFINE q == SetToSeq(S \X days)
           n == Cardinality(S \X days)
           val == BarsOf(q, n, p)
           upto(k) == {q[j] : j \in 1..k}
<1>0. IsFiniteSet(S \X days)
  BY FiniteAssumption, FS_Subset, FS_Product
<1>1. /\ n \in Nat /\ q \in [1..n -> S \X days]
      /\ \A j, k \in 1..n : q[j] = q[k] => j = k
      /\ \A x \in S \X days : \E k \in 1..n : q[k] = x
  <2> DEFINE T == S \X days
  <2>0. IsFiniteSet(T)
    BY <1>0
  <2> HIDE DEF T
  <2>1. /\ Cardinality(T) \in Nat /\ SetToSeq(T) \in [1..Cardinality(T) -> T]
        /\ \A j, k \in 1..Cardinality(T) : SetToSeq(T)[j] = SetToSeq(T)[k] => j = k
        /\ \A x \in T : \E k \in 1..Cardinality(T) : SetToSeq(T)[k] = x
    BY <2>0, SetToSeqIs
  <2>2. QED BY <2>1 DEF T
<1>2. val \in [1..n -> AllStats] /\ Added(SumBars(S, days, p), n, val)
  BY SumBarsAdds
<1>3. PICK g : Adds(g, n, val) /\ SumBars(S, days, p) = g[1..n]
  BY <1>2 DEF Added
<1> HIDE DEF n, q
<1>4. \A k \in 1..n : val[k] = Tally(In({q[k]}, p))
  <2>1. ASSUME NEW k \in 1..n PROVE Bar(q[k][1], q[k][2], p) = Tally(In({q[k]}, p))
    <3>1. q[k] = <<q[k][1], q[k][2]>> /\ q[k][1] \in Components
      BY <1>1
    <3>2. QED BY <3>1, BarIsTally
  <2>2. QED BY <2>1 DEF BarsOf
<1> HIDE DEF val
<1>5. PICK h \in [0..n -> AllStats] : IsSums(h, g, n, val)
  <2> DEFINE R == AllStats
  <2>1. R \in SUBSET AllStats /\ NoStats \in R
    BY DEF NoStats, AllStats
  <2>2. \A r \in R, k \in 1..n : AddStats(r, val[k]) \in R
    BY <1>2, AddStatsIs
  <2>3. \A h \in [0..n -> R] : h \in [0..n -> AllStats]
    OBVIOUS
  <2> HIDE DEF R
  <2>4. val \in [1..n -> AllStats] /\ Adds(g, n, val) /\ n \in Nat
    BY <1>1, <1>2, <1>3
  <2>5. \E h \in [0..n -> R] : IsSums(h, g, n, val)
    BY <2>1, <2>2, <2>4, AddsPrefixes
  <2>6. QED BY <2>3, <2>5
<1>6. h[0] = Tally(In(upto(0), p))
  <2>1. upto(0) = {}
    OBVIOUS
  <2>2. QED BY <1>5, <2>1, NoCells DEF IsSums
<1>7. ASSUME NEW k \in 1..n, h[k - 1] = Tally(In(upto(k - 1), p)) PROVE h[k] = Tally(In(upto(k), p))
  <2>1. upto(k) = upto(k - 1) \cup {q[k]}
    <3>1. 1..k = 1..(k - 1) \cup {k}
      BY <1>1
    <3>2. QED BY <3>1
  <2>2. upto(k - 1) \cap {q[k]} = {}
    <3>1. ASSUME NEW j \in 1..(k - 1) PROVE q[j] # q[k]
      BY <1>1
    <3>2. QED BY <3>1
  <2> HIDE DEF upto
  <2>3. Tally(In(upto(k), p)) = AddStats(Tally(In(upto(k - 1), p)), Tally(In({q[k]}, p)))
    BY <2>1, <2>2, CellsAdd
  <2>4. QED BY <1>4, <1>5, <1>7, <2>3 DEF IsSums
<1>8. \A k \in 0..n : h[k] = Tally(In(upto(k), p))
  <2> DEFINE Bad == {k \in 0..n : h[k] # Tally(In(upto(k), p))}
  <2> SUFFICES ASSUME Bad # {} PROVE FALSE
    OBVIOUS
  <2> HIDE DEF upto
  <2>1. Bad \in SUBSET Nat
    OBVIOUS
  <2>2. PICK k \in Bad : \A j \in Bad : k <= j
    BY <2>1, SmallestExists
  <2>3. k # 0 /\ k \in 1..n
    BY <1>6
  <2>4. k - 1 \in 0..n /\ k - 1 \notin Bad
    BY <1>1, <2>2, <2>3
  <2>5. h[k - 1] = Tally(In(upto(k - 1), p))
    BY <2>4
  <2>6. QED BY <1>7, <2>3, <2>5
<1>9. upto(n) = S \X days
  BY <1>1
<1>10. n \in 0..n
  BY <1>1
<1> HIDE DEF upto
<1>11. QED BY <1>3, <1>5, <1>8, <1>9, <1>10 DEF IsSums

\* The status of a group on a day is not better than that of any service of it ...
LEMMA GroupIsWorst ==
  ASSUME NEW p, p.counted \in Shown, NEW S \in SUBSET Components, NEW d
  PROVE  /\ GroupStatus(S, d, p) \in Levels
         /\ \A c \in S : Priority[StatusOf(Bar(c, d, p))] <= Priority[GroupStatus(S, d, p)]
<1> DEFINE status == [c \in S |-> StatusOf(Bar(c, d, p))]
           A == {status[c] : c \in S}
           s == SetToSeq(A)
           n == Cardinality(A)
<1>1. \A c \in S : status[c] \in Levels
  <2>1. ASSUME NEW c \in S PROVE StatusOf(Bar(c, d, p)) \in Levels
    <3>1. Bar(c, d, p) = Tally(In({<<c, d>>}, p))
      BY BarIsTally
    <3>2. IsFiniteSet(In({<<c, d>>}, p))
      BY CountedFinite
    <3>3. QED BY <3>1, <3>2, TallyType, StatusSays
  <2>2. QED BY <2>1
<1>2. IsFiniteSet(S)
  BY FiniteAssumption, FS_Subset
<1> HIDE DEF status
<1>3. IsFiniteSet(A)
  BY <1>2, ImageFinite
<1> HIDE DEF A
<1>4. /\ n \in Nat /\ s \in [1..n -> A]
      /\ \A x \in A : \E k \in 1..n : s[k] = x
  BY <1>3, SetToSeqIs
<1>5. DOMAIN s = 1..n /\ \A k \in 1..n : s[k] \in Levels
  BY <1>1, <1>4 DEF A
<1> HIDE DEF s, n
<1>6. /\ FoldLeft(MergeStatus, "no_data", s) \in Levels
      /\ \A k \in 1..n : Priority[s[k]] <= Priority[FoldLeft(MergeStatus, "no_data", s)]
  BY <1>4, <1>5, MergeFold
<1>7. GroupStatus(S, d, p) = FoldLeft(MergeStatus, "no_data", s)
  <2>1. {StatusOf(Bar(c, d, p)) : c \in S} = A
    BY DEF A, status
  <2>2. QED BY <2>1 DEF GroupStatus, s
<1>8. ASSUME NEW c \in S PROVE \E k \in 1..n : s[k] = StatusOf(Bar(c, d, p))
  <2>1. StatusOf(Bar(c, d, p)) \in A
    BY DEF A, status
  <2>2. QED BY <1>4, <2>1
<1>9. QED BY <1>6, <1>7, <1>8

\* ... nor than what the sum of their checks says.
LEMMA SumNotWorse ==
  ASSUME NEW p, p.counted \in Shown, NEW S \in SUBSET Components, NEW d
  PROVE  Priority[StatusOf(SumBars(S, {d}, p))] <= Priority[GroupStatus(S, d, p)]
<1> DEFINE group == GroupStatus(S, d, p)
           sum == SumBars(S, {d}, p)
<1>1. group \in Levels /\ \A c \in S : Priority[StatusOf(Bar(c, d, p))] <= Priority[group]
  BY GroupIsWorst
<1>2. \A c \in S : Bar(c, d, p) \in AllStats
  <2>1. ASSUME NEW c \in S PROVE Bar(c, d, p) \in AllStats
    <3>1. Bar(c, d, p) = Tally(In({<<c, d>>}, p))
      BY BarIsTally
    <3>2. IsFiniteSet(In({<<c, d>>}, p))
      BY CountedFinite
    <3>3. QED BY <3>1, <3>2, TallyType
  <2>2. QED BY <2>1
<1>3. IsFiniteSet({d})
  BY FS_Singleton
<1>4. NoStats \in AllStats /\ NoStats.total = 0 /\ \A b \in {9000, 9900} : Reaches(NoStats, b)
  BY DEF NoStats, AllStats, Reaches
<1>5. sum \in AllStats /\ StatusOf(sum) \in Levels
  <2> DEFINE R == AllStats
  <2>1. R \in SUBSET AllStats /\ NoStats \in R /\ \A a, b \in R : AddStats(a, b) \in R
    BY <1>4, AddStatsIs
  <2>2. \A c \in S, e \in {d} : Bar(c, e, p) \in R
    BY <1>2
  <2> HIDE DEF R
  <2>3. sum \in R
    BY <1>3, <2>1, <2>2, SumKeeps
  <2>4. sum \in AllStats
    BY <2>3 DEF R
  <2>5. QED BY <2>4, StatusSays
<1>6. CASE group = "no_data"
  <2> DEFINE R == {s \in AllStats : s.total = 0}
  <2>1. ASSUME NEW c \in S PROVE Bar(c, d, p).total = 0
    <3>1. StatusOf(Bar(c, d, p)) \in Levels /\ Priority[StatusOf(Bar(c, d, p))] <= 0
      BY <1>1, <1>2, <1>6, StatusSays DEF Priority
    <3>2. StatusOf(Bar(c, d, p)) = "no_data"
      BY <3>1, LevelOrder
    <3>3. QED BY <1>2, <3>2, StatusSays
  <2>2. \A c \in S, e \in {d} : Bar(c, e, p) \in R
    BY <1>2, <2>1
  <2>3. ASSUME NEW a \in R, NEW b \in R PROVE AddStats(a, b) \in R
    <3>1. AddStats(a, b) \in AllStats /\ AddStats(a, b).total = a.total + b.total
      BY AddStatsIs
    <3>2. QED BY <3>1
  <2>4. NoStats \in R /\ R \in SUBSET AllStats
    BY <1>4
  <2> HIDE DEF R
  <2>5. sum \in R
    BY <1>3, <2>2, <2>3, <2>4, SumKeeps
  <2>6. StatusOf(sum) = "no_data"
    BY <1>5, <2>5, StatusSays DEF R
  <2>7. QED BY <1>6, <2>6 DEF Priority
<1>7. CASE group = "operational"
  <2> DEFINE R == {s \in AllStats : Reaches(s, 9900)}
  <2>1. ASSUME NEW c \in S PROVE Reaches(Bar(c, d, p), 9900)
    <3>1. StatusOf(Bar(c, d, p)) \in Levels /\ Priority[StatusOf(Bar(c, d, p))] <= 1
      BY <1>1, <1>2, <1>7, StatusSays DEF Priority
    <3>2. StatusOf(Bar(c, d, p)) \in {"no_data", "operational"}
      BY <3>1, LevelOrder
    <3>3. QED BY <1>2, <3>2, StatusSays
  <2>2. \A c \in S, e \in {d} : Bar(c, e, p) \in R
    BY <1>2, <2>1
  <2>3. \A a, b \in R : AddStats(a, b) \in R
    BY AddStatsIs, ReachesAdds
  <2>4. NoStats \in R /\ R \in SUBSET AllStats
    BY <1>4
  <2> HIDE DEF R
  <2>5. sum \in R
    BY <1>3, <2>2, <2>3, <2>4, SumKeeps
  <2>6. StatusOf(sum) \in {"no_data", "operational"}
    BY <1>5, <2>5, StatusSays DEF R
  <2>7. QED BY <1>7, <2>6 DEF Priority
<1>8. CASE group = "degraded"
  <2> DEFINE R == {s \in AllStats : Reaches(s, 9000)}
  <2>1. ASSUME NEW c \in S PROVE Reaches(Bar(c, d, p), 9000)
    <3>1. StatusOf(Bar(c, d, p)) \in Levels /\ Priority[StatusOf(Bar(c, d, p))] <= 2
      BY <1>1, <1>2, <1>8, StatusSays DEF Priority
    <3>2. StatusOf(Bar(c, d, p)) \in {"no_data", "operational", "degraded"}
      BY <3>1, LevelOrder
    <3>3. QED BY <1>2, <3>2, StatusSays
  <2>2. \A c \in S, e \in {d} : Bar(c, e, p) \in R
    BY <1>2, <2>1
  <2>3. \A a, b \in R : AddStats(a, b) \in R
    BY AddStatsIs, ReachesAdds
  <2>4. NoStats \in R /\ R \in SUBSET AllStats
    BY <1>4
  <2> HIDE DEF R
  <2>5. sum \in R
    BY <1>3, <2>2, <2>3, <2>4, SumKeeps
  <2>6. StatusOf(sum) \in {"no_data", "operational", "degraded"}
    BY <1>5, <2>5, StatusSays DEF R
  <2>7. QED BY <1>8, <2>6 DEF Priority
<1>9. CASE group = "outage"
  <2> HIDE DEF sum
  <2>1. Priority[StatusOf(sum)] <= 3
    BY <1>5, LevelOrder
  <2>2. QED BY <1>9, <2>1 DEF Priority, sum
<1>10. QED BY <1>1, <1>6, <1>7, <1>8, <1>9 DEF Levels

\* Groups that share no service: their sums add up to the checks of all of them.
SumsOf(G, days, p) == {<<S, SumBars(S, days, p)>> : S \in G}

LEMMA GroupSums ==
  ASSUME NEW p, p.counted \in Shown, NEW days, IsFiniteSet(days),
         NEW G \in SUBSET (SUBSET Components), IsFiniteSet(G), \A A, B \in G : A = B \/ A \cap B = {}
  PROVE  FoldLeft(LAMBDA sum, x : AddStats(sum, x[2]), NoStats, SetToSeq(SumsOf(G, days, p)))
           = Tally(In((UNION G) \X days, p))
<1> DEFINE q == SetToSeq(SumsOf(G, days, p))
           n == Cardinality(SumsOf(G, days, p))
           val == [k \in 1..n |-> q[k][2]]
           Iterates(g) == g = [t \in SUBSET (1..n) |->
             IF t = {} THEN NoStats ELSE AddStats(g[t \ {Max(t)}], q[Max(t)][2])]
           iter == CHOOSE g : Iterates(g)
           cells(k) == {x \in Components \X days : \E j \in 1..k : x[1] \in q[j][1]}
<1>1. IsFiniteSet(SumsOf(G, days, p))
  <2> DEFINE f == [S \in G |-> <<S, SumBars(S, days, p)>>]
  <2>1. SumsOf(G, days, p) = {f[S] : S \in G}
    BY DEF SumsOf
  <2> HIDE DEF f
  <2>2. QED BY <2>1, ImageFinite
<1>2. /\ n \in Nat /\ q \in [1..n -> SumsOf(G, days, p)]
      /\ \A j, k \in 1..n : q[j] = q[k] => j = k
      /\ \A x \in SumsOf(G, days, p) : \E k \in 1..n : q[k] = x
  <2> DEFINE T == SumsOf(G, days, p)
  <2>0. IsFiniteSet(T)
    BY <1>1
  <2> HIDE DEF T
  <2>1. /\ Cardinality(T) \in Nat /\ SetToSeq(T) \in [1..Cardinality(T) -> T]
        /\ \A j, k \in 1..Cardinality(T) : SetToSeq(T)[j] = SetToSeq(T)[k] => j = k
        /\ \A x \in T : \E k \in 1..Cardinality(T) : SetToSeq(T)[k] = x
    BY <2>0, SetToSeqIs
  <2>2. QED BY <2>1 DEF T
<1>3. \A k \in 1..n : q[k][1] \in G /\ q[k] = <<q[k][1], SumBars(q[k][1], days, p)>>
  <2>1. \A x \in SumsOf(G, days, p) : x[1] \in G /\ x = <<x[1], SumBars(x[1], days, p)>>
    BY DEF SumsOf
  <2>2. QED BY <1>2, <2>1
<1>4. FoldLeft(LAMBDA sum, x : AddStats(sum, x[2]), NoStats, q) = iter[1..n]
  <2>1. DOMAIN q = 1..n
    BY <1>2
  <2>2. QED BY <2>1 DEF FoldLeft, MapThenFoldSet
<1> HIDE DEF q, n
<1>5. \A k \in 1..n : val[k] = Tally(In(q[k][1] \X days, p)) /\ val[k] \in AllStats
  <2>1. ASSUME NEW k \in 1..n PROVE val[k] = Tally(In(q[k][1] \X days, p)) /\ val[k] \in AllStats
    <3>1. q[k][1] \in SUBSET Components /\ val[k] = SumBars(q[k][1], days, p)
      BY <1>3
    <3>2. val[k] = Tally(In(q[k][1] \X days, p))
      BY <3>1, SumIsTally
    <3>3. IsFiniteSet(In(q[k][1] \X days, p))
      BY CountedFinite
    <3>4. QED BY <3>2, <3>3, TallyType
  <2>2. QED BY <2>1
<1>6. val \in [1..n -> AllStats]
  BY <1>5
<1>7. \A g : Adds(g, n, val) <=> Iterates(g)
  <2>1. ASSUME NEW t \in SUBSET (1..n), t # {} PROVE val[Max(t)] = q[Max(t)][2]
    BY <1>2, <2>1, GreatestIsIn
  <2> HIDE DEF val
  <2>2. ASSUME NEW g
        PROVE  [t \in SUBSET (1..n) |-> IF t = {} THEN NoStats ELSE AddStats(g[t \ {Max(t)}], val[Max(t)])]
                 = [t \in SUBSET (1..n) |-> IF t = {} THEN NoStats ELSE AddStats(g[t \ {Max(t)}], q[Max(t)][2])]
    BY <2>1
  <2>3. QED BY <2>2 DEF Adds
<1> HIDE DEF val
<1>8. Adds(iter, n, val)
  <2>1. \E g : Adds(g, n, val)
    BY <1>2, <1>6, AddsExists
  <2> HIDE DEF Iterates
  <2>2. Iterates(iter)
    BY <1>7, <2>1
  <2> HIDE DEF iter
  <2>3. QED BY <1>7, <2>2
<1> HIDE DEF iter
<1>9. PICK h \in [0..n -> AllStats] : IsSums(h, iter, n, val)
  <2> DEFINE R == AllStats
  <2>1. R \in SUBSET AllStats /\ NoStats \in R
    BY DEF NoStats, AllStats
  <2>2. \A r \in R, k \in 1..n : AddStats(r, val[k]) \in R
    BY <1>6, AddStatsIs
  <2>3. \A f \in [0..n -> R] : f \in [0..n -> AllStats]
    OBVIOUS
  <2> HIDE DEF R
  <2>4. \E f \in [0..n -> R] : IsSums(f, iter, n, val)
    BY <1>2, <1>6, <1>8, <2>1, <2>2, AddsPrefixes
  <2>5. QED BY <2>3, <2>4
<1>10. h[0] = Tally(In(cells(0), p))
  <2>1. cells(0) = {}
    OBVIOUS
  <2>2. QED BY <1>9, <2>1, NoCells DEF IsSums
<1>11. ASSUME NEW k \in 1..n, h[k - 1] = Tally(In(cells(k - 1), p)) PROVE h[k] = Tally(In(cells(k), p))
  <2>1. cells(k) = cells(k - 1) \cup q[k][1] \X days
    <3>1. 1..k = 1..(k - 1) \cup {k} /\ q[k][1] \subseteq Components
      BY <1>2, <1>3
    <3>2. QED BY <3>1
  <2>2. cells(k - 1) \cap (q[k][1] \X days) = {}
    <3>1. ASSUME NEW j \in 1..(k - 1) PROVE q[j][1] \cap q[k][1] = {}
      <4>1. j \in 1..n /\ j # k
        BY <1>2
      <4>2. q[j][1] # q[k][1]
        BY <1>2, <1>3, <4>1
      <4>3. QED BY <1>3, <4>1, <4>2
    <3>2. QED BY <3>1
  <2> HIDE DEF cells
  <2>3. Tally(In(cells(k), p)) = AddStats(Tally(In(cells(k - 1), p)), Tally(In(q[k][1] \X days, p)))
    BY <2>1, <2>2, CellsAdd
  <2>4. QED BY <1>5, <1>9, <1>11, <2>3 DEF IsSums
<1>12. \A k \in 0..n : h[k] = Tally(In(cells(k), p))
  <2> HIDE DEF cells
  <2> DEFINE Bad == {k \in 0..n : h[k] # Tally(In(cells(k), p))}
  <2> SUFFICES ASSUME Bad # {} PROVE FALSE
    OBVIOUS
  <2>1. Bad \in SUBSET Nat
    OBVIOUS
  <2>2. PICK k \in Bad : \A j \in Bad : k <= j
    BY <2>1, SmallestExists
  <2>3. k # 0 /\ k \in 1..n
    BY <1>10
  <2>4. k - 1 \in 0..n /\ k - 1 \notin Bad
    BY <1>2, <2>2, <2>3
  <2>5. h[k - 1] = Tally(In(cells(k - 1), p))
    BY <2>4
  <2>6. QED BY <1>11, <2>3, <2>5
<1>13. cells(n) = (UNION G) \X days
  <2>1. ASSUME NEW A \in G PROVE \E k \in 1..n : q[k][1] = A
    <3>1. <<A, SumBars(A, days, p)>> \in SumsOf(G, days, p)
      BY DEF SumsOf
    <3>2. PICK k \in 1..n : q[k] = <<A, SumBars(A, days, p)>>
      BY <1>2, <3>1
    <3>3. QED BY <3>2
  <2>2. QED BY <1>3, <2>1
<1>14. n \in 0..n
  BY <1>2
<1> HIDE DEF cells
<1>15. QED BY <1>4, <1>9, <1>12, <1>13, <1>14 DEF IsSums, q

LEMMA GroupsAddUpHolds == TypeInv => GroupsAddUp(page)
<1> SUFFICES ASSUME TypeInv PROVE GroupsAddUp(page)
  OBVIOUS
<1> DEFINE days == page.first..page.last
           G == GroupOf(page.shown)
<1>1. /\ page.counted \in Shown /\ page.shown \in SUBSET Components
      /\ page.first \in Nat /\ page.last \in Nat
  BY DEF TypeInv, OthersOK, Pages
<1>2. IsFiniteSet(days)
  BY <1>1, page.first \in Int, page.last \in Int, FS_Interval
<1>3. /\ G \in SUBSET (SUBSET Components) /\ UNION G = page.shown
      /\ \A A, B \in G : A = B \/ A \cap B = {}
  BY <1>1 DEF GroupOf
<1>4. IsFiniteSet(G)
  <2> DEFINE g == {c \in page.shown : grouped.active /\ c \in grouped.members}
  <2>1. IsFiniteSet({g} \cup {page.shown \ g})
    BY FS_Singleton, FS_Union
  <2>2. G \in SUBSET ({g} \cup {page.shown \ g})
    BY DEF GroupOf
  <2>3. QED BY <2>1, <2>2, FS_Subset
<1> HIDE DEF days, G
<1>5. \A S \in G, d \in days : Priority[StatusOf(SumBars(S, {d}, page))] <= Priority[GroupStatus(S, d, page)]
  BY <1>1, <1>3, SumNotWorse
<1>6. FoldLeft(LAMBDA sum, x : AddStats(sum, x[2]), NoStats, SetToSeq(SumsOf(G, days, page)))
        = Tally(In(page.shown \X days, page))
  BY <1>1, <1>2, <1>3, <1>4, GroupSums
<1>7. SumBars(page.shown, days, page) = Tally(In(page.shown \X days, page))
  BY <1>1, <1>2, SumIsTally
<1>8. QED BY <1>5, <1>6, <1>7 DEF GroupsAddUp, SumsOf, G, days

\* A page agrees with itself although its SELECTs see different rows: alerts
\* and bars differ only by what was committed meanwhile, no day has more
\* downtime than seconds, no group looks better than the sum of its checks,
\* and the groups add up to the project.
THEOREM PageCoherentCorrect == Spec => []PageCoherent
<1>1. Spec => []TypeInv
  BY InitType, TypeStep, PTL DEF Spec
<1>2. Spec => []ResultsOK
  BY InitResults, ResultsStep, <1>1, PTL DEF Spec
<1>3. Init => TimedOK
  BY DEF Init, NoPage, TimedOK
<1>4. Spec => []TimedOK
  BY <1>1, <1>2, <1>3, TimedStep, PTL DEF Spec
<1>5. Spec => []PageInv
  BY InitPage, PageInvStep, <1>1, PTL DEF Spec
<1>6. TypeInv /\ TimedOK /\ PageInv => PageCoherent
  BY TornHolds, DowntimeInDayHolds, GroupsAddUpHolds DEF PageCoherent
<1>7. QED BY <1>1, <1>4, <1>5, <1>6, PTL
=============================================================================
