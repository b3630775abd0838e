----------------------------- MODULE UptimeStats -----------------------------
(***************************************************************************)
(* uptime_stats.py and the day arithmetic of public_status_service.py over *)
(* the results of one component: a set of records with the time and the    *)
(* outcome of a check.  Times are whole seconds, days start at multiples   *)
(* of DayLength, availability is in hundredths of a percent.               *)
(***************************************************************************)
EXTENDS Integers, Sequences, FiniteSets, SequencesExt, Sorting

CONSTANT DayLength
ASSUME DayAssumption == DayLength \in Nat \ {0}

Outcomes == {"up", "degraded", "down"}    \* timeout and error count as down
OutageOutcomes == {"down"}

DayOf(t)    == t \div DayLength
DayStart(d) == d * DayLength
DayEnd(d)   == DayStart(d + 1)
OnDay(events, d) == {e \in events : DayOf(e.at) = d}
Newest(events)   == CHOOSE e \in events : \A f \in events : f.at <= e.at

----------------------------------------------------------------------------
\* compute_downtime_seconds: one event, then the loop and the open outage.
Unset == -1
\* Mutant: without max(..., 0).
ElapsedUnbounded(from, to) == to - from

Elapsed(from, to) == IF to > from THEN to - from ELSE 0

Count(s, e) ==
  IF e.outcome \in OutageOutcomes
  THEN [s EXCEPT !.since = IF @ = Unset THEN e.at ELSE @]
  ELSE [total |-> s.total + IF s.since = Unset THEN 0 ELSE Elapsed(s.since, e.at), since |-> Unset]

Earlier(events) == {p \in events \X events : p[1].at < p[2].at}
Counted(events, d, continuing) ==
  FoldLeft(Count, [total |-> 0, since |-> IF continuing THEN DayStart(d) ELSE Unset], Sorted(events, Earlier(events)))

\* Mutant: an outage that is still open is not counted.
DowntimeClosed(events, d, now, continuing) == Counted(events, d, continuing).total

Downtime(events, d, now, continuing) ==
  LET periodEnd == IF now < DayEnd(d) THEN now ELSE DayEnd(d)
      last == Counted(events, d, continuing)
  IN last.total + IF last.since = Unset THEN 0 ELSE Elapsed(last.since, periodEnd)

\* _outcome_at_end_of_previous_day: the newest check of the day before, and
\* before the first day of the range the newest of all.
Continuing(events, d, first) ==
  LET before == IF OnDay(events, d - 1) # {} THEN OnDay(events, d - 1)
                ELSE IF d = first THEN {e \in events : e.at < DayStart(d)} ELSE {}
  IN before # {} /\ Newest(before).outcome \in OutageOutcomes

\* What the bar of day d says in a range that starts on day first: only days
\* with checks are looked at.
ShownDowntime(events, d, first, now) ==
  IF OnDay(events, d) = {} THEN 0
  ELSE Downtime(OnDay(events, d), d, now, Continuing(events, d, first))

----------------------------------------------------------------------------
\* day_check_counts and DayCheckStats, their sum, availability and status.
NoStats == [total |-> 0, up |-> 0, degraded |-> 0, failed |-> 0]
With(events, o) == Cardinality({e \in events : e.outcome = o})
Stats(events) == [total |-> Cardinality(events), up |-> With(events, "up"),
                  degraded |-> With(events, "degraded"), failed |-> With(events, "down")]
AddStats(a, b) == [f \in DOMAIN a |-> a[f] + b[f]]
Rounded(n, of) == (2 * n + of) \div (2 * of)
Availability(s) == Rounded(10000 * (s.up + s.degraded), s.total)
StatusOf(s) == IF s.total = 0 THEN "no_data"
               ELSE IF Availability(s) >= 9900 THEN "operational"
               ELSE IF Availability(s) >= 9000 THEN "degraded" ELSE "outage"
Priority == [no_data |-> 0, operational |-> 1, degraded |-> 2, outage |-> 3]
MergeStatus(current, incoming) ==
  IF Priority[incoming] > Priority[current] THEN incoming ELSE current

----------------------------------------------------------------------------
\* For the properties: the seconds of day d at which the newest check so far
\* had found an outage.
OutageSeconds(events, d, now) ==
  {t \in DayStart(d)..DayEnd(d) - 1 :
     /\ t < now
     /\ \E e \in events : /\ e.at <= t /\ e.outcome \in OutageOutcomes
                          /\ \A f \in events : f.at <= t => f.at <= e.at}
=============================================================================
