------------------------------ MODULE SpeedViews ------------------------------
(***************************************************************************)
(* What readers of the public API see of a row of check_results: the point *)
(* of the chart (public_status_service.py) and the summary of the service  *)
(* and of the diagnostics (public_network_summary.py) are computed by two  *)
(* functions that each decide what to show instead of a failed, deferred   *)
(* or missing test.  Of the numbers only the time they were measured at is *)
(* kept.                                                                   *)
(***************************************************************************)
EXTENDS SpeedTestMemory

\* ok, the time of the success that is shown, is it an older one, and the
\* time that is given for the measurement.
View(ok, shown, cached, at) == [ok |-> ok, shown |-> shown, cached |-> cached, at |-> at]
Stamp(t, otherwise) == IF t.at # Never THEN t.at ELSE otherwise
Failed(t) == t.result \in {"failed", "limited"}

\* Mutant: after a failure nothing is shown in its place.
ChartPointBare(s) ==
  IF s.test.result = "good" THEN View("yes", s.test.at, ~s.test.live, s.test.at)
  ELSE View(IF Failed(s.test) THEN "no" ELSE "unknown", Never, FALSE, s.test.at)

\* _extract_speed: the test, else the last success.
ChartPoint(s) ==
  IF s.test.result = "good" THEN View("yes", s.test.at, ~s.test.live, s.test.at)
  ELSE IF s.success # Never THEN View("yes", s.success, TRUE, Stamp(s.test, s.success))
  ELSE View(IF Failed(s.test) THEN "no" ELSE "unknown", Never, FALSE, s.test.at)

\* _project_speed_series; without a test the last success is not looked at.
Summary(s) ==
  IF s.test.result = "good" THEN View("yes", s.test.at, ~s.test.live, s.test.at)
  ELSE IF Failed(s.test) /\ s.success # Never THEN View("yes", s.success, TRUE, s.test.at)
  ELSE View(IF Failed(s.test) THEN "no" ELSE "unknown", Never, FALSE, s.test.at)

\* ... and its last_success_at.
SummarySuccessAt(s) ==
  IF s.success # Never THEN s.success
  ELSE IF s.test.result = "good" THEN s.test.at ELSE Never

\* The chart and the summary of a service show the same speed of the same
\* time for every row the checks write, and what the summary calls the last
\* success is the one it shows.
ViewsAgree ==
  \A c \in Components, f \in Families :
    LET s == latest[c][f] IN
    /\ ChartPoint(s) = Summary(s)
    /\ Summary(s).ok = "yes" => Summary(s).shown = SummarySuccessAt(s)
=============================================================================
