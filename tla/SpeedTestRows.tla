---------------------------- MODULE SpeedTestRows ----------------------------
(***************************************************************************)
(* What a row of check_results says about speed tests, what the next check *)
(* of the component takes from it, and what the next row is made of:       *)
(* speed_test_memory.py, the scheduling part of speed_test_config.py and   *)
(* the writing part of network_enrich.py.                                  *)
(*                                                                         *)
(* A speed test is its outcome and its time; megabits, URLs and wording    *)
(* are left out, and of the statistics only the number of samples is kept. *)
(* A measurement without data is stored as a failure.                      *)
(***************************************************************************)
EXTENDS Naturals

CONSTANTS Interval,   \* effective_speed_test_interval_seconds
          Backoff     \* SPEED_TEST_RATE_LIMIT_BACKOFF_SECONDS

ASSUME ScheduleAssumption == Interval \in Nat /\ Backoff \in Nat

\* The times of the model start at 1.
Never == 0

\* The download and the upload series of a row.
Families == {"down", "up"}

\* What a measurement reports, through curl in the namespace of a session or
\* through httpx; "limited" is a failure with HTTP status 429.
Results == {"good", "failed", "limited"}

\* A test is live, or the copy of an earlier one in a cached row.
Tests  == [live : BOOLEAN, result : Results, at : Nat]
NoTest == [live |-> FALSE, result |-> "absent", at |-> Never]

\* speed_test, speed_test_last_attempt, speed_test_last_success, speed_test_stats
\* of one family; also what a SpeedTestRunContext holds of it.
Series == [test : Tests \cup {NoTest}, attempt : Tests \cup {NoTest},
           success : Nat, stats : Nat]
NoSeries == [test |-> NoTest, attempt |-> NoTest, success |-> Never, stats |-> 0]

SpeedRows == [Families -> Series]
BareRow   == [f \in Families |-> NoSeries]

----------------------------------------------------------------------------
(* Reading a row *)

\* extract_last_live_speed_test_from_details
LastLive(s) ==
  IF s.attempt.live THEN s.attempt
  ELSE IF s.test.live THEN s.test
  ELSE NoTest

\* extract_last_successful_speed_test
LastSuccess(s) ==
  IF s.success # Never THEN s.success
  ELSE IF s.test.result = "good" THEN s.test.at
  ELSE Never

\* extract_speed_test_stats: seeded from a known success
Samples(s) ==
  IF s.stats > 0 THEN s.stats ELSE IF LastSuccess(s) # Never THEN 1 ELSE 0

\* Mutant: success and statistics come from the latest row alone.
RememberLatestOnly(latest, history, f) ==
  [test |-> latest[f].test, attempt |-> LastLive(latest[f]),
   success |-> LastSuccess(latest[f]), stats |-> Samples(latest[f])]

\* resolve_speed_test_memory and its upload twin.  The older row is fetched
\* only when the latest one knows no successful download.
Remember(latest, history, f) ==
  LET older   == IF LastSuccess(latest["down"]) = Never THEN history[f] ELSE NoSeries
      success == IF LastSuccess(latest[f]) # Never THEN LastSuccess(latest[f])
                                                   ELSE LastSuccess(older)
      stats   == IF Samples(latest[f]) > 0 THEN Samples(latest[f]) ELSE Samples(older)
  IN [test |-> latest[f].test, attempt |-> LastLive(latest[f]), success |-> success,
      stats |-> IF stats = 0 /\ success # Never THEN 1 ELSE stats]

\* effective_speed_test_retry_seconds
RetryAfter(test) ==
  IF test.result = "limited" /\ Backoff > Interval THEN Backoff ELSE Interval

\* Mutant: the interval runs from what is displayed, not from the last attempt.
DueFromDisplay(s, now) ==
  \/ s.test = NoTest
  \/ ~s.test.live /\ s.test.at = Never
  \/ now >= s.test.at + RetryAfter(s.test)

\* should_run_speed_test.  A cached copy without a time was never measured.
Due(s, now) ==
  LET scheduling == IF LastLive(s) # NoTest THEN LastLive(s) ELSE s.test
  IN \/ s.test = NoTest
     \/ ~scheduling.live /\ scheduling.at = Never
     \/ now >= scheduling.at + RetryAfter(scheduling)

----------------------------------------------------------------------------
(* Writing a row *)

\* Mutant: the placeholder without "ok": False.
DeferredSilent == [live |-> FALSE, result |-> "deferred", at |-> Never]

\* The placeholder of a deferred test that has nothing to show.
Deferred == [live |-> FALSE, result |-> "failed", at |-> Never]

\* pick_display_speed_test, marked as cached
Displayed(s) ==
  IF s.test.result = "good" THEN [s.test EXCEPT !.live = FALSE]
  ELSE IF s.success # Never THEN [live |-> FALSE, result |-> "good", at |-> s.success]
  ELSE IF s.test # NoTest THEN [s.test EXCEPT !.live = FALSE]
  ELSE Deferred

\* Mutant: a cached row drops the last attempt.
ApplyCachedForgetful(s) ==
  [test |-> Displayed(s), attempt |-> NoTest, success |-> s.success, stats |-> s.stats]

\* Mutant: the previous row is shown again, whatever it was.
ApplyCachedPlain(s) ==
  [test    |-> IF s.test = NoTest THEN Deferred ELSE [s.test EXCEPT !.live = FALSE],
   attempt |-> IF s.attempt.live THEN s.attempt ELSE s.test,
   success |-> s.success, stats |-> s.stats]

\* _apply_cached_speed_family: nothing is measured, what is known is kept.
ApplyCached(s) ==
  [test    |-> Displayed(s),
   attempt |-> IF s.attempt.live THEN s.attempt ELSE IF s.test.live THEN s.test ELSE NoTest,
   success |-> IF s.success # Never THEN s.success
               ELSE IF Displayed(s).result = "good" THEN Displayed(s).at ELSE Never,
   stats   |-> s.stats]

\* Mutant: a failed measurement drops the statistics.
RecordLiveFresh(s, result, now) ==
  [test    |-> [live |-> TRUE, result |-> result, at |-> now],
   attempt |-> NoTest,
   success |-> IF result = "good" THEN now ELSE s.success,
   stats   |-> IF result = "good" THEN s.stats + 1 ELSE 0]

\* _record_live_speed_test
RecordLive(s, result, now) ==
  [test    |-> [live |-> TRUE, result |-> result, at |-> now],
   attempt |-> NoTest,
   success |-> IF result = "good" THEN now ELSE s.success,
   stats   |-> IF result = "good" THEN s.stats + 1 ELSE s.stats]

\* Does the context know anything of the upload family?
Knows(s) == s.test # NoTest \/ s.success # Never \/ s.stats > 0
=============================================================================
