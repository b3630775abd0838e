--------------------------- MODULE SpeedTestMemory ---------------------------
(***************************************************************************)
(* The rows of check_results as the only memory of the speed tests: every  *)
(* check of a VPN component builds its context from the newest row (or an  *)
(* older one that knows a success), measures or does not, and writes the   *)
(* row the next check will read.                                           *)
(*                                                                         *)
(* A persistent component is written by its worker thread: lifecycle       *)
(* probes when the tunnel comes up or goes down, rows without network      *)
(* details for a reconnect or a failed connect, and interval probes.  An   *)
(* ephemeral one is written by the scheduler.  Each has one writer here;   *)
(* manual checks and purges by administrators are left out.  History       *)
(* variables speak of the tests whose row was written.                     *)
(***************************************************************************)
EXTENDS SpeedTestRows

CONSTANTS Components,
          UploadSupported,   \* does the URL template have an upload twin
          Gap,               \* SPEED_TEST_MIN_GAP_SECONDS
          MaxTime            \* bound of the clock

ASSUME UploadAssumption == UploadSupported \in BOOLEAN
ASSUME ClockAssumption == Gap \in Nat \ {0} /\ MaxTime \in Nat

VARIABLES now,
          slot,      \* _speed_test_last_at of the monitoring worker
          mode,      \* connection_mode of a component
          phase,     \* "connect" or "session": has its worker a session
          latest,    \* speed-test part of its newest row
          history,   \* of its newest row that knows a successful download
          check,     \* the check in progress
          memory,    \* SpeedTestRunContext of that check
          run,       \* its run_speed_test
          lastGood,  \* per family: time of the newest successful test (history)
          goods,     \* number of successful downloads (history)
          lastTry,   \* the newest live download test (history)
          gap        \* a row without a speed test was written since (history)

rowVars   == <<latest, history>>
checkVars == <<check, memory, run>>
ghostVars == <<lastGood, goods, lastTry, gap>>
vars == <<now, slot, mode, phase, rowVars, checkVars, ghostVars>>

Checks == {"none", "tunnel_up", "tunnel_down", "probe"}

TypeOK ==
  /\ now \in 1..(MaxTime + 1) /\ slot \in Nat
  /\ mode \in [Components -> {"persistent", "ephemeral"}]
  /\ phase \in [Components -> {"connect", "session"}]
  /\ latest \in [Components -> SpeedRows] /\ history \in [Components -> SpeedRows]
  /\ check \in [Components -> Checks]
  /\ memory \in [Components -> SpeedRows]
  /\ run \in [Components -> BOOLEAN]
  /\ lastGood \in [Components -> [Families -> Nat]]
  /\ goods \in [Components -> Nat]
  /\ lastTry \in [Components -> Tests \cup {NoTest}]
  /\ gap \in [Components -> BOOLEAN]

Init ==
  /\ now = 1 /\ slot = Never
  /\ mode \in [Components -> {"persistent", "ephemeral"}]
  /\ phase = [c \in Components |-> IF mode[c] = "persistent" THEN "connect" ELSE "session"]
  /\ latest = [c \in Components |-> BareRow] /\ history = latest
  /\ check = [c \in Components |-> "none"] /\ memory = latest
  /\ run = [c \in Components |-> FALSE]
  /\ lastGood = [c \in Components |-> [f \in Families |-> Never]]
  /\ goods = [c \in Components |-> 0]
  /\ lastTry = [c \in Components |-> NoTest]
  /\ gap = [c \in Components |-> FALSE]

----------------------------------------------------------------------------
Tick == /\ now <= MaxTime
        /\ now' = now + 1
        /\ UNCHANGED <<slot, mode, phase, rowVars, checkVars, ghostVars>>

\* The host WAN measurement or another component takes the shared slot.
OthersMeasure == /\ now >= slot + Gap
                 /\ slot' = now
                 /\ UNCHANGED <<now, mode, phase, rowVars, checkVars, ghostVars>>

\* _build_speed_test_context, or the same lines of run_check.  Whether the
\* stagger allows this component depends on all the others.
BuildContext(c) ==
  /\ memory' = [memory EXCEPT ![c] = [f \in Families |-> Remember(latest[c], history[c], f)]]
  /\ \E allowed \in BOOLEAN :
       run' = [run EXCEPT ![c] = allowed /\ Due(latest[c]["down"], now)]

\* A probe of the interval, or a scheduled check.
BeginProbe(c) ==
  /\ check[c] = "none" /\ phase[c] = "session"
  /\ BuildContext(c)
  /\ check' = [check EXCEPT ![c] = "probe"]
  /\ UNCHANGED <<now, slot, mode, phase, rowVars, ghostVars>>

\* _save_session_event with a handle: the context is built again with
\* run_speed_test off and without the upload fields.
BeginLifecycleProbe(c) ==
  /\ check[c] = "none" /\ mode[c] = "persistent"
  /\ memory' = [memory EXCEPT ![c]["down"] = Remember(latest[c], history[c], "down"),
                              ![c]["up"] = NoSeries]
  /\ run' = [run EXCEPT ![c] = FALSE]
  /\ check' = [check EXCEPT ![c] = IF phase[c] = "connect" THEN "tunnel_up" ELSE "tunnel_down"]
  /\ UNCHANGED <<now, slot, mode, phase, rowVars, ghostVars>>

\* _persist_result, and the worker's next phase.
Write(c, newRow) ==
  /\ latest' = [latest EXCEPT ![c] = newRow]
  /\ history' = IF LastSuccess(newRow["down"]) # Never
                THEN [history EXCEPT ![c] = newRow] ELSE history
  /\ gap' = [gap EXCEPT ![c] = (@ \/ newRow["down"].test = NoTest) /\ ~newRow["down"].test.live]

Conclude(c) ==
  /\ phase' = [phase EXCEPT ![c] = IF check[c] = "tunnel_up" THEN "session"
                                   ELSE IF check[c] = "tunnel_down" THEN "connect" ELSE @]
  /\ check' = [check EXCEPT ![c] = "none"]
  /\ memory' = [memory EXCEPT ![c] = BareRow]
  /\ run' = [run EXCEPT ![c] = FALSE]
  /\ UNCHANGED <<now, mode>>

\* A tunnel that is down or does not come up: no network details to enrich.
FinishWithoutTunnel(c) ==
  /\ check[c] # "none"
  /\ Write(c, BareRow) /\ Conclude(c)
  /\ UNCHANGED <<slot, lastGood, goods, lastTry>>

\* A row without a measurement: the memory is applied, that of the upload if there
\* is one or if an upload is offered.
CachedRow(c, offered) ==
  [f \in Families |-> IF f = "down" \/ offered \/ Knows(memory[c][f])
                     THEN ApplyCached(memory[c][f]) ELSE NoSeries]

\* The probe through the tunnel fails.  Only a scheduled check may be one of Xray,
\* which applies the memory of the upload in any case.
FinishProbeFailed(c) ==
  /\ check[c] # "none"
  /\ \/ Write(c, CachedRow(c, FALSE))
     \/ mode[c] = "ephemeral" /\ Write(c, CachedRow(c, TRUE))
  /\ Conclude(c)
  /\ UNCHANGED <<slot, lastGood, goods, lastTry>>

\* _enrich_network_metrics without a measurement: not due, not this
\* component's turn, or no free slot.
FinishCached(c) ==
  /\ check[c] # "none"
  /\ ~run[c] \/ now < slot + Gap
  /\ Write(c, CachedRow(c, UploadSupported))
  /\ Conclude(c)
  /\ UNCHANGED <<slot, lastGood, goods, lastTry>>

\* _enrich_network_metrics with one: download and upload in the same slot.
FinishLive(c) ==
  /\ check[c] # "none" /\ run[c] /\ now >= slot + Gap
  /\ slot' = now
  /\ \E result \in [Families -> Results] :
       /\ Write(c, [f \in Families |->
                      IF f = "down" \/ UploadSupported THEN RecordLive(memory[c][f], result[f], now)
                      ELSE IF Knows(memory[c][f]) THEN ApplyCached(memory[c][f]) ELSE NoSeries])
       /\ lastGood' = [lastGood EXCEPT ![c] = [f \in Families |->
                         IF result[f] = "good" /\ (f = "down" \/ UploadSupported) THEN now ELSE @[f]]]
       /\ goods' = [goods EXCEPT ![c] = IF result["down"] = "good" THEN @ + 1 ELSE @]
       /\ lastTry' = [lastTry EXCEPT ![c] = [live |-> TRUE, result |-> result["down"], at |-> now]]
  /\ Conclude(c)

\* The check or its transaction raises, before or after the slot was taken: no
\* row, and the worker gives up its session.
CheckRaises(c) ==
  /\ check[c] # "none"
  /\ \/ UNCHANGED slot
     \/ run[c] /\ now >= slot + Gap /\ slot' = now
  /\ phase' = [phase EXCEPT ![c] = IF mode[c] = "persistent" THEN "connect" ELSE @]
  /\ check' = [check EXCEPT ![c] = "none"]
  /\ memory' = [memory EXCEPT ![c] = BareRow]
  /\ run' = [run EXCEPT ![c] = FALSE]
  /\ UNCHANGED <<now, mode, rowVars, ghostVars>>

\* RECONNECT and CONNECT_FAILED rows have no network details.
SaveWithoutHandle(c) ==
  /\ check[c] = "none" /\ phase[c] = "connect"
  /\ Write(c, BareRow)
  /\ UNCHANGED <<now, slot, mode, phase, checkVars, lastGood, goods, lastTry>>

Next ==
  \/ Tick
  \/ OthersMeasure
  \/ \E c \in Components : BeginProbe(c)
  \/ \E c \in Components : BeginLifecycleProbe(c)
  \/ \E c \in Components : FinishWithoutTunnel(c)
  \/ \E c \in Components : FinishProbeFailed(c)
  \/ \E c \in Components : FinishCached(c)
  \/ \E c \in Components : FinishLive(c)
  \/ \E c \in Components : CheckRaises(c)
  \/ \E c \in Components : SaveWithoutHandle(c)

Spec == Init /\ [][Next]_vars

----------------------------------------------------------------------------
(* Properties *)

\* What the next check of c would take from the rows.
Recalled(c, f) == Remember(latest[c], history[c], f)

\* The newest recorded success of a download is never forgotten, however many failed,
\* deferred and lifecycle probes and rows without network details follow it.
SuccessRemembered ==
  \A c \in Components : Recalled(c, "down").success = lastGood[c]["down"]

\* Every successful download is counted in the statistics once.
SamplesCounted == \A c \in Components : Recalled(c, "down").stats = goods[c]

\* Cached rows keep the newest attempt, so the interval and the back-off are
\* counted from it, until a row without network details is written.
AttemptRemembered ==
  \A c \in Components : ~gap[c] => Recalled(c, "down").attempt = lastTry[c]

\* Between two rows without network details no test of a component is recorded
\* before the interval, or the back-off after a 429, has passed since the last.
TestsAreSpaced ==
  [][\A c \in Components :
       lastTry'[c] # lastTry[c] /\ lastTry[c] # NoTest /\ ~gap[c]
         => lastTry'[c].at >= lastTry[c].at + RetryAfter(lastTry[c])]_vars

\* Once a download succeeded, a row with network details shows a speed, unless
\* it is the row of a live test that failed.
SpeedStaysVisible ==
  \A c \in Components :
    lastGood[c]["down"] # Never /\ latest[c]["down"].test # NoTest
      => latest[c]["down"].test.result = "good" \/ latest[c]["down"].test.live

\* What a comment in _save_session_event says: the row of a lifecycle probe
\* carries the last known speeds forward.
LifecycleKeepsSpeed ==
  [][\A c \in Components :
       check[c] \in {"tunnel_up", "tunnel_down"} /\ latest'[c] # latest[c]
         /\ latest'[c]["down"].test # NoTest
       => \A f \in Families : Recalled(c, f)'.success = Recalled(c, f).success]_vars
=============================================================================
