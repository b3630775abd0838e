---------------------------- MODULE OpenVpnWorker ----------------------------
(***************************************************************************)
(* The worker threads of the persistent OpenVPN supervisor: run() of       *)
(* _PersistentOpenVpnWorker, one action per step between two points at     *)
(* which another actor can interfere, over the three things the threads    *)
(* share: the component rows and event log in the database, the network    *)
(* namespaces of the host (named after the component, so shared by every   *)
(* thread of one component), and the stop event of each thread.            *)
(*                                                                         *)
(* Time is not modelled.  A wait on the stop event may end at any moment;  *)
(* the lengths of the back-offs (connect_failures) are left out.           *)
(* The table of connection events is kept as the two newest events of each *)
(* family, the table of check results as the newest outcome.               *)
(***************************************************************************)
EXTENDS Naturals

CONSTANTS Components, Threads, Configs,
          Unusable,     \* the configurations without a config_text
          Kinds,        \* which combinations of check type and mode rows may have
          KeepEvents,   \* keep the log of connection events, or leave it empty
          FaultKinds,   \* the faults the environment may inject
          MaxFaults     \* how many of them, over a whole behaviour

\* "os" is an exception of the system where run() and its callees expect none: a
\* fork or a kill that is refused, a log file that cannot be read.
AllFaults == {"db", "netns", "os", "connect", "probe", "drop", "join"}

\* The check type and the connection mode of a row: "retyped" is a persistent
\* component whose type is not OpenVPN (the two columns are edited separately).
AllKinds == {"persistent", "retyped", "ephemeral"}

ASSUME KindAssumption == Kinds \subseteq AllKinds
ASSUME FaultAssumption == FaultKinds \subseteq AllFaults /\ MaxFaults \in Nat
ASSUME NameAssumption == "none" \notin Threads \cup Components
ASSUME ConfigAssumption == Unusable \subseteq Configs
ASSUME LogAssumption == KeepEvents \in BOOLEAN

VARIABLES row,       \* monitored_components and projects, as the worker reads them
          latest,    \* outcome of the newest check_results row of a component
          life,      \* its two newest tunnel lifecycle events, older first
          avail,     \* its two newest availability events, older first
          netns,     \* does the component's namespace exist
          stray,     \* components with an OpenVPN process that no handle names
          late,      \* components with a sampler that outlived its join
          refusing,  \* does the host refuse to create namespaces
          pc, comp, stop,      \* per thread: next step, component, stop event
          session,   \* per thread: its OpenVPN process and tunnel
          sampler,   \* per thread: its TunnelPingSampler, not told to stop
          lastProbe, \* per thread: _last_probe_ok
          announced, \* per thread: the newest availability event it recorded (history)
          outcome,   \* per thread: outcome of the probe whose transition is due
          loaded,    \* per thread: its variable component
          faults     \* faults injected so far

dbVars     == <<row, latest, life, avail>>
host       == <<stray, late, refusing>>
probeVars  == <<lastProbe, announced, outcome>>
threadVars == <<pc, comp, stop, session, sampler, probeVars, loaded>>
workerVars == <<dbVars, netns, host, threadVars, faults>>

None == "none"

Outcomes    == {"up", "degraded", "down", "timeout"}
LifeEvents  == {"tunnel_up", "tunnel_down", "reconnect", "connect_failed"}
AvailEvents == {"available", "unavailable"}

\* "starting": the process runs, start_openvpn_persistent_session has not
\* returned; "up" and "down": a handle exists and its tunnel works or not.
Sessions == {"none", "starting", "up", "down"}

\* The component a thread has read, None when there was none.
Loads == {"none", "usable", "unusable"}

Labels == {"dead", "load", "check", "saveDown", "stopBroken", "reconnectWait",
           "reconnect", "ensure", "connect", "move", "connectFailed", "backoff",
           "saveUp", "probe", "transition", "interval", "netnsWait",
           "error", "errorStop", "errorEvent", "finally", "finallyStop", "finallyEvent"}

Rows == [exists : BOOLEAN, active : BOOLEAN, kind : Kinds,
         project : BOOLEAN, config : Configs]

WorkerTypeOK ==
  /\ row \in [Components -> Rows]
  /\ latest \in [Components -> Outcomes \cup {None}]
  /\ life \in [Components -> (LifeEvents \cup {None}) \X (LifeEvents \cup {None})]
  /\ avail \in [Components -> (AvailEvents \cup {None}) \X (AvailEvents \cup {None})]
  /\ netns \in [Components -> BOOLEAN]
  /\ stray \in SUBSET Components /\ late \in SUBSET Components /\ refusing \in BOOLEAN
  /\ pc \in [Threads -> Labels]
  /\ comp \in [Threads -> Components]
  /\ stop \in [Threads -> BOOLEAN]
  /\ session \in [Threads -> Sessions]
  /\ sampler \in [Threads -> BOOLEAN]
  /\ lastProbe \in [Threads -> {"unknown", "ok", "failed"}]
  /\ announced \in [Threads -> AvailEvents \cup {None}]
  /\ outcome \in [Threads -> Outcomes \cup {None}]
  /\ loaded \in [Threads -> Loads]
  /\ faults \in 0..MaxFaults

----------------------------------------------------------------------------
(* Helpers *)

Alive(t)     == pc[t] # "dead"
HasHandle(t) == session[t] \in {"up", "down"}

Goto(t, label) == pc' = [pc EXCEPT ![t] = label]

Fault(kind) == /\ kind \in FaultKinds
               /\ faults < MaxFaults
               /\ faults' = faults + 1

Newest(window) == window[2]
Push(window, event) == IF KeepEvents THEN <<window[2], event>> ELSE window

\* _should_run
ShouldRun(c) == row[c].active /\ row[c].kind = "persistent"

\* delete_netns(name) after _terminate_process: the thread's own session ends,
\* and so does every tunnel another thread has in the namespace of that name.
ReleaseSession(t) ==
  /\ netns' = [netns EXCEPT ![comp[t]] = FALSE]
  /\ session' = [u \in Threads |->
       IF u = t THEN "none"
       ELSE IF comp[u] = comp[t] /\ session[u] = "up" THEN "down"
       ELSE session[u]]

\* stop_openvpn_persistent_session raises, before the process ended or after:
\* the handle is kept.
StopRaises(t) ==
  /\ Fault("os")
  /\ session' \in {session, [session EXCEPT ![t] = "down"]}
  /\ UNCHANGED netns

\* The same where no one keeps the handle: the process may be left running.
LosesProcess(t) ==
  /\ Fault("os")
  /\ session' = [session EXCEPT ![t] = "none"]
  /\ stray' \in {stray, stray \cup {comp[t]}}
  /\ UNCHANGED <<netns, late, refusing>>

\* sampler.stop(): told to stop, the sampler ends within the 10 seconds of its
\* join or later; the thread forgets it in both cases.
StopSampler(t) ==
  /\ sampler' = [sampler EXCEPT ![t] = FALSE]
  /\ UNCHANGED <<stray, refusing>>
  /\ \/ UNCHANGED <<late, faults>>
     \/ sampler[t] /\ Fault("join") /\ late' = late \cup {comp[t]}

\* _persist_result: a component that was deleted meanwhile is skipped silently.
PersistRow(c, o) ==
  latest' = IF row[c].exists THEN [latest EXCEPT ![c] = o] ELSE latest

\* _persist_result and then _record_connection_event, two transactions.
SaveEvent(c, o, event) ==
  /\ row[c].exists
  /\ PersistRow(c, o)
  /\ life' = [life EXCEPT ![c] = Push(@, event)]
  /\ UNCHANGED <<row, avail, faults>>

\* The same, when one of the two raises: the row may have been committed
\* before the event failed; a deleted component breaks the foreign key.
SaveEventRaises(c, o) ==
  /\ UNCHANGED <<row, life, avail>>
  /\ \/ ~row[c].exists /\ UNCHANGED <<latest, faults>>
     \/ row[c].exists /\ Fault("db") /\ (UNCHANGED latest \/ PersistRow(c, o))

\* _safe_record_connection_event: a failure is logged and swallowed.
SafeRecord(c, event) ==
  /\ UNCHANGED <<row, latest, avail>>
  /\ \/ row[c].exists /\ life' = [life EXCEPT ![c] = Push(@, event)] /\ UNCHANGED faults
     \/ ~row[c].exists /\ UNCHANGED <<life, faults>>
     \/ row[c].exists /\ Fault("db") /\ UNCHANGED life

\* What a lifecycle probe reports for the session of thread t.
ProbeOutcomes(t) == IF session[t] = "up" THEN {"up", "degraded"} ELSE {"down"}

----------------------------------------------------------------------------
(* The loop of run() *)

\* _load_component, and whether _config_text will find a configuration in it.
Load(c) == IF ~row[c].exists THEN "none"
           ELSE IF row[c].config \in Unusable THEN "unusable" ELSE "usable"

\* The head of the loop: the stop event, then the component row.  The row is
\* read outside the inner try, so an error of the database leaves the loop.
LoadComponent(t) ==
  /\ pc[t] = "load"
  /\ \/ stop[t] /\ Goto(t, "finally") /\ UNCHANGED <<loaded, faults>>
     \/ ~stop[t] /\ Fault("db") /\ Goto(t, "finally") /\ UNCHANGED loaded
     \/ /\ ~stop[t]
        /\ loaded' = [loaded EXCEPT ![t] = Load(comp[t])]
        /\ Goto(t, IF row[comp[t]].exists /\ ShouldRun(comp[t]) THEN "check" ELSE "finally")
        /\ UNCHANGED faults
  /\ UNCHANGED <<dbVars, netns, host, comp, stop, session, sampler, probeVars>>

\* Mutant: only the process is polled, not the interface.
CheckSessionProcessOnly(t) ==
  /\ pc[t] = "check"
  /\ Goto(t, IF HasHandle(t) THEN "probe" ELSE "ensure")
  /\ UNCHANGED <<dbVars, netns, host, comp, stop, session, sampler, probeVars, loaded, faults>>

\* is_openvpn_persistent_session_up decides between a probe, a new session
\* and the replacement of a broken one, whose sampler is stopped first.
CheckSession(t) ==
  /\ pc[t] = "check"
  /\ \/ session[t] = "up" /\ Goto(t, "probe") /\ UNCHANGED <<sampler, host, faults>>
     \/ session[t] # "up" /\ StopSampler(t) /\ Goto(t, IF HasHandle(t) THEN "saveDown" ELSE "ensure")
     \/ HasHandle(t) /\ Fault("os") /\ Goto(t, "error") /\ UNCHANGED <<sampler, host>>
  /\ UNCHANGED <<dbVars, netns, comp, stop, session, probeVars, loaded>>

SaveTunnelDown(t) ==
  /\ pc[t] = "saveDown"
  /\ \/ \E o \in ProbeOutcomes(t) : SaveEvent(comp[t], o, "tunnel_down") /\ Goto(t, "stopBroken")
     \/ \E o \in ProbeOutcomes(t) : SaveEventRaises(comp[t], o) /\ Goto(t, "error")
     \/ Fault("probe") /\ Goto(t, "error") /\ UNCHANGED dbVars
  /\ UNCHANGED <<netns, host, comp, stop, session, sampler, probeVars, loaded>>

\* Mutant: the handle survives the stop.
StopBrokenKeepsHandle(t) ==
  /\ pc[t] = "stopBroken"
  /\ netns' = [netns EXCEPT ![comp[t]] = FALSE]
  /\ Goto(t, "reconnectWait")
  /\ UNCHANGED <<dbVars, host, comp, stop, session, sampler, probeVars, loaded, faults>>

StopBrokenSession(t) ==
  /\ pc[t] = "stopBroken"
  /\ \/ ReleaseSession(t) /\ Goto(t, "reconnectWait") /\ UNCHANGED faults
     \/ StopRaises(t) /\ Goto(t, "error")
  /\ UNCHANGED <<dbVars, host, comp, stop, sampler, probeVars, loaded>>

\* self._stop.wait(...): the three waits that lead back into the loop, and the
\* one before a reconnect.  A set stop event ends the wait and the loop.
AfterWait(label) == IF label = "reconnectWait" THEN "reconnect" ELSE "load"

Wait(t) ==
  /\ pc[t] \in {"reconnectWait", "backoff", "interval", "netnsWait"}
  /\ Goto(t, IF stop[t] THEN "finally" ELSE AfterWait(pc[t]))
  /\ UNCHANGED <<dbVars, netns, host, comp, stop, session, sampler, probeVars, loaded, faults>>

SaveReconnect(t) ==
  /\ pc[t] = "reconnect"
  /\ \/ SaveEvent(comp[t], "down", "reconnect") /\ Goto(t, "ensure")
     \/ SaveEventRaises(comp[t], "down") /\ Goto(t, "error")
  /\ UNCHANGED <<netns, host, comp, stop, session, sampler, probeVars, loaded>>

----------------------------------------------------------------------------
(* start_openvpn_persistent_session *)

\* Another thread of the component is starting.  Both add the same namespace
\* and ask for the same tun device name in the default namespace; each name
\* goes to one of them.
Contended(t) == \E u \in Threads \ {t} : comp[u] = comp[t] /\ session[u] = "starting"

\* A process that no handle names may hold the tun device's name too.
Crowded(t) == Contended(t) \/ comp[t] \in stray

\* Mutant: the namespace is added without looking whether it exists.
EnsureNetnsAlwaysAdds(t) ==
  /\ pc[t] = "ensure" /\ loaded[t] # "unusable"
  /\ \/ /\ ~netns[comp[t]] /\ ~refusing
        /\ netns' = [netns EXCEPT ![comp[t]] = TRUE]
        /\ session' = [session EXCEPT ![t] = "starting"]
        /\ Goto(t, "connect") /\ UNCHANGED faults
     \/ /\ netns[comp[t]] \/ refusing
        /\ Goto(t, "netnsWait") /\ UNCHANGED <<netns, session, faults>>
  /\ UNCHANGED <<dbVars, host, comp, stop, sampler, probeVars, loaded>>

\* ensure_netns, then Popen.  Without a config_text nothing is started; a
\* namespace that is missing may be refused (NetnsPermissionError); the steps
\* between it and a running process may raise, before or after it exists.
EnsureNetns(t) ==
  /\ pc[t] = "ensure"
  /\ \/ /\ loaded[t] = "unusable"
        /\ Goto(t, "error") /\ UNCHANGED <<netns, session, faults>>
     \/ /\ loaded[t] # "unusable" /\ (netns[comp[t]] \/ ~refusing)
        /\ netns' = [netns EXCEPT ![comp[t]] = TRUE]
        /\ session' = [session EXCEPT ![t] = "starting"]
        /\ Goto(t, "connect") /\ UNCHANGED faults
     \/ /\ loaded[t] # "unusable" /\ ((~netns[comp[t]] /\ refusing) \/ Contended(t))
        /\ Goto(t, "netnsWait") /\ UNCHANGED <<netns, session, faults>>
     \/ /\ loaded[t] # "unusable" /\ Fault("os")
        /\ Goto(t, "error") /\ UNCHANGED session
        /\ netns' \in {netns, [netns EXCEPT ![comp[t]] = @ \/ ~refusing]}
  /\ UNCHANGED <<dbVars, host, comp, stop, sampler, probeVars, loaded>>

\* Mutant: a timed-out start leaves the process behind.
WaitForTunLeaks(t) ==
  /\ pc[t] = "connect"
  /\ \/ Goto(t, "move") /\ UNCHANGED <<netns, session, faults>>
     \/ /\ Fault("connect") \/ (Crowded(t) /\ UNCHANGED faults)
        /\ UNCHANGED <<netns, session>> /\ Goto(t, "connectFailed")
  /\ UNCHANGED <<dbVars, host, comp, stop, sampler, probeVars, loaded>>

\* _wait_for_tun_interface: the device appears, or the timeout terminates the
\* process and deletes the namespace.  An exception of either leaves run()
\* without a handle to the process.
WaitForTun(t) ==
  /\ pc[t] = "connect"
  /\ \/ Goto(t, "move") /\ UNCHANGED <<netns, host, session, faults>>
     \/ /\ Fault("connect") \/ (Crowded(t) /\ UNCHANGED faults)
        /\ ReleaseSession(t) /\ Goto(t, "connectFailed") /\ UNCHANGED host
     \/ LosesProcess(t) /\ Goto(t, "error")
  /\ UNCHANGED <<dbVars, comp, stop, sampler, probeVars, loaded>>

\* move_iface_to_netns and the settle loop.  The move fails when the namespace
\* was deleted meanwhile or holds a device of that name; with two processes
\* starting, the device moved may be the other one's.
MoveIface(t) ==
  /\ pc[t] = "move"
  /\ LET sibling == \E u \in Threads \ {t} : comp[u] = comp[t] /\ session[u] = "up"
         movable == netns[comp[t]] /\ ~sibling
     IN \/ /\ movable
           /\ \E s \in IF Crowded(t) THEN {"up", "down"} ELSE {"up"} :
                session' = [session EXCEPT ![t] = s]
           /\ Goto(t, "saveUp") /\ UNCHANGED <<netns, host, faults>>
        \/ /\ \/ (~movable \/ comp[t] \in stray) /\ UNCHANGED faults
              \/ movable /\ Fault("connect")
           /\ ReleaseSession(t) /\ Goto(t, "connectFailed") /\ UNCHANGED host
        \/ LosesProcess(t) /\ Goto(t, "error")
  /\ UNCHANGED <<dbVars, comp, stop, sampler, probeVars, loaded>>

SaveConnectFailure(t) ==
  /\ pc[t] = "connectFailed"
  /\ \/ SaveEvent(comp[t], "timeout", "connect_failed") /\ Goto(t, "backoff")
     \/ SaveEventRaises(comp[t], "timeout") /\ Goto(t, "error")
  /\ UNCHANGED <<netns, host, comp, stop, session, sampler, probeVars, loaded>>

\* TUNNEL_UP, then the sampler; an error of the sampler is swallowed.
SaveTunnelUp(t) ==
  /\ pc[t] = "saveUp"
  /\ \/ /\ \E o \in ProbeOutcomes(t) : SaveEvent(comp[t], o, "tunnel_up")
        /\ \E started \in BOOLEAN : sampler' = [sampler EXCEPT ![t] = started]
        /\ Goto(t, "probe")
     \/ /\ \/ \E o \in ProbeOutcomes(t) : SaveEventRaises(comp[t], o)
           \/ Fault("probe") /\ UNCHANGED dbVars
        /\ Goto(t, "error") /\ UNCHANGED sampler
  /\ UNCHANGED <<netns, host, comp, stop, session, probeVars, loaded>>

----------------------------------------------------------------------------
(* The probe of one interval *)

RunProbe(t) ==
  /\ pc[t] = "probe"
  /\ \/ \E o \in ProbeOutcomes(t) :
          /\ outcome' = [outcome EXCEPT ![t] = o]
          /\ PersistRow(comp[t], o)
          /\ Goto(t, "transition") /\ UNCHANGED faults
     \/ /\ Fault("probe") \/ Fault("db")
        /\ Goto(t, "error") /\ UNCHANGED <<latest, outcome>>
  /\ UNCHANGED <<row, life, avail, netns, host, comp, stop, session, sampler, lastProbe, announced, loaded>>

\* The event a probe outcome calls for, given the outcome of the last one.
TransitionEvent(last, o) ==
  IF o = "up" /\ last = "failed" THEN "available"
  ELSE IF o = "degraded" /\ last # "failed" THEN "unavailable"
  ELSE None

\* Mutant: the outcome itself is remembered.
ProbeMemoryRaw(last, o) == IF o \in {"up", "degraded"} THEN o ELSE last

ProbeMemory(last, o) ==
  IF o = "up" THEN "ok" ELSE IF o = "degraded" THEN "failed" ELSE last

RecordAvailability(t, event) ==
  IF event = None
  THEN UNCHANGED <<avail, announced>>
  ELSE /\ avail' = [avail EXCEPT ![comp[t]] = Push(@, event)]
       /\ announced' = [announced EXCEPT ![t] = event]

\* Mutant: _last_probe_ok is assigned before the event is recorded.
RecordTransitionEarly(t) ==
  /\ pc[t] = "transition"
  /\ LET c     == comp[t]
         event == TransitionEvent(lastProbe[t], outcome[t])
     IN \/ /\ event = None \/ row[c].exists
           /\ RecordAvailability(t, event)
           /\ Goto(t, "interval") /\ UNCHANGED faults
        \/ /\ event # None
           /\ (~row[c].exists /\ UNCHANGED faults) \/ (row[c].exists /\ Fault("db"))
           /\ Goto(t, "error") /\ UNCHANGED <<avail, announced>>
  /\ lastProbe' = [lastProbe EXCEPT ![t] = ProbeMemory(@, outcome[t])]
  /\ outcome' = [outcome EXCEPT ![t] = None]
  /\ UNCHANGED <<row, latest, life, netns, host, comp, stop, session, sampler, loaded>>

\* Mutant: the next probe follows without a look at the stop event.
RecordTransitionNoWait(t) ==
  /\ pc[t] = "transition"
  /\ Goto(t, "probe")
  /\ outcome' = [outcome EXCEPT ![t] = None]
  /\ UNCHANGED <<dbVars, netns, host, comp, stop, session, sampler, lastProbe, announced, loaded, faults>>

\* _maybe_record_probe_transition, then the interval is read.  _last_probe_ok
\* is assigned after the event was recorded, and not at all if that raised.
RecordTransition(t) ==
  /\ pc[t] = "transition"
  /\ LET c     == comp[t]
         event == TransitionEvent(lastProbe[t], outcome[t])
     IN \/ /\ event = None \/ row[c].exists
           /\ RecordAvailability(t, event)
           /\ lastProbe' = [lastProbe EXCEPT ![t] = ProbeMemory(@, outcome[t])]
           /\ \/ Goto(t, "interval") /\ UNCHANGED faults
              \/ Goto(t, "error") /\ Fault("db")
        \/ /\ event # None
           /\ (~row[c].exists /\ UNCHANGED faults) \/ (row[c].exists /\ Fault("db"))
           /\ Goto(t, "error") /\ UNCHANGED <<avail, announced, lastProbe>>
  /\ outcome' = [outcome EXCEPT ![t] = None]
  /\ UNCHANGED <<row, latest, life, netns, host, comp, stop, session, sampler, loaded>>

----------------------------------------------------------------------------
(* The exception handlers and the finally block *)

\* except Exception: the sampler is stopped, then the session, and TUNNEL_DOWN
\* is recorded if there was one.  What the handler raises leaves the loop.
HandleError(t) ==
  /\ pc[t] = "error"
  /\ StopSampler(t)
  /\ Goto(t, "errorStop")
  /\ UNCHANGED <<dbVars, netns, comp, stop, session, probeVars, loaded>>

StopAfterError(t) ==
  /\ pc[t] = "errorStop"
  /\ \/ ~HasHandle(t) /\ Goto(t, "backoff") /\ UNCHANGED <<netns, session, faults>>
     \/ HasHandle(t) /\ ReleaseSession(t) /\ Goto(t, "errorEvent") /\ UNCHANGED faults
     \/ HasHandle(t) /\ StopRaises(t) /\ Goto(t, "finally")
  /\ UNCHANGED <<dbVars, host, comp, stop, sampler, probeVars, loaded>>

RecordErrorDown(t) ==
  /\ pc[t] = "errorEvent"
  /\ SafeRecord(comp[t], "tunnel_down")
  /\ Goto(t, "backoff")
  /\ UNCHANGED <<netns, host, comp, stop, session, sampler, probeVars, loaded>>

\* The thread returns; what its frame and its object held is gone.
Return(t) ==
  /\ Goto(t, "dead")
  /\ lastProbe' = [lastProbe EXCEPT ![t] = "unknown"]
  /\ announced' = [announced EXCEPT ![t] = None]
  /\ loaded' = [loaded EXCEPT ![t] = "none"]

Finally(t) ==
  /\ pc[t] = "finally"
  /\ StopSampler(t)
  /\ Goto(t, "finallyStop")
  /\ UNCHANGED <<dbVars, netns, comp, stop, session, probeVars, loaded>>

\* An exception of this last stop ends the thread without an event.
StopFinally(t) ==
  /\ pc[t] = "finallyStop"
  /\ \/ /\ ~HasHandle(t) /\ Return(t)
        /\ UNCHANGED <<netns, host, session, faults>>
     \/ /\ HasHandle(t) /\ ReleaseSession(t) /\ Goto(t, "finallyEvent")
        /\ UNCHANGED <<host, lastProbe, announced, loaded, faults>>
     \/ /\ HasHandle(t) /\ LosesProcess(t)
        /\ UNCHANGED <<pc, lastProbe, announced, loaded>>
  /\ UNCHANGED <<dbVars, comp, stop, sampler, outcome>>

\* The row is read again if the last read found none; without a component, or
\* when that read raises, nothing is recorded.
RecordFinalDown(t) ==
  /\ pc[t] = "finallyEvent"
  /\ \/ (loaded[t] # "none" \/ row[comp[t]].exists) /\ SafeRecord(comp[t], "tunnel_down")
     \/ loaded[t] = "none" /\ ((~row[comp[t]].exists /\ UNCHANGED faults) \/ Fault("db")) /\ UNCHANGED dbVars
  /\ Return(t)
  /\ UNCHANGED <<netns, host, comp, stop, session, sampler, outcome>>

WorkerStep(t) ==
  \/ LoadComponent(t)
  \/ CheckSession(t)
  \/ SaveTunnelDown(t)
  \/ StopBrokenSession(t)
  \/ Wait(t)
  \/ SaveReconnect(t)
  \/ EnsureNetns(t)
  \/ WaitForTun(t)
  \/ MoveIface(t)
  \/ SaveConnectFailure(t)
  \/ SaveTunnelUp(t)
  \/ RunProbe(t)
  \/ RecordTransition(t)
  \/ HandleError(t)
  \/ StopAfterError(t)
  \/ RecordErrorDown(t)
  \/ Finally(t)
  \/ StopFinally(t)
  \/ RecordFinalDown(t)

\* External: the VPN server or the OpenVPN process ends a working tunnel.
TunnelDrops(t) ==
  /\ session[t] = "up"
  /\ Fault("drop")
  /\ session' = [session EXCEPT ![t] = "down"]
  /\ UNCHANGED <<dbVars, netns, host, pc, comp, stop, sampler, probeVars, loaded>>

\* External: the host stops creating namespaces (the capability is missing, or
\* AppArmor denies the mount) and may create them again.
HostRefuses ==
  /\ ~refusing /\ Fault("netns")
  /\ refusing' = TRUE
  /\ UNCHANGED <<dbVars, netns, stray, late, threadVars>>

HostAllows ==
  /\ refusing /\ refusing' = FALSE
  /\ UNCHANGED <<dbVars, netns, stray, late, threadVars, faults>>

\* A sampler whose stop event is set ends after the window it is in.
LateSamplerEnds(c) ==
  /\ c \in late /\ late' = late \ {c}
  /\ UNCHANGED <<dbVars, netns, stray, refusing, threadVars, faults>>

\* --inactive 3600: a process whose tunnel carries nothing exits by itself.
StrayExits(c) ==
  /\ c \in stray /\ stray' = stray \ {c}
  /\ UNCHANGED <<dbVars, netns, late, refusing, threadVars, faults>>
=============================================================================
