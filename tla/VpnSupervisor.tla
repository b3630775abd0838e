---------------------------- MODULE VpnSupervisor ----------------------------
(***************************************************************************)
(* VpnSessionSupervisor: sync() and stop_all() of the monitoring worker's  *)
(* main thread over the worker threads of OpenVpnWorker, with the edits    *)
(* administrators make to the component rows in between.                   *)
(*                                                                         *)
(* A sync reads the wanted components once, stops the workers of the       *)
(* others, and then compares the snapshot of each wanted component with    *)
(* the one its worker was started with.  Stopping takes the worker off the *)
(* table, sets its stop event and joins it for 30 seconds; a worker that   *)
(* outlives the join is left to finish on its own.                         *)
(***************************************************************************)
EXTENDS OpenVpnWorker

CONSTANTS MaxEdits       \* how many edits administrators make
CONSTANTS MayShutDown    \* may the monitoring worker be told to exit

ASSUME EditAssumption == MaxEdits \in Nat /\ MayShutDown \in BOOLEAN

VARIABLES supervisor,   \* where the main thread is
          wanted,       \* desired_ids of the sync in progress
          todo,         \* components the current loop has still to visit
          target,       \* the component whose worker is being stopped
          joining,      \* the thread being joined
          next,         \* the snapshot its replacement will be started with
          worker,       \* _workers
          snapshot,     \* _snapshots
          abandoned,    \* threads that outlived their join (history)
          edits

syncVars       == <<supervisor, wanted, todo, target, joining, next, worker, snapshot, abandoned>>
supervisorVars == <<syncVars, edits>>
vars           == <<workerVars, supervisorVars>>

\* _PersistentComponentSnapshot: the fingerprint (its connection mode apart),
\* the interval (with the rest of the fingerprint in config) and is_active.
\* The check type and the project are not part of it.
Snapshots == [config : Configs, persistent : BOOLEAN, active : BOOLEAN]
SnapshotFor(c) ==
  [config |-> row[c].config, persistent |-> row[c].kind # "ephemeral", active |-> row[c].active]
NoSnapshot == [config |-> None, persistent |-> FALSE, active |-> FALSE]

SupervisorLabels == {"idle", "reap", "reapJoin", "scan", "scanJoin", "start",
                     "stopAll", "stopAllJoin", "exited"}

TypeOK ==
  /\ WorkerTypeOK
  /\ supervisor \in SupervisorLabels
  /\ wanted \in SUBSET Components
  /\ todo \in SUBSET Components
  /\ target \in Components \cup {None}
  /\ joining \in Threads \cup {None}
  /\ next \in Snapshots \cup {NoSnapshot}
  /\ worker \in [Components -> Threads \cup {None}]
  /\ snapshot \in [Components -> Snapshots \cup {NoSnapshot}]
  /\ abandoned \in SUBSET Threads
  /\ edits \in 0..MaxEdits

\* _load_desired_components
Desired == {c \in Components : row[c].exists /\ ShouldRun(c) /\ row[c].project}

Supervised == {c \in Components : worker[c] # None}

Init ==
  /\ row \in [Components -> {r \in Rows : r.exists}]
  /\ latest = [c \in Components |-> None]
  /\ life = [c \in Components |-> <<None, None>>]
  /\ avail = [c \in Components |-> <<None, None>>]
  /\ netns = [c \in Components |-> FALSE]
  /\ stray = {} /\ late = {} /\ refusing = FALSE
  /\ pc = [t \in Threads |-> "dead"]
  /\ comp \in [Threads -> Components]
  /\ stop = [t \in Threads |-> FALSE]
  /\ session = [t \in Threads |-> "none"]
  /\ sampler = [t \in Threads |-> FALSE]
  /\ lastProbe = [t \in Threads |-> "unknown"]
  /\ announced = [t \in Threads |-> None]
  /\ outcome = [t \in Threads |-> None]
  /\ loaded = [t \in Threads |-> "none"]
  /\ faults = 0
  /\ supervisor = "idle"
  /\ wanted = {} /\ todo = {}
  /\ target = None /\ joining = None /\ next = NoSnapshot
  /\ worker = [c \in Components |-> None]
  /\ snapshot = [c \in Components |-> NoSnapshot]
  /\ abandoned = {}
  /\ edits = 0

----------------------------------------------------------------------------
(* _stop_worker and _start_worker *)

\* Mutant: the stop event is not set.
BeginStopNoEvent(c, label) ==
  /\ worker' = [worker EXCEPT ![c] = None]
  /\ snapshot' = [snapshot EXCEPT ![c] = NoSnapshot]
  /\ UNCHANGED stop
  /\ joining' = worker[c]
  /\ target' = c
  /\ supervisor' = label

\* _stop_worker up to the join.
BeginStop(c, label) ==
  /\ worker' = [worker EXCEPT ![c] = None]
  /\ snapshot' = [snapshot EXCEPT ![c] = NoSnapshot]
  /\ stop' = [stop EXCEPT ![worker[c]] = TRUE]
  /\ joining' = worker[c]
  /\ target' = c
  /\ supervisor' = label

\* Mutant: the thread is not joined.
JoinSkipped == UNCHANGED <<abandoned, faults>>

\* worker.join(timeout=30): the thread is gone, or 30 seconds are.  A thread
\* notices its stop event only between two calls, and a connect alone may
\* take 60 to 120 seconds.
JoinReturns ==
  \/ ~Alive(joining) /\ UNCHANGED <<abandoned, faults>>
  \/ Alive(joining) /\ Fault("join") /\ abandoned' = abandoned \cup {joining}

\* A thread object no one refers to; its slot stands for a new thread.
Free(t) == ~Alive(t) /\ t \notin {worker[c] : c \in Components} \cup {joining}

\* _start_worker
StartWorker(c, s) ==
  \E t \in Threads :
    /\ Free(t)
    /\ worker' = [worker EXCEPT ![c] = t]
    /\ snapshot' = [snapshot EXCEPT ![c] = s]
    /\ pc' = [pc EXCEPT ![t] = "load"]
    /\ comp' = [comp EXCEPT ![t] = c]
    /\ stop' = [stop EXCEPT ![t] = FALSE]
    /\ lastProbe' = [lastProbe EXCEPT ![t] = "unknown"]
    /\ announced' = [announced EXCEPT ![t] = None]
    /\ loaded' = [loaded EXCEPT ![t] = "none"]
    /\ abandoned' = abandoned \ {t}
    /\ UNCHANGED <<session, sampler, outcome>>

----------------------------------------------------------------------------
(* sync *)

\* Mutant: workers of components that are no longer wanted are not visited.
SyncBeginWithoutReap ==
  /\ supervisor = "idle"
  /\ wanted' = Desired
  /\ todo' = {}
  /\ supervisor' = "reap"
  /\ UNCHANGED <<target, joining, next, worker, snapshot, abandoned, edits, workerVars>>

\* The wanted ids are read before the lock is taken.
SyncBegin ==
  /\ supervisor = "idle"
  /\ wanted' = Desired
  /\ todo' = Supervised \ Desired
  /\ supervisor' = "reap"
  /\ UNCHANGED <<target, joining, next, worker, snapshot, abandoned, edits, workerVars>>

\* The loop over running_ids - desired_ids, and its end.
ReapWorker(c) ==
  /\ supervisor = "reap" /\ c \in todo
  /\ BeginStop(c, "reapJoin")
  /\ UNCHANGED <<wanted, todo, next, abandoned, edits, dbVars, netns, host, faults,
                 pc, comp, session, sampler, probeVars, loaded>>

ReapJoined ==
  /\ supervisor = "reapJoin"
  /\ JoinReturns
  /\ todo' = todo \ {target}
  /\ supervisor' = "reap" /\ joining' = None /\ target' = None
  /\ UNCHANGED <<wanted, next, worker, snapshot, edits, dbVars, netns, host, threadVars>>

ReapDone ==
  /\ supervisor = "reap" /\ todo = {}
  /\ todo' = wanted
  /\ supervisor' = "scan"
  /\ UNCHANGED <<wanted, target, joining, next, worker, snapshot, abandoned, edits, workerVars>>

\* Mutant: return instead of continue.
ScanSkipsTheRest(c) ==
  /\ supervisor = "scan" /\ c \in todo
  /\ ~row[c].exists \/ (worker[c] # None /\ snapshot[c] = SnapshotFor(c))
  /\ todo' = {}
  /\ UNCHANGED <<supervisor, wanted, target, joining, next, worker, snapshot,
                 abandoned, edits, workerVars>>

\* One turn of the loop over desired_ids.  A component deleted since is
\* skipped, an unchanged one keeps its worker, whether that thread still runs
\* or not; an error of the database ends the sync where it is.
ScanSkips(c) ==
  /\ supervisor = "scan" /\ c \in todo
  /\ ~row[c].exists \/ (worker[c] # None /\ snapshot[c] = SnapshotFor(c))
  /\ todo' = todo \ {c}
  /\ UNCHANGED <<supervisor, wanted, target, joining, next, worker, snapshot,
                 abandoned, edits, workerVars>>

ScanReplaces(c) ==
  /\ supervisor = "scan" /\ c \in todo
  /\ row[c].exists /\ worker[c] # None /\ snapshot[c] # SnapshotFor(c)
  /\ next' = SnapshotFor(c)
  /\ BeginStop(c, "scanJoin")
  /\ UNCHANGED <<wanted, todo, abandoned, edits, dbVars, netns, host, faults,
                 pc, comp, session, sampler, probeVars, loaded>>

ScanJoined ==
  /\ supervisor = "scanJoin"
  /\ JoinReturns
  /\ supervisor' = "start" /\ joining' = None
  /\ UNCHANGED <<wanted, todo, target, next, worker, snapshot, edits, dbVars, netns, host, threadVars>>

StartReplacement ==
  /\ supervisor = "start"
  /\ StartWorker(target, next)
  /\ todo' = todo \ {target}
  /\ supervisor' = "scan" /\ target' = None /\ next' = NoSnapshot
  /\ UNCHANGED <<wanted, joining, edits, dbVars, netns, host, faults>>

ScanStarts(c) ==
  /\ supervisor = "scan" /\ c \in todo
  /\ row[c].exists /\ worker[c] = None
  /\ StartWorker(c, SnapshotFor(c))
  /\ todo' = todo \ {c}
  /\ UNCHANGED <<supervisor, wanted, target, joining, next, edits, dbVars, netns, host, faults>>

ScanFails ==
  /\ supervisor = "scan" /\ todo # {}
  /\ Fault("db")
  /\ supervisor' = "idle" /\ todo' = {} /\ wanted' = {}
  /\ UNCHANGED <<target, joining, next, worker, snapshot, abandoned, edits,
                 dbVars, netns, host, threadVars>>

SyncEnd ==
  /\ supervisor = "scan" /\ todo = {}
  /\ supervisor' = "idle" /\ wanted' = {}
  /\ UNCHANGED <<todo, target, joining, next, worker, snapshot, abandoned, edits, workerVars>>

----------------------------------------------------------------------------
(* stop_all, from the finally block of main() *)

\* Mutant: main() ends without stop_all.
ShutDownAbruptly ==
  /\ MayShutDown
  /\ supervisor \notin {"stopAll", "stopAllJoin", "exited"}
  /\ supervisor' = "exited"
  /\ UNCHANGED <<wanted, todo, target, joining, next, worker, snapshot, abandoned, edits, workerVars>>

\* KeyboardInterrupt reaches the main thread wherever it is, also in a join.
ShutDown ==
  /\ MayShutDown
  /\ supervisor \notin {"stopAll", "stopAllJoin", "exited"}
  /\ supervisor' = "stopAll"
  /\ todo' = Supervised /\ wanted' = {}
  /\ abandoned' = IF joining # None /\ Alive(joining) THEN abandoned \cup {joining} ELSE abandoned
  /\ joining' = None /\ target' = None /\ next' = NoSnapshot
  /\ UNCHANGED <<worker, snapshot, edits, workerVars>>

StopAllWorker(c) ==
  /\ supervisor = "stopAll" /\ c \in todo
  /\ BeginStop(c, "stopAllJoin")
  /\ UNCHANGED <<wanted, todo, next, abandoned, edits, dbVars, netns, host, faults,
                 pc, comp, session, sampler, probeVars, loaded>>

StopAllJoined ==
  /\ supervisor = "stopAllJoin"
  /\ JoinReturns
  /\ todo' = todo \ {target}
  /\ supervisor' = "stopAll" /\ joining' = None /\ target' = None
  /\ UNCHANGED <<wanted, next, worker, snapshot, edits, dbVars, netns, host, threadVars>>

Exit ==
  /\ supervisor = "stopAll" /\ todo = {}
  /\ supervisor' = "exited"
  /\ UNCHANGED <<wanted, todo, target, joining, next, worker, snapshot, abandoned, edits, workerVars>>

----------------------------------------------------------------------------
(* External: the administrators, through the API process *)

Edit(c) ==
  /\ row[c].exists /\ edits < MaxEdits
  /\ edits' = edits + 1
  /\ UNCHANGED <<syncVars, netns, host, threadVars, faults>>

UpdateComponent(c) ==
  /\ Edit(c)
  /\ \E r \in Rows : /\ r.exists /\ r # row[c]
                     /\ row' = [row EXCEPT ![c] = r]
  /\ UNCHANGED <<latest, life, avail>>

\* The foreign keys cascade: results and events go with the component.
DeleteComponent(c) ==
  /\ Edit(c)
  /\ row' = [row EXCEPT ![c].exists = FALSE]
  /\ latest' = [latest EXCEPT ![c] = None]
  /\ life' = [life EXCEPT ![c] = <<None, None>>]
  /\ avail' = [avail EXCEPT ![c] = <<None, None>>]

----------------------------------------------------------------------------
SupervisorStep ==
  \/ SyncBegin
  \/ \E c \in Components : ReapWorker(c)
  \/ ReapJoined
  \/ ReapDone
  \/ \E c \in Components : ScanSkips(c)
  \/ \E c \in Components : ScanReplaces(c)
  \/ ScanJoined
  \/ StartReplacement
  \/ \E c \in Components : ScanStarts(c)
  \/ ScanFails
  \/ SyncEnd
  \/ \E c \in Components : StopAllWorker(c)
  \/ StopAllJoined
  \/ Exit

\* The threads are daemons: they end with the process.
ThreadStep(t) == supervisor # "exited" /\ WorkerStep(t) /\ UNCHANGED supervisorVars
Drop(t)       == TunnelDrops(t) /\ UNCHANGED supervisorVars

\* What happens on the host by itself.
StrayEnds(c) == StrayExits(c) /\ UNCHANGED supervisorVars
HostStep ==
  /\ HostRefuses \/ HostAllows \/ \E c \in Components : LateSamplerEnds(c) \/ StrayExits(c)
  /\ UNCHANGED supervisorVars

Next ==
  \/ SupervisorStep
  \/ ShutDown
  \/ \E t \in Threads : ThreadStep(t)
  \/ \E t \in Threads : Drop(t)
  \/ HostStep
  \/ \E c \in Components : UpdateComponent(c)
  \/ \E c \in Components : DeleteComponent(c)

Spec == Init /\ [][Next]_vars

\* The main thread keeps cycling, every thread keeps running (a wait ends, a
\* call returns), and a process nobody uses exits after its --inactive time.
\* Nothing else is assumed: the host may refuse namespaces for ever.
Fairness ==
  /\ WF_vars(SupervisorStep)
  /\ \A t \in Threads : WF_vars(ThreadStep(t))
  /\ \A c \in Components : WF_vars(StrayEnds(c))

FairSpec == Spec /\ Fairness

----------------------------------------------------------------------------
(* Properties *)

\* A thread that runs and was not told to stop is the one the table holds for
\* its component: however syncs, failed syncs and edits interleave, no worker
\* escapes the supervisor's control.
RunningIsSupervised ==
  \A t \in Threads : Alive(t) /\ ~stop[t] => worker[comp[t]] = t

\* Two threads of one component run an OpenVPN process of theirs at the same time
\* only when one of them outlived the 30 seconds of its join: the namespace and
\* the tun device are named after the component and cannot serve two sessions.
ExclusiveTunnel ==
  \A t, u \in Threads :
    t # u /\ comp[t] = comp[u] /\ session[t] # "none" /\ session[u] # "none"
      => t \in abandoned \/ u \in abandoned

\* Whatever path through run() is taken - a failed start, an error of the
\* database, a stop that raises, a lost row - a process that a handle names and a
\* sampler that was not told to stop belong to a thread that still runs, and such
\* a sampler pings only inside its thread's session.  What can outlive a thread
\* is a process without a handle (stray) and a sampler told to stop (late).
HeldByLiveWorker ==
  \A t \in Threads :
    /\ session[t] # "none" => Alive(t)
    /\ sampler[t] => Alive(t) /\ HasHandle(t)

\* After stop_all the process exits and its daemon threads with it: sessions
\* still open then belong to threads that outlived their join.
CleanExit ==
  supervisor = "exited" => \A t \in Threads : session[t] # "none" => t \in abandoned

\* A worker's memory of the last probe agrees with what it told the public: it
\* remembers a failed probe exactly while the newest availability event it got
\* into the log is "unavailable".  An event the database refused is therefore
\* recorded at a later probe, and none is recorded twice.
MemoryMatchesEvents ==
  \A t \in Threads : lastProbe[t] = "failed" <=> announced[t] = "unavailable"

\* The availability events of a component alternate, beginning with
\* "unavailable": an outage is announced once and its end is announced.
AvailabilityAlternates ==
  \A c \in Components :
    /\ Newest(avail[c]) = "available" => avail[c][1] = "unavailable"
    /\ Newest(avail[c]) = "unavailable" => avail[c][1] # "unavailable"

\* Every "tunnel_up" is closed by one "tunnel_down" before the next event of
\* the component's sessions, and "reconnect" follows a "tunnel_down".
LifecyclePaired ==
  \A c \in Components :
    /\ life[c][1] = "tunnel_up" => life[c][2] = "tunnel_down"
    /\ life[c][2] = "tunnel_down" => life[c][1] = "tunnel_up"
    /\ life[c][2] = "reconnect" => life[c][1] = "tunnel_down"

\* The supervisor and its workers implement SessionOwnership: threads are
\* appointed, dismissed and outwaited in its order, and tunnels are opened and
\* closed only as it allows.
Ownership == INSTANCE SessionOwnership
  WITH holder <- worker, home <- comp, running <- {t \in Threads : Alive(t)},
       open <- {t \in Threads : session[t] # "none"}, overdue <- abandoned

ImplementsOwnership == Ownership!Spec

\* A sync leaves no component behind: whatever administrators change while it
\* runs and whichever workers it has to outwait, every wanted component it has
\* visited and that still exists has a worker.
SyncServesAll ==
  supervisor \in {"scan", "scanJoin", "start"} =>
    \A c \in wanted \ todo : row[c].exists => worker[c] # None

\* A worker told to stop finishes, whatever it was doing.
StoppedWorkerFinishes ==
  \A t \in Threads : (stop[t] /\ Alive(t)) ~> (~Alive(t) \/ supervisor = "exited")

\* When the edits and the faults end, the table comes to hold a worker for
\* exactly the wanted components.
TableConverges == <>[](supervisor = "exited" \/ Supervised = Desired)

\* When the edits and the faults end, every worker that still runs for a wanted
\* component comes to have a working tunnel and keeps it, also when an abandoned
\* thread deleted the namespace under it or a stray process holds its device;
\* unless the host goes on refusing namespaces or the row has no configuration.
TunnelRecovers ==
  \A c \in Components :
    <>[]( (worker[c] # None /\ c \in Desired /\ supervisor # "exited")
            => \/ ~Alive(worker[c]) \/ session[worker[c]] = "up"
               \/ refusing \/ row[c].config \in Unusable )

\* An outage is not hidden behind a stale result once the faults end: while a
\* worker without a working tunnel runs and the newest result still says "up",
\* either a result that says otherwise follows or the tunnel does.  Excepted is
\* a worker that cannot start at all, since the host refuses namespaces or the
\* row has no configuration: run() writes nothing then, for as long as it lasts.
CannotStart(t) == refusing \/ loaded[t] = "unusable"

OutageIsReported ==
  \A t \in Threads :
    (Alive(t) /\ session[t] # "up" /\ latest[comp[t]] = "up")
      ~> \/ latest[comp[t]] # "up" \/ session[t] = "up"
         \/ ~Alive(t) \/ supervisor = "exited" \/ CannotStart(t)

\* Every wanted component has a worker that runs, from some point on.
WantedIsServed ==
  \A c \in Components :
    <>[](c \in Desired /\ supervisor # "exited" => worker[c] # None /\ Alive(worker[c]))
=============================================================================
