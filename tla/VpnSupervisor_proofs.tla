------------------------ MODULE VpnSupervisor_proofs ------------------------
(***************************************************************************)
(* Proofs about VpnSupervisor, for every number of components, threads,    *)
(* faults and edits: type correctness, the safety invariants of the runs,  *)
(* and that the supervisor implements SessionOwnership.                    *)
(***************************************************************************)
EXTENDS VpnSupervisor, TLAPS

----------------------------------------------------------------------------
(* The inductive invariant *)

\* Where a thread is in run() determines what it holds.
NoSessionLabels == {"dead", "ensure", "reconnect", "reconnectWait", "connectFailed",
                    "backoff", "netnsWait", "errorEvent", "finallyEvent"}
SamplerLabels   == {"load", "check", "probe", "transition", "interval", "error", "finally"}

HoldingsOf(t) ==
  /\ pc[t] \in NoSessionLabels => session[t] = "none"
  /\ session[t] = "starting" => pc[t] \in {"connect", "move"}
  /\ pc[t] = "saveUp" => HasHandle(t)
  /\ sampler[t] => pc[t] \in SamplerLabels /\ HasHandle(t)

Holdings == \A t \in Threads : HoldingsOf(t)

\* The table of workers and the stop events agree.
TableInv ==
  /\ \A t \in Threads : Alive(t) /\ ~stop[t] => worker[comp[t]] = t
  /\ \A c \in Components : worker[c] # None => comp[worker[c]] = c /\ ~stop[worker[c]]

\* A stopped thread is being waited for, or nobody waits for it any more.
JoinLabels == {"reapJoin", "scanJoin", "stopAllJoin"}

\* The loops of _stop_worker calls visit only components that have a worker.
TargetInv ==
  /\ supervisor \in JoinLabels \cup {"start"} => target \in Components
  /\ joining # None <=> supervisor \in JoinLabels
  /\ supervisor \in {"reap", "stopAll"} => todo \subseteq Supervised
  /\ supervisor \in {"reapJoin", "stopAllJoin"} => todo \ {target} \subseteq Supervised

JoinInv ==
  /\ \A t \in Threads : Alive(t) /\ stop[t] => t \in abandoned \/ t = joining
  /\ supervisor \in JoinLabels => target = comp[joining] /\ stop[joining]
  /\ supervisor \in JoinLabels \cup {"start"} => worker[target] = None

\* stop_all visits every worker before the process exits.
StopAllInv ==
  /\ supervisor \in {"stopAll", "stopAllJoin"} => Supervised \subseteq todo
  /\ supervisor = "exited" => Supervised = {}

TypeInv == TypeOK /\ TargetInv
IInv == TypeInv /\ Holdings /\ TableInv /\ JoinInv /\ StopAllInv

----------------------------------------------------------------------------
(* Type correctness *)

LEMMA InitTypeOK == Init => TypeOK
<1> SUFFICES ASSUME Init PROVE TypeOK
  OBVIOUS
<1> USE DEF Init, None
<1>1. /\ row \in [Components -> Rows]
      /\ latest \in [Components -> Outcomes \cup {None}]
      /\ life \in [Components -> (LifeEvents \cup {None}) \X (LifeEvents \cup {None})]
      /\ avail \in [Components -> (AvailEvents \cup {None}) \X (AvailEvents \cup {None})]
  BY DEF Rows, Outcomes, LifeEvents, AvailEvents
<1>2. /\ netns \in [Components -> BOOLEAN] /\ faults \in 0..MaxFaults
      /\ stray \in SUBSET Components /\ late \in SUBSET Components /\ refusing \in BOOLEAN
  <2>1. 0 \in 0..MaxFaults
    BY FaultAssumption
  <2>2. {} \in SUBSET Components
    OBVIOUS
  <2>3. QED BY <2>1, <2>2
<1>3. /\ pc \in [Threads -> Labels] /\ comp \in [Threads -> Components]
      /\ stop \in [Threads -> BOOLEAN] /\ sampler \in [Threads -> BOOLEAN]
      /\ session \in [Threads -> Sessions] /\ loaded \in [Threads -> Loads]
      /\ lastProbe \in [Threads -> {"unknown", "ok", "failed"}]
      /\ announced \in [Threads -> AvailEvents \cup {None}]
      /\ outcome \in [Threads -> Outcomes \cup {None}]
  BY DEF Labels, Sessions, Loads
<1>4. WorkerTypeOK
  BY <1>1, <1>2, <1>3 DEF WorkerTypeOK
<1>5. QED
  BY <1>4, EditAssumption DEF TypeOK, SupervisorLabels

LEMMA FaultType ==
  ASSUME faults \in 0..MaxFaults, NEW kind, Fault(kind)
  PROVE  faults' \in 0..MaxFaults
  BY FaultAssumption DEF Fault

\* Helpers of the worker that write the shared state keep its type.
LEMMA ReleaseSessionType ==
  ASSUME WorkerTypeOK, NEW t \in Threads, ReleaseSession(t)
  PROVE  /\ netns' \in [Components -> BOOLEAN]
         /\ session' \in [Threads -> Sessions]
  BY DEF WorkerTypeOK, ReleaseSession, Sessions

LEMMA StopRaisesType ==
  ASSUME WorkerTypeOK, NEW t \in Threads, StopRaises(t)
  PROVE  session' \in [Threads -> Sessions] /\ UNCHANGED netns /\ faults' \in 0..MaxFaults
<1>1. faults' \in 0..MaxFaults
  BY FaultType DEF StopRaises, WorkerTypeOK
<1>2. QED BY <1>1 DEF StopRaises, WorkerTypeOK, Sessions

HostTypeOK == stray \in SUBSET Components /\ late \in SUBSET Components /\ refusing \in BOOLEAN

LEMMA LosesProcessType ==
  ASSUME WorkerTypeOK, NEW t \in Threads, LosesProcess(t)
  PROVE  /\ session' \in [Threads -> Sessions] /\ UNCHANGED netns
         /\ HostTypeOK' /\ faults' \in 0..MaxFaults
<1>1. faults' \in 0..MaxFaults
  BY FaultType DEF LosesProcess, WorkerTypeOK
<1>2. HostTypeOK'
  BY DEF LosesProcess, WorkerTypeOK, HostTypeOK
<1>3. QED BY <1>1, <1>2 DEF LosesProcess, WorkerTypeOK, Sessions

LEMMA StopSamplerType ==
  ASSUME WorkerTypeOK, NEW t \in Threads, StopSampler(t)
  PROVE  /\ sampler' \in [Threads -> BOOLEAN] /\ sampler'[t] = FALSE
         /\ HostTypeOK' /\ faults' \in 0..MaxFaults
<1>1. faults' \in 0..MaxFaults
  BY FaultType DEF StopSampler, WorkerTypeOK
<1>2. HostTypeOK'
  BY DEF StopSampler, WorkerTypeOK, HostTypeOK
<1>3. QED BY <1>1, <1>2 DEF StopSampler, WorkerTypeOK

LEMMA SaveType ==
  ASSUME WorkerTypeOK, NEW c \in Components, NEW o \in Outcomes, NEW e \in LifeEvents,
         \/ SaveEvent(c, o, e)
         \/ SaveEventRaises(c, o)
         \/ SafeRecord(c, e)
  PROVE  /\ row' = row /\ avail' = avail
         /\ latest' \in [Components -> Outcomes \cup {None}]
         /\ life' \in [Components -> (LifeEvents \cup {None}) \X (LifeEvents \cup {None})]
         /\ faults' \in 0..MaxFaults
<1>1. Push(life[c], e) \in (LifeEvents \cup {None}) \X (LifeEvents \cup {None})
  BY DEF WorkerTypeOK, Push
<1>2. ASSUME PersistRow(c, o) PROVE latest' \in [Components -> Outcomes \cup {None}]
  BY <1>2 DEF WorkerTypeOK, PersistRow
<1>3. CASE SaveEvent(c, o, e)
  BY <1>1, <1>2, <1>3 DEF WorkerTypeOK, SaveEvent
<1>4. CASE SaveEventRaises(c, o)
  BY <1>2, <1>4, FaultAssumption DEF WorkerTypeOK, SaveEventRaises, Fault
<1>5. CASE SafeRecord(c, e)
  BY <1>1, <1>5, FaultAssumption DEF WorkerTypeOK, SafeRecord, Fault
<1>6. QED BY <1>3, <1>4, <1>5

\* Every step of run() ends at a label.
LEMMA PcType ==
  ASSUME WorkerTypeOK, NEW t \in Threads, WorkerStep(t)
  PROVE  pc' \in [Threads -> Labels]
<1> SUFFICES \E l \in Labels : Goto(t, l)
  BY DEF WorkerTypeOK, Goto
<1>1. CASE LoadComponent(t)
  BY <1>1 DEF LoadComponent, Labels
<1>2. CASE CheckSession(t)
  BY <1>2 DEF CheckSession, Labels
<1>3. CASE SaveTunnelDown(t)
  BY <1>3 DEF SaveTunnelDown, Labels
<1>4. CASE StopBrokenSession(t)
  BY <1>4 DEF StopBrokenSession, Labels
<1>5. CASE Wait(t)
  BY <1>5 DEF Wait, AfterWait, Labels
<1>6. CASE SaveReconnect(t)
  BY <1>6 DEF SaveReconnect, Labels
<1>7. CASE EnsureNetns(t)
  BY <1>7 DEF EnsureNetns, Labels
<1>8. CASE WaitForTun(t)
  BY <1>8 DEF WaitForTun, Labels
<1>9. CASE MoveIface(t)
  BY <1>9 DEF MoveIface, Labels
<1>10. CASE SaveConnectFailure(t)
  BY <1>10 DEF SaveConnectFailure, Labels
<1>11. CASE SaveTunnelUp(t)
  BY <1>11 DEF SaveTunnelUp, Labels
<1>12. CASE RunProbe(t)
  BY <1>12 DEF RunProbe, Labels
<1>13. CASE RecordTransition(t)
  BY <1>13 DEF RecordTransition, Labels
<1>14. CASE HandleError(t)
  BY <1>14 DEF HandleError, Labels
<1>15. CASE StopAfterError(t)
  BY <1>15 DEF StopAfterError, Labels
<1>16. CASE RecordErrorDown(t)
  BY <1>16 DEF RecordErrorDown, Labels
<1>17. CASE Finally(t)
  BY <1>17 DEF Finally, Labels
<1>18. CASE StopFinally(t)
  <2>1. Goto(t, "dead") \/ Goto(t, "finallyEvent") \/ UNCHANGED pc
    BY <1>18 DEF StopFinally, Return
  <2>2. UNCHANGED pc => Goto(t, pc[t])
    BY DEF WorkerTypeOK, Goto
  <2>3. pc[t] \in Labels
    BY DEF WorkerTypeOK
  <2>4. QED BY <2>1, <2>2, <2>3 DEF Labels
<1>19. CASE RecordFinalDown(t)
  BY <1>19 DEF RecordFinalDown, Return, Labels
<1>20. QED
  BY <1>1, <1>2, <1>3, <1>4, <1>5, <1>6, <1>7, <1>8, <1>9, <1>10, <1>11, <1>12,
     <1>13, <1>14, <1>15, <1>16, <1>17, <1>18, <1>19 DEF WorkerStep

\* Every step of run() keeps the type of what the worker can write.
LEMMA WorkerStepType ==
  ASSUME WorkerTypeOK, NEW t \in Threads, WorkerStep(t)
  PROVE  WorkerTypeOK'
<1>0. pc' \in [Threads -> Labels]
  BY PcType
<1> USE DEF WorkerTypeOK, HostTypeOK, dbVars, host, probeVars, Goto, Outcomes, LifeEvents, Labels, None
<1>1. CASE LoadComponent(t)
  <2>1. Load(comp[t]) \in Loads
    BY DEF Load, Loads
  <2>2. loaded' \in [Threads -> Loads]
    <3>1. UNCHANGED loaded \/ loaded' = [loaded EXCEPT ![t] = Load(comp[t])]
      BY <1>1 DEF LoadComponent
    <3>2. QED BY <2>1, <3>1
  <2>3. faults' \in 0..MaxFaults
    BY <1>1, FaultType DEF LoadComponent
  <2>4. QED BY <1>0, <1>1, <2>2, <2>3 DEF LoadComponent
<1>2. CASE CheckSession(t)
  <2>1. UNCHANGED <<dbVars, netns, comp, stop, session, probeVars, loaded>>
    BY <1>2 DEF CheckSession
  <2>2. CASE StopSampler(t)
    BY <1>0, <2>1, <2>2, StopSamplerType
  <2>3. CASE UNCHANGED <<sampler, host>> /\ (UNCHANGED faults \/ Fault("os"))
    BY <1>0, <2>1, <2>3, FaultType
  <2>4. QED BY <1>2, <2>2, <2>3 DEF CheckSession
<1>3. CASE SaveTunnelDown(t)
  <2>1. ProbeOutcomes(t) \subseteq Outcomes
    BY DEF ProbeOutcomes
  <2>2. UNCHANGED <<netns, host, comp, stop, session, sampler, probeVars, loaded>>
    BY <1>3 DEF SaveTunnelDown
  <2>3. CASE \E o \in ProbeOutcomes(t) : SaveEvent(comp[t], o, "tunnel_down") /\ Goto(t, "stopBroken")
    <3>1. PICK o \in ProbeOutcomes(t) : SaveEvent(comp[t], o, "tunnel_down") /\ Goto(t, "stopBroken")
      BY <2>3
    <3>2. o \in Outcomes /\ comp[t] \in Components /\ "tunnel_down" \in LifeEvents
      BY <2>1
    <3>3. /\ row' = row /\ avail' = avail /\ faults' \in 0..MaxFaults
          /\ latest' \in [Components -> Outcomes \cup {None}]
          /\ life' \in [Components -> (LifeEvents \cup {None}) \X (LifeEvents \cup {None})]
      BY <3>1, <3>2, SaveType
    <3>4. QED BY <2>2, <3>1, <3>3
  <2>4. CASE \E o \in ProbeOutcomes(t) : SaveEventRaises(comp[t], o) /\ Goto(t, "error")
    <3>1. PICK o \in ProbeOutcomes(t) : SaveEventRaises(comp[t], o) /\ Goto(t, "error")
      BY <2>4
    <3>2. o \in Outcomes /\ comp[t] \in Components /\ "tunnel_down" \in LifeEvents
      BY <2>1
    <3>3. /\ row' = row /\ avail' = avail /\ faults' \in 0..MaxFaults
          /\ latest' \in [Components -> Outcomes \cup {None}]
          /\ life' \in [Components -> (LifeEvents \cup {None}) \X (LifeEvents \cup {None})]
      BY <3>1, <3>2, SaveType
    <3>4. QED BY <2>2, <3>1, <3>3
  <2>5. CASE Fault("probe") /\ Goto(t, "error") /\ UNCHANGED dbVars
    BY <2>2, <2>5, FaultType
  <2>6. QED BY <1>3, <2>3, <2>4, <2>5 DEF SaveTunnelDown
<1>4. CASE StopBrokenSession(t)
  <2>1. session' \in [Threads -> Sessions] /\ netns' \in [Components -> BOOLEAN] /\ faults' \in 0..MaxFaults
    BY <1>4, ReleaseSessionType, StopRaisesType DEF StopBrokenSession
  <2>2. QED BY <1>0, <1>4, <2>1 DEF StopBrokenSession
<1>5. CASE Wait(t)
  BY <1>5 DEF Wait, AfterWait
<1>6. CASE SaveReconnect(t)
  BY <1>6, SaveType DEF SaveReconnect
<1>7. CASE EnsureNetns(t)
  <2>1. pc' \in [Threads -> Labels]
    BY <1>0
  <2>2. faults' \in 0..MaxFaults
    BY <1>7, FaultType DEF EnsureNetns
  <2>3. netns' \in [Components -> BOOLEAN] /\ session' \in [Threads -> Sessions]
    BY <1>7 DEF EnsureNetns, Sessions
  <2>4. QED BY <1>7, <2>1, <2>2, <2>3 DEF EnsureNetns
<1>8. CASE WaitForTun(t)
  <2>1. UNCHANGED <<dbVars, comp, stop, sampler, probeVars, loaded>>
    BY <1>8 DEF WaitForTun
  <2>2. CASE UNCHANGED <<netns, host, session, faults>>
    BY <1>0, <2>1, <2>2
  <2>3. CASE /\ Fault("connect") \/ (Crowded(t) /\ UNCHANGED faults)
             /\ ReleaseSession(t) /\ UNCHANGED host
    <3>1. faults' \in 0..MaxFaults
      BY <2>3, FaultType
    <3>2. netns' \in [Components -> BOOLEAN] /\ session' \in [Threads -> Sessions]
      BY <2>3, ReleaseSessionType
    <3>3. QED BY <1>0, <2>1, <2>3, <3>1, <3>2
  <2>4. CASE LosesProcess(t)
    BY <1>0, <2>1, <2>4, LosesProcessType
  <2>5. QED BY <1>8, <2>2, <2>3, <2>4 DEF WaitForTun
<1>9. CASE MoveIface(t)
  <2>1. UNCHANGED <<dbVars, comp, stop, sampler, probeVars, loaded>>
    BY <1>9 DEF MoveIface
  <2>2. CASE LosesProcess(t)
    BY <1>0, <2>1, <2>2, LosesProcessType
  <2>3. CASE /\ UNCHANGED <<netns, host, faults>>
             /\ \E s \in {"up", "down"} : session' = [session EXCEPT ![t] = s]
    <3>1. session' \in [Threads -> Sessions]
      BY <2>3 DEF Sessions
    <3>2. QED BY <1>0, <2>1, <2>3, <3>1
  <2>4. CASE ReleaseSession(t) /\ UNCHANGED host /\ (UNCHANGED faults \/ Fault("connect"))
    <3>1. faults' \in 0..MaxFaults
      BY <2>4, FaultType
    <3>2. netns' \in [Components -> BOOLEAN] /\ session' \in [Threads -> Sessions]
      BY <2>4, ReleaseSessionType
    <3>3. QED BY <1>0, <2>1, <2>4, <3>1, <3>2
  <2>5. QED BY <1>9, <2>2, <2>3, <2>4 DEF MoveIface
<1>10. CASE SaveConnectFailure(t)
  BY <1>10, SaveType DEF SaveConnectFailure
<1>11. CASE SaveTunnelUp(t)
  <2>1. ProbeOutcomes(t) \subseteq Outcomes
    BY DEF ProbeOutcomes
  <2>2. UNCHANGED <<netns, host, comp, stop, session, probeVars, loaded>>
    BY <1>11 DEF SaveTunnelUp
  <2>3. pc' \in [Threads -> Labels] /\ sampler' \in [Threads -> BOOLEAN]
    <3>1. pc' \in [Threads -> Labels]
      BY <1>0
    <3>2. UNCHANGED sampler \/ \E started \in BOOLEAN : sampler' = [sampler EXCEPT ![t] = started]
      BY <1>11 DEF SaveTunnelUp
    <3>3. ASSUME NEW started \in BOOLEAN, sampler' = [sampler EXCEPT ![t] = started]
          PROVE  sampler' \in [Threads -> BOOLEAN]
      BY <3>3
    <3>4. QED BY <3>1, <3>2, <3>3
  <2>4. CASE \E o \in ProbeOutcomes(t) : SaveEvent(comp[t], o, "tunnel_up")
    <3>1. PICK o \in ProbeOutcomes(t) : SaveEvent(comp[t], o, "tunnel_up")
      BY <2>4
    <3>2. o \in Outcomes /\ comp[t] \in Components /\ "tunnel_up" \in LifeEvents
      BY <2>1
    <3>3. /\ row' = row /\ avail' = avail /\ faults' \in 0..MaxFaults
          /\ latest' \in [Components -> Outcomes \cup {None}]
          /\ life' \in [Components -> (LifeEvents \cup {None}) \X (LifeEvents \cup {None})]
      BY <3>1, <3>2, SaveType
    <3>4. QED BY <2>2, <2>3, <3>3
  <2>5. CASE \E o \in ProbeOutcomes(t) : SaveEventRaises(comp[t], o)
    <3>1. PICK o \in ProbeOutcomes(t) : SaveEventRaises(comp[t], o)
      BY <2>5
    <3>2. o \in Outcomes /\ comp[t] \in Components /\ "tunnel_up" \in LifeEvents
      BY <2>1
    <3>3. /\ row' = row /\ avail' = avail /\ faults' \in 0..MaxFaults
          /\ latest' \in [Components -> Outcomes \cup {None}]
          /\ life' \in [Components -> (LifeEvents \cup {None}) \X (LifeEvents \cup {None})]
      BY <3>1, <3>2, SaveType
    <3>4. QED BY <2>2, <2>3, <3>3
  <2>6. CASE Fault("probe") /\ UNCHANGED dbVars
    BY <2>2, <2>3, <2>6, FaultType
  <2>7. QED BY <1>11, <2>4, <2>5, <2>6 DEF SaveTunnelUp
<1>12. CASE RunProbe(t)
  <2>1. pc' \in [Threads -> Labels] /\ faults' \in 0..MaxFaults
    BY <1>12, FaultType DEF RunProbe
  <2>2. ProbeOutcomes(t) \subseteq Outcomes
    BY DEF ProbeOutcomes
  <2>3. outcome' \in [Threads -> Outcomes \cup {None}]
    <3>1. UNCHANGED outcome \/ \E o \in ProbeOutcomes(t) : outcome' = [outcome EXCEPT ![t] = o]
      BY <1>12 DEF RunProbe
    <3>2. ASSUME NEW o \in Outcomes, outcome' = [outcome EXCEPT ![t] = o]
          PROVE  outcome' \in [Threads -> Outcomes \cup {None}]
      BY <3>2
    <3>3. QED BY <2>2, <3>1, <3>2
  <2>4. latest' \in [Components -> Outcomes \cup {None}]
    <3>1. comp[t] \in Components
      OBVIOUS
    <3>2. UNCHANGED latest \/ \E o \in ProbeOutcomes(t) : PersistRow(comp[t], o)
      BY <1>12 DEF RunProbe
    <3>3. ASSUME NEW o \in Outcomes, PersistRow(comp[t], o)
          PROVE  latest' \in [Components -> Outcomes \cup {None}]
      BY <3>1, <3>3 DEF PersistRow
    <3>4. QED BY <2>2, <3>2, <3>3
  <2>5. /\ row' = row /\ life' = life /\ avail' = avail /\ netns' = netns
        /\ stray' = stray /\ late' = late /\ refusing' = refusing
        /\ comp' = comp /\ stop' = stop /\ session' = session /\ sampler' = sampler
        /\ lastProbe' = lastProbe /\ announced' = announced /\ loaded' = loaded
    BY <1>12 DEF RunProbe
  <2>6. /\ row' \in [Components -> Rows]
        /\ life' \in [Components -> (LifeEvents \cup {None}) \X (LifeEvents \cup {None})]
        /\ avail' \in [Components -> (AvailEvents \cup {None}) \X (AvailEvents \cup {None})]
        /\ netns' \in [Components -> BOOLEAN]
        /\ stray' \in SUBSET Components /\ late' \in SUBSET Components /\ refusing' \in BOOLEAN
    BY <2>5
  <2>7. /\ comp' \in [Threads -> Components]
        /\ stop' \in [Threads -> BOOLEAN]
        /\ session' \in [Threads -> Sessions]
        /\ sampler' \in [Threads -> BOOLEAN]
        /\ lastProbe' \in [Threads -> {"unknown", "ok", "failed"}]
        /\ announced' \in [Threads -> AvailEvents \cup {None}]
        /\ loaded' \in [Threads -> Loads]
    BY <2>5
  <2>8. HostTypeOK'
    BY <2>6
  <2>9. QED
    <3>1. /\ row' \in [Components -> Rows] /\ latest' \in [Components -> Outcomes \cup {None}]
          /\ life' \in [Components -> (LifeEvents \cup {None}) \X (LifeEvents \cup {None})]
          /\ avail' \in [Components -> (AvailEvents \cup {None}) \X (AvailEvents \cup {None})]
          /\ netns' \in [Components -> BOOLEAN]
      BY <2>4, <2>6
    <3> HIDE DEF LifeEvents, Outcomes, Labels, None
    <3>2. QED BY <2>1, <2>3, <2>7, <2>8, <3>1
<1>13. CASE RecordTransition(t)
  <2>1. pc' \in [Threads -> Labels] /\ faults' \in 0..MaxFaults
    BY <1>13, FaultType DEF RecordTransition
  <2>2. /\ lastProbe' \in [Threads -> {"unknown", "ok", "failed"}]
        /\ outcome' \in [Threads -> Outcomes \cup {None}]
    <3>1. ProbeMemory(lastProbe[t], outcome[t]) \in {"unknown", "ok", "failed"}
      BY DEF ProbeMemory
    <3>2. \/ UNCHANGED lastProbe
          \/ lastProbe' = [lastProbe EXCEPT ![t] = ProbeMemory(lastProbe[t], outcome[t])]
      BY <1>13 DEF RecordTransition
    <3>3. lastProbe' \in [Threads -> {"unknown", "ok", "failed"}]
      BY <3>1, <3>2
    <3>4. outcome' = [outcome EXCEPT ![t] = None]
      BY <1>13 DEF RecordTransition
    <3>5. outcome' \in [Threads -> Outcomes \cup {None}]
      BY <3>4
    <3>6. QED BY <3>3, <3>5
  <2>3. /\ announced' \in [Threads -> AvailEvents \cup {None}]
        /\ avail' \in [Components -> (AvailEvents \cup {None}) \X (AvailEvents \cup {None})]
    <3> DEFINE event == TransitionEvent(lastProbe[t], outcome[t])
    <3>1. UNCHANGED <<avail, announced>> \/ RecordAvailability(t, event)
      BY <1>13 DEF RecordTransition
    <3>2. event \in AvailEvents \cup {None} /\ comp[t] \in Components
      BY DEF TransitionEvent, AvailEvents
    <3> HIDE DEF event
    <3>3. Push(avail[comp[t]], event) \in (AvailEvents \cup {None}) \X (AvailEvents \cup {None})
      BY <3>2 DEF Push
    <3>4. CASE UNCHANGED <<avail, announced>>
      BY <3>4
    <3>5. CASE avail' = [avail EXCEPT ![comp[t]] = Push(avail[comp[t]], event)]
               /\ announced' = [announced EXCEPT ![t] = event]
      BY <3>2, <3>3, <3>5
    <3>6. QED BY <3>1, <3>4, <3>5 DEF RecordAvailability
  <2>4. QED BY <1>13, <2>1, <2>2, <2>3 DEF RecordTransition
<1>14. CASE HandleError(t)
  BY <1>0, <1>14, StopSamplerType DEF HandleError
<1>15. CASE StopAfterError(t)
  <2>1. /\ netns' \in [Components -> BOOLEAN]
        /\ session' \in [Threads -> Sessions]
        /\ faults' \in 0..MaxFaults
    BY <1>15, ReleaseSessionType, StopRaisesType DEF StopAfterError
  <2>2. QED BY <1>0, <1>15, <2>1 DEF StopAfterError
<1>16. CASE RecordErrorDown(t)
  BY <1>16, SaveType DEF RecordErrorDown
<1>17. CASE Finally(t)
  BY <1>0, <1>17, StopSamplerType DEF Finally
<1>18. CASE StopFinally(t)
  <2>1. UNCHANGED <<dbVars, comp, stop, sampler, outcome>>
    BY <1>18 DEF StopFinally
  <2>2. CASE ReleaseSession(t) /\ UNCHANGED <<host, lastProbe, announced, loaded, faults>>
    BY <1>0, <2>1, <2>2, ReleaseSessionType
  <2>3. CASE Return(t) /\ UNCHANGED <<netns, host, session, faults>>
    <3>1. /\ lastProbe' \in [Threads -> {"unknown", "ok", "failed"}]
          /\ announced' \in [Threads -> AvailEvents \cup {None}]
          /\ loaded' \in [Threads -> Loads]
      BY <2>3 DEF Return, Loads
    <3>2. QED BY <1>0, <2>1, <2>3, <3>1
  <2>4. CASE LosesProcess(t) /\ UNCHANGED <<pc, lastProbe, announced, loaded>>
    BY <1>0, <2>1, <2>4, LosesProcessType
  <2>5. QED BY <1>18, <2>2, <2>3, <2>4 DEF StopFinally
<1>19. CASE RecordFinalDown(t)
  <2>1. loaded' \in [Threads -> Loads]
    BY <1>19 DEF RecordFinalDown, Return, Loads
  <2>2. QED BY <1>19, <2>1, SaveType, FaultType DEF RecordFinalDown, Return
<1>20. QED
  BY <1>1, <1>2, <1>3, <1>4, <1>5, <1>6, <1>7, <1>8, <1>9, <1>10, <1>11, <1>12,
     <1>13, <1>14, <1>15, <1>16, <1>17, <1>18, <1>19 DEF WorkerStep

\* So do the steps that only the supervisor, the environment or an
\* administrator takes.
LEMMA WorkerVarsType ==
  ASSUME WorkerTypeOK, UNCHANGED workerVars
  PROVE  WorkerTypeOK'
  BY DEF WorkerTypeOK, workerVars, dbVars, host, threadVars, probeVars

LEMMA ThreadVarsType ==
  ASSUME WorkerTypeOK, UNCHANGED <<dbVars, netns, host, threadVars>>, faults' \in 0..MaxFaults
  PROVE  WorkerTypeOK'
  BY DEF WorkerTypeOK, dbVars, host, threadVars, probeVars

LEMMA BeginStopType ==
  ASSUME TypeInv, NEW c \in Components, NEW label \in SupervisorLabels, BeginStop(c, label),
         UNCHANGED <<dbVars, netns, host, faults, pc, comp, session, sampler, probeVars, loaded>>
  PROVE  /\ WorkerTypeOK'
         /\ supervisor' \in SupervisorLabels /\ target' = c
         /\ joining' \in Threads \cup {None}
         /\ worker' \in [Components -> Threads \cup {None}]
         /\ snapshot' \in [Components -> Snapshots \cup {NoSnapshot}]
<1> USE DEF TypeInv, TypeOK, BeginStop
<1>1. stop' \in [Threads -> BOOLEAN]
  BY DEF WorkerTypeOK
<1>2. WorkerTypeOK'
  BY <1>1 DEF WorkerTypeOK, dbVars, host, probeVars
<1>3. QED BY <1>2

LEMMA JoinReturnsType ==
  ASSUME TypeInv, JoinReturns, joining \in Threads \cup {None}, joining # None,
         UNCHANGED <<dbVars, netns, host, threadVars>>
  PROVE  WorkerTypeOK' /\ abandoned' \in SUBSET Threads
<1>1. faults' \in 0..MaxFaults
  BY FaultType DEF TypeInv, TypeOK, WorkerTypeOK, JoinReturns
<1>2. WorkerTypeOK'
  BY <1>1, ThreadVarsType DEF TypeInv, TypeOK
<1>3. QED BY <1>2 DEF JoinReturns, TypeInv, TypeOK

LEMMA StartWorkerType ==
  ASSUME TypeInv, NEW c \in Components, NEW s \in Snapshots \cup {NoSnapshot}, StartWorker(c, s),
         UNCHANGED <<dbVars, netns, host, faults>>
  PROVE  /\ WorkerTypeOK'
         /\ worker' \in [Components -> Threads \cup {None}]
         /\ snapshot' \in [Components -> Snapshots \cup {NoSnapshot}]
         /\ abandoned' \in SUBSET Threads
<1>1. PICK t \in Threads :
        /\ worker' = [worker EXCEPT ![c] = t]
        /\ snapshot' = [snapshot EXCEPT ![c] = s]
        /\ pc' = [pc EXCEPT ![t] = "load"]
        /\ comp' = [comp EXCEPT ![t] = c]
        /\ stop' = [stop EXCEPT ![t] = FALSE]
        /\ lastProbe' = [lastProbe EXCEPT ![t] = "unknown"]
        /\ announced' = [announced EXCEPT ![t] = None]
        /\ loaded' = [loaded EXCEPT ![t] = "none"]
        /\ abandoned' = abandoned \ {t}
        /\ UNCHANGED <<session, sampler, outcome>>
  BY DEF StartWorker
<1>2. pc' \in [Threads -> Labels] /\ comp' \in [Threads -> Components]
  BY <1>1 DEF TypeInv, TypeOK, WorkerTypeOK, Labels
<1>3. stop' \in [Threads -> BOOLEAN] /\ loaded' \in [Threads -> Loads]
  BY <1>1 DEF TypeInv, TypeOK, WorkerTypeOK, Loads
<1>4. /\ lastProbe' \in [Threads -> {"unknown", "ok", "failed"}]
      /\ announced' \in [Threads -> AvailEvents \cup {None}]
  BY <1>1 DEF TypeInv, TypeOK, WorkerTypeOK
<1>5. WorkerTypeOK'
  BY <1>1, <1>2, <1>3, <1>4 DEF TypeInv, TypeOK, WorkerTypeOK, dbVars, host
<1>6. QED BY <1>1, <1>5 DEF TypeInv, TypeOK

LEMMA SnapshotType ==
  ASSUME TypeOK, NEW c \in Components
  PROVE  SnapshotFor(c) \in Snapshots
<1>1. row[c].config \in Configs /\ row[c].active \in BOOLEAN
  BY DEF TypeOK, WorkerTypeOK, Rows
<1>2. QED BY <1>1 DEF SnapshotFor, Snapshots

LEMMA SyncStepType ==
  ASSUME TypeInv, SyncBegin \/ ReapDone \/ SyncEnd \/ Exit \/ ScanFails \/ ShutDown
                  \/ \E c \in Components : ScanSkips(c)
  PROVE  TypeInv'
<1>1. WorkerTypeOK'
  <2>1. CASE ScanFails
    BY <2>1, FaultType, ThreadVarsType DEF ScanFails, TypeInv, TypeOK, WorkerTypeOK
  <2>2. CASE ~ScanFails
    BY <2>2, WorkerVarsType
    DEF TypeInv, TypeOK, SyncBegin, ReapDone, SyncEnd, Exit, ShutDown, ScanSkips
  <2>3. QED BY <2>1, <2>2
<1>2. /\ UNCHANGED <<worker, snapshot, edits>>
      /\ todo' \subseteq Components /\ wanted' \subseteq Components
      /\ abandoned' \subseteq Threads
  BY DEF TypeInv, TypeOK, SyncBegin, ReapDone, SyncEnd, Exit, ScanFails, ShutDown, ScanSkips,
         Supervised, Desired
<1>3. /\ supervisor' \in SupervisorLabels \ (JoinLabels \cup {"start"})
      /\ joining' = None /\ next' \in Snapshots \cup {NoSnapshot}
      /\ target' \in Components \cup {None}
      /\ supervisor' \in {"reap", "stopAll"} => todo' \subseteq Supervised
  BY DEF TypeInv, TypeOK, TargetInv, JoinLabels, SupervisorLabels, SyncBegin, ReapDone, SyncEnd,
         Exit, ScanFails, ShutDown, ScanSkips
<1>4. Supervised' = Supervised
  BY <1>2 DEF Supervised
<1>5. TypeOK'
  BY <1>1, <1>2, <1>3 DEF TypeInv, TypeOK
<1>6. TargetInv'
  BY <1>3, <1>4 DEF TargetInv, JoinLabels, SupervisorLabels
<1>7. QED BY <1>5, <1>6 DEF TypeInv

LEMMA StopStepType ==
  ASSUME TypeInv, NEW c \in Components, ReapWorker(c) \/ ScanReplaces(c) \/ StopAllWorker(c)
  PROVE  TypeInv'
<1>1. PICK label \in JoinLabels : BeginStop(c, label)
  BY DEF ReapWorker, ScanReplaces, StopAllWorker, JoinLabels
<1>2. label \in SupervisorLabels
  BY DEF JoinLabels, SupervisorLabels
<1>3. UNCHANGED <<dbVars, netns, host, faults, pc, comp, session, sampler, probeVars, loaded>>
  BY DEF ReapWorker, ScanReplaces, StopAllWorker
<1>4. /\ WorkerTypeOK'
      /\ supervisor' \in SupervisorLabels /\ target' = c
      /\ joining' \in Threads \cup {None}
      /\ worker' \in [Components -> Threads \cup {None}]
      /\ snapshot' \in [Components -> Snapshots \cup {NoSnapshot}]
  BY <1>1, <1>2, <1>3, BeginStopType
<1>5. /\ UNCHANGED <<wanted, todo, abandoned, edits>>
      /\ next' \in Snapshots \cup {NoSnapshot}
  BY SnapshotType DEF ReapWorker, ScanReplaces, StopAllWorker, TypeInv, TypeOK
<1>6. TypeOK'
  BY <1>4, <1>5 DEF TypeInv, TypeOK
<1>7. worker[c] # None
  BY DEF TypeInv, TargetInv, Supervised, ReapWorker, ScanReplaces, StopAllWorker
<1>8. supervisor' = label /\ joining' = worker[c] /\ worker' = [worker EXCEPT ![c] = None]
  BY <1>1 DEF BeginStop
<1>9. supervisor' \in {"reapJoin", "stopAllJoin"} => todo \subseteq Supervised
  BY DEF ReapWorker, ScanReplaces, StopAllWorker, BeginStop, TypeInv, TargetInv
<1>10. Supervised \ {c} \subseteq Supervised'
  BY <1>8 DEF Supervised, TypeInv, TypeOK
<1>11. TargetInv'
  BY <1>1, <1>4, <1>5, <1>7, <1>8, <1>9, <1>10 DEF TargetInv, JoinLabels
<1>12. QED BY <1>6, <1>11 DEF TypeInv

LEMMA JoinStepType ==
  ASSUME TypeInv, ReapJoined \/ ScanJoined \/ StopAllJoined
  PROVE  TypeInv'
<1>1. joining # None /\ joining \in Threads \cup {None}
  BY DEF TypeInv, TypeOK, TargetInv, JoinLabels, ReapJoined, ScanJoined, StopAllJoined
<1>2. WorkerTypeOK' /\ abandoned' \in SUBSET Threads
  BY <1>1, JoinReturnsType DEF ReapJoined, ScanJoined, StopAllJoined
<1>3. /\ UNCHANGED <<wanted, next, worker, snapshot, edits>>
      /\ todo' \subseteq Components
      /\ supervisor' \in {"reap", "start", "stopAll"} /\ joining' = None
      /\ target' \in Components \cup {None}
      /\ supervisor' = "start" => target' \in Components
      /\ supervisor' \in {"reap", "stopAll"} => todo' \subseteq Supervised
  BY DEF TypeInv, TypeOK, TargetInv, JoinLabels, ReapJoined, ScanJoined, StopAllJoined
<1>4. Supervised' = Supervised
  BY <1>3 DEF Supervised
<1>5. TypeOK'
  BY <1>2, <1>3 DEF TypeInv, TypeOK, SupervisorLabels
<1>6. QED BY <1>3, <1>4, <1>5 DEF TypeInv, TargetInv, JoinLabels

LEMMA StartStepType ==
  ASSUME TypeInv, StartReplacement \/ \E c \in Components : ScanStarts(c)
  PROVE  TypeInv'
<1>1. PICK c \in Components, s \in Snapshots \cup {NoSnapshot} : StartWorker(c, s)
  BY SnapshotType DEF StartReplacement, ScanStarts, TypeInv, TypeOK, TargetInv
<1>2. UNCHANGED <<dbVars, netns, host, faults>>
  BY DEF StartReplacement, ScanStarts
<1>3. /\ WorkerTypeOK'
      /\ worker' \in [Components -> Threads \cup {None}]
      /\ snapshot' \in [Components -> Snapshots \cup {NoSnapshot}]
      /\ abandoned' \in SUBSET Threads
  BY <1>1, <1>2, StartWorkerType
<1>4. /\ UNCHANGED <<wanted, joining, edits>>
      /\ todo' \subseteq Components /\ supervisor' = "scan" /\ supervisor \in {"scan", "start"}
      /\ target' \in Components \cup {None} /\ next' \in Snapshots \cup {NoSnapshot}
  BY DEF StartReplacement, ScanStarts, TypeInv, TypeOK
<1>5. TypeOK'
  BY <1>3, <1>4 DEF TypeInv, TypeOK, SupervisorLabels
<1>6. QED BY <1>4, <1>5 DEF TypeInv, TargetInv, JoinLabels

LEMMA EditType ==
  ASSUME TypeInv, NEW c \in Components, UpdateComponent(c) \/ DeleteComponent(c)
  PROVE  TypeInv'
<1>1. UNCHANGED <<syncVars, netns, host, threadVars, faults>> /\ edits' \in 0..MaxEdits
  BY EditAssumption DEF UpdateComponent, DeleteComponent, Edit, TypeInv, TypeOK
<1>2. row' \in [Components -> Rows]
  <2>1. row \in [Components -> Rows]
    BY DEF TypeInv, TypeOK, WorkerTypeOK
  <2>2. CASE UpdateComponent(c)
    BY <2>1, <2>2 DEF UpdateComponent
  <2>3. [row[c] EXCEPT !.exists = FALSE] \in Rows
    BY <2>1 DEF Rows
  <2>4. CASE DeleteComponent(c)
    BY <2>1, <2>3, <2>4 DEF DeleteComponent
  <2>5. QED BY <2>2, <2>4
<1>3. /\ latest' \in [Components -> Outcomes \cup {None}]
      /\ life' \in [Components -> (LifeEvents \cup {None}) \X (LifeEvents \cup {None})]
      /\ avail' \in [Components -> (AvailEvents \cup {None}) \X (AvailEvents \cup {None})]
  <2>1. CASE UpdateComponent(c)
    BY <2>1 DEF UpdateComponent, TypeInv, TypeOK, WorkerTypeOK
  <2>2. CASE DeleteComponent(c)
    BY <2>2 DEF DeleteComponent, TypeInv, TypeOK, WorkerTypeOK
  <2>3. QED BY <2>1, <2>2
<1>4. WorkerTypeOK'
  BY <1>1, <1>2, <1>3 DEF TypeInv, TypeOK, WorkerTypeOK, host, threadVars, probeVars
<1>5. QED
  BY <1>1, <1>4 DEF TypeInv, TypeOK, TargetInv, Supervised, syncVars, threadVars

LEMMA ThreadStepType ==
  ASSUME TypeInv, NEW t \in Threads, ThreadStep(t) \/ Drop(t)
  PROVE  TypeInv'
<1>1. UNCHANGED supervisorVars
  BY DEF ThreadStep, Drop
<1>2. WorkerTypeOK'
  <2>1. CASE Drop(t)
    BY <2>1, FaultType
    DEF Drop, TunnelDrops, TypeInv, TypeOK, WorkerTypeOK, Sessions, dbVars, host, probeVars
  <2>2. QED BY <2>1, WorkerStepType DEF ThreadStep, TypeInv, TypeOK
<1>3. QED
  BY <1>1, <1>2 DEF supervisorVars, syncVars, TypeInv, TypeOK, TargetInv, Supervised

LEMMA HostStepFacts ==
  ASSUME HostStep
  PROVE  /\ UNCHANGED <<dbVars, netns, threadVars, supervisorVars>>
         /\ TypeInv => HostTypeOK' /\ faults' \in 0..MaxFaults
<1>1. UNCHANGED <<dbVars, netns, threadVars, supervisorVars>>
  BY DEF HostStep, HostRefuses, HostAllows, LateSamplerEnds, StrayExits
<1>2. ASSUME TypeInv PROVE HostTypeOK' /\ faults' \in 0..MaxFaults
  BY <1>2, FaultType DEF HostStep, HostRefuses, HostAllows, LateSamplerEnds, StrayExits,
     HostTypeOK, TypeInv, TypeOK, WorkerTypeOK
<1>3. QED BY <1>1, <1>2

LEMMA HostStepType ==
  ASSUME TypeInv, HostStep
  PROVE  TypeInv'
<1>1. WorkerTypeOK'
  BY HostStepFacts DEF HostTypeOK, dbVars, threadVars, probeVars, TypeInv, TypeOK, WorkerTypeOK
<1>2. QED
  BY <1>1, HostStepFacts DEF supervisorVars, syncVars, TypeInv, TypeOK, TargetInv, Supervised

LEMMA NextType ==
  ASSUME TypeInv, [Next]_vars
  PROVE  TypeInv'
<1>1. CASE UNCHANGED vars
  BY <1>1, WorkerVarsType DEF vars, supervisorVars, syncVars, workerVars, TypeInv, TypeOK,
     TargetInv, Supervised
<1>2. CASE SupervisorStep
  BY <1>2, SyncStepType, StopStepType, JoinStepType, StartStepType DEF SupervisorStep
<1>3. QED
  BY <1>1, <1>2, SyncStepType, EditType, ThreadStepType, HostStepType DEF Next

\* The variables keep their types, and the supervisor's loops visit only
\* components whose worker is in the table.
THEOREM TypeCorrect == Spec => []TypeOK
<1>1. Init => TypeInv
  BY InitTypeOK, NameAssumption DEF Init, TypeInv, TargetInv, JoinLabels
<1>2. TypeInv /\ [Next]_vars => TypeInv'
  BY NextType
<1>3. TypeInv => TypeOK
  BY DEF TypeInv
<1>4. QED
  BY <1>1, <1>2, <1>3, PTL DEF Spec

----------------------------------------------------------------------------
(* What a step of one thread can do to another *)

LEMMA ReleaseSessionFrame ==
  ASSUME TypeInv, NEW t \in Threads, ReleaseSession(t)
  PROVE  /\ session'[t] = "none"
         /\ \A u \in Threads \ {t}  :
              session'[u] = session[u] \/ (session[u] = "up" /\ session'[u] = "down")
<1>1. session'[t] = "none"
  BY DEF ReleaseSession
<1>2. ASSUME NEW u \in Threads \ {t}
      PROVE  session'[u] = session[u] \/ (session[u] = "up" /\ session'[u] = "down")
  BY DEF ReleaseSession
<1>3. QED BY <1>1, <1>2

LEMMA StopFrame ==
  ASSUME TypeInv, NEW t \in Threads, StopRaises(t) \/ LosesProcess(t)
  PROVE  \A u \in Threads \ {t} : session'[u] = session[u]
  BY DEF StopRaises, LosesProcess, TypeInv, TypeOK, WorkerTypeOK

LEMMA ThreadFrame ==
  ASSUME TypeInv, NEW t \in Threads, WorkerStep(t)
  PROVE  /\ UNCHANGED <<comp, stop>> /\ Alive(t)
         /\ \A u \in Threads \ {t} : pc'[u] = pc[u] /\ sampler'[u] = sampler[u]
  BY DEF WorkerStep, LoadComponent, CheckSession, SaveTunnelDown, StopBrokenSession, Wait,
     SaveReconnect, EnsureNetns, WaitForTun, MoveIface, SaveConnectFailure, SaveTunnelUp,
     RunProbe, RecordTransition, HandleError, StopAfterError, RecordErrorDown, Finally, StopFinally, RecordFinalDown,
     Return, StopSampler, LosesProcess, StopRaises, Goto, Alive, TypeInv, TypeOK, WorkerTypeOK

LEMMA SessionFrame ==
  ASSUME TypeInv, NEW t \in Threads, WorkerStep(t)
  PROVE  \A u \in Threads \ {t}  :
              session'[u] = session[u] \/ (session[u] = "up" /\ session'[u] = "down")
  BY ReleaseSessionFrame, StopFrame
  DEF WorkerStep, LoadComponent, CheckSession, SaveTunnelDown, StopBrokenSession, Wait,
     SaveReconnect, EnsureNetns, WaitForTun, MoveIface, SaveConnectFailure, SaveTunnelUp,
     RunProbe, RecordTransition, HandleError, StopAfterError, RecordErrorDown, Finally, StopFinally, RecordFinalDown,
     TypeInv, TypeOK, WorkerTypeOK

\* A step of a thread leaves what the thread holds in order.
LEMMA WorkerHoldings ==
  ASSUME TypeInv, NEW t \in Threads, HoldingsOf(t), WorkerStep(t)
  PROVE  HoldingsOf(t)'
<1> USE DEF HoldingsOf, HasHandle, NoSessionLabels, SamplerLabels, Goto, TypeInv, TypeOK, WorkerTypeOK
<1>1. CASE LoadComponent(t)
  BY <1>1 DEF LoadComponent
<1>2. CASE CheckSession(t)
  <2>1. session' = session /\ pc[t] = "check"
    BY <1>2 DEF CheckSession
  <2>2. CASE StopSampler(t) /\ Goto(t, IF HasHandle(t) THEN "saveDown" ELSE "ensure") /\ session[t] # "up"
    <3>1. ~sampler'[t]
      BY <2>2 DEF StopSampler
    <3>2. pc'[t] = IF HasHandle(t) THEN "saveDown" ELSE "ensure"
      BY <2>2
    <3>3. ~HasHandle(t) => session[t] = "none"
      BY <2>1 DEF Sessions
    <3>4. QED BY <2>1, <3>1, <3>2, <3>3
  <2>3. CASE UNCHANGED sampler /\ HasHandle(t) /\ (Goto(t, "probe") \/ Goto(t, "error"))
    <3>1. pc'[t] \in {"probe", "error"}
      BY <2>3
    <3>2. QED BY <2>1, <2>3, <3>1
  <2>4. QED BY <1>2, <2>2, <2>3 DEF CheckSession
<1>3. CASE SaveTunnelDown(t)
  BY <1>3 DEF SaveTunnelDown
<1>4. CASE StopBrokenSession(t)
  <2>1. ~sampler[t] /\ UNCHANGED sampler
    BY <1>4 DEF StopBrokenSession
  <2>2. CASE ReleaseSession(t) /\ Goto(t, "reconnectWait")
    BY <2>1, <2>2, ReleaseSessionFrame
  <2>3. CASE StopRaises(t) /\ Goto(t, "error")
    <3>1. session'[t] # "starting" /\ pc'[t] = "error"
      BY <1>4, <2>3 DEF StopBrokenSession, StopRaises
    <3>2. QED BY <2>1, <3>1
  <2>4. QED BY <1>4, <2>2, <2>3 DEF StopBrokenSession
<1>5. CASE Wait(t)
  BY <1>5 DEF Wait, AfterWait
<1>6. CASE SaveReconnect(t)
  BY <1>6 DEF SaveReconnect
<1>7. CASE EnsureNetns(t)
  BY <1>7 DEF EnsureNetns
<1>8. CASE WaitForTun(t)
  BY <1>8, ReleaseSessionFrame DEF WaitForTun, LosesProcess
<1>9. CASE MoveIface(t)
  BY <1>9, ReleaseSessionFrame DEF MoveIface, LosesProcess
<1>10. CASE SaveConnectFailure(t)
  BY <1>10 DEF SaveConnectFailure
<1>11. CASE SaveTunnelUp(t)
  BY <1>11 DEF SaveTunnelUp
<1>12. CASE RunProbe(t)
  BY <1>12 DEF RunProbe
<1>13. CASE RecordTransition(t)
  BY <1>13 DEF RecordTransition
<1>14. CASE HandleError(t)
  <2>1. ~sampler'[t] /\ pc'[t] = "errorStop" /\ session' = session
    BY <1>14 DEF HandleError, StopSampler
  <2>2. session[t] # "starting"
    BY <1>14 DEF HandleError
  <2>3. QED BY <2>1, <2>2
<1>15. CASE StopAfterError(t)
  <2>1. ~sampler[t] /\ UNCHANGED sampler /\ session[t] # "starting"
    BY <1>15 DEF StopAfterError
  <2>2. CASE ~HasHandle(t) /\ Goto(t, "backoff") /\ UNCHANGED session
    BY <2>1, <2>2 DEF Sessions
  <2>3. CASE ReleaseSession(t) /\ Goto(t, "errorEvent")
    BY <2>1, <2>3, ReleaseSessionFrame
  <2>4. CASE StopRaises(t) /\ Goto(t, "finally")
    <3>1. session'[t] # "starting" /\ pc'[t] = "finally"
      BY <2>1, <2>4 DEF StopRaises
    <3>2. QED BY <2>1, <3>1
  <2>5. QED BY <1>15, <2>2, <2>3, <2>4 DEF StopAfterError
<1>16. CASE RecordErrorDown(t)
  BY <1>16 DEF RecordErrorDown
<1>17. CASE Finally(t)
  <2>1. ~sampler'[t] /\ pc'[t] = "finallyStop" /\ session' = session
    BY <1>17 DEF Finally, StopSampler
  <2>2. session[t] # "starting"
    BY <1>17 DEF Finally
  <2>3. QED BY <2>1, <2>2
<1>18. CASE StopFinally(t)
  <2>1. ~sampler[t] /\ UNCHANGED sampler /\ session[t] # "starting" /\ pc[t] = "finallyStop"
    BY <1>18 DEF StopFinally
  <2>2. CASE ~HasHandle(t) /\ Return(t) /\ UNCHANGED session
    BY <2>1, <2>2 DEF Return, Sessions
  <2>3. CASE ReleaseSession(t) /\ Goto(t, "finallyEvent")
    BY <2>1, <2>3, ReleaseSessionFrame
  <2>4. CASE LosesProcess(t) /\ UNCHANGED pc
    BY <2>1, <2>4 DEF LosesProcess
  <2>5. QED BY <1>18, <2>2, <2>3, <2>4 DEF StopFinally
<1>19. CASE RecordFinalDown(t)
  BY <1>19 DEF RecordFinalDown, Return
<1>20. QED
  BY <1>1, <1>2, <1>3, <1>4, <1>5, <1>6, <1>7, <1>8, <1>9, <1>10, <1>11, <1>12,
     <1>13, <1>14, <1>15, <1>16, <1>17, <1>18, <1>19 DEF WorkerStep

----------------------------------------------------------------------------
(* The safety invariant *)

\* Starting a worker, in terms of the thread that is started.
LEMMA StartFacts ==
  ASSUME TypeInv, NEW c \in Components, NEW s, StartWorker(c, s)
  PROVE  \E t \in Threads :
           /\ Free(t)
           /\ worker' = [worker EXCEPT ![c] = t]
           /\ pc' = [pc EXCEPT ![t] = "load"]
           /\ comp' = [comp EXCEPT ![t] = c]
           /\ stop' = [stop EXCEPT ![t] = FALSE]
           /\ lastProbe' = [lastProbe EXCEPT ![t] = "unknown"]
           /\ announced' = [announced EXCEPT ![t] = None]
           /\ abandoned' = abandoned \ {t}
           /\ UNCHANGED <<session, sampler>>
  BY DEF StartWorker

\* A worker is started only for a component that has none, and while no
\* thread is being joined.
LEMMA StartStepFacts ==
  ASSUME TypeInv, JoinInv, StartReplacement \/ \E c \in Components : ScanStarts(c)
  PROVE  \E c \in Components, s \in Snapshots \cup {NoSnapshot} :
           StartWorker(c, s) /\ worker[c] = None /\ joining = None /\ joining' = None
             /\ supervisor' = "scan"
<1>1. CASE StartReplacement
  BY <1>1 DEF StartReplacement, TypeInv, TypeOK, TargetInv, JoinInv, JoinLabels
<1>2. CASE \E c \in Components : ScanStarts(c)
  BY <1>2, SnapshotType DEF ScanStarts, TypeInv, TypeOK, TargetInv, JoinLabels
<1>3. QED BY <1>1, <1>2

\* A worker is told to stop only while it is in the table and nothing is joined.
LEMMA StopStepFacts ==
  ASSUME TypeInv, NEW c \in Components, ReapWorker(c) \/ ScanReplaces(c) \/ StopAllWorker(c)
  PROVE  /\ worker[c] \in Threads /\ joining = None /\ joining' = worker[c]
         /\ worker' = [worker EXCEPT ![c] = None]
         /\ stop' = [stop EXCEPT ![worker[c]] = TRUE]
         /\ target' = c /\ supervisor' \in JoinLabels
         /\ UNCHANGED <<todo, abandoned, pc, comp, session, sampler, probeVars>>
         /\ supervisor' = "stopAllJoin" => supervisor = "stopAll"
<1>1. worker[c] # None /\ joining = None
  BY DEF TypeInv, TargetInv, Supervised, JoinLabels, ReapWorker, ScanReplaces, StopAllWorker
<1>2. worker[c] \in Threads
  BY <1>1 DEF TypeInv, TypeOK
<1>3. QED
  BY <1>1, <1>2 DEF ReapWorker, ScanReplaces, StopAllWorker, BeginStop, JoinLabels

\* Every other step of the main thread, the host and the administrators leaves the
\* threads, the table and the stop events alone.
QuietStep ==
  \/ SyncBegin \/ ReapDone \/ SyncEnd \/ Exit \/ ScanFails \/ ShutDown
  \/ ReapJoined \/ ScanJoined \/ StopAllJoined
  \/ HostStep
  \/ \E c \in Components : ScanSkips(c) \/ UpdateComponent(c) \/ DeleteComponent(c)

LEMMA QuietFacts ==
  ASSUME QuietStep
  PROVE  UNCHANGED <<threadVars, worker>>
  BY HostStepFacts
  DEF QuietStep, SyncBegin, ReapDone, SyncEnd, Exit, ScanFails, ShutDown, ReapJoined,
     ScanJoined, StopAllJoined, ScanSkips, UpdateComponent, DeleteComponent, Edit,
     workerVars, syncVars, supervisorVars

LEMMA NextCases ==
  ASSUME Next
  PROVE  \/ QuietStep
         \/ \E c \in Components : ReapWorker(c) \/ ScanReplaces(c) \/ StopAllWorker(c)
         \/ StartReplacement \/ \E c \in Components : ScanStarts(c)
         \/ \E t \in Threads : ThreadStep(t) \/ Drop(t)
  BY DEF Next, SupervisorStep, QuietStep

LEMMA HoldingsStep ==
  ASSUME IInv, Next
  PROVE  Holdings'
<1> USE DEF Holdings
<1>1. ASSUME UNCHANGED <<pc, session, sampler>> PROVE Holdings'
  BY <1>1 DEF IInv, HoldingsOf, HasHandle
<1>2. CASE QuietStep
  BY <1>1, <1>2, QuietFacts DEF threadVars
<1>3. CASE \E c \in Components : ReapWorker(c) \/ ScanReplaces(c) \/ StopAllWorker(c)
  BY <1>1, <1>3, StopStepFacts DEF IInv
<1>4. CASE StartReplacement \/ \E c \in Components : ScanStarts(c)
  <2>1. PICK t \in Threads : /\ Free(t)
                             /\ pc' = [pc EXCEPT ![t] = "load"]
                             /\ UNCHANGED <<session, sampler>>
    BY <1>4, StartStepFacts, StartFacts DEF IInv
  <2>2. session[t] = "none" /\ ~sampler[t]
    BY <2>1 DEF IInv, Free, Alive, HoldingsOf, NoSessionLabels, SamplerLabels
  <2>3. QED
    BY <2>1, <2>2 DEF IInv, TypeInv, TypeOK, WorkerTypeOK, HoldingsOf, HasHandle, NoSessionLabels
<1>5. ASSUME NEW t \in Threads, ThreadStep(t) PROVE Holdings'
  <2>1. HoldingsOf(t)'
    BY <1>5, WorkerHoldings DEF ThreadStep, IInv
  <2>2. ASSUME NEW u \in Threads \ {t} PROVE HoldingsOf(u)'
    <3>1. pc'[u] = pc[u] /\ sampler'[u] = sampler[u]
      BY <1>5, ThreadFrame DEF ThreadStep, IInv
    <3>2. session'[u] = session[u] \/ (session[u] = "up" /\ session'[u] = "down")
      BY <1>5, SessionFrame DEF ThreadStep, IInv
    <3>3. QED BY <3>1, <3>2 DEF IInv, HoldingsOf, HasHandle
  <2>3. QED BY <2>1, <2>2
<1>6. ASSUME NEW t \in Threads, Drop(t) PROVE Holdings'
  BY <1>6 DEF Drop, TunnelDrops, IInv, HoldingsOf, HasHandle, TypeInv, TypeOK, WorkerTypeOK
<1>7. QED BY <1>2, <1>3, <1>4, <1>5, <1>6, NextCases

LEMMA TableStep ==
  ASSUME IInv, Next
  PROVE  TableInv'
<1> USE DEF TableInv
<1>1. ASSUME UNCHANGED <<comp, stop, worker>>, \A t \in Threads : Alive(t)' => Alive(t)
      PROVE  TableInv'
  BY <1>1 DEF IInv
<1>2. CASE QuietStep
  BY <1>1, <1>2, QuietFacts DEF threadVars, Alive
<1>3. ASSUME NEW c \in Components, ReapWorker(c) \/ ScanReplaces(c) \/ StopAllWorker(c)
      PROVE  TableInv'
  <2>1. /\ worker[c] \in Threads /\ UNCHANGED <<pc, comp>>
        /\ worker' = [worker EXCEPT ![c] = None]
        /\ stop' = [stop EXCEPT ![worker[c]] = TRUE]
    BY <1>3, StopStepFacts DEF IInv
  <2>2. QED BY <2>1, NameAssumption DEF IInv, TypeInv, TypeOK, WorkerTypeOK, Alive, None
<1>4. CASE StartReplacement \/ \E c \in Components : ScanStarts(c)
  <2>1. PICK c \in Components, s \in Snapshots \cup {NoSnapshot} :
               StartWorker(c, s) /\ worker[c] = None
    BY <1>4, StartStepFacts DEF IInv
  <2>2. PICK t \in Threads : /\ Free(t)
                             /\ worker' = [worker EXCEPT ![c] = t]
                             /\ pc' = [pc EXCEPT ![t] = "load"]
                             /\ comp' = [comp EXCEPT ![t] = c]
                             /\ stop' = [stop EXCEPT ![t] = FALSE]
    BY <2>1, StartFacts DEF IInv
  <2>3. \A d \in Components : worker[d] # t
    BY <2>2 DEF Free
  <2>4. QED
    BY <2>1, <2>2, <2>3, NameAssumption DEF IInv, TypeInv, TypeOK, WorkerTypeOK, Alive, None
<1>5. ASSUME NEW t \in Threads, ThreadStep(t) PROVE TableInv'
  <2>1. UNCHANGED <<comp, stop, worker>>
    BY <1>5, ThreadFrame DEF ThreadStep, supervisorVars, syncVars, IInv
  <2>2. \A u \in Threads : Alive(u)' => Alive(u)
    BY <1>5, ThreadFrame DEF ThreadStep, Alive, IInv
  <2>3. QED BY <1>1, <2>1, <2>2
<1>6. ASSUME NEW t \in Threads, Drop(t) PROVE TableInv'
  BY <1>1, <1>6 DEF Drop, TunnelDrops, Alive, supervisorVars, syncVars
<1>7. QED BY <1>2, <1>3, <1>4, <1>5, <1>6, NextCases

LEMMA JoinInvStep ==
  ASSUME IInv, Next
  PROVE  JoinInv'
<1> USE DEF JoinInv
<1>1. ASSUME NEW t \in Threads, ThreadStep(t) \/ Drop(t) PROVE JoinInv'
  <2>1. UNCHANGED <<comp, stop, supervisor, target, joining, worker, abandoned>>
    BY <1>1, ThreadFrame DEF ThreadStep, Drop, TunnelDrops, supervisorVars, syncVars, IInv
  <2>2. \A u \in Threads : Alive(u)' => Alive(u)
    BY <1>1, ThreadFrame DEF ThreadStep, Drop, TunnelDrops, Alive, IInv
  <2>3. QED BY <2>1, <2>2 DEF IInv
<1>2. ASSUME NEW c \in Components, ReapWorker(c) \/ ScanReplaces(c) \/ StopAllWorker(c)
      PROVE  JoinInv'
  <2>1. /\ worker[c] \in Threads /\ joining = None /\ joining' = worker[c]
        /\ worker' = [worker EXCEPT ![c] = None]
        /\ stop' = [stop EXCEPT ![worker[c]] = TRUE]
        /\ target' = c /\ supervisor' \in JoinLabels
        /\ UNCHANGED <<abandoned, pc, comp>>
    BY <1>2, StopStepFacts DEF IInv
  <2>2. comp[worker[c]] = c
    BY <2>1, NameAssumption DEF IInv, TableInv, None
  <2>3. QED
    BY <2>1, <2>2, NameAssumption DEF IInv, TypeInv, TypeOK, WorkerTypeOK, Alive, None
<1>3. CASE StartReplacement \/ \E c \in Components : ScanStarts(c)
  <2>1. PICK c \in Components, s \in Snapshots \cup {NoSnapshot} :
               StartWorker(c, s) /\ joining = None /\ joining' = None /\ supervisor' = "scan"
    BY <1>3, StartStepFacts DEF IInv
  <2>2. PICK t \in Threads : /\ pc' = [pc EXCEPT ![t] = "load"]
                             /\ stop' = [stop EXCEPT ![t] = FALSE]
                             /\ abandoned' = abandoned \ {t}
    BY <2>1, StartFacts DEF IInv
  <2>3. QED
    BY <2>1, <2>2, NameAssumption
    DEF IInv, TypeInv, TypeOK, WorkerTypeOK, Alive, None, JoinLabels
<1>4. ASSUME ReapJoined \/ ScanJoined \/ StopAllJoined PROVE JoinInv'
  <2>1. /\ joining # None /\ UNCHANGED <<threadVars, worker>>
        /\ supervisor' \notin JoinLabels
        /\ supervisor' = "start" => target' = target
    BY <1>4 DEF ReapJoined, ScanJoined, StopAllJoined, IInv, TypeInv, TargetInv, JoinLabels
  <2>2. abandoned \subseteq abandoned' /\ (Alive(joining) => joining \in abandoned')
    BY <1>4 DEF ReapJoined, ScanJoined, StopAllJoined, JoinReturns
  <2>3. worker[target] = None
    BY <1>4 DEF ReapJoined, ScanJoined, StopAllJoined, IInv, JoinLabels
  <2>4. QED BY <2>1, <2>2, <2>3 DEF IInv, threadVars, Alive
<1>5. CASE ShutDown
  <2>1. UNCHANGED <<threadVars, worker>> /\ supervisor' = "stopAll"
    BY <1>5 DEF ShutDown, workerVars
  <2>2. \A t \in Threads : t \in abandoned \/ (t = joining /\ Alive(t)) => t \in abandoned'
    BY <1>5, NameAssumption DEF ShutDown, None
  <2>3. QED BY <2>1, <2>2 DEF IInv, threadVars, Alive, JoinLabels
<1>6. CASE QuietStep /\ ~ShutDown /\ ~(ReapJoined \/ ScanJoined \/ StopAllJoined)
  <2>1. UNCHANGED <<pc, comp, stop, worker>>
    BY <1>6, QuietFacts DEF threadVars
  <2>2. /\ UNCHANGED <<joining, target, abandoned>>
        /\ supervisor' \in JoinLabels \cup {"start"} => supervisor' = supervisor
    BY <1>6, HostStepFacts DEF QuietStep, SyncBegin, ReapDone, SyncEnd, Exit, ScanFails, ScanSkips,
       UpdateComponent, DeleteComponent, Edit, supervisorVars, syncVars, JoinLabels
  <2>3. QED BY <2>1, <2>2 DEF IInv, Alive
<1>7. QED BY <1>1, <1>2, <1>3, <1>4, <1>5, <1>6, NextCases

LEMMA StopAllStep ==
  ASSUME IInv, Next
  PROVE  StopAllInv'
<1> USE DEF StopAllInv
<1>1. ASSUME NEW t \in Threads, ThreadStep(t) \/ Drop(t) PROVE StopAllInv'
  BY <1>1 DEF ThreadStep, Drop, supervisorVars, syncVars, IInv, Supervised
<1>2. ASSUME NEW c \in Components, ReapWorker(c) \/ ScanReplaces(c) \/ StopAllWorker(c)
      PROVE  StopAllInv'
  <2>1. /\ worker' = [worker EXCEPT ![c] = None] /\ UNCHANGED todo
        /\ supervisor' \in JoinLabels
        /\ supervisor' = "stopAllJoin" => supervisor = "stopAll"
    BY <1>2, StopStepFacts DEF IInv
  <2>2. Supervised' \subseteq Supervised
    BY <2>1 DEF Supervised, IInv, TypeInv, TypeOK
  <2>3. QED BY <2>1, <2>2 DEF IInv, JoinLabels
<1>3. CASE StartReplacement \/ \E c \in Components : ScanStarts(c)
  BY <1>3, StartStepFacts DEF IInv
<1>4. CASE StopAllJoined
  <2>1. /\ todo' = todo \ {target} /\ UNCHANGED worker /\ supervisor' = "stopAll"
        /\ supervisor = "stopAllJoin"
    BY <1>4 DEF StopAllJoined
  <2>2. worker[target] = None
    BY <2>1 DEF IInv, JoinInv, JoinLabels
  <2>3. QED BY <2>1, <2>2 DEF IInv, Supervised
<1>5. CASE QuietStep /\ ~StopAllJoined
  <2>1. Supervised' = Supervised
    BY <1>5, QuietFacts DEF Supervised
  <2>2. /\ supervisor' = "stopAllJoin" => supervisor = "stopAllJoin" /\ todo' = todo
        /\ supervisor' = "stopAll" => todo' = Supervised \/ (supervisor = "stopAll" /\ todo' = todo)
        /\ supervisor' = "exited" => \/ supervisor = "exited"
                                     \/ supervisor = "stopAll" /\ todo = {}
    BY <1>5, HostStepFacts
    DEF QuietStep, SyncBegin, ReapDone, SyncEnd, Exit, ScanFails, ShutDown, ScanSkips,
       ReapJoined, ScanJoined, UpdateComponent, DeleteComponent, Edit, supervisorVars, syncVars
  <2>3. QED BY <2>1, <2>2 DEF IInv
<1>6. QED BY <1>1, <1>2, <1>3, <1>4, <1>5, NextCases

LEMMA InitIInv == Init => IInv
<1> SUFFICES ASSUME Init PROVE IInv
  OBVIOUS
<1>1. TypeInv
  BY InitTypeOK, NameAssumption DEF Init, TypeInv, TargetInv, JoinLabels
<1>2. Holdings /\ TableInv
  BY DEF Init, Holdings, HoldingsOf, HasHandle, TableInv, Alive
<1>3. JoinInv /\ StopAllInv
  BY DEF Init, JoinInv, StopAllInv, Alive, JoinLabels, Supervised
<1>4. QED BY <1>1, <1>2, <1>3 DEF IInv

LEMMA IInvStep == IInv /\ [Next]_vars => IInv'
<1>1. ASSUME IInv, UNCHANGED vars PROVE IInv'
  <2>1. TypeInv'
    BY <1>1, NextType DEF IInv
  <2>2. QED
    BY <1>1, <2>1 DEF IInv, vars, workerVars, threadVars, supervisorVars, syncVars, Holdings, HoldingsOf,
       HasHandle, TableInv, JoinInv, StopAllInv, Alive, Supervised
<1>2. ASSUME IInv, Next PROVE IInv'
  BY <1>2, NextType, HoldingsStep, TableStep, JoinInvStep, StopAllStep DEF IInv
<1>3. QED BY <1>1, <1>2

THEOREM InductiveInvariant == Spec => []IInv
  BY InitIInv, IInvStep, PTL DEF Spec

----------------------------------------------------------------------------
(* What the invariant implies *)

\* No worker escapes the table.
THEOREM EveryWorkerSupervised == Spec => []RunningIsSupervised
<1>1. IInv => RunningIsSupervised
  BY DEF IInv, TableInv, RunningIsSupervised
<1>2. QED BY <1>1, InductiveInvariant, PTL

\* Two sessions of a component overlap only across an outlived join.
THEOREM TunnelsExclusive == Spec => []ExclusiveTunnel
<1>1. ASSUME IInv PROVE ExclusiveTunnel
  <2>1. SUFFICES ASSUME NEW t \in Threads, NEW u \in Threads, t # u, comp[t] = comp[u],
                        session[t] # "none", session[u] # "none",
                        t \notin abandoned, u \notin abandoned
                 PROVE  FALSE
    BY DEF ExclusiveTunnel
  <2>2. Alive(t) /\ Alive(u)
    BY <1>1, <2>1 DEF IInv, Holdings, HoldingsOf, NoSessionLabels, Alive
  <2>3. ~stop[t] \/ ~stop[u]
    BY <1>1, <2>1, <2>2 DEF IInv, JoinInv
  <2>4. ASSUME NEW r \in {t, u}, NEW q \in {t, u}, ~stop[r], stop[q] PROVE FALSE
    <3>1. worker[comp[r]] = r /\ q = joining
      BY <1>1, <2>1, <2>2, <2>4 DEF IInv, TableInv, JoinInv
    <3>2. supervisor \in JoinLabels
      BY <1>1, <3>1, NameAssumption DEF IInv, TypeInv, TargetInv, None
    <3>3. worker[comp[q]] = None
      BY <1>1, <3>1, <3>2 DEF IInv, JoinInv
    <3>4. QED BY <2>1, <3>1, <3>3, NameAssumption DEF None
  <2>5. CASE ~stop[t] /\ ~stop[u]
    BY <1>1, <2>1, <2>2, <2>5 DEF IInv, TableInv
  <2>6. QED BY <2>3, <2>4, <2>5
<1>2. QED BY <1>1, InductiveInvariant, PTL

\* A process that a handle names, and a sampler that was not told to stop,
\* belong to a thread that still runs.
THEOREM HeldOnlyByLive == Spec => []HeldByLiveWorker
<1>1. IInv => HeldByLiveWorker
  BY DEF IInv, Holdings, HoldingsOf, NoSessionLabels, SamplerLabels, Alive, HeldByLiveWorker
<1>2. QED BY <1>1, InductiveInvariant, PTL

\* When the process exits, only threads that outlived their join hold a
\* session.
THEOREM ExitIsClean == Spec => []CleanExit
<1>1. ASSUME IInv PROVE CleanExit
  <2>1. SUFFICES ASSUME supervisor = "exited", NEW t \in Threads, session[t] # "none"
                 PROVE  t \in abandoned
    BY DEF CleanExit
  <2>2. Alive(t)
    BY <1>1, <2>1 DEF IInv, Holdings, HoldingsOf, NoSessionLabels, Alive
  <2>3. stop[t]
    BY <1>1, <2>1, <2>2, NameAssumption
    DEF IInv, TypeInv, TypeOK, WorkerTypeOK, TableInv, StopAllInv, Supervised, None
  <2>4. joining = None
    BY <1>1, <2>1 DEF IInv, TypeInv, TargetInv, JoinLabels
  <2>5. QED
    BY <1>1, <2>2, <2>3, <2>4, NameAssumption DEF IInv, JoinInv, None
<1>2. QED BY <1>1, InductiveInvariant, PTL

----------------------------------------------------------------------------
(* What a sync has done when it ends *)

ScanTarget == supervisor \in {"scanJoin", "start"} => target \in todo
SyncInv == SyncServesAll /\ ScanTarget

LEMMA SyncInvStep ==
  ASSUME IInv, SyncInv, Next
  PROVE  SyncInv'
<1> USE DEF SyncInv, SyncServesAll, ScanTarget
<1>1. ASSUME NEW t \in Threads, ThreadStep(t) \/ Drop(t) PROVE SyncInv'
  <2>1. UNCHANGED supervisorVars
    BY <1>1 DEF ThreadStep, Drop
  <2>2. UNCHANGED row
    BY <1>1 DEF ThreadStep, Drop, TunnelDrops, WorkerStep, LoadComponent, CheckSession,
       SaveTunnelDown, SaveEvent, SaveEventRaises, SafeRecord,
       StopBrokenSession, Wait, SaveReconnect, EnsureNetns, WaitForTun, MoveIface,
       SaveConnectFailure, SaveTunnelUp, RunProbe, RecordTransition, HandleError, StopAfterError,
       RecordErrorDown, Finally, StopFinally, RecordFinalDown, dbVars
  <2>3. QED BY <2>1, <2>2 DEF supervisorVars, syncVars
<1>2. ASSUME NEW c \in Components, UpdateComponent(c) \/ DeleteComponent(c) PROVE SyncInv'
  <2>1. UNCHANGED syncVars
    BY <1>2 DEF UpdateComponent, DeleteComponent, Edit
  <2>2. \A d \in Components : row'[d].exists => row[d].exists
    BY <1>2 DEF UpdateComponent, DeleteComponent, Edit, IInv, TypeInv, TypeOK, WorkerTypeOK
  <2>3. QED BY <2>1, <2>2 DEF syncVars, IInv, TypeInv, TypeOK
<1>3. ASSUME NEW c \in Components, ReapWorker(c) \/ StopAllWorker(c) PROVE SyncInv'
  BY <1>3 DEF ReapWorker, StopAllWorker, BeginStop
<1>4. ASSUME NEW c \in Components, ScanReplaces(c) PROVE SyncInv'
  BY <1>4 DEF ScanReplaces, BeginStop, dbVars, IInv, TypeInv, TypeOK
<1>5. CASE StartReplacement
  <2>1. PICK t \in Threads : worker' = [worker EXCEPT ![target] = t]
    BY <1>5 DEF StartReplacement, StartWorker
  <2>2. QED
    BY <1>5, <2>1, NameAssumption DEF StartReplacement, dbVars, IInv, TypeInv, TypeOK, None
<1>6. ASSUME NEW c \in Components, ScanStarts(c) PROVE SyncInv'
  <2>1. PICK t \in Threads : worker' = [worker EXCEPT ![c] = t]
    BY <1>6 DEF ScanStarts, StartWorker
  <2>2. QED
    BY <1>6, <2>1, NameAssumption DEF ScanStarts, dbVars, IInv, TypeInv, TypeOK, None
<1>7. ASSUME NEW c \in Components, ScanSkips(c) PROVE SyncInv'
  BY <1>7 DEF ScanSkips, workerVars, dbVars, IInv, TypeInv, TypeOK
<1>8. ASSUME \/ SyncBegin \/ ReapDone \/ SyncEnd \/ Exit \/ ScanFails \/ ShutDown
             \/ ReapJoined \/ ScanJoined \/ StopAllJoined
      PROVE  SyncInv'
  BY <1>8 DEF SyncBegin, ReapDone, SyncEnd, Exit, ScanFails, ShutDown, ReapJoined,
     ScanJoined, StopAllJoined, dbVars
<1>9. CASE HostStep
  BY <1>9, HostStepFacts DEF dbVars, supervisorVars, syncVars
<1>10. QED
  BY <1>1, <1>2, <1>3, <1>4, <1>5, <1>6, <1>7, <1>8, <1>9 DEF Next, SupervisorStep

\* A sync that reaches the end of its scan has served every wanted component.
THEOREM SyncIsComplete == Spec => []SyncServesAll
<1>1. Init => SyncInv
  BY DEF Init, SyncInv, SyncServesAll, ScanTarget
<1>2. IInv /\ SyncInv /\ [Next]_vars => SyncInv'
  <2>1. ASSUME UNCHANGED vars, SyncInv PROVE SyncInv'
    BY <2>1 DEF vars, workerVars, dbVars, supervisorVars, syncVars, SyncInv, SyncServesAll, ScanTarget
  <2>2. QED BY <2>1, SyncInvStep
<1>3. SyncInv => SyncServesAll
  BY DEF SyncInv
<1>4. QED BY <1>1, <1>2, <1>3, InductiveInvariant, PTL DEF Spec

----------------------------------------------------------------------------
(* The memory of a worker and the events it recorded *)

MemoryOf(t) == lastProbe[t] = "failed" <=> announced[t] = "unavailable"

\* A worker that records an event remembers the outcome that called for it.
LEMMA RecordingKeepsMemory ==
  ASSUME TypeInv, NEW t \in Threads, MemoryOf(t), RecordTransition(t)
  PROVE  MemoryOf(t)'
<1> DEFINE event == TransitionEvent(lastProbe[t], outcome[t])
<1>1. \/ UNCHANGED <<lastProbe, announced>>
      \/ /\ lastProbe' = [lastProbe EXCEPT ![t] = ProbeMemory(lastProbe[t], outcome[t])]
         /\ RecordAvailability(t, event)
  BY DEF RecordTransition
<1>2. CASE UNCHANGED <<lastProbe, announced>>
  BY <1>2 DEF MemoryOf
<1>3. CASE /\ lastProbe' = [lastProbe EXCEPT ![t] = ProbeMemory(lastProbe[t], outcome[t])]
           /\ RecordAvailability(t, event)
  <2>1. /\ lastProbe'[t] = ProbeMemory(lastProbe[t], outcome[t])
        /\ announced'[t] = IF event = None THEN announced[t] ELSE event
    BY <1>3 DEF RecordAvailability, TypeInv, TypeOK, WorkerTypeOK
  <2>2. QED BY <2>1 DEF MemoryOf, ProbeMemory, TransitionEvent, None
<1>4. QED BY <1>1, <1>2, <1>3

LEMMA MemoryStep ==
  ASSUME TypeInv, JoinInv, MemoryMatchesEvents, Next
  PROVE  MemoryMatchesEvents'
<1> USE DEF MemoryMatchesEvents
<1>1. ASSUME UNCHANGED probeVars PROVE MemoryMatchesEvents'
  BY <1>1 DEF probeVars
<1>2. CASE QuietStep
  BY <1>1, <1>2, QuietFacts DEF threadVars
<1>3. CASE \E c \in Components : ReapWorker(c) \/ ScanReplaces(c) \/ StopAllWorker(c)
  BY <1>1, <1>3, StopStepFacts
<1>4. CASE StartReplacement \/ \E c \in Components : ScanStarts(c)
  <2>1. PICK t \in Threads : /\ lastProbe' = [lastProbe EXCEPT ![t] = "unknown"]
                             /\ announced' = [announced EXCEPT ![t] = None]
    BY <1>4, StartStepFacts, StartFacts
  <2>2. QED BY <2>1 DEF TypeInv, TypeOK, WorkerTypeOK, None
<1>5. ASSUME NEW t \in Threads, ThreadStep(t) PROVE MemoryMatchesEvents'
  <2>1. ASSUME ~RecordTransition(t), ~StopFinally(t), ~RecordFinalDown(t)
        PROVE  UNCHANGED <<lastProbe, announced>>
    BY <1>5, <2>1 DEF ThreadStep, WorkerStep, LoadComponent, CheckSession, SaveTunnelDown,
       StopBrokenSession, Wait, SaveReconnect, EnsureNetns, WaitForTun, MoveIface,
       SaveConnectFailure, SaveTunnelUp, RunProbe, HandleError, StopAfterError, RecordErrorDown,
       Finally, probeVars
  <2>2. CASE UNCHANGED <<lastProbe, announced>>
    BY <2>2
  <2>3. CASE RecordTransition(t)
    <3>1. MemoryOf(t)'
      BY <2>3, RecordingKeepsMemory DEF MemoryOf
    <3>2. \A u \in Threads \ {t} : lastProbe'[u] = lastProbe[u] /\ announced'[u] = announced[u]
      BY <2>3 DEF RecordTransition, RecordAvailability, TypeInv, TypeOK, WorkerTypeOK
    <3>3. QED BY <3>1, <3>2 DEF MemoryOf
  <2>4. CASE Return(t)
    BY <2>4 DEF Return, TypeInv, TypeOK, WorkerTypeOK, None
  <2>5. QED BY <2>1, <2>2, <2>3, <2>4 DEF StopFinally, RecordFinalDown
<1>6. ASSUME NEW t \in Threads, Drop(t) PROVE MemoryMatchesEvents'
  BY <1>1, <1>6 DEF Drop, TunnelDrops
<1>7. QED BY <1>2, <1>3, <1>4, <1>5, <1>6, NextCases

\* An event is recorded again until the database takes it, and then not again.
THEOREM MemoryCorrect == Spec => []MemoryMatchesEvents
<1>1. Init => MemoryMatchesEvents
  BY DEF Init, MemoryMatchesEvents, None
<1>2. IInv /\ MemoryMatchesEvents /\ [Next]_vars => MemoryMatchesEvents'
  <2>1. ASSUME UNCHANGED vars, MemoryMatchesEvents PROVE MemoryMatchesEvents'
    BY <2>1 DEF vars, workerVars, threadVars, probeVars, MemoryMatchesEvents
  <2>2. QED BY <2>1, MemoryStep DEF IInv
<1>3. QED BY <1>1, <1>2, InductiveInvariant, PTL DEF Spec

----------------------------------------------------------------------------
(* The refinement *)

Running == {t \in Threads : Alive(t)}
Opened  == {t \in Threads : session[t] # "none"}

\* A thread returns only after its session was released.
LEMMA ReturnFacts ==
  ASSUME TypeInv, NEW t \in Threads, HoldingsOf(t), WorkerStep(t), ~Alive(t)'
  PROVE  session[t] = "none" /\ UNCHANGED session
<1> USE DEF Goto, TypeInv, TypeOK, WorkerTypeOK, Alive
<1>1. ASSUME ~StopFinally(t), ~RecordFinalDown(t) PROVE FALSE
  BY <1>1 DEF WorkerStep, LoadComponent, CheckSession, SaveTunnelDown,
     StopBrokenSession, Wait, AfterWait, SaveReconnect, EnsureNetns, WaitForTun, MoveIface,
     SaveConnectFailure, SaveTunnelUp, RunProbe, RecordTransition, HandleError, StopAfterError,
     RecordErrorDown, Finally
<1>2. CASE StopFinally(t)
  <2>1. ~HasHandle(t) /\ UNCHANGED session /\ session[t] # "starting"
    BY <1>2 DEF StopFinally, HoldingsOf
  <2>2. QED BY <2>1 DEF HasHandle, Sessions
<1>3. CASE RecordFinalDown(t)
  BY <1>3 DEF RecordFinalDown, HoldingsOf, NoSessionLabels
<1>4. QED BY <1>1, <1>2, <1>3

LEMMA ThreadRefines ==
  ASSUME IInv, NEW t \in Threads, ThreadStep(t)
  PROVE  [Ownership!Next]_Ownership!ownershipVars
<1>1. UNCHANGED <<worker, abandoned, comp>> /\ Alive(t) /\ WorkerStep(t)
  BY ThreadFrame DEF ThreadStep, supervisorVars, syncVars, IInv
<1>2. \A u \in Threads \ {t} : (Alive(u)' <=> Alive(u)) /\ (session'[u] = "none" <=> session[u] = "none")
  BY <1>1, ThreadFrame, SessionFrame DEF IInv, Alive
<1>3. CASE ~Alive(t)'
  <2>1. session[t] = "none" /\ UNCHANGED session
    BY <1>1, <1>3, ReturnFacts DEF IInv, Holdings
  <2>2. Opened' = Opened /\ t \in Running \ Opened /\ Running' = Running \ {t}
    BY <1>1, <1>2, <1>3, <2>1 DEF Opened, Running
  <2>3. Ownership!Quit(t)
    BY <1>1, <2>2 DEF Ownership!Quit, Opened, Running
  <2>4. QED BY <2>3 DEF Ownership!Next
<1>4. CASE Alive(t)'
  <2>1. Running' = Running /\ t \in Running
    BY <1>1, <1>2, <1>4 DEF Running
  <2>2. CASE session'[t] = "none"
    <3>1. Opened' = Opened \ {t}
      BY <1>2, <2>2 DEF Opened
    <3>2. Ownership!Close(t)
      BY <1>1, <2>1, <3>1 DEF Ownership!Close, Opened, Running
    <3>3. QED BY <3>2 DEF Ownership!Next
  <2>3. CASE session'[t] # "none"
    <3>1. Opened' = Opened \cup {t}
      BY <1>2, <2>3 DEF Opened
    <3>2. Ownership!Open(t)
      BY <1>1, <2>1, <3>1 DEF Ownership!Open, Opened, Running
    <3>3. QED BY <3>2 DEF Ownership!Next
  <2>4. QED BY <2>2, <2>3
<1>5. QED BY <1>3, <1>4

LEMMA StartRefines ==
  ASSUME IInv, StartReplacement \/ \E c \in Components : ScanStarts(c)
  PROVE  Ownership!Next
<1>1. PICK c \in Components, s \in Snapshots \cup {NoSnapshot} :
             StartWorker(c, s) /\ worker[c] = None /\ joining = None
  BY StartStepFacts DEF IInv
<1>2. PICK t \in Threads : /\ Free(t)
                           /\ worker' = [worker EXCEPT ![c] = t]
                           /\ pc' = [pc EXCEPT ![t] = "load"]
                           /\ comp' = [comp EXCEPT ![t] = c]
                           /\ abandoned' = abandoned \ {t}
                           /\ UNCHANGED session
  BY <1>1, StartFacts DEF IInv
<1>3. t \notin Running /\ Running' = Running \cup {t}
  BY <1>2 DEF Free, Running, Alive, IInv, TypeInv, TypeOK, WorkerTypeOK
<1>4. \A u \in Running : comp[u] = c => u \in abandoned
  BY <1>1, NameAssumption DEF Running, IInv, TableInv, JoinInv, None
<1>5. Ownership!Appoint(c, t)
  BY <1>1, <1>2, <1>3, <1>4 DEF Ownership!Appoint, Running
<1>6. QED BY <1>5 DEF Ownership!Next

LEMMA NextRefines ==
  ASSUME IInv, Next
  PROVE  [Ownership!Next]_Ownership!ownershipVars
<1>1. ASSUME NEW t \in Threads, ThreadStep(t)
      PROVE  [Ownership!Next]_Ownership!ownershipVars
  BY <1>1, ThreadRefines
<1>2. ASSUME NEW t \in Threads, Drop(t)
      PROVE  UNCHANGED Ownership!ownershipVars
  BY <1>2 DEF Drop, TunnelDrops, supervisorVars, syncVars, Alive, Ownership!ownershipVars,
     IInv, TypeInv, TypeOK, WorkerTypeOK
<1>3. ASSUME NEW c \in Components, ReapWorker(c) \/ ScanReplaces(c) \/ StopAllWorker(c)
      PROVE  Ownership!Next
  <2>1. Ownership!Dismiss(c)
    BY <1>3, StopStepFacts, NameAssumption DEF Ownership!Dismiss, IInv, Alive, None
  <2>2. QED BY <2>1 DEF Ownership!Next
<1>4. CASE StartReplacement \/ \E c \in Components : ScanStarts(c)
  BY <1>4, StartRefines
<1>5. ASSUME ReapJoined \/ ScanJoined \/ StopAllJoined \/ ShutDown
      PROVE  [Ownership!Next]_Ownership!ownershipVars
  <2>1. UNCHANGED <<worker, comp, pc, session>>
    BY <1>5 DEF ReapJoined, ScanJoined, StopAllJoined, ShutDown, threadVars, workerVars
  <2>2. \/ abandoned' = abandoned
        \/ joining # None /\ Alive(joining) /\ abandoned' = abandoned \cup {joining}
    BY <1>5 DEF ReapJoined, ScanJoined, StopAllJoined, ShutDown, JoinReturns, IInv, TypeInv,
       TargetInv, JoinLabels
  <2>3. CASE abandoned' = abandoned
    BY <2>1, <2>3 DEF Ownership!ownershipVars, Alive
  <2>4. CASE joining # None /\ Alive(joining) /\ abandoned' = abandoned \cup {joining}
    <3>1. joining \in Running /\ stop[joining] /\ comp[joining] \in Components
      BY <2>4 DEF Running, IInv, TypeInv, TypeOK, WorkerTypeOK, TargetInv, JoinInv
    <3>2. worker[comp[joining]] # joining
      BY <2>4, <3>1 DEF IInv, TableInv
    <3>3. Ownership!GiveUpOn(joining)
      BY <2>1, <2>4, <3>1, <3>2 DEF Ownership!GiveUpOn, Running, Alive
    <3>4. QED BY <3>1, <3>3 DEF Ownership!Next, Running
  <2>5. QED BY <2>2, <2>3, <2>4
<1>6. CASE QuietStep /\ ~ShutDown /\ ~(ReapJoined \/ ScanJoined \/ StopAllJoined)
  <2>1. UNCHANGED <<threadVars, worker>>
    BY <1>6, QuietFacts
  <2>2. UNCHANGED abandoned
    BY <1>6, HostStepFacts DEF QuietStep, SyncBegin, ReapDone, SyncEnd, Exit, ScanFails, ScanSkips,
       UpdateComponent, DeleteComponent, Edit, supervisorVars, syncVars
  <2>3. QED BY <2>1, <2>2 DEF threadVars, Ownership!ownershipVars, Alive
<1>7. QED BY <1>1, <1>2, <1>3, <1>4, <1>5, <1>6, NextCases

\* The supervisor with its threads is an implementation of SessionOwnership.
THEOREM Refinement == Spec => ImplementsOwnership
<1>1. Init => Ownership!Init
  BY DEF Init, Ownership!Init, Alive
<1>2. IInv /\ [Next]_vars => [Ownership!Next]_Ownership!ownershipVars
  <2>1. ASSUME UNCHANGED vars PROVE UNCHANGED Ownership!ownershipVars
    BY <2>1 DEF vars, workerVars, threadVars, supervisorVars, syncVars, Alive, Ownership!ownershipVars
  <2>2. QED BY <2>1, NextRefines
<1>3. QED
  BY <1>1, <1>2, InductiveInvariant, PTL DEF Spec, ImplementsOwnership, Ownership!Spec

----------------------------------------------------------------------------
(* The lifecycle log, for as long as nothing raises between a session and  *)
(* its event and every join returns                                        *)

\* Database and probes answer, the system refuses no call, and no thread outlives
\* its join.
Undisturbed == FaultKinds \cap {"db", "os", "probe", "join"} = {}

Logged(c) == KeepEvents /\ row[c].exists

\* The log says of thread t that its tunnel is up: from the tunnel_up of its
\* session to the tunnel_down.
Open(t) == \/ pc[t] \in {"errorEvent", "finallyEvent"}
           \/ HasHandle(t) /\ pc[t] \notin {"saveUp", "stopBroken"}
\* The session was given up and the log says so.
ClosedLabels == {"stopBroken", "reconnectWait", "reconnect"}

HandleOf(t) == /\ pc[t] = "saveDown" => HasHandle(t)
               /\ pc[t] \in {"connect", "move"} => ~HasHandle(t)
\* The newest event of a component agrees with its thread, ...
LogOf(t) == Alive(t) /\ Logged(comp[t]) =>
              /\ Newest(life[comp[t]]) = "tunnel_up" <=> Open(t)
              /\ pc[t] \in ClosedLabels => Newest(life[comp[t]]) = "tunnel_down"
\* ... and without a thread there is no tunnel.
RestOf(c) == Logged(c) /\ (\A t \in Threads : Alive(t) => comp[t] # c) => Newest(life[c]) # "tunnel_up"
PairedWindow(w) == /\ w[1] = "tunnel_up" => w[2] = "tunnel_down"
                   /\ w[2] = "tunnel_down" => w[1] = "tunnel_up"
                   /\ w[2] = "reconnect" => w[1] = "tunnel_down"

LoneInv == /\ supervisor \notin {"stopAll", "stopAllJoin", "exited"} => abandoned = {}
           /\ \A t, u \in Threads : Alive(t) /\ Alive(u) /\ comp[t] = comp[u] => t = u
LifeInv == /\ \A t \in Threads : HandleOf(t) /\ LogOf(t)
           /\ \A c \in Components : RestOf(c) /\ PairedWindow(life[c])

\* What one event does to the log.
LEMMA PushFacts ==
  ASSUME NEW w, NEW e
  PROVE  /\ KeepEvents => Push(w, e)[1] = w[2] /\ Newest(Push(w, e)) = e
         /\ ~KeepEvents => Push(w, e) = w
  BY DEF Push, Newest

\* One step of a thread, in the log of its component.
LEMMA WorkerLog ==
  ASSUME Undisturbed, TypeInv, NEW t \in Threads, Alive(t), HoldingsOf(t), HandleOf(t), LogOf(t),
         NEW c, c = comp[t], PairedWindow(life[c]), WorkerStep(t)
  PROVE  /\ UNCHANGED row
         /\ \A d \in Components \ {c} : life'[d] = life[d]
         /\ HandleOf(t)'
         /\ Logged(c) => /\ Newest(life'[c]) = "tunnel_up" <=> Alive(t)' /\ Open(t)'
                         /\ pc'[t] \in ClosedLabels => Newest(life'[c]) = "tunnel_down"
         /\ PairedWindow(life'[c])
<1> DEFINE Good == /\ UNCHANGED row
                   /\ \A d \in Components \ {c} : life'[d] = life[d]
                   /\ HandleOf(t)'
                   /\ Logged(c) => /\ Newest(life'[c]) = "tunnel_up" <=> Alive(t)' /\ Open(t)'
                                   /\ pc'[t] \in ClosedLabels => Newest(life'[c]) = "tunnel_down"
                   /\ PairedWindow(life'[c])
<1>0. /\ c \in Components /\ pc \in [Threads -> Labels] /\ session \in [Threads -> Sessions]
      /\ life \in [Components -> (LifeEvents \cup {None}) \X (LifeEvents \cup {None})]
      /\ ~Fault("db") /\ ~Fault("os") /\ ~Fault("probe")
  BY DEF TypeInv, TypeOK, WorkerTypeOK, Undisturbed, Fault
\* Most steps write no event.
<1>1. ASSUME UNCHANGED <<row, life>>, HandleOf(t)',
             Logged(c) => (Alive(t)' /\ Open(t)' <=> Open(t)),
             Logged(c) /\ pc'[t] \in ClosedLabels => pc[t] \in ClosedLabels
      PROVE  Good
  BY <1>1 DEF LogOf
\* The others write one, and the row exists.
<1>2. ASSUME NEW e \in LifeEvents, row[c].exists, UNCHANGED row, HandleOf(t)',
             life' = [life EXCEPT ![c] = Push(@, e)],
             e = "tunnel_up" <=> Alive(t)' /\ Open(t)',
             pc'[t] \in ClosedLabels => e = "tunnel_down",
             e = "tunnel_down" <=> Open(t),
             e = "reconnect" => pc[t] \in ClosedLabels
      PROVE  Good
  <2>1. life'[c] = Push(life[c], e) /\ \A d \in Components \ {c} : life'[d] = life[d]
    BY <1>0, <1>2
  <2>2. CASE ~KeepEvents
    BY <1>2, <2>1, <2>2, PushFacts DEF Logged
  <2>3. CASE KeepEvents
    <3>1. life'[c][1] = life[c][2] /\ Newest(life'[c]) = e /\ life'[c][2] = e
      BY <2>1, <2>3, PushFacts DEF Newest
    <3>2. /\ life[c][2] = "tunnel_up" <=> Open(t)
          /\ e = "reconnect" => life[c][2] = "tunnel_down"
      BY <1>2, <2>3 DEF LogOf, Logged, Newest
    <3>3. PairedWindow(life'[c])
      BY <1>2, <3>1, <3>2 DEF PairedWindow
    <3>4. QED BY <1>2, <2>1, <3>1, <3>3
  <2>4. QED BY <2>2, <2>3
<1> SUFFICES Good
  OBVIOUS
<1> HIDE DEF Good
<1>3. CASE pc[t] \in {"load", "backoff", "interval", "netnsWait", "reconnectWait"}
  <2>1. /\ UNCHANGED <<row, life, session>>
        /\ pc'[t] \in {"finally", "check", "load", "reconnect"}
        /\ pc'[t] = "reconnect" => pc[t] = "reconnectWait"
    BY <1>0, <1>3 DEF WorkerStep, LoadComponent, CheckSession, SaveTunnelDown, StopBrokenSession, Wait,
       AfterWait, SaveReconnect, EnsureNetns, WaitForTun, MoveIface, SaveConnectFailure, SaveTunnelUp,
       RunProbe, RecordTransition, HandleError, StopAfterError, RecordErrorDown, Finally, StopFinally, RecordFinalDown, Goto, dbVars
  <2>2. HandleOf(t)' /\ (Alive(t)' /\ Open(t)' <=> Open(t))
    BY <1>3, <2>1 DEF HandleOf, Alive, Open, HasHandle
  <2>3. QED BY <1>1, <1>3, <2>1, <2>2 DEF ClosedLabels
<1>4. CASE pc[t] \in {"check", "probe", "transition", "ensure"}
  <2>1. CASE CheckSession(t)
    <3>1. UNCHANGED <<row, life, session>> /\ pc[t] = "check"
      BY <2>1 DEF CheckSession, dbVars
    <3>2. pc'[t] = IF session[t] = "up" THEN "probe" ELSE IF HasHandle(t) THEN "saveDown" ELSE "ensure"
      BY <1>0, <2>1 DEF CheckSession, StopSampler, Goto
    <3>3. HandleOf(t)' /\ (Alive(t)' /\ Open(t)' <=> Open(t)) /\ pc'[t] \notin ClosedLabels
      BY <3>1, <3>2 DEF HandleOf, Alive, Open, HasHandle, ClosedLabels
    <3>4. QED BY <1>1, <3>1, <3>3
  <2>2. CASE RunProbe(t) \/ RecordTransition(t)
    <3>1. UNCHANGED <<row, life, session>> /\ pc[t] \in {"probe", "transition"}
          /\ pc'[t] \in {"transition", "interval", "error"}
      BY <1>0, <2>2 DEF RunProbe, RecordTransition, Goto
    <3>2. HandleOf(t)' /\ (Alive(t)' /\ Open(t)' <=> Open(t)) /\ pc'[t] \notin ClosedLabels
      BY <3>1 DEF HandleOf, Alive, Open, HasHandle, ClosedLabels
    <3>3. QED BY <1>1, <3>1, <3>2
  <2>3. CASE EnsureNetns(t)
    <3>1. UNCHANGED <<row, life>> /\ pc[t] = "ensure" /\ pc'[t] \in {"connect", "netnsWait", "error"}
          /\ session'[t] \in {"starting", session[t]}
      BY <1>0, <2>3 DEF EnsureNetns, Goto, dbVars
    <3>2. session[t] = "none"
      BY <3>1 DEF HoldingsOf, NoSessionLabels
    <3>3. HandleOf(t)' /\ ~Open(t)' /\ ~Open(t) /\ pc'[t] \notin ClosedLabels
      BY <3>1, <3>2 DEF HandleOf, Open, HasHandle, ClosedLabels
    <3>4. QED BY <1>1, <3>1, <3>3
  <2>4. QED
    BY <1>4, <2>1, <2>2, <2>3 DEF WorkerStep, LoadComponent, SaveTunnelDown, StopBrokenSession, Wait,
       SaveReconnect, WaitForTun, MoveIface, SaveConnectFailure, SaveTunnelUp,
       HandleError, StopAfterError, RecordErrorDown, Finally, StopFinally, RecordFinalDown
<1>5. CASE WaitForTun(t) \/ MoveIface(t)
  <2>1. /\ UNCHANGED <<row, life>> /\ pc[t] \in {"connect", "move"}
        /\ \/ pc'[t] = "move" /\ session' = session
           \/ pc'[t] = "saveUp"
           \/ pc'[t] = "connectFailed" /\ session'[t] = "none"
    BY <1>0, <1>5, ReleaseSessionFrame DEF WaitForTun, MoveIface, LosesProcess, Goto, dbVars
  <2>2. ~HasHandle(t)
    BY <2>1 DEF HandleOf
  <2>3. HandleOf(t)' /\ ~Open(t)' /\ ~Open(t) /\ pc'[t] \notin ClosedLabels
    BY <2>1, <2>2 DEF HandleOf, Open, HasHandle, ClosedLabels
  <2>4. QED BY <1>1, <2>1, <2>3
<1>6. CASE StopBrokenSession(t)
  <2>1. UNCHANGED <<row, life>> /\ pc[t] = "stopBroken" /\ pc'[t] = "reconnectWait" /\ session'[t] = "none"
    BY <1>0, <1>6, ReleaseSessionFrame DEF StopBrokenSession, StopRaises, Goto, dbVars
  <2>2. HandleOf(t)' /\ ~Open(t)' /\ ~Open(t) /\ pc[t] \in ClosedLabels
    BY <2>1 DEF HandleOf, Open, HasHandle, ClosedLabels
  <2>3. QED BY <1>1, <2>1, <2>2
<1>7. CASE HandleError(t) \/ Finally(t) \/ StopAfterError(t) \/ StopFinally(t)
  <2>1. UNCHANGED <<row, life>> /\ pc[t] \in {"error", "finally", "errorStop", "finallyStop"}
    BY <1>7 DEF HandleError, Finally, StopAfterError, StopFinally, dbVars
  <2>2. CASE HandleError(t) \/ Finally(t)
    <3>1. UNCHANGED session /\ pc'[t] \in {"errorStop", "finallyStop"}
      BY <1>0, <2>2 DEF HandleError, Finally, Goto
    <3>2. HandleOf(t)' /\ (Alive(t)' /\ Open(t)' <=> Open(t)) /\ pc'[t] \notin ClosedLabels
      BY <2>1, <3>1 DEF HandleOf, Open, HasHandle, Alive, ClosedLabels
    <3>3. QED BY <1>1, <2>1, <3>2
  <2>3. CASE HasHandle(t) /\ (StopAfterError(t) \/ StopFinally(t))
    <3>1. pc'[t] \in {"errorEvent", "finallyEvent"}
      BY <1>0, <2>3 DEF StopAfterError, StopFinally, StopRaises, LosesProcess, Goto
    <3>2. HandleOf(t)' /\ Open(t)' /\ Alive(t)' /\ Open(t) /\ pc'[t] \notin ClosedLabels
      BY <2>1, <2>3, <3>1 DEF HandleOf, Open, Alive, ClosedLabels
    <3>3. QED BY <1>1, <2>1, <3>2
  <2>4. CASE ~HasHandle(t) /\ (StopAfterError(t) \/ StopFinally(t))
    <3>1. pc'[t] \in {"backoff", "dead"} /\ session' = session
      BY <1>0, <2>4 DEF StopAfterError, StopFinally, Return, Goto
    <3>2. HandleOf(t)' /\ ~Open(t)' /\ ~Open(t) /\ pc'[t] \notin ClosedLabels
      BY <2>1, <2>4, <3>1 DEF HandleOf, Open, HasHandle, ClosedLabels
    <3>3. QED BY <1>1, <2>1, <3>2
  <2>5. QED BY <1>7, <2>2, <2>3, <2>4
\* A save raises only when the component is gone.
<1>8. ASSUME NEW o, SaveEventRaises(c, o) PROVE UNCHANGED <<row, life>> /\ ~Logged(c)
  BY <1>0, <1>8 DEF SaveEventRaises, Logged
<1>9. CASE SaveTunnelDown(t)
  <2>1. pc[t] = "saveDown" /\ session' = session /\ HasHandle(t)
    BY <1>9 DEF SaveTunnelDown, HandleOf
  <2>2. ASSUME NEW o, SaveEvent(c, o, "tunnel_down"), Goto(t, "stopBroken") PROVE Good
    <3>1. pc'[t] = "stopBroken"
      BY <1>0, <2>2 DEF Goto
    <3>2. HandleOf(t)' /\ ~Open(t)' /\ Open(t)
      BY <2>1, <3>1 DEF HandleOf, Open, HasHandle
    <3>3. QED BY <1>2, <2>2, <3>1, <3>2 DEF SaveEvent, LifeEvents
  <2>3. ASSUME NEW o, SaveEventRaises(c, o), Goto(t, "error") PROVE Good
    <3>1. HandleOf(t)'
      BY <1>0, <2>3 DEF Goto, HandleOf
    <3>2. QED BY <1>1, <1>8, <2>3, <3>1
  <2>4. QED BY <1>0, <1>9, <2>2, <2>3 DEF SaveTunnelDown
<1>10. CASE SaveReconnect(t) \/ SaveConnectFailure(t)
  <2>1. pc[t] \in {"reconnect", "connectFailed"} /\ session' = session
    BY <1>10 DEF SaveReconnect, SaveConnectFailure
  <2>2. ~HasHandle(t) /\ ~Open(t)
    BY <2>1 DEF HoldingsOf, NoSessionLabels, HasHandle, Open
  <2>3. ASSUME NEW o, NEW e, SaveEvent(c, o, e), pc'[t] \in {"ensure", "backoff"},
               \/ e = "reconnect" /\ pc[t] = "reconnect"
               \/ e = "connect_failed"
        PROVE  Good
    <3>1. HandleOf(t)' /\ ~Open(t)' /\ pc'[t] \notin ClosedLabels
      BY <2>1, <2>2, <2>3 DEF HandleOf, Open, HasHandle, ClosedLabels
    <3>2. QED BY <1>2, <2>2, <2>3, <3>1 DEF SaveEvent, LifeEvents, ClosedLabels
  <2>4. ASSUME NEW o, SaveEventRaises(c, o), Goto(t, "error") PROVE Good
    <3>1. HandleOf(t)'
      BY <1>0, <2>4 DEF Goto, HandleOf
    <3>2. QED BY <1>1, <1>8, <2>4, <3>1
  <2>5. QED BY <1>0, <1>10, <2>3, <2>4 DEF SaveReconnect, SaveConnectFailure, Goto
<1>11. CASE SaveTunnelUp(t)
  <2>1. pc[t] = "saveUp" /\ session' = session /\ HasHandle(t) /\ ~Open(t)
    BY <1>11 DEF SaveTunnelUp, HoldingsOf, Open
  <2>2. ASSUME NEW o, SaveEvent(c, o, "tunnel_up"), Goto(t, "probe") PROVE Good
    <3>1. pc'[t] = "probe"
      BY <1>0, <2>2 DEF Goto
    <3>2. HandleOf(t)' /\ Alive(t)' /\ Open(t)' /\ pc'[t] \notin ClosedLabels
      BY <2>1, <3>1 DEF HandleOf, Open, HasHandle, Alive, ClosedLabels
    <3>3. QED BY <1>2, <2>1, <2>2, <3>2 DEF SaveEvent, LifeEvents
  <2>3. ASSUME NEW o, SaveEventRaises(c, o), Goto(t, "error") PROVE Good
    <3>1. HandleOf(t)'
      BY <1>0, <2>3 DEF Goto, HandleOf
    <3>2. QED BY <1>1, <1>8, <2>3, <3>1
  <2>4. QED BY <1>0, <1>11, <2>2, <2>3 DEF SaveTunnelUp
<1>12. CASE RecordErrorDown(t) \/ RecordFinalDown(t)
  <2>1. /\ pc[t] \in {"errorEvent", "finallyEvent"} /\ session' = session
        /\ pc'[t] \in {"backoff", "dead"} /\ UNCHANGED row
        /\ \/ row[c].exists /\ life' = [life EXCEPT ![c] = Push(@, "tunnel_down")]
           \/ ~row[c].exists /\ UNCHANGED life
    BY <1>0, <1>12 DEF RecordErrorDown, RecordFinalDown, SafeRecord, Return, Goto, dbVars
  <2>2. session[t] = "none"
    BY <2>1 DEF HoldingsOf, NoSessionLabels
  <2>3. HandleOf(t)' /\ Open(t) /\ ~Open(t)' /\ pc'[t] \notin ClosedLabels
    BY <2>1, <2>2 DEF HandleOf, Open, HasHandle, ClosedLabels
  <2>4. CASE row[c].exists
    BY <1>2, <2>1, <2>3, <2>4 DEF LifeEvents
  <2>5. CASE ~row[c].exists
    BY <1>1, <2>1, <2>3, <2>5 DEF Logged
  <2>6. QED BY <2>4, <2>5
<1>13. QED
  BY <1>3, <1>4, <1>5, <1>6, <1>7, <1>9, <1>10, <1>11, <1>12
  DEF WorkerStep, LoadComponent, CheckSession, Wait, EnsureNetns, RunProbe, RecordTransition

\* A thread writes the log of its own component.
LEMMA ThreadLife ==
  ASSUME Undisturbed, IInv, LoneInv, LifeInv, NEW t \in Threads, ThreadStep(t)
  PROVE  LifeInv'
<1> DEFINE c == comp[t]
<1>1. /\ c \in Components /\ comp' = comp /\ Alive(t) /\ WorkerStep(t) /\ TypeInv
      /\ \A u \in Threads \ {t} : pc'[u] = pc[u]
  BY ThreadFrame DEF ThreadStep, IInv, TypeInv, TypeOK, WorkerTypeOK
<1>2. /\ UNCHANGED row
      /\ \A d \in Components \ {c} : life'[d] = life[d]
      /\ HandleOf(t)'
      /\ Logged(c) => /\ Newest(life'[c]) = "tunnel_up" <=> Alive(t)' /\ Open(t)'
                      /\ pc'[t] \in ClosedLabels => Newest(life'[c]) = "tunnel_down"
      /\ PairedWindow(life'[c])
  BY <1>1, WorkerLog DEF IInv, Holdings, LifeInv
<1>3. ASSUME NEW u \in Threads \ {t} PROVE HandleOf(u)' /\ (Open(u)' <=> Open(u)) /\ (Alive(u)' <=> Alive(u))
  <2>1. HasHandle(u)' <=> HasHandle(u)
    BY <1>1, SessionFrame DEF HasHandle
  <2>2. QED BY <1>1, <2>1 DEF LifeInv, HandleOf, Open, Alive
<1>4. ASSUME NEW u \in Threads \ {t}, Alive(u) PROVE comp[u] # c
  BY <1>1, <1>4 DEF LoneInv
<1>5. ASSUME NEW u \in Threads PROVE LogOf(u)'
  <2>1. CASE u = t
    BY <1>1, <1>2, <2>1 DEF LogOf, Logged
  <2>2. CASE u # t
    <3>1. Alive(u) => comp[u] \in Components \ {c}
      BY <1>4, <2>2 DEF IInv, TypeInv, TypeOK, WorkerTypeOK
    <3>2. Alive(u) => life'[comp[u]] = life[comp[u]]
      BY <1>2, <3>1
    <3>3. LogOf(u) /\ pc'[u] = pc[u]
      BY <1>1, <2>2 DEF LifeInv
    <3>4. QED BY <1>1, <1>2, <1>3, <2>2, <3>2, <3>3 DEF LogOf, Logged
  <2>3. QED BY <2>1, <2>2
<1>6. ASSUME NEW d \in Components PROVE RestOf(d)' /\ PairedWindow(life[d])'
  <2>1. CASE d = c
    BY <1>1, <1>2, <2>1 DEF RestOf, Logged, PairedWindow
  <2>2. CASE d # c
    <3>1. RestOf(d) /\ PairedWindow(life[d]) /\ life'[d] = life[d]
      BY <1>2, <2>2 DEF LifeInv
    <3>2. (\A u \in Threads : Alive(u)' => comp[u] # d) => (\A u \in Threads : Alive(u) => comp[u] # d)
      BY <1>3, <2>2
    <3>3. QED BY <1>1, <1>2, <3>1, <3>2 DEF RestOf, Logged, PairedWindow
  <2>3. QED BY <2>1, <2>2
<1>7. QED BY <1>2, <1>3, <1>5, <1>6 DEF LifeInv

\* Nothing in the log changes as long as the threads stand still.
LEMMA StillLife ==
  ASSUME LifeInv, UNCHANGED <<pc, comp>>, \A t \in Threads : HasHandle(t)' <=> HasHandle(t),
         \A c \in Components : life'[c] = life[c] /\ (row'[c].exists => row[c].exists),
         comp \in [Threads -> Components]
  PROVE  LifeInv'
<1>1. ASSUME NEW t \in Threads PROVE HandleOf(t)' /\ LogOf(t)'
  BY <1>1 DEF LifeInv, HandleOf, LogOf, Alive, Logged, Open
<1>2. ASSUME NEW c \in Components PROVE RestOf(c)' /\ PairedWindow(life[c])'
  BY <1>2 DEF LifeInv, RestOf, Alive, Logged, PairedWindow
<1>3. QED BY <1>1, <1>2 DEF LifeInv

\* A worker is started for a component without a thread, and its log is closed.
LEMMA StartLife ==
  ASSUME IInv, LoneInv, LifeInv, StartReplacement \/ \E c \in Components : ScanStarts(c)
  PROVE  LoneInv' /\ LifeInv'
<1>1. PICK c \in Components, s \in Snapshots \cup {NoSnapshot} :
             StartWorker(c, s) /\ worker[c] = None /\ joining = None /\ supervisor' = "scan"
  BY StartStepFacts DEF IInv
<1>2. PICK t \in Threads : /\ Free(t)
                           /\ pc' = [pc EXCEPT ![t] = "load"]
                           /\ comp' = [comp EXCEPT ![t] = c]
                           /\ abandoned' = abandoned \ {t}
                           /\ UNCHANGED session
  BY <1>1, StartFacts DEF IInv
<1>3. UNCHANGED <<row, life>> /\ supervisor \in {"scan", "start"}
  BY DEF StartReplacement, ScanStarts, dbVars
<1>4. abandoned = {} /\ abandoned' = {}
  BY <1>2, <1>3 DEF LoneInv
<1>5. ASSUME NEW u \in Threads, Alive(u) PROVE comp[u] # c
  BY <1>1, <1>4, <1>5, NameAssumption DEF IInv, TableInv, JoinInv, None
<1>6. /\ ~Alive(t) /\ pc'[t] = "load" /\ comp'[t] = c
      /\ \A u \in Threads \ {t} : pc'[u] = pc[u] /\ comp'[u] = comp[u]
  BY <1>2 DEF Free, IInv, TypeInv, TypeOK, WorkerTypeOK
<1>7. session[t] = "none"
  BY <1>6 DEF IInv, Holdings, HoldingsOf, NoSessionLabels, Alive
<1>8. LoneInv'
  <2>1. ASSUME NEW u \in Threads, NEW v \in Threads, Alive(u)', Alive(v)', comp'[u] = comp'[v] PROVE u = v
    <3>1. CASE u # t /\ v # t
      BY <1>6, <2>1, <3>1 DEF LoneInv, Alive
    <3>2. CASE u = t \/ v = t
      BY <1>5, <1>6, <2>1, <3>2 DEF Alive
    <3>3. QED BY <3>1, <3>2
  <2>2. QED BY <1>4, <2>1 DEF LoneInv
<1>9. LifeInv'
  <2>1. Logged(c) => Newest(life[c]) # "tunnel_up"
    BY <1>5 DEF LifeInv, RestOf
  <2>2. HandleOf(t)' /\ LogOf(t)'
    BY <1>2, <1>3, <1>6, <1>7, <2>1 DEF HandleOf, LogOf, Open, HasHandle, ClosedLabels, Logged
  <2>3. ASSUME NEW u \in Threads \ {t} PROVE HandleOf(u)' /\ LogOf(u)'
    BY <1>2, <1>3, <1>6 DEF LifeInv, HandleOf, LogOf, Open, HasHandle, Alive, Logged
  <2>4. ASSUME NEW d \in Components PROVE RestOf(d)' /\ PairedWindow(life[d])'
    <3>1. CASE d = c
      BY <1>3, <1>6, <3>1 DEF LifeInv, RestOf, PairedWindow, Alive
    <3>2. CASE d # c
      <4>1. (\A u \in Threads : Alive(u)' => comp'[u] # d) => (\A u \in Threads : Alive(u) => comp[u] # d)
        BY <1>6 DEF Alive
      <4>2. QED BY <1>3, <4>1 DEF LifeInv, RestOf, PairedWindow, Logged
    <3>3. QED BY <3>1, <3>2
  <2>5. QED BY <2>2, <2>3, <2>4 DEF LifeInv
<1>10. QED BY <1>8, <1>9

\* Nobody outlives a join, so nobody is left when a worker is started.
LEMMA LoneStep ==
  ASSUME Undisturbed, IInv, LoneInv, LifeInv, Next
  PROVE  LoneInv'
<1>1. ASSUME UNCHANGED comp, \A t \in Threads : Alive(t)' => Alive(t),
             \/ abandoned' = abandoned
                /\ (supervisor' \in {"stopAll", "stopAllJoin", "exited"}
                      \/ supervisor \notin {"stopAll", "stopAllJoin", "exited"})
             \/ supervisor' = "stopAll"
      PROVE  LoneInv'
  BY <1>1 DEF LoneInv
<1>2. ASSUME NEW t \in Threads, ThreadStep(t) \/ Drop(t) PROVE LoneInv'
  <2>1. UNCHANGED <<comp, supervisor, abandoned>>
    BY <1>2, ThreadFrame DEF ThreadStep, Drop, TunnelDrops, supervisorVars, syncVars, IInv
  <2>2. \A u \in Threads : Alive(u)' => Alive(u)
    BY <1>2, ThreadFrame DEF ThreadStep, Drop, TunnelDrops, Alive, IInv
  <2>3. QED BY <2>1, <2>2 DEF LoneInv
<1>3. ASSUME NEW c \in Components, ReapWorker(c) \/ ScanReplaces(c) \/ StopAllWorker(c) PROVE LoneInv'
  <2>1. UNCHANGED <<pc, comp, abandoned>>
    BY <1>3, StopStepFacts DEF IInv
  <2>2. supervisor \in {"reap", "scan"} \/ supervisor' = "stopAllJoin"
    BY <1>3 DEF ReapWorker, ScanReplaces, StopAllWorker, BeginStop
  <2>3. QED BY <1>1, <2>1, <2>2 DEF Alive
<1>4. CASE StartReplacement \/ \E c \in Components : ScanStarts(c)
  BY <1>4, StartLife
<1>5. CASE QuietStep
  <2>1. UNCHANGED <<pc, comp>>
    BY <1>5, QuietFacts DEF threadVars
  <2>2. ~Fault("join")
    BY DEF Undisturbed, Fault
  <2>3. \/ abandoned' = abandoned
           /\ (supervisor' \in {"stopAll", "stopAllJoin", "exited"}
                 \/ supervisor \notin {"stopAll", "stopAllJoin", "exited"})
        \/ supervisor' = "stopAll"
    BY <1>5, <2>2, HostStepFacts
    DEF QuietStep, SyncBegin, ReapDone, SyncEnd, Exit, ScanFails, ShutDown, ScanSkips, ReapJoined, ScanJoined,
        StopAllJoined, JoinReturns, UpdateComponent, DeleteComponent, Edit, supervisorVars, syncVars
  <2>4. QED BY <1>1, <2>1, <2>3 DEF Alive
<1>6. QED BY <1>2, <1>3, <1>4, <1>5, NextCases

LEMMA LifeStep ==
  ASSUME Undisturbed, IInv, LoneInv, LifeInv, Next
  PROVE  LifeInv'
<1>0. /\ row \in [Components -> Rows] /\ comp \in [Threads -> Components]
      /\ life \in [Components -> (LifeEvents \cup {None}) \X (LifeEvents \cup {None})]
  BY DEF IInv, TypeInv, TypeOK, WorkerTypeOK
<1>1. ASSUME NEW t \in Threads, ThreadStep(t) PROVE LifeInv'
  BY <1>1, ThreadLife
<1>2. ASSUME NEW t \in Threads, Drop(t) PROVE LifeInv'
  <2>1. UNCHANGED <<pc, comp, row, life>> /\ \A u \in Threads : HasHandle(u)' <=> HasHandle(u)
    BY <1>2 DEF Drop, TunnelDrops, HasHandle, dbVars, IInv, TypeInv, TypeOK, WorkerTypeOK
  <2>2. QED BY <1>0, <2>1, StillLife
<1>3. ASSUME NEW c \in Components, ReapWorker(c) \/ ScanReplaces(c) \/ StopAllWorker(c) PROVE LifeInv'
  <2>1. UNCHANGED <<pc, comp, session>>
    BY <1>3, StopStepFacts DEF IInv
  <2>2. UNCHANGED <<row, life>>
    BY <1>3 DEF ReapWorker, ScanReplaces, StopAllWorker, dbVars
  <2>3. QED BY <1>0, <2>1, <2>2, StillLife DEF HasHandle
<1>4. CASE StartReplacement \/ \E c \in Components : ScanStarts(c)
  BY <1>4, StartLife
<1>5. CASE QuietStep
  <2>1. UNCHANGED <<pc, comp, session>>
    BY <1>5, QuietFacts DEF threadVars
  <2>2. CASE \A c \in Components : ~DeleteComponent(c)
    <3>1. life' = life
      BY <1>5, <2>2, HostStepFacts
      DEF QuietStep, SyncBegin, ReapDone, SyncEnd, Exit, ScanFails, ShutDown, ScanSkips,
         ReapJoined, ScanJoined, StopAllJoined, UpdateComponent, workerVars, dbVars
    <3>2. ASSUME NEW c \in Components, row'[c].exists PROVE row[c].exists
      <4>1. CASE row' = row
        BY <3>2, <4>1
      <4>2. ASSUME NEW d \in Components, UpdateComponent(d) PROVE row[c].exists
        BY <1>0, <3>2, <4>2 DEF UpdateComponent, Edit
      <4>3. QED
        BY <1>5, <2>2, <4>1, <4>2, HostStepFacts DEF QuietStep, SyncBegin, ReapDone, SyncEnd, Exit, ScanFails, ShutDown,
           ScanSkips, ReapJoined, ScanJoined, StopAllJoined, workerVars, dbVars
    <3>3. QED BY <1>0, <2>1, <3>1, <3>2, StillLife DEF HasHandle
  <2>3. ASSUME NEW c \in Components, DeleteComponent(c) PROVE LifeInv'
    <3>1. ~row'[c].exists /\ life'[c] = <<None, None>>
      BY <1>0, <2>3 DEF DeleteComponent, Rows
    <3>2. \A d \in Components \ {c} : row'[d] = row[d] /\ life'[d] = life[d]
      BY <1>0, <2>3 DEF DeleteComponent
    <3>3. ASSUME NEW t \in Threads PROVE HandleOf(t)' /\ LogOf(t)'
      <4>1. HandleOf(t)'
        BY <2>1 DEF LifeInv, HandleOf, HasHandle
      <4>2. CASE comp[t] = c
        BY <2>1, <3>1, <4>1, <4>2 DEF LogOf, Logged
      <4>3. CASE comp[t] # c
        <5>1. row'[comp[t]] = row[comp[t]] /\ life'[comp[t]] = life[comp[t]]
          BY <1>0, <3>2, <4>3
        <5>2. QED BY <2>1, <4>1, <5>1 DEF LifeInv, LogOf, Logged, Alive, Open, HasHandle
      <4>4. QED BY <4>2, <4>3
    <3>4. ASSUME NEW d \in Components PROVE RestOf(d)' /\ PairedWindow(life[d])'
      <4>1. CASE d = c
        BY <3>1, <4>1 DEF RestOf, Logged, PairedWindow, None
      <4>2. CASE d # c
        BY <2>1, <3>2, <4>2 DEF LifeInv, RestOf, Logged, PairedWindow, Alive
      <4>3. QED BY <4>1, <4>2
    <3>5. QED BY <3>3, <3>4 DEF LifeInv
  <2>4. QED BY <2>2, <2>3
<1>6. QED BY <1>1, <1>2, <1>3, <1>4, <1>5, NextCases

\* The log of a component is a sequence of sessions, each opened and closed
\* once, as long as the database and the probes answer and every thread ends
\* within its join.
THEOREM LifecycleCorrect ==
  ASSUME Undisturbed
  PROVE  Spec => []LifecyclePaired
<1>1. Init => LoneInv /\ LifeInv
  BY DEF Init, LoneInv, LifeInv, HandleOf, LogOf, RestOf, PairedWindow, Alive, Newest, None
<1>2. IInv /\ LoneInv /\ LifeInv /\ [Next]_vars => (LoneInv /\ LifeInv)'
  <2>1. ASSUME LoneInv, LifeInv, UNCHANGED vars PROVE (LoneInv /\ LifeInv)'
    BY <2>1 DEF vars, workerVars, dbVars, threadVars, supervisorVars, syncVars, LoneInv, LifeInv, HandleOf,
       LogOf, RestOf, Logged, PairedWindow, Alive, Open, HasHandle
  <2>2. QED BY <2>1, LoneStep, LifeStep
<1>3. LifeInv => LifecyclePaired
  BY DEF LifeInv, PairedWindow, LifecyclePaired
<1>4. QED BY <1>1, <1>2, <1>3, InductiveInvariant, PTL DEF Spec
=============================================================================
