---------------------------- MODULE AlertPipeline ----------------------------
(***************************************************************************)
(* From an agent's collection cycle to the alert engine: agents publish    *)
(* what they collect (agent/src/scheduler.ts, agent/src/mqtt.ts), MQTT     *)
(* carries it at least once, the hub ingests it (hub/src/mqtt.ts,          *)
(* hub/src/ingest.ts) and an evaluation draws its triggered and resolved   *)
(* lists from what is stored (hub/src/alerts/evaluator.ts).  The lists     *)
(* that AlertEngine takes as inputs are computed here, for three types:    *)
(* an edge (container_down), a level (container_unhealthy) and a silence   *)
(* (host_offline).                                                         *)
(*                                                                         *)
(* The clock's unit is the resolution of collected_at and last_seen.       *)
(* Nothing is older than the retention, so pruneOldData has nothing to do, *)
(* the hub does not die inside an evaluation, and operators delete hosts   *)
(* and containers but do not silence: AlertEngine covers all three.        *)
(***************************************************************************)
EXTENDS AlertEngine

CONSTANTS
    Host,                 \* the hosts with an agent
    Container,            \* container names on a host
    Excluded,             \* those alerts.excludeContainers matches
    Checked,              \* the alert types whose check is enabled
    Reported,             \* the states a container can be reported in
    HostOfflineMinutes,   \* alerts.hostOfflineMinutes
    HostReportingMinutes, \* HOST_REPORTING_MINUTES
    MaxInFlight           \* bound on the batches on their way from one host

Down(h, c) == [type |-> "container_down", host |-> h, target |-> c]
Unhealthy(h, c) == [type |-> "container_unhealthy", host |-> h, target |-> c]
Offline(h) == [type |-> "host_offline", host |-> h, target |-> "system"]

\* The alerts evaluateAlerts can report.
PipelineKeys ==
    {k \in {Down(h, c) : h \in Host, c \in Container \ Excluded}
           \cup {Unhealthy(h, c) : h \in Host, c \in Container \ Excluded}
           \cup {Offline(h) : h \in Host} : k.type \in Checked}

\* A container's status, exit_code and health_status: running, running with a
\* failing health check, exited with an error (or dead), exited with code 0.
ContainerState == {"running", "unhealthy", "failed", "done"}

ASSUME PipelineAssumption ==
    /\ Key = PipelineKeys
    /\ Reported \subseteq ContainerState
    /\ HostOfflineMinutes \in Nat \ {0}
    /\ HostReportingMinutes \in Nat
    /\ RetentionMin >= MaxTime
    /\ MaxInFlight \in Nat

VARIABLES
    inFlight,  \* inFlight[h]: the batches published by h and not yet acknowledged
    snapshots, \* container_snapshots: the two newest rows of each container, newest first
    registry,  \* the containers table: per host, a row for every container ever seen
    lastSeen,  \* hosts.last_seen, NULL without a row
    outSince,  \* history: since when every evaluation has seen alert k's condition
    wellSince  \* history: since when no evaluation has, and one has seen it resolved

storeVars == <<inFlight, snapshots, registry, lastSeen>>
pipelineVars == <<storeVars, outSince, wellSince>>

\* One published collection: the containers present, with their states.
Batch == UNION {[S -> Reported] : S \in SUBSET Container}

Snapshot == [state : ContainerState, at : Nat]
RegistryRow == [last_seen : Nat, removed : BOOLEAN]

PipelineTypeOK ==
    /\ TypeOK
    /\ inFlight \in [Host -> Seq(Batch)]
    /\ \A h \in Host, c \in Container :
        /\ snapshots[h][c] \in Seq(Snapshot)
        /\ Len(snapshots[h][c]) <= 2
        /\ c \in DOMAIN registry[h] => registry[h][c] \in RegistryRow
    /\ lastSeen \in [Host -> Maybe(Nat)]
    /\ outSince \in [Key -> Maybe(Nat)]
    /\ wellSince \in [Key -> Maybe(Nat)]

PipelineInit ==
    /\ Init
    /\ inFlight = [h \in Host |-> << >>]
    /\ snapshots = [h \in Host |-> [c \in Container |-> << >>]]
    /\ registry = [h \in Host |-> [c \in {} |-> NULL]]
    /\ lastSeen = [h \in Host |-> NULL]
    /\ outSince = [k \in Key |-> Never]
    /\ wellSince = [k \in Key |-> Never]

-----------------------------------------------------------------------------
(* Agents and MQTT.                                                        *)

\* An MQTT handler or an agent acts: no evaluation is running, and none is started.
EngineUnchanged == ~running /\ UNCHANGED vars

HistoryUnchanged == UNCHANGED <<outSince, wellSince>>

\* runCollection publishes only what a successful listing returned.
Publish(h, b) ==
    /\ EngineUnchanged
    /\ Len(inFlight[h]) < MaxInFlight
    /\ inFlight' = [inFlight EXCEPT ![h] = Append(@, b)]
    /\ UNCHANGED <<snapshots, registry, lastSeen>> /\ HistoryUnchanged

\* The agent process restarts: what it had not handed to the broker is gone.
AgentRestart(h) ==
    /\ EngineUnchanged
    /\ \E n \in 0 .. Len(inFlight[h]) - 1 :
        inFlight' = [inFlight EXCEPT ![h] = SubSeq(@, 1, n)]
    /\ UNCHANGED <<snapshots, registry, lastSeen>> /\ HistoryUnchanged

\* ingestContainers: a row per container, the registry upserted, and containers
\* last seen in an earlier second marked as removed.
IngestContainers(h, b) ==
    /\ snapshots' = [snapshots EXCEPT ![h] = [c \in Container |->
            IF c \in DOMAIN b
            THEN <<[state |-> b[c], at |-> now]>> \o SubSeq(@[c], 1, Lesser(1, Len(@[c])))
            ELSE @[c]]]
    /\ registry' = [registry EXCEPT ![h] = [c \in DOMAIN @ \cup DOMAIN b |->
            IF c \in DOMAIN b THEN [last_seen |-> now, removed |-> FALSE]
            ELSE IF @[c].last_seen < now THEN [@[c] EXCEPT !.removed = TRUE]
            ELSE @[c]]]

\* handleCollection: the host is upserted; an empty listing is not ingested.
\* At most two batches bear the same collected_at (bound).
HandleCollection(h, b) ==
    /\ EngineUnchanged
    /\ \A c \in DOMAIN b : Len(snapshots[h][c]) = 2 => snapshots[h][c][2].at < now
    /\ lastSeen' = [lastSeen EXCEPT ![h] = now]
    /\ IF DOMAIN b = {} THEN UNCHANGED <<snapshots, registry>> ELSE IngestContainers(h, b)
    /\ HistoryUnchanged

Deliver(h) ==
    /\ inFlight[h] # << >>
    /\ HandleCollection(h, Head(inFlight[h]))
    /\ inFlight' = [inFlight EXCEPT ![h] = Tail(@)]

\* The acknowledgement is lost and the broker will send the message again.
DeliverUnacknowledged(h) ==
    /\ inFlight[h] # << >>
    /\ HandleCollection(h, Head(inFlight[h]))
    /\ UNCHANGED inFlight

-----------------------------------------------------------------------------
(* What an evaluation makes of the stored rows.                            *)

Rows(h, c) == snapshots[h][c]
Newest(h, c) == Rows(h, c)[1].state

IsUp(state) == state \in {"running", "unhealthy"}

\* checkContainerDown: the last two rows show it go from running to failed.
IsDown(h, c) ==
    /\ Len(Rows(h, c)) = 2
    /\ Newest(h, c) = "failed"
    /\ IsUp(Rows(h, c)[2].state)

\* collected_at = (SELECT MAX(collected_at) ... WHERE host_id = ?).
InNewestBatch(h, row) ==
    \A c \in Container : Rows(h, c) # << >> => Rows(h, c)[1].at <= row.at

\* checkContainerUnhealthy.
IsUnhealthy(h, c) ==
    \E n \in DOMAIN Rows(h, c) :
        Rows(h, c)[n].state = "unhealthy" /\ InNewestBatch(h, Rows(h, c)[n])

HasReportedWithin(h, minutes) == lastSeen[h] # NULL /\ lastSeen[h] >= now - minutes

\* checkHostOffline.
IsOffline(h) == lastSeen[h] # NULL /\ ~HasReportedWithin(h, HostOfflineMinutes)

\* evaluateAlerts: the check of each type.
Triggered ==
    {k \in Key : \/ k.type = "container_down" /\ IsDown(k.host, k.target)
                 \/ k.type = "container_unhealthy" /\ IsUnhealthy(k.host, k.target)
                 \/ k.type = "host_offline" /\ IsOffline(k.host)}

\* checkResolutions: the container is gone, and its host is there to say so.
IsStale(k) ==
    /\ k.type \in ContainerAlertTypes
    /\ HasReportedWithin(k.host, HostReportingMinutes)
    /\ k.target \in DOMAIN registry[k.host] => registry[k.host][k.target].removed

\* checkResolutions: the type's own test.
HasRecovered(k) ==
    \/ /\ k.type = "container_down"
       /\ Rows(k.host, k.target) # << >> /\ IsUp(Newest(k.host, k.target))
    \/ /\ k.type = "container_unhealthy"
       /\ Rows(k.host, k.target) # << >> /\ Newest(k.host, k.target) # "unhealthy"
    \/ /\ k.type = "host_offline"
       /\ HasReportedWithin(k.host, HostOfflineMinutes)

Resolved == {k \in Key : ActiveIds(k) # {} /\ (IsStale(k) \/ HasRecovered(k))}

\* The alert's condition still holds, whether or not its check reports it.
StillBad(k) ==
    \/ k.type = "container_down" /\ Rows(k.host, k.target) # << >> /\ Newest(k.host, k.target) = "failed"
    \/ k \in Triggered

Started(t) == IF t = Never THEN now ELSE t

Evaluate ==
    /\ StartCycle(Triggered, Resolved, {})
    /\ outSince' = [k \in Key |->
            IF k \in Resolved \/ ~StillBad(k) THEN Never
            ELSE IF k \in Triggered THEN Started(outSince[k])
            ELSE outSince[k]]
    /\ wellSince' = [k \in Key |->
            IF k \in Resolved THEN Started(wellSince[k])
            ELSE IF StillBad(k) THEN Never
            ELSE wellSince[k]]
    /\ UNCHANGED storeVars

-----------------------------------------------------------------------------
(* The handlers that also delete what was ingested.                        *)

Forgotten(K) ==
    /\ outSince' = [k \in Key |-> IF k \in K THEN Never ELSE outSince[k]]
    /\ wellSince' = [k \in Key |-> IF k \in K THEN Never ELSE wellSince[k]]

\* handleDeleteHost leaves the containers table alone.
RemoveHost(h) ==
    /\ lastSeen[h] # NULL
    /\ DeleteHost(h)
    /\ snapshots' = [snapshots EXCEPT ![h] = [c \in Container |-> << >>]]
    /\ lastSeen' = [lastSeen EXCEPT ![h] = NULL]
    /\ Forgotten({k \in Key : k.host = h})
    /\ UNCHANGED <<inFlight, registry>>

\* So does handleDeleteContainer.
RemoveContainer(h, c) ==
    /\ DeleteContainer(h, c)
    /\ snapshots' = [snapshots EXCEPT ![h][c] = << >>]
    /\ Forgotten({k \in Key : k.host = h /\ k.target = c})
    /\ UNCHANGED <<inFlight, registry, lastSeen>>

PipelineNext ==
    \/ \E h \in Host :
        \/ \E b \in Batch : Publish(h, b)
        \/ AgentRestart(h)
        \/ Deliver(h)
        \/ DeliverUnacknowledged(h)
        \/ RemoveHost(h)
        \/ \E c \in Container : RemoveContainer(h, c)
    \/ Evaluate
    \/ (Tick \/ Process) /\ UNCHANGED pipelineVars

PipelineSpec == PipelineInit /\ [][PipelineNext]_<<vars, pipelineVars>>

-----------------------------------------------------------------------------
(* Properties.                                                             *)

\* An evaluation has visited every item and not yet handed its mails over.
CycleDone == running /\ todoT = {} /\ todoR = {}

Lasted(t) == t # Never /\ now - t >= StabilizeMin

OutageIsMailed(K) == CycleDone => \A k \in K :
    Lasted(outSince[k]) =>
        \E i \in ActiveIds(k) :
            alert_state[i].notify_count > 0 \/ HeldByParent(k)

RecoveryCloses(K) == CycleDone =>
    \A k \in K : Lasted(wellSince[k]) => ActiveIds(k) = {}

DownKeys == {k \in Key : k.type = "container_down"}
LevelKeys == Key \ DownKeys
OfflineKeys == {k \in Key : k.type = "host_offline"}

\* An unhealthy container and a silent host are mailed about once their
\* condition has lasted for the window, whatever was delivered twice or late.
LevelOutageIsMailed == OutageIsMailed(LevelKeys)

\* A host that has been back for the window has no open alert.
HostRecoveryCloses == RecoveryCloses(OfflineKeys)

\* A resolution is only told when every evaluation of the window saw the
\* condition gone: no relapse in between was overlooked.
ResolutionMeansRecovery ==
    [][\A k \in LevelKeys : k \in todoR /\ k \notin todoR' /\ toSend' # toSend
            => Lasted(wellSince[k])]_<<vars, pipelineVars>>

\* The same of a container that went down and stays down.
DownOutageIsMailed == OutageIsMailed(DownKeys)

\* The alert of a container that was removed while down is closed.
DownRecoveryCloses == RecoveryCloses(DownKeys)
=============================================================================
