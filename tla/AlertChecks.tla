----------------------------- MODULE AlertChecks ----------------------------
(***************************************************************************)
(* The trigger checks of evaluateAlerts and the resolution checks of       *)
(* checkResolutions (hub/src/alerts/evaluator.ts), one alert at a time:    *)
(* what the hub stored about its target, what the two lists make of it,    *)
(* and the alert they open and close.  endpoint_down and the certificates  *)
(* are in HttpMonitor, host_offline in AlertPipeline.                      *)
(*                                                                         *)
(* A unit of time is HOST_REPORTING_MINUTES, and a table gets at most one  *)
(* batch in a unit: no two batches have one collected_at.  A measured      *)
(* value is below, at or above its configured threshold of 2; 0 switches a *)
(* type off.                                                               *)
(*                                                                         *)
(* An operator named ...Mutant is the definition below it with a plausible *)
(* mistake; nothing refers to it, a run that swaps it in must fail.        *)
(***************************************************************************)
EXTENDS Integers, FiniteSetsExt, Sequences

CONSTANTS
    MaxStored, \* bound on the rows of the target
    CheckEnd   \* bound on the clock

ASSUME ChecksAssumption == MaxStored \in Nat \ {0} /\ CheckEnd \in Nat

VARIABLES
    kind,      \* the alert type, fixed in a behaviour
    stored,    \* the rows of its target, oldest first; a table that is upserted has one
    listed,    \* the newest listing of the target's host had it: its registry row is not removed
    newest,    \* MAX(collected_at), of the host's container rows or of all disk rows
    heard,     \* hosts.last_seen
    threshold, \* the configured one of the type
    splits,    \* the imagePullFailure setting
    alerted,   \* an open row of alert_state
    time

checkVars == <<kind, stored, listed, newest, heard, threshold, splits, alerted, time>>

ContainerLevels ==
    {"high_cpu", "high_memory", "container_memory_saturation", "container_cpu_saturation"}
HealthTypes == {"container_unhealthy", "image_pull_failure"}
ContainerTypes == ContainerLevels \cup HealthTypes \cup {"container_down", "restart_loop", "respawn_loop"}
HostLevels == {"high_host_cpu", "high_load", "low_host_memory"}
NodeConditions == {"node_pressure", "node_not_ready"}
PveConditions == {"pve_zfs_unhealthy", "pve_cluster_quorum_lost"}
Conditions == NodeConditions \cup PveConditions
WorkloadTypes == {"workload_unavailable", "workload_degraded", "workload_rollout_stuck"}
Upserted == Conditions \cup WorkloadTypes \cup {"pod_pending", "pve_backup_overdue"}
AlertKinds == ContainerTypes \cup HostLevels \cup Upserted \cup {"disk_full", "pve_storage_saturation"}

Null == 0
Levels == 1 .. 3
Desired == 2
RestartWindow == 2   \* 30 minutes
MinSpawns == 2       \* respawnMinSpawns
AgeLimit == 1        \* podPendingMinutes, workload...Minutes, pveBackupAgeWarnDays
DayLength == 2       \* bound on the units of a UTC day, really 96

\* What a report may say about the target.
Reports(t) ==
    CASE t \in ContainerLevels ->
            [running : {TRUE}, value : Levels \cup {Null}] \cup [running : {FALSE}, value : {Null}]
      [] t \in HealthTypes -> [health : {"healthy", "unhealthy", "unhealthy: image pull"}]
      [] t = "container_down" -> [status : {"running", "exited", "completed", "dead"}]
      [] t = "restart_loop" -> [restarts : 0 .. 2]
      [] t = "respawn_loop" -> [short : BOOLEAN]
      [] t \in HostLevels -> [value : Levels \cup {Null}]
      [] t = "disk_full" -> [value : Levels]
      [] t = "pve_storage_saturation" -> [active : BOOLEAN, value : Levels \cup {Null}]
      [] t \in Conditions -> [bad : BOOLEAN]
      [] t = "pod_pending" -> [pending : {TRUE}]
      [] t \in WorkloadTypes -> [ready : 0 .. Desired, updated : 0 .. Desired, exceeded : BOOLEAN]
      [] t = "pve_backup_overdue" -> [last : {-1}, status : {"NEVER"}]
                                     \cup [last : 0 .. time, status : {"OK", "FAILED"}]

Row == [at : Nat, says : UNION {Reports(t) : t \in AlertKinds}]

ChecksTypeOK ==
    /\ kind \in AlertKinds
    /\ Len(stored) <= MaxStored
    /\ \A i \in DOMAIN stored : /\ stored[i].at \in 0 .. time
                                /\ stored[i].says \in Reports(kind)
                                /\ \A j \in 1 .. i : stored[j].at <= stored[i].at
    /\ kind \in Upserted => Len(stored) <= 1
    /\ newest \in 0 .. time /\ heard \in 0 .. time /\ threshold \in {0, 2}
    /\ {listed, splits, alerted} \subseteq BOOLEAN

ChecksInit ==
    /\ kind \in AlertKinds
    /\ stored = << >> /\ listed = FALSE /\ newest = 0 /\ heard = 0
    /\ threshold = 2 /\ splits = TRUE /\ alerted = FALSE /\ time = 1

-----------------------------------------------------------------------------
(* The rows the queries select.                                            *)

Latest == stored[Len(stored)]
HasRow == stored # << >>

\* The newest row with a value.
Valued == {i \in DOMAIN stored : stored[i].says.value # Null}
LatestValue == stored[Max(Valued)].says.value

\* collected_at = (SELECT MAX(collected_at) ...)
InNewestBatch == HasRow /\ Latest.at = newest

\* At least 30 minutes old.
Older == {i \in DOMAIN stored : stored[i].at <= time - RestartWindow}
Restarts == Latest.says.restarts - stored[Max(Older)].says.restarts

\* column < datetime(...), as strings, of a column that the agent filled with toISOString():
\* on the day of the limit the T of the one is above the space of the other.
IsoBefore(t, limit) == t \div DayLength < limit \div DayLength

\* findActiveRespawnLoops: enough spawns in the window, 60 % of them short, in a container
\* that has been listed.
RespawnLoops ==
    LET recent == {i \in DOMAIN stored : ~IsoBefore(stored[i].at, time - 1)}
        short  == {i \in recent : stored[i].says.short}
    IN  newest > 0 /\ Cardinality(recent) >= MinSpawns /\ 10 * Cardinality(short) >= 6 * Cardinality(recent)

IsOld == Latest.at < time - AgeLimit

-----------------------------------------------------------------------------
(* evaluateAlerts.                                                         *)

DownTriggers ==
    /\ kind = "container_down" /\ Len(stored) >= 2
    /\ Latest.says.status \in {"exited", "dead"}
    /\ stored[Len(stored) - 1].says.status = "running"

RestartTriggers == kind = "restart_loop" /\ HasRow /\ Older # {} /\ Restarts >= threshold

RespawnTriggers == kind = "respawn_loop" /\ RespawnLoops

ContainerLevelTriggers ==
    /\ kind \in ContainerLevels /\ InNewestBatch
    /\ Latest.says.running /\ Latest.says.value > threshold

ImagePullTriggers ==
    kind = "image_pull_failure" /\ InNewestBatch /\ Latest.says.health = "unhealthy: image pull"

UnhealthyTriggers ==
    /\ kind = "container_unhealthy" /\ InNewestBatch
    /\ \/ Latest.says.health = "unhealthy"
       \/ Latest.says.health = "unhealthy: image pull" /\ ~splits

HostLevelTriggers ==
    /\ kind \in HostLevels /\ Valued # {}
    /\ IF kind = "low_host_memory" THEN LatestValue < threshold ELSE LatestValue > threshold

DiskTriggers == kind = "disk_full" /\ InNewestBatch /\ Latest.says.value > threshold

StorageTriggers ==
    kind = "pve_storage_saturation" /\ HasRow /\ Latest.says.active /\ Latest.says.value > threshold

NodeConditionTriggers == kind \in NodeConditions /\ HasRow /\ Latest.says.bad

PveConditionTriggers == kind \in PveConditions /\ HasRow /\ Latest.says.bad

PendingTriggers == kind = "pod_pending" /\ HasRow /\ IsOld

WorkloadTriggers ==
    /\ kind \in WorkloadTypes /\ HasRow
    /\ \/ kind = "workload_unavailable" /\ Latest.says.ready = 0 /\ IsOld
       \/ kind = "workload_degraded" /\ Latest.says.ready \in 1 .. Desired - 1 /\ IsOld
       \/ /\ kind = "workload_rollout_stuck" /\ Latest.says.ready > 0
          /\ Latest.says.exceeded \/ (Latest.says.updated < Desired /\ IsOld)

BackupTriggers ==
    /\ kind = "pve_backup_overdue" /\ HasRow
    /\ Latest.says.last # -1 /\ IsoBefore(Latest.says.last, time - AgeLimit)

\* These have no setting, or one the model leaves alone.
AlwaysOn == Conditions \cup WorkloadTypes \cup {"pod_pending"}

Triggers ==
    /\ threshold > 0 \/ kind \in AlwaysOn
    /\ \/ DownTriggers \/ RestartTriggers \/ RespawnTriggers \/ ContainerLevelTriggers
       \/ ImagePullTriggers \/ UnhealthyTriggers \/ HostLevelTriggers \/ DiskTriggers
       \/ StorageTriggers \/ NodeConditionTriggers \/ PveConditionTriggers
       \/ PendingTriggers \/ WorkloadTriggers \/ BackupTriggers

-----------------------------------------------------------------------------
(* checkResolutions.                                                       *)

IsHostReporting == heard >= time - 1

IsRemoved == kind \in ContainerTypes /\ IsHostReporting /\ ~listed

\* A value at the threshold is not good enough.
LevelResolvesMutant(value) == value < threshold

LevelResolves(value) == value <= threshold

DownResolves == kind = "container_down" /\ HasRow /\ Latest.says.status = "running"

RestartResolves == kind = "restart_loop" /\ HasRow /\ Older # {} /\ Restarts < threshold

RespawnResolves == kind = "respawn_loop" /\ ~RespawnLoops

ContainerLevelResolves ==
    kind \in ContainerLevels /\ Valued # {} /\ LevelResolves(LatestValue)

HealthResolves ==
    \/ kind = "container_unhealthy" /\ HasRow /\ Latest.says.health = "healthy"
    \/ kind = "image_pull_failure" /\ (HasRow => Latest.says.health # "unhealthy: image pull")

HostLevelResolves ==
    /\ kind \in HostLevels /\ Valued # {}
    /\ IF kind = "low_host_memory" THEN LatestValue >= threshold ELSE LevelResolves(LatestValue)

DiskResolves == kind = "disk_full" /\ HasRow /\ LevelResolves(Latest.says.value)

StorageResolves ==
    kind = "pve_storage_saturation" /\ (HasRow => LevelResolves(Latest.says.value))

NodeConditionResolves == kind \in NodeConditions /\ (HasRow => ~Latest.says.bad)

PveConditionResolves == kind \in PveConditions /\ (HasRow => ~Latest.says.bad)

PendingResolves == kind = "pod_pending" /\ ~HasRow

WorkloadResolves ==
    \/ kind \in WorkloadTypes /\ ~HasRow
    \/ kind = "workload_unavailable" /\ Latest.says.ready > 0
    \/ kind = "workload_degraded" /\ Latest.says.ready \in {0, Desired}
    \/ kind = "workload_rollout_stuck" /\ ~Latest.says.exceeded /\ Latest.says.updated >= Desired

BackupResolves ==
    /\ kind = "pve_backup_overdue"
    /\ HasRow => \/ Latest.says.status = "NEVER"
                 \/ /\ Latest.says.status = "OK"
                    /\ Latest.says.last >= time - (IF threshold > 0 THEN AgeLimit ELSE 0)

Resolves ==
    \/ IsRemoved
    \/ DownResolves \/ RestartResolves \/ RespawnResolves \/ ContainerLevelResolves
    \/ HealthResolves \/ HostLevelResolves \/ DiskResolves \/ StorageResolves
    \/ NodeConditionResolves \/ PveConditionResolves \/ PendingResolves \/ WorkloadResolves
    \/ BackupResolves

-----------------------------------------------------------------------------
(* What the hub ingests.                                                   *)

NextBatch == newest < time /\ heard < time

\* ON CONFLICT ... DO UPDATE keeps first_seen_at, which at is for the tables that have one.
Stored(report) ==
    IF kind \in Upserted
    THEN <<[at |-> IF HasRow THEN Latest.at ELSE time, says |-> report]>>
    ELSE Append(stored, [at |-> time, says |-> report])

Report ==
    /\ kind # "respawn_loop" /\ NextBatch
    /\ \E report \in Reports(kind) : stored' = Stored(report)
    /\ Len(stored') <= MaxStored
    /\ listed' = TRUE /\ newest' = time /\ heard' = time
    /\ UNCHANGED <<kind, threshold, splits, alerted, time>>

\* Process events do not touch the registry, container listings do not add spawns.
ReportSpawn ==
    /\ kind = "respawn_loop" /\ Len(stored) < MaxStored
    /\ \E report \in Reports(kind) : stored' = Stored(report)
    /\ UNCHANGED <<kind, listed, newest, heard, threshold, splits, alerted, time>>

ListTarget ==
    /\ kind = "respawn_loop" /\ NextBatch
    /\ listed' = TRUE /\ newest' = time /\ heard' = time
    /\ UNCHANGED <<kind, stored, threshold, splits, alerted, time>>

\* The target is gone from its host, or from the cluster's or the node's listing.
OmitTarget ==
    /\ NextBatch /\ (kind = "respawn_loop" => listed)
    /\ listed' = FALSE /\ heard' = time
    /\ stored' = IF kind \in Upserted THEN << >> ELSE stored
    /\ newest' = IF kind \in ContainerTypes \cup {"disk_full"} THEN time ELSE newest
    \* conditions are never deleted, nor is a cluster's status
    /\ kind \notin NodeConditions \cup {"pve_cluster_quorum_lost"}
    /\ UNCHANGED <<kind, threshold, splits, alerted, time>>

\* It was the only one: an empty listing is not ingested, but the host is seen.
OmitLast ==
    /\ kind \in ContainerTypes \cup {"disk_full"} /\ NextBatch
    /\ heard' = time
    /\ UNCHANGED <<kind, stored, listed, newest, threshold, splits, alerted, time>>

\* Another host reports its disks.
OtherHostReports ==
    /\ kind = "disk_full" /\ newest < time /\ newest' = time
    /\ UNCHANGED <<kind, stored, listed, heard, threshold, splits, alerted, time>>

\* pruneOldData.
PruneStored ==
    /\ kind \notin Upserted /\ HasRow /\ stored[1].at < time - RestartWindow
    /\ stored' = Tail(stored)
    /\ UNCHANGED <<kind, listed, newest, heard, threshold, splits, alerted, time>>

ChangeSettings ==
    /\ \/ threshold' = 2 - threshold /\ splits' = splits
       \/ splits' = ~splits /\ threshold' = threshold /\ kind = "container_unhealthy"
    /\ UNCHANGED <<kind, stored, listed, newest, heard, alerted, time>>

\* runAlerts, without a stabilisation window.
EvaluateOne ==
    /\ alerted' = IF alerted THEN ~Resolves ELSE Triggers
    /\ UNCHANGED <<kind, stored, listed, newest, heard, threshold, splits, time>>

Passes ==
    /\ time < CheckEnd /\ time' = time + 1
    /\ UNCHANGED <<kind, stored, listed, newest, heard, threshold, splits, alerted>>

ChecksNext ==
    \/ Report \/ ReportSpawn \/ ListTarget \/ OmitTarget \/ OmitLast \/ OtherHostReports
    \/ PruneStored \/ ChangeSettings \/ EvaluateOne \/ Passes

ChecksSpec == ChecksInit /\ [][ChecksNext]_checkVars

-----------------------------------------------------------------------------
(* Types whose trigger looks at rows of a container that may be removed    *)
(* while the resolution looks at the registry.                             *)
OutlivesTarget == {"container_down", "restart_loop", "respawn_loop"}

\* The two lists, which different queries fill, never hold the same alert: it would be
\* resolved and raised again in every evaluation.
ChecksAgree == alerted /\ kind \notin OutlivesTarget => ~(Triggers /\ Resolves)

\* The states in which the two queries leave an open alert as it is.
LeftAsIs ==
    \/ kind \in ContainerTypes /\ (~IsHostReporting \/ ~HasRow)
    \/ kind = "container_down" /\ Latest.says.status # "running"
    \/ kind = "restart_loop" /\ Older = {}
    \/ kind \in ContainerLevels /\ Latest.says.value = Null
    \/ kind = "container_unhealthy" /\ splits /\ Latest.says.health = "unhealthy: image pull"
    \/ kind \in HostLevels /\ Valued = {}
    \/ kind = "disk_full" /\ ~InNewestBatch
    \/ kind = "pve_storage_saturation" /\ ~Latest.says.active
    \/ kind \in WorkloadTypes \cup {"pod_pending"} /\ ~IsOld
    \/ kind = "workload_rollout_stuck" /\ Latest.says.ready = 0
    \/ /\ kind = "pve_backup_overdue"
       /\ \/ Latest.says.status = "FAILED"
          \/ Latest.says.last \div DayLength = (time - AgeLimit) \div DayLength

\* But for those, an open alert of a type that is switched on is either reported again or
\* resolved by each evaluation: no value falls between the two checks.
ChecksCover ==
    alerted /\ (threshold > 0 \/ kind \in AlwaysOn) => Triggers \/ Resolves \/ LeftAsIs

\* The check that raises an alert and the one that resolves it, written apart in
\* evaluator.ts, share out the states of what they look at.
ChecksPartition == ChecksAgree /\ ChecksCover

\* evaluator.ts:195 "Disk - check across all hosts": a disk that its host has just reported
\* over the threshold is in the list of triggered alerts.  (Fails: README, findings.)
FullDiskIsReported ==
    (kind = "disk_full" /\ threshold > 0 /\ HasRow /\ heard = Latest.at /\ listed)
        => (Latest.says.value > threshold => Triggers)

\* A respawn loop is one of the last windowMin minutes.  (Fails: README, findings.)
RespawnsAreRecent ==
    kind = "respawn_loop" /\ Triggers
        => Cardinality({i \in DOMAIN stored : stored[i].at >= time - 1}) >= MinSpawns
=============================================================================
