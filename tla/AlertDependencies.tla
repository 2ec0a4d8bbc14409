-------------------------- MODULE AlertDependencies --------------------------
(***************************************************************************)
(* Which alert may silence which: the static DEPS table and the scoping    *)
(* rules of hub/src/alerts/dependencies.ts, plus the order in which one    *)
(* evaluation reports the alert types (hub/src/alerts/evaluator.ts).       *)
(*                                                                         *)
(* An alert is identified by its key, the (alert_type, host_id, target)    *)
(* columns of its alert_state row: [type, host, target].                   *)
(***************************************************************************)
EXTENDS Integers

CONSTANTS
    ClusterOf,  \* hosts.proxmox_cluster_id, for every host_id in the hosts table
    NoCluster   \* the NULL of that column

WorkloadTypes == {"workload_unavailable", "workload_degraded", "workload_rollout_stuck"}

DEPS == <<
    [parent |-> "host_offline", scope |-> "host",
     children |-> {"container_down", "restart_loop", "high_cpu", "high_memory",
                   "container_memory_saturation", "container_cpu_saturation",
                   "container_unhealthy", "image_pull_failure",
                   "high_host_cpu", "low_host_memory", "high_load",
                   "node_pressure", "node_not_ready", "pod_pending"} \cup WorkloadTypes],
    [parent |-> "node_not_ready", scope |-> "host",
     children |-> {"container_down", "restart_loop", "container_unhealthy",
                   "image_pull_failure", "pod_pending"} \cup WorkloadTypes],
    [parent |-> "pve_cluster_quorum_lost", scope |-> "cluster",
     children |-> {"pve_zfs_unhealthy", "pve_storage_saturation", "pve_backup_overdue"}],
    [parent |-> "respawn_loop", scope |-> "container",
     children |-> {"high_cpu", "high_memory"}] >>

ParentTypes == {DEPS[d].parent : d \in DOMAIN DEPS}

(***************************************************************************)
(* The WHERE clauses of the three scopes.  The cluster scope joins both    *)
(* alerts' host_id with the hosts table, so an alert whose host_id is no   *)
(* host is in no cluster.                                                  *)
(***************************************************************************)
InScope(scope, p, c) ==
    \/ /\ scope = "host"
       /\ p.host = c.host
    \/ /\ scope = "container"
       /\ p.host = c.host
       /\ p.target = c.target
    \/ /\ scope = "cluster"
       /\ {p.host, c.host} \subseteq DOMAIN ClusterOf
       /\ ClusterOf[p.host] # NoCluster
       /\ ClusterOf[p.host] = ClusterOf[c.host]

\* Entry d of DEPS lets an alert p keep an alert c silent.
Suppresses(d, p, c) ==
    /\ p.type = DEPS[d].parent
    /\ c.type \in DEPS[d].children
    /\ InScope(DEPS[d].scope, p, c)

IsParentOf(p, c) == \E d \in DOMAIN DEPS : Suppresses(d, p, c)

(***************************************************************************)
(* The order in which evaluateAlerts pushes alerts onto `triggered`: one   *)
(* phase after the other, each phase host by host, and for one host the    *)
(* checks in sequence.  The certificate check reports its types together.  *)
(***************************************************************************)
EvaluationPhases == <<
    <<{"container_down"}, {"restart_loop"}, {"high_cpu"}, {"high_memory"},
      {"container_memory_saturation"}, {"container_cpu_saturation"}>>,
    <<{"high_host_cpu"}, {"low_host_memory"}, {"high_load"}, {"node_pressure"}, {"node_not_ready"}>>,
    <<{"host_offline"}>>,
    <<{"image_pull_failure"}, {"container_unhealthy"}>>,
    <<{"disk_full"}>>, <<{"respawn_loop"}>>, <<{"endpoint_down"}>>,
    <<{"cert_expired", "cert_invalid", "cert_expiring_soon"}>>,
    <<{"pod_pending"}>>,
    <<{"workload_unavailable"}>>, <<{"workload_degraded"}>>, <<{"workload_rollout_stuck"}>>,
    <<{"pve_zfs_unhealthy"}>>, <<{"pve_cluster_quorum_lost"}>>,
    <<{"pve_storage_saturation"}>>, <<{"pve_backup_overdue"}>> >>

Places == UNION {{p} \X DOMAIN EvaluationPhases[p] : p \in DOMAIN EvaluationPhases}

\* The phase that reports a type, and its place in it.
PlaceOf ==
    [type \in UNION {EvaluationPhases[x[1]][x[2]] : x \in Places} |->
        CHOOSE x \in Places : type \in EvaluationPhases[x[1]][x[2]]]

EvaluatedBefore(a, b) ==
    LET x == PlaceOf[a.type]
        y == PlaceOf[b.type]
    IN  x[1] < y[1] \/ (x[1] = y[1] /\ a.host = b.host /\ x[2] < y[2])

(***************************************************************************)
(* CONTAINER_ALERT_TYPES.  Their trigger checks read container_snapshots,  *)
(* checkResolutions asks the container registry first, and two batches may *)
(* carry the same collected_at: only these can be reported both as         *)
(* triggered and as resolved by one evaluation.                            *)
(***************************************************************************)
ContainerAlertTypes == {
    "container_down", "restart_loop", "respawn_loop", "high_cpu", "high_memory",
    "container_unhealthy", "image_pull_failure",
    "container_memory_saturation", "container_cpu_saturation"}

\* The types checkResolutions may resolve without a mail (isSilentResolution).
SilentlyResolvedTypes == {"pve_backup_overdue"}
=============================================================================
