--------------------------- MODULE AlertMailDesign ---------------------------
(***************************************************************************)
(* What docs/superpowers/specs/2026-05-11-strategic-alert-mail-design.md   *)
(* says of root causes and their dependents, as properties of AlertEngine. *)
(***************************************************************************)
EXTENDS AlertEngine

\* processAlerts queues a mail of this kind about k.
Queues(k, kind) ==
    \E n \in {Len(toSend) + 1} :
        /\ Len(toSend') = n
        /\ toSend'[n].key = k
        /\ toSend'[n].kind = kind

\* The alert of row i is explained by a parent that is still active.
HasActiveSuppressor(i) ==
    LET p == alert_state[i].suppressed_by IN p \in Ids /\ IsActive(p)

\* A child stamped by an active parent is not told resolved on its own: the
\* parent's aftermath mail reports it.
AftermathReplacesResolution ==
    [][\A k \in Key : Queues(k, "resolution")
            => \A i \in ActiveIds(k) : ~HasActiveSuppressor(i)]_vars

\* checkPveClusterQuorumLost reports the alert under the cluster's name, which
\* ingestPveClusterStatus also writes to proxmox_cluster_id of the cluster's hosts.
QuorumLost(cluster) ==
    [type |-> "pve_cluster_quorum_lost", host |-> cluster, target |-> "quorum"]

\* While a cluster has lost its quorum, what its hosts report of their pools
\* and backups is not announced.  (Fails: README, findings.)
QuorumLossSilencesCluster ==
    [][\A k \in Key, h \in DOMAIN ClusterOf :
        /\ k.host = h
        /\ \E d \in DOMAIN DEPS : DEPS[d].scope = "cluster" /\ k.type \in DEPS[d].children
        /\ ActiveIds(QuorumLost(ClusterOf[h])) # {}
        => ~Queues(k, "alert")]_vars
=============================================================================
