---------------------------- MODULE MCAlertEngine ----------------------------
(* Instances of AlertEngine for TLC.                                       *)
EXTENDS AlertEngine

HostOffline == [type |-> "host_offline", host |-> "h1", target |-> "system"]
NodeNotReady == [type |-> "node_not_ready", host |-> "h1", target |-> "node"]
ContainerDown == [type |-> "container_down", host |-> "h1", target |-> "c1"]
BackupOverdue == [type |-> "pve_backup_overdue", host |-> "h1", target |-> "100"]

HostAndContainer == {HostOffline, ContainerDown}
HostNodeBackup == {HostOffline, NodeNotReady, BackupOverdue}

NoClusters == [h \in {"h1"} |-> NoCluster]
=============================================================================
