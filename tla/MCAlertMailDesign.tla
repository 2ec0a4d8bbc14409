-------------------------- MODULE MCAlertMailDesign --------------------------
(* Instances of AlertMailDesign for TLC.                                   *)
EXTENDS AlertMailDesign

OfflineAndDown ==
    {[type |-> "host_offline", host |-> "h1", target |-> "system"],
     [type |-> "container_down", host |-> "h1", target |-> "c1"]}

OneCluster == [h \in {"h1"} |-> "pve"]
=============================================================================
