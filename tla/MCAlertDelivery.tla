--------------------------- MODULE MCAlertDelivery ---------------------------
(* Instances of AlertDelivery for TLC.                                     *)
EXTENDS AlertDelivery

HostOffline == [type |-> "host_offline", host |-> "h1", target |-> "system"]
ContainerDown == [type |-> "container_down", host |-> "h1", target |-> "c1"]
HostAndContainer == {HostOffline, ContainerDown}

NoClusters == [h \in {"h1"} |-> NoCluster]

\* What the mute link writes, and a rule switched off.
MuteOrDisable == {[mail |-> FALSE], [enabled |-> FALSE]}
=============================================================================
