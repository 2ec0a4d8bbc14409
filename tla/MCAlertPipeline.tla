--------------------------- MODULE MCAlertPipeline ---------------------------
(* Instances of AlertPipeline for TLC: one host, all of its sources.       *)
EXTENDS AlertPipeline

OneHost == {"h1"}
NoClusters == [h \in OneHost |-> NoCluster]
=============================================================================
