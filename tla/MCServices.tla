----------------------------- MODULE MCServices -----------------------------
(* Services of the hub and the agent that share no state: a behaviour is one of
   any of them, chosen in the initial state, and the others stay where they
   begin.  One run checks them all; each is a specification of its own too. *)
EXTENDS MqttRequests, IdentityLink, AlertChecks, SchemaMigration,
        HttpMonitor, ClusterListings

VARIABLE part  \* the service that runs

CONSTANTS g1, g2, h1, e1, e2, n1, n2, v1, v2

(* Constants.                                                              *)

\* The agent's clock is half a minute behind.
OneBehind == -1
HalfMinutes == [k \in Kinds |-> IF k = "update" THEN 2 ELSE 1]

InTheFirst == [h \in {h1} |-> g1]

\* Two lxc guests of the same name, or two qemu guests.
TwoGuests ==
    {[g \in {g1, g2} |-> [type |-> t,
        uuid |-> IF g = g1 THEN 1 ELSE 2, name |-> 0, mac |-> IF g = g1 THEN 1 ELSE 2]]
        : t \in {"lxc", "qemu"}}

TwoEndpoints == <<e1, e2>>

-----------------------------------------------------------------------------
\* Bound: the requests are of one kind and one caller; the hub keeps a map of pending
\* promises per kind.
OneKind == \A q, r \in Ids :
    request[q].kind = request[r].kind /\ request[q].by = request[r].by

Parts == {"requests", "identity", "checks", "schema", "monitor", "listings"}

\* One of those initial states that differ in the names of nodes and objects only, or in
\* what nobody asks for: a host group, the node of what the cluster lists, a second object
\* in a table whose rows have nothing to do with each other.
FewListings ==
    /\ publisher = n1
    /\ topic \notin LeaderListings => grouped
    /\ place[v2] = Nowhere \/ topic \notin ShownByBatch \cup GuestListings
        => place[v1] = Nowhere
    /\ topic \in LeaderListings \cup {"pve_cluster"} => n2 \notin {place[o] : o \in Object}

\* Releases at the ends of the three groups of columns, around the blocks that do more than
\* add columns, and one in between.
SomeReleases == {0, 1, 2, 3, 7, 8, 20, 26, 27, 28, 29, 40, 42, 47, 50, 51, 52, 53, 54}

\* The services that do not run begin in one state.
ServicesInit ==
    /\ part \in Parts
    /\ RequestsInit
    /\ LinkInit
    /\ part # "identity" => /\ \A g \in Guest : at[g] = CHOOSE n \in Node : TRUE
                            /\ identity[g1].type = "lxc"
    /\ ChecksInit
    /\ part # "checks" => kind = "pod_pending"
    /\ SchemaInit
    /\ version \in IF part = "schema" THEN SomeReleases ELSE {0}
    /\ MonitorInit
    /\ part # "monitor" => \A e \in Endpoint : site[e].up
    /\ ListingsInit
    /\ FewListings
    /\ part # "listings" => topic = "pvs" /\ grouped /\ \A o \in Object : place[o] = Nowhere

ServicesNext ==
    /\ UNCHANGED part
    /\ \/ /\ part = "requests" /\ RequestsNext /\ OneKind'
          /\ UNCHANGED <<linkVars, checkVars, schemaVars, monitorVars,
                        listingVars>>
       \/ /\ part = "identity" /\ LinkNext
          /\ UNCHANGED <<requestVars, checkVars, schemaVars, monitorVars,
                        listingVars>>
       \/ /\ part = "checks" /\ ChecksNext
          /\ UNCHANGED <<requestVars, linkVars, schemaVars, monitorVars,
                        listingVars>>
       \/ /\ part = "schema" /\ SchemaNext
          /\ UNCHANGED <<requestVars, linkVars, checkVars, monitorVars,
                        listingVars>>
       \/ /\ part = "monitor" /\ MonitorNext
          /\ UNCHANGED <<requestVars, linkVars, checkVars, schemaVars,
                        listingVars>>
       \/ /\ part = "listings" /\ ListingsNext
          /\ UNCHANGED <<requestVars, linkVars, checkVars, schemaVars,
                        monitorVars>>

serviceVars == <<part, requestVars, linkVars, checkVars, schemaVars,
                 monitorVars, listingVars>>

\* The fairness of each service, while it is the one that runs.
ServicesFairness ==
    /\ WF_requestVars(part = "requests" /\ Tick)
    /\ WF_requestVars(part = "requests" /\ \E r \in Ids : TimeOut(r))
    /\ \A h \in Host :
        /\ WF_linkVars(part = "identity" /\ PublishHint(h))
        /\ WF_linkVars(part = "identity" /\ HandleHint(h))
        /\ WF_linkVars(part = "identity" /\ HandleHost(h))
    /\ \A n \in Node :
        /\ WF_linkVars(part = "identity" /\ ListGuests(n))
        /\ WF_linkVars(part = "identity" /\ HandleGuests(n))
        /\ \A g \in Guest : WF_linkVars(part = "identity" /\ PruneGuest(n, g))
    /\ WF_monitorVars(part = "monitor" /\ Minute)
    /\ WF_monitorVars(part = "monitor" /\ HoursPass)
    /\ WF_monitorVars(part = "monitor" /\ EvaluateMonitors)
    /\ \A i \in 1 .. MaxRounds : WF_monitorVars(part = "monitor" /\ RoundGoesOn(i))
    /\ \A n \in ClusterNode :
        /\ WF_listingVars(part = "listings" /\ ReadListing(n))
        /\ WF_listingVars(part = "listings" /\ PublishListing(n))
        /\ WF_listingVars(part = "listings" /\ HandleListing(n))

ServicesSpec == ServicesInit /\ [][ServicesNext]_serviceVars /\ ServicesFairness

-----------------------------------------------------------------------------
(* The service that runs keeps to its types; the others do not move.       *)
ServicesTypeOK ==
    /\ part = "requests" => RequestsTypeOK
    /\ part = "identity" => LinkTypeOK
    /\ part = "checks" => ChecksTypeOK
    /\ part = "schema" => SchemaTypeOK
    /\ part = "monitor" => MonitorTypeOK
    /\ part = "listings" => ListingsTypeOK

\* LinksSettle, of the behaviours in which hosts are linked at all: a host whose hint
\* reached the hub ends up linked to its own guest, and is not linked to another on the
\* way (mqtt.ts, matcher.ts).
LinksAreOwn == []NotLinkedToAnother /\ (part = "identity" => LinksSettle)
=============================================================================
