--------------------------- MODULE ClusterListings ---------------------------
(***************************************************************************)
(* What the cluster-wide and node-wide listings of the agents leave in the *)
(* hub's tables (agent/src/scheduler.ts, agent/src/collectors/,            *)
(* agent/src/mqtt.ts, hub/src/mqtt.ts, hub/src/ingest.ts,                  *)
(* hub/src/web/queries.ts).                                                *)
(*                                                                         *)
(* A cycle of an agent reads a listing, does other things, and publishes   *)
(* it; the hub writes it to a table of its own, each in its own way, and   *)
(* the pages and alerts read the table back.  A behaviour follows one of   *)
(* the listings.  Cycles may overlap, reads fail, messages get lost or     *)
(* come twice, and the leader that lists the cluster changes.              *)
(*                                                                         *)
(* An operator named ...Mutant is the definition below it with a plausible *)
(* mistake; nothing refers to it, a run that swaps it in must fail.        *)
(***************************************************************************)
EXTENDS Integers, FiniteSetsExt, Sequences, SequencesExt

CONSTANTS
    ClusterNode, \* nodes of the cluster, each with an agent
    Object,      \* what may be listed: volumes, pods, services, pools, guests, ...
    MaxChanges,  \* bound on the objects that come, move and go, and on changes of the leader
    MaxTroubles \* bound on failed reads, overlapping cycles, lost and doubled messages, ...

ASSUME ListingsAssumption == MaxChanges \in Nat /\ MaxTroubles \in Nat

VARIABLES
    topic,     \* the listing this behaviour follows
    grouped,   \* the agents are given a host group, which names the cluster
    place,     \* the node each object is on, or Nowhere
    publisher, \* the node whose elector says that it is the leader
    reads,     \* node -> what its cycles have read and not published
    mail,      \* node -> its messages the hub has not acknowledged
    table,     \* the hub's: owner -> object -> age of its row
    changes, troubles

listingVars == <<topic, grouped, place, publisher, reads, mail, table, changes, troubles>>

\* One agent lists them for the cluster.
LeaderListings ==
    {"pvs", "pvcs", "events", "ingresses", "services", "pending_pods", "pod_volumes", "workload_rollouts"}

\* About the guests of a Proxmox node.
GuestListings == {"pve_guest_snapshots", "pve_guest_backups"}

\* The agent of each Proxmox node lists them.
PveListings == {"pve_storage", "pve_zfs", "pve_cluster"} \cup GuestListings

\* Parts of the collection of any node.
CollectionParts == {"volumes", "node_conditions"}

Listings == LeaderListings \cup PveListings \cup CollectionParts

\* Listings of which the hub shows the newest batch of rows, whatever is in it.
ShownByBatch == {"pvs", "pvcs", "volumes"}

\* Listings the hub keeps a record of: nothing is taken from it because it is gone.
KeptRecords == {"events", "node_conditions"}

Nowhere == "nowhere"
Cluster == "cluster"
Owner == ClusterNode \cup {Cluster}

Gone == -2
Removed == -1  \* removed_at is set

\* Bound: a row not listed again for more batches than this is past the retention,
\* really seven days of batches or more.
Retained == 1
Age == Removed .. Retained

Message == [items : SUBSET Object, seen : SUBSET Object]

ListingsTypeOK ==
    /\ topic \in Listings /\ grouped \in BOOLEAN
    /\ place \in [Object -> ClusterNode \cup {Nowhere}]
    /\ publisher \in ClusterNode
    /\ \A n \in ClusterNode : reads[n] \in Seq(Message) /\ mail[n] \in Seq(Message)
    /\ table \in [Owner -> [Object -> Age \cup {Gone}]]
    /\ changes \in 0 .. MaxChanges /\ troubles \in 0 .. MaxTroubles

ListingsInit ==
    /\ topic \in Listings
    /\ grouped \in BOOLEAN
    /\ place \in [Object -> ClusterNode \cup {Nowhere}]
    /\ publisher \in ClusterNode
    /\ reads = [n \in ClusterNode |-> << >>]
    /\ mail = [n \in ClusterNode |-> << >>]
    /\ table = [w \in Owner |-> [o \in Object |-> Gone]]
    /\ changes = 0 /\ troubles = 0

-----------------------------------------------------------------------------
(* The agents.                                                             *)

\* Whose rows the agent of n lists: the cluster id is the host group, or made of the
\* leader's own name; corosync's status is the cluster's.
OwnerOf(n) ==
    IF topic = "pve_cluster" \/ (topic \in LeaderListings /\ grouped) THEN Cluster ELSE n

\* What there is to be listed by n.
Listed(n) == IF topic \in LeaderListings \cup {"pve_cluster"}
             THEN {o \in Object : place[o] # Nowhere}
             ELSE {o \in Object : place[o] = n}

\* An error of the collector of pools is an empty list of pools; guests that cannot be
\* looked into are left out.
FailedPools(present) == {{}}
FailedGuests(present) == SUBSET present \ {present}

\* The listings a failed read results in: most collectors throw and nothing is published,
\* volumes are published as the empty list they are initialised with.
FailedRead(present) ==
    CASE topic = "pve_zfs" -> FailedPools(present)
      [] topic \in GuestListings -> FailedGuests(present)
      [] topic = "volumes" -> {{}}
      [] OTHER -> {}

Trouble == troubles < MaxTroubles /\ troubles' = troubles + 1

Takes(n, items) ==
    reads' = [reads EXCEPT ![n] = Append(@, [items |-> items, seen |-> Listed(n)])]

\* Guests are looked into when there are any; the leader alone lists the cluster.
MayRead(n) ==
    /\ topic \in LeaderListings => n = publisher
    /\ topic \in GuestListings => Listed(n) # {}

\* A cycle reads the listing; a cycle that is slow does not keep the next from beginning.
ReadListing(n) ==
    /\ MayRead(n)
    /\ \/ reads[n] = << >> /\ UNCHANGED troubles
       \/ Len(reads[n]) = 1 /\ Trouble
    /\ Takes(n, Listed(n))
    /\ UNCHANGED <<topic, grouped, place, publisher, mail, table, changes>>

\* It fails, with what the collector makes of that.
FailToRead(n) ==
    /\ MayRead(n)
    /\ reads[n] = << >>
    /\ Trouble
    /\ \E items \in FailedRead(Listed(n)) : Takes(n, items)
    /\ UNCHANGED <<topic, grouped, place, publisher, mail, table, changes>>

IsPublished(items) == topic = "events" => items # {}

\* A cycle comes to publish what it has read; with two cycles it may be the later one.
\* Bound: one message of a node is under way; the broker keeps their order.
PublishListing(n) ==
    /\ mail[n] = << >>
    /\ \E i \in DOMAIN reads[n] :
        /\ mail' = IF IsPublished(reads[n][i].items)
                   THEN [mail EXCEPT ![n] = Append(@, reads[n][i])] ELSE mail
        /\ reads' = [reads EXCEPT ![n] = RemoveAt(@, i)]
    /\ UNCHANGED <<topic, grouped, place, publisher, table, changes, troubles>>

-----------------------------------------------------------------------------
(* The hub: rows is what one owner has in the table of a listing.  The row *)
(* of an object written by this batch has age 0.                           *)

Written(rows, items) == [o \in Object |-> IF o \in items THEN 0 ELSE rows[o]]

\* Rows this batch has not written, by time: those of the same instant look written.
Behind(rows, o) == rows[o] > 0

\* Written, and the others dropped or stamped.
Pruned(rows, items) ==
    [o \in Object |-> IF o \notin items /\ Behind(rows, o) THEN Gone ELSE Written(rows, items)[o]]

Stamped(rows, items) ==
    [o \in Object |-> IF o \notin items /\ Behind(rows, o) THEN Removed ELSE Written(rows, items)[o]]

\* Written, and the others dropped by name.
Rewritten(rows, items) == [o \in Object |-> IF o \in items THEN 0 ELSE Gone]

IngestPvs(rows, items) == Written(rows, items)
IngestPvcs(rows, items) == Written(rows, items)
IngestEvents(rows, items) == Written(rows, items)
IngestIngresses(rows, items) == Stamped(rows, items)
IngestServices(rows, items) == Stamped(rows, items)

\* Nothing to upsert, nothing to do.
IngestPendingPodsMutant(rows, items) == IF items = {} THEN rows ELSE Pruned(rows, items)
IngestPendingPods(rows, items) == Pruned(rows, items)

IngestPodVolumes(rows, items) == Pruned(rows, items)
IngestWorkloadRollouts(rows, items) == Pruned(rows, items)
IngestVolumes(rows, items) == Written(rows, items)
IngestNodeConditions(rows, items) == Written(rows, items)
IngestPveStorage(rows, items) == Written(rows, items)
IngestPveZfs(rows, items) == Rewritten(rows, items)
IngestPveCluster(rows, items) == Rewritten(rows, items)
IngestPveGuestSnapshots(rows, items) == Rewritten(rows, items)
IngestPveBackups(rows, items) == Rewritten(rows, items)

IngestListing(rows, items) ==
    CASE topic = "pvs" -> IngestPvs(rows, items)
      [] topic = "pvcs" -> IngestPvcs(rows, items)
      [] topic = "events" -> IngestEvents(rows, items)
      [] topic = "ingresses" -> IngestIngresses(rows, items)
      [] topic = "services" -> IngestServices(rows, items)
      [] topic = "pending_pods" -> IngestPendingPods(rows, items)
      [] topic = "pod_volumes" -> IngestPodVolumes(rows, items)
      [] topic = "workload_rollouts" -> IngestWorkloadRollouts(rows, items)
      [] topic = "volumes" -> IngestVolumes(rows, items)
      [] topic = "node_conditions" -> IngestNodeConditions(rows, items)
      [] topic = "pve_storage" -> IngestPveStorage(rows, items)
      [] topic = "pve_zfs" -> IngestPveZfs(rows, items)
      [] topic = "pve_cluster" -> IngestPveCluster(rows, items)
      [] topic = "pve_guest_snapshots" -> IngestPveGuestSnapshots(rows, items)
      [] topic = "pve_guest_backups" -> IngestPveBackups(rows, items)

\* Tables pruneOldData deletes old rows of; it forgets volume_snapshots.
PrunedByAge == {"pvs", "pvcs", "events", "pve_storage"}

\* Time passes between two batches of an owner; rows past the retention are deleted.
Aged(rows) == [o \in Object |->
    IF rows[o] < 0 THEN rows[o]
    ELSE IF rows[o] < Retained THEN rows[o] + 1
    ELSE IF topic \in PrunedByAge THEN Gone ELSE rows[o]]

\* The hub ingests the next message of n.
HandleListing(n) ==
    /\ mail[n] # << >>
    /\ table' = [table EXCEPT ![OwnerOf(n)] = IngestListing(Aged(@), Head(mail[n]).items)]
    /\ mail' = [mail EXCEPT ![n] = Tail(@)]
    /\ UNCHANGED <<topic, grouped, place, publisher, reads, changes, troubles>>

\* It does so in the instant of the batch before: the rows of both are equally new.
HandleAtOnce(n) ==
    /\ mail[n] # << >>
    /\ Trouble
    /\ table' = [table EXCEPT ![OwnerOf(n)] = IngestListing(@, Head(mail[n]).items)]
    /\ mail' = [mail EXCEPT ![n] = Tail(@)]
    /\ UNCHANGED <<topic, grouped, place, publisher, reads, changes>>

\* A second begins while the rows of a batch are inserted, each with the time of its own.
HandleAcrossSeconds(n) ==
    /\ topic \in ShownByBatch
    /\ mail[n] # << >>
    /\ Trouble
    /\ LET items == Head(mail[n]).items
       IN  \E early \in SUBSET items \ {{}, items} :
            table' = [table EXCEPT ![OwnerOf(n)] =
                IngestListing(Aged(IngestListing(Aged(@), early)), items \ early)]
    /\ mail' = [mail EXCEPT ![n] = Tail(@)]
    /\ UNCHANGED <<topic, grouped, place, publisher, reads, changes>>

\* The hub ingests a message, and the broker will send it again.
HandleTwice(n) ==
    /\ mail[n] # << >>
    /\ Trouble
    /\ table' = [table EXCEPT ![OwnerOf(n)] = IngestListing(Aged(@), Head(mail[n]).items)]
    /\ UNCHANGED <<topic, grouped, place, publisher, reads, mail, changes>>

\* The agent is restarted, or its client gives up, with messages unacknowledged.
LoseListing(n) ==
    /\ mail[n] # << >>
    /\ Trouble
    /\ mail' = [mail EXCEPT ![n] = << >>]
    /\ reads' = [reads EXCEPT ![n] = << >>]
    /\ UNCHANGED <<topic, grouped, place, publisher, table, changes>>

-----------------------------------------------------------------------------
(* The cluster.                                                            *)

Change == changes < MaxChanges /\ changes' = changes + 1

\* An object comes, moves to another node, or goes.
ObjectChanges ==
    /\ Change
    /\ \E o \in Object, p \in ClusterNode \cup {Nowhere} :
        /\ place[o] # p
        /\ place' = [place EXCEPT ![o] = p]
    /\ UNCHANGED <<topic, grouped, publisher, reads, mail, table, troubles>>

\* Another agent takes over; a cycle of the old leader goes on.
LeaderChanges ==
    /\ topic \in LeaderListings
    /\ Change
    /\ \E n \in ClusterNode \ {publisher} : publisher' = n
    /\ UNCHANGED <<topic, grouped, place, reads, mail, table, troubles>>

ListingsNext ==
    \/ \E n \in ClusterNode :
        \/ ReadListing(n) \/ FailToRead(n) \/ PublishListing(n)
        \/ HandleListing(n) \/ HandleAtOnce(n) \/ HandleAcrossSeconds(n) \/ HandleTwice(n)
        \/ LoseListing(n)
    \/ ObjectChanges \/ LeaderChanges

\* Cycles go on, what they read they publish, and the broker delivers.
ListingsFairness == \A n \in ClusterNode :
    /\ WF_listingVars(ReadListing(n))
    /\ WF_listingVars(PublishListing(n))
    /\ WF_listingVars(HandleListing(n))

ListingsSpec == ListingsInit /\ [][ListingsNext]_listingVars /\ ListingsFairness

-----------------------------------------------------------------------------
(* What the pages and the alerts see.                                      *)

Rows(w) == {o \in Object : table[w][o] >= 0}

\* The newest batch, or all rows.
Shown(w) ==
    IF topic \in ShownByBatch /\ Rows(w) # {}
    THEN LET newest == Min({table[w][o] : o \in Rows(w)})
         IN  {o \in Rows(w) : table[w][o] = newest}
    ELSE Rows(w)

\* A row goes from what is shown only when the listing the hub then ingests was read
\* while the object was not there: no failed read, lost leader, late or doubled message
\* closes the alerts about it.  Not so for batches that run into the next second, for
\* pools and for guests, whose failed reads look like empty listings; see the README.
\* (ingest.ts; the collectors; evaluator.ts resolves an alert whose row is gone.)
RemovalIsReal == [][topic \notin ShownByBatch \cup GuestListings \cup {"pve_zfs"} =>
    \A w \in Owner : \A o \in Shown(w) \ Shown(w)' :
        \E n \in ClusterNode : OwnerOf(n) = w /\ mail[n] # << >> /\ o \notin Head(mail[n]).seen]_listingVars

\* What is shown of an owner is what is there, with the exceptions of the code: records
\* are kept, a node without guests does not say so, and a node without volumes says it in
\* vain: the rows of its last volumes are the newest there are, and are never pruned.
IsShown(n) ==
    \/ topic \in KeptRecords /\ Listed(n) \subseteq Shown(OwnerOf(n))
    \/ topic \in GuestListings \cup {"volumes"} /\ Listed(n) = {}
    \/ Shown(OwnerOf(n)) = Listed(n)

\* Once nothing changes any more, the hub comes to show the cluster as it is, under the
\* id of the agent that leads, and keeps showing it: every table is corrected by later
\* batches whatever was lost, doubled, late or misread (ingest.ts "within one cycle").
ListingsSettle ==
    <>[](\A n \in ClusterNode : (topic \in LeaderListings => n = publisher) => IsShown(n))

\* What is shown goes when it is gone, and only then (mqtt.ts, ingest.ts).
ListingsAreTrue == RemovalIsReal /\ ListingsSettle
=============================================================================
