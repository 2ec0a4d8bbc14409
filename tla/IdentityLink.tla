---------------------------- MODULE IdentityLink ----------------------------
(***************************************************************************)
(* Which Proxmox guest a host is: identity hints, the inventories of the   *)
(* nodes, the match and the manual override (hub/src/identity/matcher.ts,  *)
(* hub/src/mqtt.ts, agent/src/index.ts, agent/src/scheduler.ts).           *)
(*                                                                         *)
(* The agent inside a guest publishes a retained hint; the agents of the   *)
(* nodes publish what they list; both reach the hub in any order.  The hub *)
(* keeps the hints in memory and matches them again after each inventory.  *)
(*                                                                         *)
(* An optional value is a set of at most one element.                      *)
(*                                                                         *)
(* An operator named ...Mutant is the definition below it with a plausible *)
(* mistake; nothing refers to it, a run that swaps it in must fail.        *)
(***************************************************************************)
EXTENDS Integers, FiniteSets

CONSTANTS
    Node, Guest, \* Proxmox nodes, and guests; a guest stands for its vmid too
    Host,        \* insightd hosts whose agent runs inside a guest
    Inside,      \* the guest each of them runs in
    Identities,  \* what the listings, and the guests' own agents, may say of them
    MaxUpsets    \* bound on the migrations, overrides, deletions and restarts

\* uuid tells qemu guests apart, name and mac lxc guests.
IdentityHint == [type : {"qemu", "lxc"}, uuid : Nat, name : Nat, mac : Nat]

ASSUME IdentityAssumption ==
    /\ Inside \in [Host -> Guest] /\ IsFiniteSet(Guest)
    /\ Identities \subseteq [Guest -> IdentityHint]
    /\ MaxUpsets \in Nat

VARIABLES
    identity,     \* what they say
    at,           \* the node each guest is on
    listing,      \* what a node's agent listed and the hub has not ingested
    guestRows,    \* node and vmid of the snapshots in the table
    onWay,        \* hosts whose hint is on its way to the hub
    retained,     \* hosts whose hint the broker retains
    pendingHints, \* hosts whose hint the hub remembers
    knownHosts,   \* hosts with a row in the hosts table
    override,     \* the node and vmid an agent is configured with
    everSet,      \* history: hosts whose agent has been configured with them
    link,         \* hosts.proxmox_node and proxmox_vmid
    upsets        \* how many there were

linkVars == <<identity, at, listing, guestRows, onWay, retained, pendingHints, knownHosts, override,
              everSet, link, upsets>>

Place == Node \X Guest

IsOption(S, T) == S \subseteq T /\ Cardinality(S) <= 1

LinkTypeOK ==
    /\ identity \in Identities
    /\ at \in [Guest -> Node]
    /\ \A n \in Node : IsOption(listing[n], SUBSET Guest)
    /\ guestRows \subseteq Place
    /\ onWay \subseteq retained /\ retained \subseteq Host /\ pendingHints \subseteq retained
    /\ knownHosts \subseteq Host
    /\ \A h \in Host : IsOption(override[h], Place) /\ IsOption(link[h], Place)
    /\ \A h \in Host \ knownHosts : link[h] = {}
    /\ everSet \subseteq Host /\ upsets \in Nat

LinkInit ==
    /\ identity \in Identities
    /\ at \in [Guest -> Node]
    /\ listing = [n \in Node |-> {}]
    /\ guestRows = {}
    /\ onWay = {} /\ retained = {} /\ pendingHints = {}
    /\ knownHosts = {}
    /\ override = [h \in Host |-> {}] /\ everSet = {}
    /\ link = [h \in Host |-> {}]
    /\ upsets = 0

-----------------------------------------------------------------------------
(* Matching.                                                               *)

HintOf(h) == identity[Inside[h]]

SameName(place, hint) == identity[place[2]].name = hint.name

SameMac(place, hint) == identity[place[2]].mac = hint.mac

\* Of the hint's type, with its uuid, or with its name or its mac.
Candidates(rows, hint) == {place \in rows :
    /\ identity[place[2]].type = hint.type
    /\ IF hint.type = "qemu" THEN identity[place[2]].uuid = hint.uuid
       ELSE SameName(place, hint) \/ SameMac(place, hint)}

Single(S) == IF Cardinality(S) = 1 THEN S ELSE {}

\* matchIdentityHint: the only candidate, or the only one with both name and mac.
Match(rows, hint) ==
    LET S == Candidates(rows, hint)
    IN  IF hint.type = "qemu" \/ Cardinality(S) = 1 THEN Single(S)
        ELSE Single({place \in S : SameName(place, hint) /\ SameMac(place, hint)})

\* handleIdentityHint for each of H: linked, or cleared; no row, nothing to update.
Matched(H, rows) == [h \in Host |->
    IF h \in H \cap knownHosts THEN Match(rows, HintOf(h)) ELSE link[h]]

-----------------------------------------------------------------------------
(* The agents.                                                             *)

Upset == upsets < MaxUpsets /\ upsets' = upsets + 1

\* An agent inside a guest starts without an override and publishes its hint, retained.
PublishHint(h) ==
    /\ override[h] = {}
    /\ h \notin retained
    /\ retained' = retained \cup {h}
    /\ onWay' = onWay \cup {h}
    /\ UNCHANGED <<identity, at, listing, guestRows, pendingHints, knownHosts, override, everSet, link, upsets>>

\* The agent of a node lists its guests.
ListGuests(n) ==
    /\ listing[n] = {}
    /\ listing' = [listing EXCEPT ![n] = {{g \in Guest : at[g] = n}}]
    /\ UNCHANGED <<identity, at, guestRows, onWay, retained, pendingHints, knownHosts, override, everSet, link, upsets>>

\* The agent restarts with INSIGHTD_PROXMOX_NODE and _VMID, or without them again.
Configure(h) ==
    /\ Upset
    /\ override' = [override EXCEPT ![h] =
        IF @ = {} THEN {<<at[Inside[h]], Inside[h]>>} ELSE {}]
    /\ everSet' = everSet \cup {h}
    /\ UNCHANGED <<identity, at, listing, guestRows, onWay, retained, pendingHints, knownHosts, link>>

Migrate(g, n) ==
    /\ at[g] # n
    /\ Upset
    /\ at' = [at EXCEPT ![g] = n]
    /\ UNCHANGED <<identity, listing, guestRows, onWay, retained, pendingHints, knownHosts, override, everSet, link>>

-----------------------------------------------------------------------------
(* The hub.                                                                *)

\* The hint is forgotten once it has been matched.
RememberIdentityHintMutant(h) == pendingHints

RememberIdentityHint(h) == pendingHints \cup {h}

\* The message identity-hint.
HandleHint(h) ==
    /\ h \in onWay
    /\ onWay' = onWay \ {h}
    /\ pendingHints' = RememberIdentityHint(h)
    /\ link' = Matched({h}, guestRows)
    /\ UNCHANGED <<identity, at, listing, guestRows, retained, knownHosts, override, everSet, upsets>>

\* After a batch with guests in it.
RematchAllPendingHints(guests, rows) == IF guests = {} THEN link ELSE Matched(pendingHints, rows)

\* handleCollection of a node: every guest listed gets a newer row.
HandleGuests(n) ==
    \E guests \in listing[n] :
        LET rows == guestRows \cup ({n} \X guests)
        IN  /\ listing' = [listing EXCEPT ![n] = {}]
            /\ guestRows' = rows
            /\ link' = RematchAllPendingHints(guests, rows)
            /\ UNCHANGED <<identity, at, onWay, retained, pendingHints, knownHosts, override, everSet, upsets>>

\* handleCollection of the host: upsertHost, and the link of its label if it has one.
HandleHost(h) ==
    /\ knownHosts' = knownHosts \cup {h}
    /\ link' = IF override[h] = {} THEN link ELSE [link EXCEPT ![h] = override[h]]
    /\ UNCHANGED <<identity, at, listing, guestRows, onWay, retained, pendingHints, override, everSet, upsets>>

\* Retention: no row of that guest from that node has been written for long.
PruneGuest(n, g) ==
    /\ <<n, g>> \in guestRows
    /\ at[g] # n /\ \A guests \in listing[n] : g \notin guests
    /\ guestRows' = guestRows \ {<<n, g>>}
    /\ UNCHANGED <<identity, at, listing, onWay, retained, pendingHints, knownHosts, override, everSet, link, upsets>>

\* The hints in memory are gone; the broker delivers the retained ones again.
HubRestartsHere ==
    /\ Upset
    /\ pendingHints' = {}
    /\ onWay' = retained
    /\ UNCHANGED <<identity, at, listing, guestRows, retained, knownHosts, override, everSet, link>>

DeleteHostRow(h) ==
    /\ h \in knownHosts
    /\ Upset
    /\ knownHosts' = knownHosts \ {h}
    /\ link' = [link EXCEPT ![h] = {}]
    /\ UNCHANGED <<identity, at, listing, guestRows, onWay, retained, pendingHints, override, everSet>>

LinkNext ==
    \/ \E h \in Host :
        PublishHint(h) \/ Configure(h) \/ HandleHint(h) \/ HandleHost(h) \/ DeleteHostRow(h)
    \/ \E n \in Node : ListGuests(n) \/ HandleGuests(n)
    \/ \E g \in Guest, n \in Node : Migrate(g, n) \/ PruneGuest(n, g)
    \/ HubRestartsHere

\* The agents collect on a cron and publish with QoS 1, the nightly job prunes; what
\* reached the broker reaches the hub.
LinkFairness ==
    /\ \A h \in Host : WF_linkVars(PublishHint(h)) /\ WF_linkVars(HandleHint(h)) /\ WF_linkVars(HandleHost(h))
    /\ \A n \in Node : WF_linkVars(ListGuests(n)) /\ WF_linkVars(HandleGuests(n))
    /\ \A n \in Node, g \in Guest : WF_linkVars(PruneGuest(n, g))

LinkSpec == LinkInit /\ [][LinkNext]_linkVars /\ LinkFairness

-----------------------------------------------------------------------------
(* Properties.                                                             *)

Own(h) == <<at[Inside[h]], Inside[h]>>

\* Once a row of its own guest is in the table, a host whose hint the hub remembers
\* and whose link was never set by hand is not linked to another guest, though their
\* names are the same.
NotLinkedToAnother == \A h \in pendingHints \ everSet : \A place \in link[h] :
    (\E n \in Node : <<n, Inside[h]>> \in guestRows) => place[2] = Inside[h]

\* However the hint, the host's first collection and the inventories are ordered, and
\* whatever moved or restarted, an unconfigured host ends up linked to its own guest
\* where that is.
LinksSettle == \A h \in Host : <>[](override[h] = {} => link[h] = {Own(h)})

\* Only its own collection changes the link of a host that is configured by hand: its
\* agent skips the automatic path.  (Fails: README, findings.)
OverrideHolds == [][\A h \in Host :
    override[h] # {} /\ link[h] = override[h] /\ h \in knownHosts' =>
        link'[h] = link[h]]_linkVars
=============================================================================
