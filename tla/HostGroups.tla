----------------------------- MODULE HostGroups -----------------------------
(***************************************************************************)
(* The groups of hosts: what an agent reports (upsertHost of ingest.ts),   *)
(* what the user sets (web/handlers.ts), and the board in the browser on   *)
(* which hosts are dragged from column to column (HostsPage.tsx).          *)
(*                                                                         *)
(* The board is a copy: it is fetched every half a minute and after each   *)
(* request that succeeded.  It has columns of its own too, without hosts,  *)
(* of which the hub knows nothing.  One request of it is under way at a    *)
(* time, a bound.                                                          *)
(*                                                                         *)
(* An operator named ...Mutant is the definition below it with a plausible *)
(* mistake; nothing refers to it, a run that swaps it in must fail.        *)
(***************************************************************************)
EXTENDS Naturals, FiniteSets

CONSTANTS
    GroupHost,
    Group,    \* names
    MaxDoings \* edits of the user, of the agents' settings, and losses, a bound

\* A name is not empty, and not one of the marks the model uses.
ASSUME HostGroupsAssumption ==
    /\ MaxDoings \in Nat
    /\ Group \cap {"", "NULL", "no row"} = {}

VARIABLES
    setting, \* INSIGHTD_HOST_GROUP of each agent
    row,     \* the row of hosts
    left,    \* of each host, the groups it was taken out of and not put into since
    board,   \* the list of hosts the browser has
    fetched, \* the answer to the request for it, on its way
    columns, \* pendingGroups: columns that no host is in
    request, \* the request that is under way
    doings   \* counted up to the bound

groupVars == <<setting, row, left, board, fetched, columns, request, doings>>

NULL == "NULL"
Empty == ""          \* an override: in no group, by the user's will
NoRequest == [kind |-> "none"]
NoRow == [reported |-> "no row", override |-> NULL]

Rows == [reported : Group \cup {NULL}, override : Group \cup {NULL, Empty}]
Hidden == [group |-> "not listed", override |-> NULL]
Entries == [group : Group \cup {NULL, Empty}, override : Group \cup {NULL, Empty}]
Lists == [GroupHost -> Entries \cup {Hidden}]

Requests ==
    [kind : {"set"}, host : GroupHost, to : Group \cup {Empty}, read : BOOLEAN]
        \cup [kind : {"reset"}, host : GroupHost]
        \cup [kind : {"rename"}, from : Group, to : Group]
        \cup [kind : {"delete"}, from : Group]

GroupsTypeOK ==
    /\ setting \in [GroupHost -> Group \cup {NULL}]
    /\ row \in [GroupHost -> Rows \cup {NoRow}]
    /\ left \in [GroupHost -> SUBSET Group]
    /\ board \in Lists
    /\ fetched \subseteq Lists /\ Cardinality(fetched) <= 1
    /\ columns \subseteq Group
    /\ request = NoRequest \/ request \in Requests
    /\ doings \in 0 .. MaxDoings

GroupsInit ==
    /\ setting \in [GroupHost -> Group \cup {NULL}]
    /\ row = [h \in GroupHost |-> [reported |-> setting[h], override |-> NULL]]
    /\ left = [h \in GroupHost |-> {}]
    /\ board = [h \in GroupHost |-> Hidden]
    /\ fetched = {} /\ columns = {} /\ request = NoRequest /\ doings = 0

-----------------------------------------------------------------------------
(* The hub.                                                                *)

Do == doings < MaxDoings /\ doings' = doings + 1

\* getHosts: COALESCE(host_group_override, host_group).
Effective(r) == IF r.override # NULL THEN r.override ELSE r.reported

Listed == [h \in GroupHost |-> IF row[h] = NoRow THEN Hidden
                               ELSE [group |-> Effective(row[h]), override |-> row[h].override]]

\* upsertHost: a new row has no override.
ReportGroup(h) ==
    /\ row' = [row EXCEPT ![h] = [reported |-> setting[h],
                                  override |-> IF @ = NoRow THEN NULL ELSE @.override]]
    /\ row' # row
    /\ UNCHANGED <<setting, left, board, fetched, columns, request, doings>>

\* Hosts of the group by what they report or by their override; with an override of "" too.
InGroup(name) ==
    {h \in GroupHost : \/ row[h].override = name
                       \/ row[h].override \in {NULL, Empty} /\ row[h].reported = name}

Overridden(hosts, name) ==
    [h \in GroupHost |-> IF h \in hosts THEN [row[h] EXCEPT !.override = name] ELSE row[h]]

\* An UPDATE of the row, which may be gone.
SetOverride(h, name) == IF row[h] = NoRow THEN row ELSE Overridden({h}, name)

\* A name the host is put into is no longer one it has left.
Into(hosts, name) ==
    [h \in GroupHost |-> IF h \in hosts THEN left[h] \ {name} ELSE left[h]]

OutOf(hosts, name, into) ==
    [h \in GroupHost |-> IF h \in hosts THEN (left[h] \cup {name}) \ {into} ELSE left[h]]

\* An answer that is not an error invalidates the list: a fetch under way is dropped.
Answered == request' = NoRequest /\ fetched' = {}

\* handleSetGroup and its two awaits: the host is looked up, the body is read, the row is
\* updated.
SetChecked ==
    /\ request # NoRequest /\ request.kind = "set" /\ ~request.read
    /\ request' = IF row[request.host] = NoRow THEN NoRequest ELSE [request EXCEPT !.read = TRUE]
    /\ UNCHANGED <<setting, row, left, board, fetched, columns, doings>>

SetGroup ==
    /\ request # NoRequest /\ request.kind = "set" /\ request.read
    /\ row' = SetOverride(request.host, request.to)
    /\ left' = Into({request.host}, request.to)
    /\ Answered
    /\ UNCHANGED <<setting, board, columns, doings>>

ResetGroup ==
    /\ request # NoRequest /\ request.kind = "reset"
    /\ IF row[request.host] = NoRow
       THEN request' = NoRequest /\ UNCHANGED <<row, left, fetched>>
       ELSE /\ row' = Overridden({request.host}, NULL)
            /\ left' = [left EXCEPT ![request.host] = {}]
            /\ Answered
    /\ UNCHANGED <<setting, board, columns, doings>>

RenameGroup ==
    /\ request # NoRequest /\ request.kind = "rename"
    /\ row' = Overridden(InGroup(request.from), request.to)
    /\ left' = OutOf(InGroup(request.from), request.from, request.to)
    /\ Answered
    /\ UNCHANGED <<setting, board, columns, doings>>

\* The override is taken away instead of emptied.
DeletedGroupMutant(name) == Overridden(InGroup(name), NULL)

DeletedGroup(name) == Overridden(InGroup(name), Empty)

DeleteGroup ==
    /\ request # NoRequest /\ request.kind = "delete"
    /\ row' = DeletedGroup(request.from)
    /\ left' = OutOf(InGroup(request.from), request.from, NULL)
    /\ Answered
    /\ UNCHANGED <<setting, board, columns, doings>>

\* handleDeleteHost, and pruneOldData for a host that was long silent.
DropHost(h) ==
    /\ Do /\ row[h] # NoRow
    /\ row' = [row EXCEPT ![h] = NoRow]
    /\ left' = [left EXCEPT ![h] = {}]
    /\ UNCHANGED <<setting, board, fetched, columns, request>>

\* The agent is started with another setting.
Reconfigure(h) ==
    /\ Do
    /\ \E g \in (Group \cup {NULL}) \ {setting[h]} : setting' = [setting EXCEPT ![h] = g]
    /\ UNCHANGED <<row, left, board, fetched, columns, request>>

-----------------------------------------------------------------------------
(* The board.                                                              *)

\* effectiveGroup of the frontend.
Column(entry) ==
    CASE entry = Hidden -> NULL
      [] entry # Hidden /\ entry.override = Empty -> Empty
      [] entry # Hidden /\ entry.override \in Group -> entry.override
      [] OTHER -> IF entry.group \in Group THEN entry.group ELSE Empty

Columns == ({Column(board[h]) : h \in GroupHost} \cup columns \cup {Empty}) \ {NULL}

Fetch ==
    /\ fetched = {} /\ board # Listed
    /\ fetched' = {Listed}
    /\ UNCHANGED <<setting, row, left, board, columns, request, doings>>

Fetched ==
    /\ fetched # {}
    /\ board' \in fetched /\ fetched' = {}
    /\ UNCHANGED <<setting, row, left, columns, request, doings>>

Send(r) == request = NoRequest /\ request' = r

\* onDrop, and the editor of the host's page: the marker of a column is cleared before the
\* answer is there.
DragHost(h, column) ==
    /\ Do /\ board[h] # Hidden /\ column \in Columns
    /\ Send([kind |-> "set", host |-> h, to |-> column, read |-> FALSE])
    /\ columns' = columns \ {column}
    /\ UNCHANGED <<setting, row, left, board, fetched>>

ResetHost(h) ==
    /\ Do /\ board[h] # Hidden /\ board[h].override # NULL
    /\ Send([kind |-> "reset", host |-> h])
    /\ UNCHANGED <<setting, row, left, board, fetched, columns>>

AddColumn(name) ==
    /\ Do /\ name \notin Columns
    /\ columns' = columns \cup {name}
    /\ UNCHANGED <<setting, row, left, board, fetched, request>>

\* A column that has a marker is renamed or deleted on the board only.
RenameColumn(old, new) ==
    /\ Do /\ old \in Columns \ {Empty} /\ new # old
    /\ IF old \in columns
       THEN columns' = (columns \ {old}) \cup {new} /\ UNCHANGED request
       ELSE Send([kind |-> "rename", from |-> old, to |-> new]) /\ UNCHANGED columns
    /\ UNCHANGED <<setting, row, left, board, fetched>>

DeleteColumn(name) ==
    /\ Do /\ name \in Columns \ {Empty}
    /\ IF name \in columns
       THEN columns' = columns \ {name} /\ UNCHANGED request
       ELSE Send([kind |-> "delete", from |-> name]) /\ UNCHANGED columns
    /\ UNCHANGED <<setting, row, left, board, fetched>>

\* A request, or its answer, that the network loses: the hub may have done it.
RequestLost ==
    /\ Do /\ request # NoRequest /\ request' = NoRequest
    /\ UNCHANGED <<setting, row, left, board, fetched, columns>>

HandleRequest == SetChecked \/ SetGroup \/ ResetGroup \/ RenameGroup \/ DeleteGroup

GroupsNext ==
    \/ HandleRequest \/ RequestLost \/ Fetch \/ Fetched
    \/ \E h \in GroupHost :
        \/ ReportGroup(h) \/ DropHost(h) \/ Reconfigure(h) \/ ResetHost(h)
        \/ \E g \in Group \cup {Empty} : DragHost(h, g)
    \/ \E g \in Group : \/ AddColumn(g) \/ DeleteColumn(g)
                        \/ \E new \in Group : RenameColumn(g, new)

\* The agents report, the page stays open and fetches its list again and again.
GroupsFairness ==
    /\ WF_groupVars(HandleRequest)
    /\ WF_groupVars(Fetch) /\ WF_groupVars(Fetched)
    /\ \A h \in GroupHost : WF_groupVars(ReportGroup(h))

GroupsSpec == GroupsInit /\ [][GroupsNext]_groupVars /\ GroupsFairness

-----------------------------------------------------------------------------
(* Properties.                                                             *)

\* web/handlers.ts:130 "those hosts would silently snap back to the old name on the next
\* agent report": whatever the agents go on reporting and however late a request was read,
\* no host is shown in a group that was renamed or deleted under it, until the user puts it
\* there or takes its override back.
GroupsStayGone ==
    \A h \in GroupHost : row[h] # NoRow => Effective(row[h]) \notin left[h]

\* What the hub and the browser each make of the two columns comes to the same: a host that
\* stays in a group, or in none, is shown in that column for good (HostsPage.tsx).
BoardSettles ==
    \A h \in GroupHost : \A g \in Group \cup {Empty} :
        <>[](row[h] # NoRow /\ Effective(row[h]) \in IF g = Empty THEN {Empty, NULL} ELSE {g})
            => <>[](Column(board[h]) = g)

GroupsHold == []GroupsStayGone /\ BoardSettles

\* HostsPage.tsx:128 "Pending (no hosts yet)": a column with a marker has no hosts.
\* (Fails: README, findings.)
PendingIsEmpty == \A h \in GroupHost : Column(board[h]) \notin columns
=============================================================================
