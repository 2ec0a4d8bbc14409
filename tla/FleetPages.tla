----------------------------- MODULE FleetPages -----------------------------
(***************************************************************************)
(* What the pages tell of one container (web/queries.ts): the dashboard    *)
(* counts it, the page of its host lists it, its own page shows its newest *)
(* row, a timeline of hours and its incidents, and the feed of its host    *)
(* its starts and stops.  Each is a query of its own over                  *)
(* container_snapshots, with a window, a previous row and a status of its  *)
(* own, and they are shown side by side.                                   *)
(*                                                                         *)
(* Time is a tick, in which there is at most one collection; rows are      *)
(* known by their age, and a page is viewed just after a tick.  Of the     *)
(* rows that are older than the window only the newest is kept, nothing    *)
(* looks at the others.                                                    *)
(*                                                                         *)
(* An operator named ...Mutant is the definition below it with a plausible *)
(* mistake; nothing refers to it, a run that swaps it in must fail.        *)
(***************************************************************************)
EXTENDS Integers, FiniteSetsExt

CONSTANTS
    Window, \* the days of the page, in ticks
    Hour    \* in ticks

ASSUME FleetPagesAssumption == Hour \in Nat \ {0} /\ Window \in Nat /\ Window % Hour = 0

VARIABLES
    rows,     \* container_snapshots of the window, by age
    before,   \* the newest of them that is older
    registry, \* the container in the table containers
    hostRow   \* the host is in the table hosts

pageVars == <<rows, before, registry, hostRow>>

\* "completed" is exited with the code 0, "failed" with another one.
Says == {"running", "completed", "failed", "paused"}
None == "none"
RowAges == 0 .. Window

PagesTypeOK ==
    /\ rows \in [RowAges -> Says \cup {None}] /\ before \in Says \cup {None}
    /\ registry \in {"unknown", "present", "removed"}
    /\ hostRow \in BOOLEAN

PagesInit ==
    /\ rows = [a \in RowAges |-> None] /\ before = None
    /\ registry = "unknown" /\ hostRow = FALSE

-----------------------------------------------------------------------------
(* What is collected.                                                      *)

\* The container's row in a batch, after upsertHost.
Listing(said) ==
    /\ rows[0] = None
    /\ rows' = [rows EXCEPT ![0] = said]
    /\ registry' = "present" /\ hostRow' = TRUE
    /\ UNCHANGED before

\* A batch of the host's other containers.
ListingOfOthers ==
    /\ rows[0] = None
    /\ registry' = IF registry = "present" THEN "removed" ELSE registry
    /\ hostRow' = TRUE
    /\ UNCHANGED <<rows, before>>

TickPasses ==
    /\ rows' = [a \in RowAges |-> IF a = 0 THEN None ELSE rows[a - 1]]
    /\ before' = IF rows[Window] = None THEN before ELSE rows[Window]
    /\ UNCHANGED <<registry, hostRow>>

\* pruneOldData, of what is older than any window.
Prune ==
    /\ before' = None
    /\ registry' = IF registry = "removed" /\ rows = [a \in RowAges |-> None] THEN "unknown"
                   ELSE registry
    /\ hostRow' = (hostRow /\ rows # [a \in RowAges |-> None])
    /\ UNCHANGED rows

\* handleDeleteHost, which leaves the registry, cut off before the last statement or not;
\* handleRemoveContainer deletes the rows alone.
DeleteRows ==
    /\ rows' = [a \in RowAges |-> None] /\ before' = None
    /\ hostRow' \in {hostRow, FALSE}
    /\ UNCHANGED registry

PagesNext ==
    \/ \E said \in Says : Listing(said)
    \/ ListingOfOthers \/ TickPasses \/ Prune \/ DeleteRows

PagesSpec == PagesInit /\ [][PagesNext]_pageVars

-----------------------------------------------------------------------------
(* The newest row.                                                         *)

Status(said) == IF said \in {"completed", "failed"} THEN "exited" ELSE said

InWindow == {a \in RowAges : rows[a] # None}

Latest == IF InWindow = {} THEN before ELSE rows[Min(InWindow)]

\* getLatestContainers, the page of the host.
OnHostPage == IF registry = "present" /\ hostRow /\ Latest # None THEN {Latest} ELSE {}

\* getLatestContainer, its own page.
OnOwnPage == IF hostRow /\ Latest # None THEN {Latest} ELSE {}

\* getDashboard: the containers that are counted, and those counted as down.
Counted == IF registry = "present" /\ Latest # None THEN 1 ELSE 0
CountedRunning == IF Counted = 1 /\ Latest = "running" THEN 1 ELSE 0
CountedCompleted == IF Counted = 1 /\ Latest = "completed" THEN 1 ELSE 0
CountedDown == Counted - CountedRunning - CountedCompleted

-----------------------------------------------------------------------------
(* The timeline, getUptimeTimeline and getContainerDowntime.               *)

Slots == 0 .. Window \div Hour - 1

InSlot(i) == {a \in InWindow : Window - (i + 1) * Hour <= a /\ a < Window - i * Hour}

Slot(i) ==
    LET said == {rows[a] : a \in InSlot(i)}
    IN  CASE said = {} -> None
          [] said = {"running"} -> "up"
          [] said = {"completed"} -> "completed"
          [] OTHER -> "down"

-----------------------------------------------------------------------------
(* Incidents, getContainerDowntime.                                        *)

IsUp(a) == rows[a] = "running"
Earlier(a, among) == {b \in among : b > a}

\* The row before a row, in the window or not.
Previous(a) ==
    IF Earlier(a, InWindow) = {} THEN before ELSE rows[Min(Earlier(a, InWindow))]

Changes ==
    {a \in InWindow : Previous(a) # None /\ Status(rows[a]) # Status(Previous(a))}

\* Every change to another status than running begins one.
IncidentsMutant == {a \in Changes : ~IsUp(a)}

\* A change to another status than running begins an incident, unless one is open.
Incidents ==
    {a \in Changes : /\ ~IsUp(a)
                     /\ Earlier(a, Changes) = {} \/ IsUp(Min(Earlier(a, Changes)))}

Ongoing == -1

\* The next change to running ends it.
EndOf(start) ==
    LET ends == {a \in Changes : a < start /\ IsUp(a)}
    IN  IF ends = {} THEN Ongoing ELSE Max(ends)

\* The ages between its start and its end.
During(start) == EndOf(start) + 1 .. start

-----------------------------------------------------------------------------
(* The feed, getEvents: LAG sees the rows of the window alone.             *)

Events ==
    {a \in InWindow : /\ Earlier(a, InWindow) # {}
                      /\ Status(rows[a]) # Status(rows[Min(Earlier(a, InWindow))])}

StopEvents == {a \in Events : ~IsUp(a)}
StartEvents == {a \in Events : IsUp(a)}

-----------------------------------------------------------------------------
(* Properties.                                                             *)

\* The dashboard counts what the page of the host lists, with its own page's status.
CountsAgree ==
    /\ Counted = Cardinality(OnHostPage) /\ OnHostPage \subseteq OnOwnPage
    /\ CountedDown = Cardinality(OnHostPage \cap {"failed", "paused"})

\* Incidents do not overlap; every stop of the feed is in one, and every one begins with a
\* stop of the feed, but for the first row of the window; nor does one end without a start.
FeedAgrees ==
    /\ \A i, j \in Incidents : i # j => During(i) \cap During(j) = {}
    /\ \A a \in StopEvents : \E i \in Incidents : a \in During(i)
    /\ \A i \in Incidents : i \in StopEvents \/ Earlier(i, InWindow) = {}
    /\ \A i \in Incidents : EndOf(i) # Ongoing => EndOf(i) \in StartEvents

\* No hour with a row of an incident is shown as up, and an hour that is shown as down has
\* a row of an incident, unless the container was not running when the window began.
TimelineAgrees ==
    /\ \A i \in Incidents : \A s \in Slots :
        InSlot(s) \cap During(i) # {} => Slot(s) \in {"down", "completed"}
    /\ \A s \in Slots : Slot(s) = "down" =>
        \/ \E i \in Incidents : InSlot(s) \cap During(i) # {}
        \/ \E a \in InSlot(s) : ~IsUp(a) /\ \A b \in Earlier(a, InWindow) : ~IsUp(b)

\* What is shown side by side does not contradict itself, whatever came and went.
PagesAgree == CountsAgree /\ FeedAgrees /\ TimelineAgrees

\* web/queries.ts:1401 "Don't paint a red bar - it cleanly completed": a container that ran
\* and completed is not shown as down.  (Fails: README, findings.)
CompletionIsNotDown ==
    ({rows[a] : a \in InWindow} \cup {before}) \subseteq {"running", "completed", None}
        => \A s \in Slots : Slot(s) # "down"
=============================================================================
