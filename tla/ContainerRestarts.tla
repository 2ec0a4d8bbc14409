-------------------------- MODULE ContainerRestarts --------------------------
(***************************************************************************)
(* How often a container was restarted, from Docker to the restart_loop    *)
(* alert: listContainers of the agent (agent/src/runtime/docker.ts) or     *)
(* collectContainers of the standalone program                             *)
(* (src/collectors/containers.ts) keep a count of their own per name,      *)
(* because Docker's RestartCount knows the restarts of its restart policy  *)
(* only and starts again at 0 for a container that is started by hand or   *)
(* recreated; checkRestartLoop (hub/src/alerts/evaluator.ts) compares the  *)
(* newest row with one that is half an hour old.                           *)
(*                                                                         *)
(* One container name.  Two collections do not overlap here.               *)
(*                                                                         *)
(* An operator named ...Mutant is the definition below it with a plausible *)
(* mistake; nothing refers to it, a run that swaps it in must fail.        *)
(***************************************************************************)
EXTENDS Integers

CONSTANTS
    MaxLives,  \* bound on the starts of the container
    MaxBreaks  \* bound on the failed inspections and the restarts of the collector

ASSUME RestartsAssumption == MaxLives \in Nat \ {0} /\ MaxBreaks \in Nat

VARIABLES
    collector,     \* the program that collects: "agent" or "standalone"
    container,     \* what Docker knows of the container
    restartState,  \* what the collector remembers of the name
    statusListed,  \* the status a collection under way has listed
    newestRow,     \* the newest row of container_snapshots
    olderRow,      \* the newest of the rows that are 30 minutes old
    found,         \* history: the life that the collector counted last
    breaks

restartVars == <<collector, container, restartState, statusListed, newestRow, olderRow, found, breaks>>

NoState == [restartCount |-> -1, lastStartedAt |-> 0, lastOomKilledAt |-> 0]
NoRow == [count |-> -1, oom |-> 0, life |-> 0, found |-> 0]

\* StartedAt and FinishedAt tell one life of the container from another; 0 is null.
Life == 0 .. MaxLives
RestartCounts == 0 .. 2 * MaxLives

RestartsTypeOK ==
    /\ collector \in {"agent", "standalone"}
    /\ container \in [status : {"absent", "running", "restarting", "exited"},
                      RestartCount : RestartCounts, StartedAt : Life, oomKilled : BOOLEAN]
    /\ restartState \in {NoState} \cup
        [restartCount : RestartCounts, lastStartedAt : Life, lastOomKilledAt : Life]
    /\ statusListed \in {"no", "absent", "running", "restarting", "exited"}
    /\ {newestRow, olderRow} \subseteq {NoRow} \cup [count : RestartCounts, oom : Life, life : Life, found : Life]
    /\ found \in Life
    /\ breaks \in 0 .. MaxBreaks

RestartsInit ==
    /\ collector \in {"agent", "standalone"}
    /\ container = [status |-> "running", RestartCount |-> 0, StartedAt |-> 1, oomKilled |-> FALSE]
    /\ restartState = NoState
    /\ statusListed = "no"
    /\ newestRow = NoRow /\ olderRow = NoRow
    /\ found = 0 /\ breaks = 0

-----------------------------------------------------------------------------
(* Docker.                                                                 *)

CollectorUnchanged == UNCHANGED <<collector, restartState, statusListed, newestRow, olderRow, found, breaks>>

\* The process ends and the restart policy waits to start it again, or does not.
ContainerEnds ==
    /\ container.status = "running"
    /\ \E s \in {"restarting", "exited"}, killed \in BOOLEAN :
        container' = [container EXCEPT !.status = s, !.oomKilled = killed]
    /\ CollectorUnchanged

PolicyRestarts ==
    /\ container.status = "restarting" /\ container.StartedAt < MaxLives
    /\ container' = [container EXCEPT !.status = "running", !.RestartCount = @ + 1,
                                      !.StartedAt = @ + 1, !.oomKilled = FALSE]
    /\ CollectorUnchanged

\* docker start, docker restart, or a container recreated under its name.
StartedByHand ==
    /\ container.StartedAt < MaxLives
    /\ container' = [status |-> "running", RestartCount |-> 0,
                     StartedAt |-> container.StartedAt + 1, oomKilled |-> FALSE]
    /\ CollectorUnchanged

ContainerRemoved ==
    /\ container.status # "absent"
    /\ container' = [container EXCEPT !.status = "absent"]
    /\ CollectorUnchanged

-----------------------------------------------------------------------------
(* The collector.                                                          *)

Prev == restartState

\* The count of an inspection that finds the container running.
CountOf(info) ==
    IF Prev = NoState \/ info.RestartCount > Prev.restartCount THEN info.RestartCount
    ELSE IF Prev.lastStartedAt # 0 /\ info.StartedAt # Prev.lastStartedAt
         THEN Prev.restartCount + 1
    ELSE Prev.restartCount

\* extractOomKilledAt: the time of the kill, while it is what ended the container last.
OomOf(info) == IF info.oomKilled THEN info.StartedAt ELSE 0
StickyOom(info) == IF OomOf(info) # 0 THEN OomOf(info) ELSE Prev.lastOomKilledAt

\* What the agent makes of an inspection, by the status that was listed before it.
AgentState(info) ==
    [restartCount |-> IF statusListed = "running" THEN CountOf(info)
                      ELSE IF Prev = NoState THEN 0 ELSE Prev.restartCount,
     lastStartedAt |-> IF statusListed = "running" THEN info.StartedAt ELSE Prev.lastStartedAt,
     lastOomKilledAt |-> StickyOom(info)]

\* The standalone program counts Docker's restarts in every status, and takes no note
\* of kills.  (Docker reports State.Running of a container that is being restarted.)
StandaloneState(info) ==
    [restartCount |-> IF info.status # "exited" \/ Prev = NoState \/ info.RestartCount > Prev.restartCount
                      THEN CountOf(info) ELSE Prev.restartCount,
     lastStartedAt |-> info.StartedAt,
     lastOomKilledAt |-> 0]

\* An inspection of a stopped container forgets when it was started.
InspectedMutant(info) ==
    IF collector = "standalone" THEN StandaloneState(info)
    ELSE [AgentState(info) EXCEPT !.lastStartedAt = IF statusListed = "running" THEN info.StartedAt ELSE 0]

Inspected(info) == IF collector = "agent" THEN AgentState(info) ELSE StandaloneState(info)

List ==
    /\ statusListed = "no"
    /\ statusListed' = container.status
    /\ UNCHANGED <<collector, container, restartState, newestRow, olderRow, found, breaks>>

\* The row is stored; rows come to be half an hour old.
StoreRow(row) ==
    /\ newestRow' = [row EXCEPT !.life = container.StartedAt, !.found = found']
    /\ olderRow' \in {olderRow, newestRow}

\* Which inspections count.
Counts == collector = "agent" => statusListed = "running"

\* A new container of the name has another id than the one listed: its inspection fails.
Inspect ==
    /\ statusListed \notin {"no", "absent"}
    /\ container.status # "absent"
    /\ restartState' = Inspected(container)
    /\ found' = IF Counts THEN container.StartedAt ELSE found
    /\ StoreRow([NoRow EXCEPT !.count = restartState'.restartCount, !.oom = restartState'.lastOomKilledAt])
    /\ statusListed' = "no"
    /\ UNCHANGED <<collector, container, breaks>>

\* The container is gone or Docker does not answer: the row repeats the last count.
InspectFails ==
    /\ statusListed \notin {"no", "absent"}
    /\ container.status = "absent" \/ breaks < MaxBreaks
    /\ breaks' = IF container.status = "absent" THEN breaks ELSE breaks + 1
    /\ UNCHANGED found
    /\ StoreRow([NoRow EXCEPT !.count = IF Prev = NoState THEN 0 ELSE Prev.restartCount,
                              !.oom = Prev.lastOomKilledAt])
    /\ statusListed' = "no"
    /\ UNCHANGED <<collector, container, restartState>>

\* A name that is not listed is forgotten.
ListedNoMore ==
    /\ statusListed = "absent"
    /\ restartState' = NoState /\ found' = 0
    /\ statusListed' = "no"
    /\ UNCHANGED <<collector, container, newestRow, olderRow, breaks>>

CollectorRestarts ==
    /\ breaks < MaxBreaks /\ breaks' = breaks + 1
    /\ restartState' = NoState /\ found' = 0
    /\ statusListed' = "no"
    /\ UNCHANGED <<collector, container, newestRow, olderRow>>

RestartsNext ==
    \/ ContainerEnds \/ PolicyRestarts \/ StartedByHand \/ ContainerRemoved
    \/ List \/ Inspect \/ InspectFails \/ ListedNoMore \/ CollectorRestarts

RestartsSpec == RestartsInit /\ [][RestartsNext]_restartVars

-----------------------------------------------------------------------------
(* checkRestartLoop.                                                       *)

RestartsShown == newestRow.count - olderRow.count

\* The mail says "restarted n times in 30 minutes".  If the collector had counted
\* before it stored the older row, n is never more than the starts between what the two
\* rows last counted, whatever mixture of crashes, manual starts and
\* recreations happened between two looks, and although inspections fail and the collector
\* is started again.
RestartsAreReal ==
    olderRow.found # 0 /\ newestRow.found # 0 => RestartsShown <= newestRow.found - olderRow.found

\* Nor is a restart overlooked for good by the agent: if it finds the container in another
\* life than the last that it counted, the count goes up.
RestartsAreSeen ==
    [][Inspect /\ collector = "agent" /\ Counts /\ found \notin {0, container.StartedAt}
        => newestRow'.count > newestRow.count]_restartVars

\* Restarts told were restarts, and those there were are told (docker.ts, evaluator.ts:307).
RestartsAreTold == []RestartsAreReal /\ RestartsAreSeen

\* RestartsAreReal of an older row whose collector had not counted yet.
\* (Fails: README, findings.)
FirstRowsCount == olderRow # NoRow /\ olderRow.found = 0 => RestartsShown <= newestRow.life - olderRow.life

\* docker.ts:31 "still reports the signal until it exits cleanly".  (Fails: README, findings.)
OomIsOfLastExit ==
    [][Inspect /\ collector = "agent" /\ container.status = "exited" /\ ~container.oomKilled
        => newestRow'.oom = 0]_restartVars

\* RestartsAreSeen, of the standalone program.  (Fails: README, findings.)
StandaloneSees ==
    [][Inspect /\ collector = "standalone" /\ found \notin {0, container.StartedAt}
        => newestRow'.count > newestRow.count]_restartVars
=============================================================================
