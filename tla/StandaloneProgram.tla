-------------------------- MODULE StandaloneProgram -------------------------
(***************************************************************************)
(* The program without a hub (src/): its collection cycle (scheduler.ts),  *)
(* what the cycle stores (ingest.ts), and the checks and the alert_state   *)
(* row of one alert (alerts/evaluator.ts).                                 *)
(*                                                                         *)
(* The cron starts a cycle every collectIntervalMinutes, which is the unit *)
(* of time, whether or not the last has ended: Docker lists at once, but   *)
(* the inspections and the statistics that follow take time, and a cycle   *)
(* may store its listing after a later one did.  From there on a cycle     *)
(* waits for nothing but its mails: it stores, reads the disks and         *)
(* evaluates in one step.  Suppression by a parent is in AlertEngine.      *)
(*                                                                         *)
(* An operator named ...Mutant is the definition below it with a plausible *)
(* mistake; nothing refers to it, a run that swaps it in must fail.        *)
(***************************************************************************)
EXTENDS Integers, Sequences

CONSTANTS
    Cycle,      \* the cycles that may be under way at once, a bound
    OfflineAge, \* hostOfflineMinutes and HOST_REPORTING_MINUTES, in intervals
    WindowAge   \* flapStabilizeMinutes, in intervals

ASSUME StandaloneAssumption == OfflineAge \in Nat /\ WindowAge \in Nat \ {0}

VARIABLES
    sort,    \* the type of the alert, fixed in a behaviour
    alone,   \* its container is the only one of the host, fixed too
    thing,   \* its container, disk or host as it is
    cycles,  \* what the cycles under way were told
    values,  \* the last two rows of the target, newest first
    current, \* the newest is of the newest batch
    present, \* containers.removed_at is NULL
    unheard, \* the age of hosts.last_seen
    open     \* the row of alert_state that is not resolved

standaloneVars == <<sort, alone, thing, cycles, values, current, present, unheard, open>>

Sorts == {"container_down", "high_cpu", "disk_full", "host_offline"}
OfContainer == {"container_down", "high_cpu"}

\* "silent": the Docker daemon does not answer.
Things(s) ==
    CASE s \in OfContainer -> {"good", "bad", "gone", "silent"}
      [] s = "disk_full" -> {"good", "bad"}
      [] s = "host_offline" -> {"good", "silent"}

Idle == "idle"
NotOpen == [count |-> -1]
NoAge == -1
Ages == 0 .. WindowAge
OpenRow == [count : {0, 1}, pending : Ages, notified : Ages, recovering : Ages \cup {NoAge}]

StandaloneTypeOK ==
    /\ sort \in Sorts /\ alone \in BOOLEAN /\ thing \in Things(sort)
    /\ cycles \in [Cycle -> Things(sort) \cup {Idle}]
    /\ Len(values) <= 2 /\ \A i \in DOMAIN values : values[i] \in {"good", "bad", "unmeasured"}
    /\ current \in BOOLEAN /\ present \in BOOLEAN
    /\ unheard \in 0 .. OfflineAge + 1
    /\ open \in OpenRow \cup {NotOpen}

StandaloneInit ==
    /\ sort \in Sorts /\ alone \in (IF sort = "high_cpu" THEN BOOLEAN ELSE {FALSE})
    /\ thing = "good"
    /\ cycles = [c \in Cycle |-> Idle]
    /\ values = << >> /\ current = FALSE /\ present = FALSE
    /\ unheard = 0 /\ open = NotOpen

-----------------------------------------------------------------------------
(* evaluateAlerts.                                                         *)

\* checkContainerDown.
DownTriggers(vs) == sort = "container_down" /\ Len(vs) = 2 /\ vs[1] = "bad" /\ vs[2] = "good"

\* checkHighCpu and checkHighMemory.
LevelTriggers(vs, newest) == sort = "high_cpu" /\ newest /\ vs # << >> /\ vs[1] = "bad"

\* checkDiskFull.
DiskTriggers(vs) == sort = "disk_full" /\ vs # << >> /\ vs[1] = "bad"

\* checkHostOffline.
HostTriggers(age) == sort = "host_offline" /\ age > OfflineAge

Triggers(vs, newest, age) ==
    DownTriggers(vs) \/ LevelTriggers(vs, newest) \/ DiskTriggers(vs) \/ HostTriggers(age)

\* A container that is no longer listed, while its host reports.
Vanished(there, age) == sort \in OfContainer /\ age <= OfflineAge /\ ~there

\* The newest row, for a level the newest with a value.
LastGood(vs) ==
    \E i \in DOMAIN vs : vs[i] = "good" /\ \A j \in 1 .. i - 1 : vs[j] = "unmeasured"

\* checkResolutions.
Resolves(vs, there, age) ==
    \/ Vanished(there, age)
    \/ sort # "host_offline" /\ LastGood(vs)
    \/ sort = "host_offline" /\ age <= OfflineAge

-----------------------------------------------------------------------------
(* processAlerts, for the one alert.                                       *)

\* Triggered: a first sighting waits for the window, a row that is there relapses.
Sighted(row) ==
    IF row = NotOpen THEN [count |-> 0, pending |-> 0, notified |-> 0, recovering |-> NoAge]
    ELSE IF row.count = 0 /\ row.pending >= WindowAge
    THEN [row EXCEPT !.count = 1, !.notified = 0, !.recovering = NoAge]
    ELSE [row EXCEPT !.recovering = NoAge]

\* A reminder, when the backoff gap is over.
Reminded(row) == IF row.count = 1 THEN {row, [row EXCEPT !.notified = 0]} ELSE {row}

\* Resolved: never mailed, or recovered for as long as the window.
Recovered(row) ==
    IF row.count = 0 THEN NotOpen
    ELSE IF row.recovering = NoAge THEN [row EXCEPT !.recovering = 0]
    ELSE IF row.recovering >= WindowAge /\ row.notified >= WindowAge THEN NotOpen ELSE row

\* The triggered list first; only rows that were open before it can be in the resolved one.
ProcessAlerts(triggered, resolved) ==
    LET sighted == IF triggered THEN Reminded(Sighted(open)) ELSE {open}
    IN  IF resolved /\ open # NotOpen THEN {Recovered(row) : row \in sighted} ELSE sighted

-----------------------------------------------------------------------------
(* The collection cycle.                                                   *)

Older(age, bound) == IF age < bound THEN age + 1 ELSE age

Aged(row) ==
    IF row = NotOpen THEN row
    ELSE [row EXCEPT !.pending = Older(@, WindowAge), !.notified = Older(@, WindowAge),
                     !.recovering = IF @ = NoAge THEN @ ELSE Older(@, WindowAge)]

\* The next tick of the cron: collectContainers, and disks that are read later.
StartCycle(c) ==
    /\ cycles[c] = Idle
    /\ cycles' = [cycles EXCEPT ![c] = thing]
    /\ unheard' = Older(unheard, OfflineAge + 1)
    /\ open' = Aged(open)
    /\ UNCHANGED <<sort, alone, thing, values, current, present>>

\* A statistics call that failed or ran into its timeout leaves the level out; the bound
\* is that this does not happen twice in a row.
Measured(told) ==
    IF sort = "high_cpu" /\ (values = << >> \/ values[1] # "unmeasured")
    THEN {told, "unmeasured"} ELSE {told}

LastTwo(v) == IF values = << >> THEN <<v>> ELSE <<v, values[1]>>

\* A container that is not in the batch stays in the registry.
StoredListingMutant(told) ==
    IF told \in {"good", "bad"}
    THEN {<<LastTwo(v), TRUE, TRUE>> : v \in Measured(told)}
    ELSE {<<values, alone /\ current, present>>}

\* ingestContainers: a batch that has it, or one that has not, which may be an empty one.
StoredListing(told) ==
    IF told \in {"good", "bad"}
    THEN {<<LastTwo(v), TRUE, TRUE>> : v \in Measured(told)}
    ELSE {<<values, alone /\ current, FALSE>>}

\* What the cycle leaves in the tables of the target.
Stored(told) ==
    CASE told = "silent" -> {<<values, current, present>>}
      [] sort \in OfContainer /\ told # "silent" -> StoredListing(told)
      [] sort = "disk_full" -> {<<LastTwo(thing), TRUE, FALSE>>}
      [] OTHER -> {<<values, current, present>>}

\* upsertHost, ingestDisk and runAlerts too.
FinishCycle(c) ==
    /\ cycles[c] # Idle
    /\ cycles' = [cycles EXCEPT ![c] = Idle]
    /\ \E s \in Stored(cycles[c]) : values' = s[1] /\ current' = s[2] /\ present' = s[3]
    /\ unheard' = IF cycles[c] = "silent" THEN unheard ELSE 0
    /\ open' \in ProcessAlerts(Triggers(values', current', unheard'),
                               Resolves(values', present', unheard'))
    /\ UNCHANGED <<sort, alone, thing>>

ThingChanges ==
    /\ \E t \in Things(sort) \ {thing} : thing' = t
    /\ UNCHANGED <<sort, alone, cycles, values, current, present, unheard, open>>

\* SIGTERM, or the end of the process: the tables are all that is kept.
Restart ==
    /\ \E c \in Cycle : cycles[c] # Idle
    /\ cycles' = [c \in Cycle |-> Idle]
    /\ UNCHANGED <<sort, alone, thing, values, current, present, unheard, open>>

CollectNext == \E c \in Cycle : StartCycle(c) \/ FinishCycle(c)

StandaloneNext == CollectNext \/ ThingChanges \/ Restart

\* The cron goes on, every await of a cycle ends, and not every cycle is cut off.
StandaloneFairness ==
    /\ WF_standaloneVars(\E c \in Cycle : StartCycle(c))
    /\ \A c \in Cycle : SF_standaloneVars(FinishCycle(c))

StandaloneSpec == StandaloneInit /\ [][StandaloneNext]_standaloneVars /\ StandaloneFairness

-----------------------------------------------------------------------------
(* Properties.                                                             *)

\* Rows of a removed container that keep its alert in the triggered list, where every
\* evaluation takes the pending resolution back: the last two are of its end, or it was
\* the only container and its last batch stays the newest (README, findings).
KeepsTriggering ==
    \/ sort = "container_down" /\ DownTriggers(values)
    \/ sort = "high_cpu" /\ alone /\ LevelTriggers(values, current)

IsOver ==
    \/ thing = "good"
    \/ thing = "gone" /\ ~KeepsTriggering

\* The cycles overlap, fail and store listings in the wrong order, and the triggered list
\* undoes what the resolved one has begun: still an alert whose cause is over for good is
\* closed for good (runAlerts of src/alerts/evaluator.ts after each runCollection).
AlertsClose == <>[]IsOver => <>[](open = NotOpen)

\* src/alerts/evaluator.ts:386 "auto-resolve any container-scoped alert whose target has
\* been removed".  (Fails: README, findings.)
RemovalCloses == <>[](thing = "gone") => <>[](open = NotOpen)
=============================================================================
