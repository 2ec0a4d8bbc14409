----------------------------- MODULE AlertEngine -----------------------------
(***************************************************************************)
(* The alert engine of the hub: the alert_state table, processAlerts       *)
(* (hub/src/alerts/evaluator.ts) and the handlers and jobs that change the *)
(* table between two evaluations (hub/src/web/handlers.ts, db/schema.ts).  *)
(*                                                                         *)
(* One evaluation hands processAlerts a list of triggered and a list of    *)
(* resolved alerts.  processAlerts is synchronous, so no handler runs      *)
(* inside it, but each of its statements commits on its own: the model     *)
(* processes one list item per step, and the hub may crash between two.    *)
(* The lists themselves are inputs here; AlertPipeline computes them.      *)
(*                                                                         *)
(* An operator named ...Mutant is the definition below it with a plausible *)
(* mistake; nothing refers to it, a run that swaps it in must fail.        *)
(***************************************************************************)
EXTENDS Integers, Sequences, FiniteSets, ReminderBackoff, AlertDependencies

CONSTANTS
    Key,                \* the alerts [type, host, target] that may fire
    StabilizeMin,       \* alerts.flapStabilizeMinutes
    SuppressDependents, \* alerts.suppressDependents
    SilenceMinutes,     \* the durations an operator silences an alert for
    RetentionMin,       \* pruneOldData keeps resolved alerts this long
    MaxTime,            \* bound on the clock
    MaxRows             \* bound on the rows ever inserted

ASSUME EngineAssumption ==
    /\ StabilizeMin \in Nat
    /\ SuppressDependents \in BOOLEAN
    /\ SilenceMinutes \subseteq Nat
    /\ RetentionMin \in Nat
    /\ MaxTime \in Nat
    /\ MaxRows \in Nat

VARIABLES
    now,         \* the clock, in minutes
    due,         \* the alert cron has fired and its evaluation has not begun
    alert_state, \* the table: row id -> row
    nextId,      \* the AUTOINCREMENT sequence of alert_state
    running,     \* processAlerts is between two list items
    trig,        \* the triggered list of this evaluation, as a set
    res,         \* its resolved list, as a set
    silent,      \* those of res flagged isSilentResolution
    todoT,       \* triggered items processAlerts has still to visit
    todoR,       \* resolved items it has still to visit
    stamped,     \* the triggered parent whose children are already stamped
    toSend,      \* the mails processAlerts has queued in this evaluation
    silencing,   \* rows a silence request has looked up and not yet updated
    lastMail     \* history: when a mail about a key was last queued

cycleVars == <<running, trig, res, silent, todoT, todoR, stamped>>
vars == <<now, due, alert_state, nextId, cycleVars, toSend, silencing, lastMail>>

NULL == -1
Never == NULL
\* silenced_until = '9999-12-31 23:59:59'.
Forever == MaxTime + 1

Maybe(S) == S \cup {NULL}

AlertRow ==
    [key : Key,
     notify_count : Nat,
     last_notified : Nat,
     pending_since : Nat,
     resolved_pending_since : Maybe(Nat),
     resolved_at : Maybe(Nat),
     silenced_until : Maybe(Nat),
     suppressed_by : Maybe(Nat)]

Mail == [key : Key, kind : {"alert", "resolution"}, reminder : Nat]

\* Ids are below the AUTOINCREMENT sequence n.
Table(t, n) ==
    /\ DOMAIN t \subseteq 1 .. n - 1
    /\ t \in [DOMAIN t -> AlertRow]

TypeOK ==
    /\ now \in Nat
    /\ due \in BOOLEAN
    /\ nextId \in Nat \ {0}
    /\ Table(alert_state, nextId)
    /\ running \in BOOLEAN
    /\ trig \in SUBSET Key /\ res \in SUBSET Key
    /\ silent \in SUBSET res
    /\ todoT \in SUBSET trig /\ todoR \in SUBSET res
    /\ stamped \in SUBSET todoT
    /\ toSend \in Seq(Mail)
    /\ silencing \in SUBSET Nat
    /\ lastMail \in [Key -> Maybe(Nat)]

Init ==
    /\ now = 0
    /\ due = TRUE   \* minute 0 is the first cron tick
    /\ alert_state = [i \in {} |-> NULL]
    /\ nextId = 1
    /\ running = FALSE
    /\ trig = {} /\ res = {} /\ silent = {}
    /\ todoT = {} /\ todoR = {} /\ stamped = {}
    /\ toSend = << >>
    /\ silencing = {}
    /\ lastMail = [k \in Key |-> Never]

-----------------------------------------------------------------------------
(* Reading the table.                                                      *)

Ids == DOMAIN alert_state

IsActive(i) == alert_state[i].resolved_at = NULL

\* The lookup sees mailed rows only.
ActiveIdsMutant(k) ==
    {i \in Ids : alert_state[i].key = k /\ IsActive(i) /\ alert_state[i].notify_count > 0}

\* SELECT ... WHERE host_id = ? AND alert_type = ? AND target = ? AND resolved_at IS NULL
ActiveIds(k) == {i \in Ids : alert_state[i].key = k /\ IsActive(i)}

\* The active rows entry d of DEPS lets silence k.
SuppressorIds(d, k) == {i \in Ids : IsActive(i) /\ Suppresses(d, alert_state[i].key, k)}

\* findActiveParent returns one of these: the first entry of DEPS with a match decides.
FindActiveParent(k) ==
    UNION {SuppressorIds(d, k) : d \in {e \in DOMAIN DEPS : \A f \in 1 .. e - 1 : SuppressorIds(f, k) = {}}}

Parents(k) == IF SuppressDependents THEN FindActiveParent(k) ELSE {}

IsSilenced(i) == alert_state[i].silenced_until > now
IsStabilized(i) == now - alert_state[i].pending_since >= StabilizeMin

\* The gap does not grow with the mails already sent.
ReminderDueMutant(i) == now - alert_state[i].last_notified >= CooldownMin

IsReminderDue(i) ==
    now - alert_state[i].last_notified >= RequiredReminderGap(alert_state[i].notify_count)

(* Writing the table.                                                      *)

NewRow(k, parent) ==
    [key |-> k, notify_count |-> 0, last_notified |-> now, pending_since |-> now,
     resolved_pending_since |-> NULL, resolved_at |-> NULL, silenced_until |-> NULL,
     suppressed_by |-> parent]

Inserted(row) ==
    [i \in Ids \cup {nextId} |-> IF i = nextId THEN row ELSE alert_state[i]]

Removed(S) == [i \in Ids \ S |-> alert_state[i]]

\* Resolved rows are stamped too.
ResolvedStampMutant(table, p, id) ==
    [i \in DOMAIN table |->
        IF IsParentOf(p, table[i].key) /\ table[i].suppressed_by = NULL
        THEN [table[i] EXCEPT !.suppressed_by = id]
        ELSE table[i]]

\* Every open alert of the host is stamped, the parent's own among them.
HostStampMutant(table, p, id) ==
    [i \in DOMAIN table |->
        IF table[i].key.host = p.host /\ table[i].resolved_at = NULL
        THEN [table[i] EXCEPT !.suppressed_by = id]
        ELSE table[i]]

\* UPDATE ... SET suppressed_by_state_id = id WHERE ... IS NULL AND resolved_at IS NULL,
\* for every row findActiveChildren returns for the parent alert p.
StampedChildren(table, p, id) ==
    [i \in DOMAIN table |->
        IF /\ IsParentOf(p, table[i].key)
           /\ table[i].suppressed_by = NULL
           /\ table[i].resolved_at = NULL
        THEN [table[i] EXCEPT !.suppressed_by = id]
        ELSE table[i]]

QueueMail(k, kind, reminder) ==
    /\ toSend' = Append(toSend, [key |-> k, kind |-> kind, reminder |-> reminder])
    /\ lastMail' = [lastMail EXCEPT ![k] = now]

NoMail == UNCHANGED <<toSend, lastMail>>

-----------------------------------------------------------------------------
(* Time and the evaluation cycle.                                          *)

\* A minute passes; processAlerts takes no time.
Tick ==
    /\ ~running
    /\ now < MaxTime
    /\ now' = now + 1
    /\ due' = TRUE
    /\ UNCHANGED <<alert_state, nextId, cycleVars, toSend, silencing, lastMail>>

\* runAlerts: evaluateAlerts reports T as triggered and R as resolved (Q of them silently).
\* checkResolutions visits active rows only; it and the trigger checks contradict
\* each other for the container alerts alone.
StartCycle(T, R, Q) ==
    /\ ~running /\ due
    /\ \A k \in R : ActiveIds(k) # {}
    /\ \A k \in T \cap R : k.type \in ContainerAlertTypes
    /\ \A k \in Q : k.type \in SilentlyResolvedTypes
    /\ nextId + Cardinality({k \in T : ActiveIds(k) = {}}) <= MaxRows + 1
    /\ due' = FALSE
    /\ running' = TRUE
    /\ trig' = T /\ todoT' = T
    /\ res' = R /\ todoR' = R
    /\ silent' = Q
    /\ stamped' = {}
    /\ toSend' = << >>
    /\ UNCHANGED <<now, alert_state, nextId, silencing, lastMail>>

\* k heads what is left of the triggered list.
HeadsTriggered(k) ==
    /\ running
    /\ k \in todoT
    /\ \A j \in todoT : ~EvaluatedBefore(j, k)

IsSuppressingParent(k) == SuppressDependents /\ k.type \in ParentTypes

\* The first half of the triggered loop: a parent makes sure it has a row
\* and stamps the alerts it explains, whether or not they were mailed.
StampChildren(k) ==
    /\ HeadsTriggered(k)
    /\ IsSuppressingParent(k)
    /\ k \notin stamped
    /\ stamped' = stamped \cup {k}
    /\ \/ \E i \in ActiveIds(k) :
            /\ alert_state' = StampedChildren(alert_state, k, i)
            /\ UNCHANGED nextId
       \/ /\ ActiveIds(k) = {}
          /\ alert_state' = StampedChildren(Inserted(NewRow(k, NULL)), k, nextId)
          /\ nextId' = nextId + 1
    /\ UNCHANGED <<now, due, running, trig, res, silent, todoT, todoR, toSend, silencing, lastMail>>

\* The second half, for every triggered alert.
Visits(k) ==
    /\ HeadsTriggered(k)
    /\ IsSuppressingParent(k) => k \in stamped
    /\ todoT' = todoT \ {k}
    /\ stamped' = stamped \ {k}
    /\ UNCHANGED <<now, due, running, trig, res, silent, todoR, silencing>>

\* The id is not taken out of the sequence.
InsertMutant(row) ==
    /\ alert_state' = Inserted(row)
    /\ UNCHANGED nextId

Insert(row) ==
    /\ alert_state' = Inserted(row)
    /\ nextId' = nextId + 1

\* The mail is not counted.
MailedAtOnceMutant(k) == NewRow(k, NULL)

\* The row of an alert mailed on sight.
MailedAtOnce(k) == [NewRow(k, NULL) EXCEPT !.notify_count = 1]

\* No active row: record the sighting, mail at once only without a stabilisation window.
FirstSighting(k) ==
    /\ Visits(k)
    /\ ActiveIds(k) = {}
    /\ \/ \E p \in Parents(k) : Insert(NewRow(k, p)) /\ NoMail
       \/ /\ Parents(k) = {} /\ StabilizeMin > 0
          /\ Insert(NewRow(k, NULL)) /\ NoMail
       \/ /\ Parents(k) = {} /\ StabilizeMin = 0
          /\ Insert(MailedAtOnce(k))
          /\ QueueMail(k, "alert", 0)

\* The pending resolution survives a relapse.
OverlookedRelapseMutant(i) == alert_state[i]

\* Every sighting starts the stabilisation window anew.
RestartedWindowMutant(i) ==
    [alert_state[i] EXCEPT !.resolved_pending_since = NULL, !.pending_since = now]

\* The alert is back: whatever follows, a pending resolution is off.
Recurring(i) == [alert_state[i] EXCEPT !.resolved_pending_since = NULL]

SetRow(i, row) ==
    /\ alert_state' = [alert_state EXCEPT ![i] = row]
    /\ UNCHANGED nextId

\* The window's last minute is waited for as well.
NothingDueMutant(k, i) ==
    \/ IsSilenced(i)
    \/ /\ alert_state[i].notify_count = 0
       /\ Parents(k) = {} /\ now - alert_state[i].pending_since <= StabilizeMin
    \/ /\ alert_state[i].notify_count > 0
       /\ ~IsReminderDue(i)

\* Silenced, or not stabilised, or reminded recently.
NothingDue(k, i) ==
    \/ IsSilenced(i)
    \/ /\ alert_state[i].notify_count = 0
       /\ Parents(k) = {} /\ ~IsStabilized(i)
    \/ /\ alert_state[i].notify_count > 0
       /\ ~IsReminderDue(i)

\* An active row about which there is nothing to say now.
Hold(k) ==
    /\ Visits(k)
    /\ \E i \in ActiveIds(k) : NothingDue(k, i) /\ SetRow(i, Recurring(i))
    /\ NoMail

\* A row never mailed about while one of its parents is active: point it at that parent.
HoldForParent(k) ==
    /\ Visits(k)
    /\ \E i \in ActiveIds(k) :
        /\ ~IsSilenced(i)
        /\ alert_state[i].notify_count = 0
        /\ \E p \in Parents(k) : SetRow(i, [Recurring(i) EXCEPT !.suppressed_by = p])
    /\ NoMail

\* The condition outlasted the window: the first mail.
Announce(k) ==
    /\ Visits(k)
    /\ \E i \in ActiveIds(k) :
        /\ ~IsSilenced(i)
        /\ alert_state[i].notify_count = 0
        /\ Parents(k) = {} /\ IsStabilized(i)
        /\ SetRow(i, [Recurring(i) EXCEPT !.notify_count = 1, !.last_notified = now])
    /\ QueueMail(k, "alert", 0)

\* Mailed before and the backoff gap is over.  Parents are not consulted here.
Remind(k) ==
    /\ Visits(k)
    /\ \E i \in ActiveIds(k) :
        /\ ~IsSilenced(i)
        /\ alert_state[i].notify_count > 0
        /\ IsReminderDue(i)
        /\ SetRow(i, [Recurring(i) EXCEPT !.notify_count = @ + 1, !.last_notified = now])
        /\ QueueMail(k, "alert", alert_state[i].notify_count)

ProcessTriggered(k) ==
    FirstSighting(k) \/ Hold(k) \/ HoldForParent(k) \/ Announce(k) \/ Remind(k)

\* The resolved loop starts when the triggered list is exhausted.
VisitsResolved(k) ==
    /\ running /\ todoT = {}
    /\ k \in todoR
    /\ todoR' = todoR \ {k}
    /\ UNCHANGED <<now, due, nextId, running, trig, res, silent, todoT, stamped, silencing>>

\* Never mailed about: the row goes without a word.
DropUnsent(k) ==
    /\ VisitsResolved(k)
    /\ \E i \in ActiveIds(k) :
        /\ alert_state[i].notify_count = 0
        /\ alert_state' = Removed({i})
    /\ NoMail

ResolveSilently(k) ==
    /\ VisitsResolved(k)
    /\ k \in silent
    /\ \E i \in ActiveIds(k) :
        /\ alert_state[i].notify_count > 0
        /\ alert_state' = [alert_state EXCEPT ![i].resolved_at = now]
    /\ NoMail

\* The window is one minute longer.
LateRecoveryMutant(i) ==
    \/ StabilizeMin = 0
    \/ /\ alert_state[i].resolved_pending_since # NULL
       /\ now - alert_state[i].resolved_pending_since > StabilizeMin
       /\ now - alert_state[i].last_notified >= StabilizeMin

\* Recovery seen: it has to last for the window too, and so has the last mail.
RecoveryLasted(i) ==
    \/ StabilizeMin = 0
    \/ /\ alert_state[i].resolved_pending_since # NULL
       /\ now - alert_state[i].resolved_pending_since >= StabilizeMin
       /\ now - alert_state[i].last_notified >= StabilizeMin

Resolve(k) ==
    /\ VisitsResolved(k)
    /\ k \notin silent
    /\ \E i \in ActiveIds(k) :
        /\ alert_state[i].notify_count > 0
        /\ RecoveryLasted(i)
        /\ alert_state' = [alert_state EXCEPT ![i].resolved_at = now]
    /\ QueueMail(k, "resolution", 0)

\* Every look at the recovered alert starts its wait anew.
RecoveringMutant(i) == [alert_state[i] EXCEPT !.resolved_pending_since = now]

Recovering(i) ==
    [alert_state[i] EXCEPT !.resolved_pending_since = IF @ = NULL THEN now ELSE @]

AwaitRecovery(k) ==
    /\ VisitsResolved(k)
    /\ k \notin silent
    /\ \E i \in ActiveIds(k) :
        /\ alert_state[i].notify_count > 0
        /\ ~RecoveryLasted(i)
        /\ alert_state' = [alert_state EXCEPT ![i] = Recovering(i)]
    /\ NoMail

ProcessResolved(k) == DropUnsent(k) \/ ResolveSilently(k) \/ Resolve(k) \/ AwaitRecovery(k)

CycleForgotten ==
    /\ running' = FALSE
    /\ trig' = {} /\ res' = {} /\ silent' = {}
    /\ todoT' = {} /\ todoR' = {} /\ stamped' = {}
    /\ toSend' = << >>

\* processAlerts returns; runAlerts takes the queued mails from here.
EndCycle ==
    /\ running /\ todoT = {} /\ todoR = {}
    /\ CycleForgotten
    /\ UNCHANGED <<now, due, alert_state, nextId, silencing, lastMail>>

\* The hub process dies: the table survives, the evaluation, its queued mails
\* and the requests in flight do not.
Crash ==
    /\ CycleForgotten
    /\ due' = FALSE
    /\ silencing' = {}
    /\ UNCHANGED <<now, alert_state, nextId, lastMail>>

\* It dies inside an item of the triggered list, whose first statement is
\* committed: a bare row, some of the stamps, or the cleared resolution.
CrashInItem(k) ==
    /\ HeadsTriggered(k)
    /\ \/ /\ ActiveIds(k) = {}
          /\ Insert(NewRow(k, NULL))
       \/ \E i \in ActiveIds(k), C \in SUBSET Ids :
            /\ IsSuppressingParent(k) /\ k \notin stamped
            /\ alert_state' = [j \in Ids |-> IF j \in C
                                             THEN StampedChildren(alert_state, k, i)[j]
                                             ELSE alert_state[j]]
            /\ UNCHANGED nextId
       \/ \E i \in ActiveIds(k) : SetRow(i, Recurring(i))
    /\ CycleForgotten
    /\ due' = FALSE
    /\ silencing' = {}
    /\ UNCHANGED <<now, lastMail>>

-----------------------------------------------------------------------------
(* Handlers and jobs, between two evaluations.                             *)

BetweenCycles ==
    /\ ~running
    /\ UNCHANGED <<now, due, nextId, cycleVars, toSend, lastMail>>

\* handleSilenceAlert looks the row up, then awaits the request body.
\* One silence request is in flight at a time (bound).
SilenceLookup(i) ==
    /\ BetweenCycles
    /\ silencing = {}
    /\ i \in Ids /\ IsActive(i)
    /\ silencing' = {i}
    /\ UNCHANGED alert_state

\* The body has arrived; the row is updated as it now is, or is gone.
SilenceUpdate(i, until) ==
    /\ BetweenCycles
    /\ i \in silencing
    /\ silencing' = silencing \ {i}
    /\ alert_state' = IF i \in Ids
                      THEN [alert_state EXCEPT ![i].silenced_until = until]
                      ELSE alert_state

Unsilence(i) ==
    /\ BetweenCycles
    /\ i \in Ids
    /\ alert_state' = [alert_state EXCEPT ![i].silenced_until = NULL]
    /\ UNCHANGED silencing

Delete(S) ==
    /\ BetweenCycles
    /\ alert_state' = Removed(S)
    /\ UNCHANGED silencing

\* 409 for an active alert.
DeleteAlert(i) ==
    /\ i \in Ids /\ ~IsActive(i)
    /\ Delete({i})

\* 404 for a host_id that is not in the hosts table.
DeleteHost(h) ==
    /\ h \in DOMAIN ClusterOf
    /\ Delete({i \in Ids : alert_state[i].key.host = h})

DeleteContainer(h, t) ==
    Delete({i \in Ids : alert_state[i].key.host = h /\ alert_state[i].key.target = t})

PruneOldData ==
    Delete({i \in Ids : ~IsActive(i) /\ now - alert_state[i].resolved_at > RetentionMin})

Handlers ==
    \/ \E i \in Ids : SilenceLookup(i) \/ Unsilence(i) \/ DeleteAlert(i)
    \/ \E i \in silencing, until \in {now + d : d \in SilenceMinutes} \cup {Forever} : SilenceUpdate(i, until)
    \/ \E k \in Key : DeleteHost(k.host) \/ DeleteContainer(k.host, k.target)
    \/ PruneOldData

Process ==
    \/ \E k \in Key : StampChildren(k) \/ ProcessTriggered(k) \/ ProcessResolved(k)
    \/ EndCycle

Next ==
    \/ Tick
    \/ \E T \in SUBSET Key : \E R \in SUBSET Key : \E Q \in SUBSET R : StartCycle(T, R, Q)
    \/ Process
    \/ Crash
    \/ \E k \in Key : CrashInItem(k)
    \/ Handlers

Spec == Init /\ [][Next]_vars

-----------------------------------------------------------------------------
(* Properties.                                                             *)

\* One open alert per condition: the lookups of processAlerts assume it, and
\* no UNIQUE index of alert_state enforces it.  It must survive crashes
\* between the parent's insert and its own visit.
UniqueActive == \A i, j \in Ids :
    IsActive(i) /\ IsActive(j) /\ alert_state[i].key = alert_state[j].key => i = j

\* suppressed_by_state_id has no foreign key and parents are deleted under
\* their children: a pointer may dangle, but it never comes to name a row
\* that is not one of the alert's parents.
SuppressorIsParent == \A i \in Ids :
    LET p == alert_state[i].suppressed_by
    IN  p \in Ids => IsParentOf(alert_state[p].key, alert_state[i].key)

\* k is kept quiet by a parent: active now, or resolved by this very evaluation.
HeldByParent(k) ==
    \/ Parents(k) # {}
    \/ SuppressDependents /\ \E p \in res : IsParentOf(p, k)

\* No triggered alert is lost: once visited it has a row that was mailed
\* about, or it is inside its window, or silenced, or held by a parent.
TriggeredIsAccountedFor == \A k \in trig \ (todoT \cup res) :
    \E i \in ActiveIds(k) :
        \/ alert_state[i].notify_count > 0
        \/ ~IsStabilized(i)
        \/ IsSilenced(i)
        \/ HeldByParent(k)

\* No resolved alert lingers: once visited its row is closed, or waits for a
\* recovery younger than the window.  The second wait of RecoveryLasted, for
\* the last mail, never keeps it open any longer.
ResolvedIsAccountedFor == \A k \in res \ todoR : \A i \in ActiveIds(k) :
    /\ alert_state[i].notify_count > 0
    /\ alert_state[i].resolved_pending_since # NULL
    /\ now - alert_state[i].resolved_pending_since < StabilizeMin

\* History is final: a resolved row is deleted or silenced, but what it says
\* of the incident never changes, whatever fires or is stamped later.
HistoryIsFinal ==
    [][\A i \in Ids \cap Ids' : ~IsActive(i) =>
        [alert_state[i] EXCEPT !.silenced_until = NULL] =
        [alert_state[i] EXCEPT !.silenced_until = NULL]']_vars

\* The engine keeps the promise of AlertContract.
OpenCount(k) == IF ActiveIds(k) = {} THEN 0
                ELSE alert_state[CHOOSE i \in ActiveIds(k) : TRUE].notify_count

Contract == INSTANCE AlertContract WITH count <- [k \in Key |-> OpenCount(k)]

\* Every mail queued is an announcement, a reminder or a resolution the
\* contract allows at that moment: in this order, and with its distances.
ImplementsContract == Contract!Spec
=============================================================================
