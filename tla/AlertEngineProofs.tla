-------------------------- MODULE AlertEngineProofs --------------------------
(***************************************************************************)
(* Theorems about AlertEngine, for every set of keys and every value of    *)
(* its constants: its types, its safety invariants, what an evaluation     *)
(* leaves behind, and that it implements AlertContract.                    *)
(***************************************************************************)
EXTENDS AlertEngine, TLAPS

(***************************************************************************)
(* What the three ways of writing the table do to its type.                *)
(***************************************************************************)

\* A new row is a row.
LEMMA NewRowType ==
    ASSUME NEW k \in Key, NEW p \in Maybe(Nat), now \in Nat
    PROVE  NewRow(k, p) \in AlertRow
BY DEF NewRow, AlertRow, Maybe, NULL

\* Inserting a row at nextId keeps the table well typed.
LEMMA InsertedType ==
    ASSUME Table(alert_state, nextId), nextId \in Nat \ {0}, NEW row \in AlertRow
    PROVE  /\ Table(Inserted(row), nextId + 1)
           /\ DOMAIN Inserted(row) = Ids \cup {nextId}
<1>1. DOMAIN Inserted(row) = Ids \cup {nextId}
  BY DEF Inserted
<1>2. Ids \cup {nextId} \subseteq 1 .. (nextId + 1) - 1
  BY DEF Table, Ids
<1>3. Inserted(row) \in [Ids \cup {nextId} -> AlertRow]
  BY DEF Inserted, Table, Ids
<1>4. QED
  BY <1>1, <1>2, <1>3 DEF Table

\* Removing rows keeps the table well typed.
LEMMA RemovedType ==
    ASSUME Table(alert_state, nextId), NEW S
    PROVE  Table(Removed(S), nextId)
BY DEF Table, Removed, Ids

\* Every update processAlerts makes to a row leaves a row.
LEMMA RowUpdateType ==
    ASSUME NEW r \in AlertRow, NEW p \in Maybe(Nat), NEW t \in Nat
    PROVE  /\ [r EXCEPT !.resolved_pending_since = p] \in AlertRow
           /\ [r EXCEPT !.suppressed_by = p] \in AlertRow
           /\ [r EXCEPT !.silenced_until = p] \in AlertRow
           /\ [r EXCEPT !.resolved_at = p] \in AlertRow
           /\ [r EXCEPT !.notify_count = 1, !.last_notified = t] \in AlertRow
           /\ [r EXCEPT !.notify_count = @ + 1, !.last_notified = t] \in AlertRow
<1>1. [r EXCEPT !.resolved_pending_since = p] \in AlertRow
  BY DEF AlertRow
<1>2. [r EXCEPT !.suppressed_by = p] \in AlertRow
  BY DEF AlertRow
<1>3. [r EXCEPT !.silenced_until = p] \in AlertRow
  BY DEF AlertRow
<1>4. [r EXCEPT !.resolved_at = p] \in AlertRow
  BY DEF AlertRow
<1>5. [r EXCEPT !.notify_count = 1, !.last_notified = t] \in AlertRow
  BY DEF AlertRow
<1>6. [r EXCEPT !.notify_count = @ + 1, !.last_notified = t] \in AlertRow
  <2>1. r.notify_count \in Nat
    BY DEF AlertRow
  <2>2. \A n \in Nat : [r EXCEPT !.notify_count = n, !.last_notified = t] \in AlertRow
    BY DEF AlertRow
  <2>3. r.notify_count + 1 \in Nat
    BY <2>1
  <2>4. QED
    BY <2>2, <2>3, Zenon
<1>7. QED
  BY <1>1, <1>2, <1>3, <1>4, <1>5, <1>6

\* Stamping children keeps the table well typed.
LEMMA StampedType ==
    ASSUME NEW n \in Nat, NEW t, Table(t, n), NEW p, NEW id \in Nat
    PROVE  /\ Table(StampedChildren(t, p, id), n)
           /\ DOMAIN StampedChildren(t, p, id) = DOMAIN t
<1>1. \A i \in DOMAIN t : [t[i] EXCEPT !.suppressed_by = id] \in AlertRow
  BY DEF Table, AlertRow, Maybe
<1>2. QED
  BY <1>1 DEF Table, StampedChildren

\* Replacing a row by a row keeps the table well typed.
LEMMA SetRowType ==
    ASSUME Table(alert_state, nextId), NEW i \in Ids, NEW row \in AlertRow
    PROVE  Table([alert_state EXCEPT ![i] = row], nextId)
BY DEF Table, Ids

\* A queued mail keeps the queue and the history well typed.
LEMMA QueueMailType ==
    ASSUME NEW k \in Key, NEW kind \in {"alert", "resolution"}, NEW n \in Nat,
           now \in Nat, toSend \in Seq(Mail), lastMail \in [Key -> Maybe(Nat)],
           QueueMail(k, kind, n)
    PROVE  toSend' \in Seq(Mail) /\ lastMail' \in [Key -> Maybe(Nat)]
<1>1. [key |-> k, kind |-> kind, reminder |-> n] \in Mail
  BY DEF Mail
<1>2. QED
  BY <1>1 DEF QueueMail, Maybe

-----------------------------------------------------------------------------

\* A row found by ActiveIds is a row of the table.
LEMMA ActiveIdsInTable ==
    ASSUME TypeOK, NEW k, NEW i \in ActiveIds(k)
    PROVE  /\ i \in Ids /\ i \in Nat \ {0} /\ i < nextId
           /\ alert_state[i] \in AlertRow
           /\ alert_state[i].key = k
           /\ alert_state[i].resolved_at = NULL
BY DEF TypeOK, Table, ActiveIds, Ids, IsActive

\* A parent found by Parents is an active row of the table and a parent of k.
LEMMA ParentsInTable ==
    ASSUME TypeOK, NEW k, NEW p \in Parents(k)
    PROVE  /\ p \in Ids /\ p \in Nat /\ p < nextId
           /\ IsActive(p)
           /\ IsParentOf(alert_state[p].key, k)
<1>1. PICK d \in DOMAIN DEPS : p \in SuppressorIds(d, k)
  BY DEF Parents, FindActiveParent
<1>2. p \in Ids /\ IsActive(p) /\ IsParentOf(alert_state[p].key, k)
  BY <1>1 DEF SuppressorIds, IsParentOf
<1>3. QED
  BY <1>2 DEF TypeOK, Table, Ids

LEMMA TypeOKInit == Init => TypeOK
<1> SUFFICES ASSUME Init PROVE TypeOK
  OBVIOUS
<1>1. DOMAIN alert_state = {}
  BY DEF Init
<1>2. alert_state \in [DOMAIN alert_state -> AlertRow]
  BY <1>1 DEF Init
<1>3. lastMail \in [Key -> Maybe(Nat)]
  BY DEF Init, Maybe, Never
<1>4. toSend \in Seq(Mail)
  BY DEF Init
<1>5. Table(alert_state, nextId)
  BY <1>1, <1>2 DEF Table
<1>6. now \in Nat /\ due \in BOOLEAN /\ nextId \in Nat \ {0} /\ running \in BOOLEAN
  <2>1. now \in Nat /\ nextId \in Nat \ {0}
    BY DEF Init
  <2>2. due \in BOOLEAN /\ running \in BOOLEAN
    BY Zenon DEF Init
  <2>3. QED
    BY <2>1, <2>2
<1>7. /\ trig \in SUBSET Key /\ res \in SUBSET Key /\ silent \in SUBSET res
      /\ todoT \in SUBSET trig /\ todoR \in SUBSET res /\ stamped \in SUBSET todoT
      /\ silencing \in SUBSET Nat
  BY DEF Init
<1>8. QED
  BY <1>3, <1>4, <1>5, <1>6, <1>7 DEF TypeOK

\* The triggered loop, one alternative at a time.
LEMMA TypeOKTriggered ==
    ASSUME TypeOK, NEW k \in Key, StampChildren(k) \/ ProcessTriggered(k)
    PROVE  TypeOK'
<1> USE DEF TypeOK
<1>1. CASE StampChildren(k)
  <2>1. CASE \E i \in ActiveIds(k) :
               /\ alert_state' = StampedChildren(alert_state, k, i)
               /\ UNCHANGED nextId
    <3>1. PICK i \in ActiveIds(k) : /\ alert_state' = StampedChildren(alert_state, k, i)
                                    /\ UNCHANGED nextId
      BY <2>1
    <3>2. Table(alert_state', nextId')
      BY <3>1, ActiveIdsInTable, StampedType
    <3>3. QED
      BY <1>1, <3>1, <3>2 DEF StampChildren, HeadsTriggered, Table
  <2>2. CASE /\ ActiveIds(k) = {}
             /\ alert_state' = StampedChildren(Inserted(NewRow(k, NULL)), k, nextId)
             /\ nextId' = nextId + 1
    <3>1. NewRow(k, NULL) \in AlertRow
      BY NewRowType DEF Maybe
    <3>2. Table(Inserted(NewRow(k, NULL)), nextId + 1)
      BY <3>1, InsertedType
    <3>3. Table(alert_state', nextId')
      BY <2>2, <3>2, StampedType
    <3>4. QED
      BY <1>1, <2>2, <3>3 DEF StampChildren, HeadsTriggered, Table
  <2>3. QED
    BY <1>1, <2>1, <2>2 DEF StampChildren
<1>2. CASE FirstSighting(k)
  <2>1. PICK p \in Maybe(Nat), n \in {0, 1} :
            Insert([NewRow(k, p) EXCEPT !.notify_count = n])
            /\ (NoMail \/ QueueMail(k, "alert", 0))
    <3>1. \A p : NewRow(k, p) = [NewRow(k, p) EXCEPT !.notify_count = 0]
      BY DEF NewRow
    <3>2. \A p \in Parents(k) : p \in Maybe(Nat)
      BY ParentsInTable DEF Maybe
    <3>3. NULL \in Maybe(Nat)
      BY DEF Maybe
    <3>4. QED
      BY <1>2, <3>1, <3>2, <3>3 DEF FirstSighting, MailedAtOnce
  <2>2. [NewRow(k, p) EXCEPT !.notify_count = n] \in AlertRow
    BY <2>1, NewRowType DEF AlertRow
  <2>3. Table(alert_state', nextId')
    BY <2>1, <2>2, InsertedType DEF Insert
  <2>4. toSend' \in Seq(Mail) /\ lastMail' \in [Key -> Maybe(Nat)]
    BY <2>1, QueueMailType DEF NoMail
  <2>5. nextId' \in Nat \ {0}
    BY <2>1 DEF Insert
  <2>6. QED
    BY <1>2, <2>3, <2>4, <2>5 DEF FirstSighting, Visits, HeadsTriggered
<1>3. CASE Hold(k) \/ HoldForParent(k) \/ Announce(k) \/ Remind(k)
  <2>1. Visits(k)
    BY <1>3 DEF Hold, HoldForParent, Announce, Remind
  <2>2. \A i \in ActiveIds(k) :
            /\ Recurring(i) \in AlertRow
            /\ \A p \in Parents(k) : [Recurring(i) EXCEPT !.suppressed_by = p] \in AlertRow
            /\ [Recurring(i) EXCEPT !.notify_count = 1, !.last_notified = now] \in AlertRow
            /\ [Recurring(i) EXCEPT !.notify_count = @ + 1, !.last_notified = now] \in AlertRow
    <3>1. \A i \in ActiveIds(k) : Recurring(i) \in AlertRow
      BY ActiveIdsInTable, RowUpdateType DEF Recurring, Maybe
    <3>2. \A p \in Parents(k) : p \in Maybe(Nat)
      BY ParentsInTable DEF Maybe
    <3>3. QED
      BY <3>1, <3>2, RowUpdateType
  <2>3. PICK r \in ActiveIds(k), row \in AlertRow : SetRow(r, row)
    BY <1>3, <2>2 DEF Hold, HoldForParent, Announce, Remind
  <2>4. Table(alert_state', nextId') /\ nextId' \in Nat \ {0}
    BY <2>3, ActiveIdsInTable, SetRowType DEF SetRow
  <2>5. \A i \in ActiveIds(k) : alert_state[i].notify_count \in Nat
    BY ActiveIdsInTable DEF AlertRow
  <2>6. toSend' \in Seq(Mail) /\ lastMail' \in [Key -> Maybe(Nat)]
    BY <1>3, <2>5, QueueMailType DEF Hold, HoldForParent, Announce, Remind, NoMail
  <2>7. QED
    BY <2>1, <2>4, <2>6 DEF Visits, HeadsTriggered
<1>4. QED
  BY <1>1, <1>2, <1>3 DEF ProcessTriggered

\* The resolved loop.
LEMMA TypeOKResolved ==
    ASSUME TypeOK, NEW k \in Key, ProcessResolved(k)
    PROVE  TypeOK'
<1> USE DEF TypeOK
<1>1. VisitsResolved(k)
  BY DEF ProcessResolved, DropUnsent, ResolveSilently, Resolve, AwaitRecovery
<1>2. toSend' \in Seq(Mail) /\ lastMail' \in [Key -> Maybe(Nat)]
  BY QueueMailType DEF ProcessResolved, DropUnsent, ResolveSilently, Resolve, AwaitRecovery, NoMail
<1>3. Table(alert_state', nextId')
  <2>1. nextId' = nextId
    BY <1>1 DEF VisitsResolved
  <2>2. CASE DropUnsent(k)
    BY <2>1, <2>2, RemovedType DEF DropUnsent
  <2>3. CASE ResolveSilently(k) \/ Resolve(k) \/ AwaitRecovery(k)
    <3>1. \A i \in ActiveIds(k) :
              /\ [alert_state[i] EXCEPT !.resolved_at = now] \in AlertRow
              /\ Recovering(i) \in AlertRow
      <4>1. \A r \in AlertRow : [r EXCEPT !.resolved_pending_since = IF @ = NULL THEN now ELSE @] \in AlertRow
        BY DEF AlertRow, Maybe
      <4>2. QED
        BY <4>1, ActiveIdsInTable, RowUpdateType DEF Maybe, Recovering
    <3>2. PICK i \in ActiveIds(k), row \in AlertRow : alert_state' = [alert_state EXCEPT ![i] = row]
      BY <2>3, <3>1 DEF ResolveSilently, Resolve, AwaitRecovery
    <3>3. QED
      BY <2>1, <3>2, ActiveIdsInTable, SetRowType
  <2>4. QED
    BY <2>2, <2>3 DEF ProcessResolved
<1>4. QED
  BY <1>1, <1>2, <1>3 DEF VisitsResolved

\* The hub dies inside an item: each of its first statements alone.
LEMMA TypeOKCrashInItem ==
    ASSUME TypeOK, NEW k \in Key, CrashInItem(k)
    PROVE  TypeOK'
<1> USE DEF TypeOK
<1>1. Table(alert_state', nextId') /\ nextId' \in Nat \ {0}
  <2>1. CASE ActiveIds(k) = {} /\ Insert(NewRow(k, NULL))
    <3>1. NewRow(k, NULL) \in AlertRow
      BY NewRowType DEF Maybe
    <3>2. QED
      BY <2>1, <3>1, InsertedType DEF Insert
  <2>2. ASSUME NEW i \in ActiveIds(k), NEW C \in SUBSET Ids,
               alert_state' = [j \in Ids |-> IF j \in C
                                             THEN StampedChildren(alert_state, k, i)[j]
                                             ELSE alert_state[j]],
               UNCHANGED nextId
        PROVE  Table(alert_state', nextId') /\ nextId' \in Nat \ {0}
    <3>1. Table(StampedChildren(alert_state, k, i), nextId)
          /\ DOMAIN StampedChildren(alert_state, k, i) = Ids
      BY ActiveIdsInTable, StampedType DEF Ids
    <3>2. QED
      BY <2>2, <3>1 DEF Table, Ids
  <2>3. ASSUME NEW i \in ActiveIds(k), SetRow(i, Recurring(i))
        PROVE  Table(alert_state', nextId') /\ nextId' \in Nat \ {0}
    <3>1. Recurring(i) \in AlertRow
      BY ActiveIdsInTable, RowUpdateType DEF Recurring, Maybe
    <3>2. QED
      BY <2>3, <3>1, ActiveIdsInTable, SetRowType DEF SetRow
  <2>4. QED
    BY <2>1, <2>2, <2>3 DEF CrashInItem
<1>2. toSend' \in Seq(Mail)
  BY DEF CrashInItem, CycleForgotten
<1>3. due' \in BOOLEAN /\ running' \in BOOLEAN
  BY Zenon DEF CrashInItem, CycleForgotten
<1>4. /\ now' \in Nat /\ lastMail' \in [Key -> Maybe(Nat)]
      /\ trig' \in SUBSET Key /\ res' \in SUBSET Key /\ silent' \in SUBSET res'
      /\ todoT' \in SUBSET trig' /\ todoR' \in SUBSET res' /\ stamped' \in SUBSET todoT'
      /\ silencing' \in SUBSET Nat
  BY DEF CrashInItem, CycleForgotten
<1>5. QED
  BY <1>1, <1>2, <1>3, <1>4

\* The handlers and jobs between two evaluations.
LEMMA TypeOKHandlers ==
    ASSUME TypeOK, EngineAssumption, Handlers
    PROVE  TypeOK'
<1> USE DEF TypeOK
<1>1. BetweenCycles
  BY DEF Handlers, SilenceLookup, SilenceUpdate, Unsilence, Delete, DeleteAlert, DeleteHost,
         DeleteContainer, PruneOldData
<1>2. Table(alert_state', nextId') /\ silencing' \in SUBSET Nat
  <2>1. nextId' = nextId
    BY <1>1 DEF BetweenCycles
  <2>2. CASE \E i \in Ids : SilenceLookup(i)
    BY <2>1, <2>2 DEF SilenceLookup, Table, Ids
  <2>3. CASE \E i \in Ids : Unsilence(i)
    <3>1. PICK i \in Ids : Unsilence(i)
      BY <2>3
    <3>2. [alert_state[i] EXCEPT !.silenced_until = NULL] \in AlertRow
      <4>1. alert_state[i] \in AlertRow
        BY <3>1 DEF Table, Ids
      <4>2. NULL \in Maybe(Nat)
        BY DEF Maybe
      <4>3. QED
        BY ONLY <4>1, <4>2, 0 \in Nat, RowUpdateType
    <3>3. QED
      BY <2>1, <3>1, <3>2, SetRowType DEF Unsilence
  <2>4. CASE \E i \in silencing, until \in {now + d : d \in SilenceMinutes} \cup {Forever} : SilenceUpdate(i, until)
    <3>1. PICK i \in silencing, until \in {now + d : d \in SilenceMinutes} \cup {Forever} : SilenceUpdate(i, until)
      BY <2>4
    <3>2. until \in Nat
      <4>1. Forever \in Nat
        BY DEF EngineAssumption, Forever
      <4>2. \A d \in SilenceMinutes : now + d \in Nat
        <5>1. now \in Nat /\ SilenceMinutes \subseteq Nat
          BY DEF EngineAssumption
        <5>2. QED
          BY <5>1
      <4>3. QED
        BY <3>1, <4>1, <4>2
    <3>3. i \in Ids => [alert_state[i] EXCEPT !.silenced_until = until] \in AlertRow
      BY <3>2 DEF Table, Ids, AlertRow, Maybe
    <3>4. QED
      BY <2>1, <3>1, <3>3, SetRowType DEF SilenceUpdate
  <2>5. CASE \E S : Delete(S)
    BY <2>1, <2>5, RemovedType DEF Delete
  <2>6. QED
    BY <2>2, <2>3, <2>4, <2>5 DEF Handlers, DeleteAlert, DeleteHost, DeleteContainer, PruneOldData
<1>3. QED
  BY <1>1, <1>2 DEF BetweenCycles, cycleVars

\* Every step keeps the types.
LEMMA TypeOKStep == EngineAssumption /\ TypeOK /\ [Next]_vars => TypeOK'
<1> SUFFICES ASSUME EngineAssumption, TypeOK, [Next]_vars PROVE TypeOK'
  OBVIOUS
<1>1. CASE Tick
  BY <1>1 DEF Tick, TypeOK, cycleVars
<1>2. ASSUME NEW T \in SUBSET Key, NEW R \in SUBSET Key, NEW Q \in SUBSET R, StartCycle(T, R, Q)
      PROVE  TypeOK'
  <2>1. toSend' \in Seq(Mail)
    BY <1>2 DEF StartCycle
  <2>2. QED
    BY <1>2, <2>1 DEF StartCycle, TypeOK
<1>3. CASE \E k \in Key : StampChildren(k) \/ ProcessTriggered(k)
  BY <1>3, TypeOKTriggered
<1>4. CASE \E k \in Key : ProcessResolved(k)
  BY <1>4, TypeOKResolved
<1>5. CASE EndCycle \/ Crash
  <2>1. CycleForgotten
    BY <1>5 DEF EndCycle, Crash
  <2>2. toSend' \in Seq(Mail)
    BY <2>1 DEF CycleForgotten
  <2>3. QED
    BY <1>5, <2>1, <2>2 DEF EndCycle, Crash, CycleForgotten, TypeOK
<1>6. CASE Handlers
  BY <1>6, TypeOKHandlers
<1>7. CASE UNCHANGED vars
  BY <1>7 DEF vars, cycleVars, TypeOK
<1>8. CASE \E k \in Key : CrashInItem(k)
  BY <1>8, TypeOKCrashInItem
<1>9. QED
  BY <1>1, <1>2, <1>3, <1>4, <1>5, <1>6, <1>7, <1>8 DEF Next, Process

\* Type correctness: whatever fires, crashes or is deleted, the table holds
\* well-formed rows below the AUTOINCREMENT sequence.
THEOREM TypeCorrect == Spec => []TypeOK
<1>1. Init => TypeOK
  BY TypeOKInit
<1>2. TypeOK /\ [Next]_vars => TypeOK'
  BY TypeOKStep, EngineAssumption
<1>3. QED
  BY <1>1, <1>2, PTL DEF Spec

-----------------------------------------------------------------------------
(***************************************************************************)
(* The safety invariants.  They all follow from one fact about the steps:  *)
(* what a step may do to the rows of alert_state, whoever takes it.        *)
(***************************************************************************)

\* The columns of a row that say which incident it is.
SameIncident(r, s) ==
    r.key = s.key /\ r.suppressed_by = s.suppressed_by /\ r.resolved_at = s.resolved_at

\* A row inserted is an open alert of a key without one, under the next id.
InsertsOnlyUnopened == \A i \in Ids' \ Ids :
    /\ i = nextId
    /\ nextId' = nextId + 1
    /\ ActiveIds(alert_state'[i].key) = {}

\* A row kept keeps its key, and once closed it is never reopened nor rewritten.
KeepsIncidents == \A i \in Ids \cap Ids' :
    /\ alert_state'[i].key = alert_state[i].key
    /\ ~IsActive(i) => [alert_state'[i] EXCEPT !.silenced_until = NULL] =
                       [alert_state[i] EXCEPT !.silenced_until = NULL]

\* A pointer set by a step names a parent.
SetsPointersToParents == \A i \in Ids' :
    LET p == alert_state'[i].suppressed_by
    IN  \/ i \in Ids /\ p = alert_state[i].suppressed_by
        \/ p = NULL
        \/ p \in Ids' /\ IsParentOf(alert_state'[p].key, alert_state'[i].key)

TableStep ==
    /\ nextId' \in {nextId, nextId + 1}
    /\ InsertsOnlyUnopened
    /\ KeepsIncidents
    /\ SetsPointersToParents

\* The updates processAlerts and the handlers make to a row leave its incident alone.
LEMMA UpdatesKeepIncident ==
    ASSUME NEW r \in AlertRow, NEW p \in Maybe(Nat), NEW t \in Nat
    PROVE  /\ SameIncident([r EXCEPT !.resolved_pending_since = p], r)
           /\ SameIncident([r EXCEPT !.silenced_until = p], r)
           /\ SameIncident([r EXCEPT !.notify_count = 1, !.last_notified = t], r)
           /\ SameIncident([r EXCEPT !.notify_count = @ + 1, !.last_notified = t], r)
<1>1. SameIncident([r EXCEPT !.resolved_pending_since = p], r)
  BY DEF AlertRow, SameIncident
<1>2. SameIncident([r EXCEPT !.silenced_until = p], r)
  BY DEF AlertRow, SameIncident
<1>3. SameIncident([r EXCEPT !.notify_count = 1, !.last_notified = t], r)
  BY DEF AlertRow, SameIncident
<1>4. SameIncident([r EXCEPT !.notify_count = @ + 1, !.last_notified = t], r)
  BY Zenon DEF AlertRow, SameIncident
<1>5. QED
  BY <1>1, <1>2, <1>3, <1>4

\* An unchanged table, and one with rows removed.
LEMMA RemovalIsTableStep ==
    ASSUME TypeOK, nextId' = nextId, NEW S, alert_state' = Removed(S) \/ alert_state' = alert_state
    PROVE  TableStep
BY DEF TypeOK, Table, TableStep, InsertsOnlyUnopened, KeepsIncidents, SetsPointersToParents, Removed, Ids, IsActive

\* An open row replaced by one of the same key, still pointing where it did or at a parent.
LEMMA RowUpdateIsTableStep ==
    ASSUME TypeOK, nextId' = nextId,
           NEW k, NEW i \in ActiveIds(k), NEW row, alert_state' = [alert_state EXCEPT ![i] = row],
           row.key = k,
           \/ row.suppressed_by = alert_state[i].suppressed_by
           \/ row.suppressed_by \in Ids /\ IsParentOf(alert_state[row.suppressed_by].key, k)
    PROVE  TableStep
<1>1. i \in Ids /\ IsActive(i) /\ alert_state[i].key = k
  BY ActiveIdsInTable DEF IsActive
<1>2. Ids' = Ids /\ alert_state'[i] = row /\ \A j \in Ids \ {i} : alert_state'[j] = alert_state[j]
  BY <1>1 DEF Ids, TypeOK, Table
<1>3. \A j \in Ids : alert_state'[j].key = alert_state[j].key
  BY <1>1, <1>2
<1>4. InsertsOnlyUnopened
  BY <1>2 DEF InsertsOnlyUnopened
<1>5. KeepsIncidents
  BY <1>1, <1>2, <1>3 DEF KeepsIncidents
<1>6. SetsPointersToParents
  BY <1>1, <1>2, <1>3 DEF SetsPointersToParents
<1>7. QED
  BY <1>4, <1>5, <1>6 DEF TableStep

\* The same, as the triggered loop writes it.
LEMMA SetRowIsTableStep ==
    ASSUME TypeOK, NEW k, NEW i \in ActiveIds(k), NEW row, SetRow(i, row),
           SameIncident(row, alert_state[i])
    PROVE  TableStep
<1>1. row.key = k /\ row.suppressed_by = alert_state[i].suppressed_by
  BY ActiveIdsInTable DEF SameIncident
<1>2. nextId' = nextId /\ alert_state' = [alert_state EXCEPT ![i] = row]
  BY DEF SetRow
<1>3. QED
  BY <1>1, <1>2, RowUpdateIsTableStep

\* A new open row of a key without one.
LEMMA InsertIsTableStep ==
    ASSUME TypeOK, NEW k, ActiveIds(k) = {}, NEW row, Insert(row),
           row.key = k, row.suppressed_by = NULL \/ row.suppressed_by \in Parents(k)
    PROVE  TableStep
<1>1. Ids' = Ids \cup {nextId} /\ nextId \notin Ids
  BY DEF Insert, Inserted, Ids, TypeOK, Table
<1>2. alert_state'[nextId] = row /\ \A j \in Ids : alert_state'[j] = alert_state[j]
  BY <1>1 DEF Insert, Inserted
<1>3. \A p \in Parents(k) : p \in Ids /\ IsParentOf(alert_state[p].key, k)
  BY ParentsInTable
<1>4. InsertsOnlyUnopened
  BY <1>1, <1>2 DEF InsertsOnlyUnopened, Insert
<1>5. KeepsIncidents
  BY <1>1, <1>2 DEF KeepsIncidents
<1>6. SetsPointersToParents
  BY <1>1, <1>2, <1>3 DEF SetsPointersToParents
<1>7. QED
  BY <1>4, <1>5, <1>6 DEF TableStep, Insert

\* Stamping, with or without the parent's insert before it, or a part of it.
LEMMA StampsKeepIncident ==
    ASSUME NEW n \in Nat, NEW t, Table(t, n), NEW k, NEW id \in Nat, NEW i \in DOMAIN t
    PROVE  LET r == StampedChildren(t, k, id)[i]
           IN  /\ r.key = t[i].key
               /\ t[i].resolved_at # NULL => r = t[i]
               /\ \/ r.suppressed_by = t[i].suppressed_by
                  \/ r.suppressed_by = id /\ IsParentOf(k, t[i].key)
<1>1. t[i] \in AlertRow
  BY DEF Table
<1>2. [t[i] EXCEPT !.suppressed_by = id].key = t[i].key
      /\ [t[i] EXCEPT !.suppressed_by = id].suppressed_by = id
  BY <1>1 DEF AlertRow
<1>3. QED
  BY <1>2 DEF StampedChildren

LEMMA StampIsTableStep ==
    ASSUME TypeOK, nextId' = nextId, NEW k, NEW i \in ActiveIds(k), NEW C \in SUBSET Ids,
           alert_state' = [j \in Ids |-> IF j \in C THEN StampedChildren(alert_state, k, i)[j]
                                                   ELSE alert_state[j]]
    PROVE  TableStep
<1> DEFINE r(j) == StampedChildren(alert_state, k, i)[j]
<1>1. i \in Ids /\ i \in Nat /\ alert_state[i].key = k
  BY ActiveIdsInTable
<1>2. Ids' = Ids /\ \A j \in Ids : alert_state'[j] = r(j) \/ alert_state'[j] = alert_state[j]
  BY DEF Ids
<1>3. \A j \in Ids : /\ r(j).key = alert_state[j].key
                     /\ alert_state[j].resolved_at # NULL => r(j) = alert_state[j]
                     /\ \/ r(j).suppressed_by = alert_state[j].suppressed_by
                        \/ r(j).suppressed_by = i /\ IsParentOf(k, alert_state[j].key)
  BY <1>1, StampsKeepIncident DEF TypeOK, Ids
<1> HIDE DEF r
<1>4. \A j \in Ids : alert_state'[j].key = alert_state[j].key
  BY <1>2, <1>3
<1>5. InsertsOnlyUnopened
  BY <1>2 DEF InsertsOnlyUnopened
<1>6. KeepsIncidents
  BY <1>2, <1>3, <1>4 DEF KeepsIncidents, IsActive
<1>7. SetsPointersToParents
  BY <1>1, <1>2, <1>3, <1>4 DEF SetsPointersToParents
<1>8. QED
  BY <1>5, <1>6, <1>7 DEF TableStep

LEMMA InsertAndStampIsTableStep ==
    ASSUME TypeOK, nextId' = nextId + 1, NEW k \in Key, ActiveIds(k) = {},
           alert_state' = StampedChildren(Inserted(NewRow(k, NULL)), k, nextId)
    PROVE  TableStep
<1> DEFINE t == Inserted(NewRow(k, NULL))
           r(j) == StampedChildren(t, k, nextId)[j]
<1>1. NewRow(k, NULL) \in AlertRow
  BY NewRowType DEF TypeOK, Maybe
<1>2. Table(t, nextId + 1) /\ DOMAIN t = Ids \cup {nextId}
  BY <1>1, InsertedType DEF TypeOK
<1>3. nextId \notin Ids /\ nextId \in Nat
  BY DEF Ids, TypeOK, Table
<1>4. t[nextId].key = k /\ t[nextId].suppressed_by = NULL /\ \A j \in Ids : t[j] = alert_state[j]
  BY <1>3 DEF Inserted, NewRow
<1>5. Ids' = Ids \cup {nextId} /\ \A j \in Ids' : alert_state'[j] = r(j)
  BY <1>2, StampedType DEF TypeOK, Ids
<1>6. \A j \in Ids' : /\ r(j).key = t[j].key
                      /\ t[j].resolved_at # NULL => r(j) = t[j]
                      /\ \/ r(j).suppressed_by = t[j].suppressed_by
                         \/ r(j).suppressed_by = nextId /\ IsParentOf(k, t[j].key)
  <2>1. nextId + 1 \in Nat
    BY <1>3
  <2>2. QED
    BY <1>2, <1>3, <1>5, <2>1, StampsKeepIncident
<1> HIDE DEF r, t
<1>7. InsertsOnlyUnopened
  BY <1>3, <1>4, <1>5, <1>6 DEF InsertsOnlyUnopened
<1>8. KeepsIncidents
  BY <1>3, <1>4, <1>5, <1>6 DEF KeepsIncidents, IsActive
<1>9. SetsPointersToParents
  BY <1>3, <1>4, <1>5, <1>6 DEF SetsPointersToParents
<1>10. QED
  BY <1>7, <1>8, <1>9 DEF TableStep

\* A silence set or lifted on any row, closed ones included.
LEMMA SilencingIsTableStep ==
    ASSUME TypeOK, nextId' = nextId, NEW i \in Ids, NEW p \in Maybe(Nat),
           alert_state' = [alert_state EXCEPT ![i].silenced_until = p]
    PROVE  TableStep
<1> DEFINE row == [alert_state[i] EXCEPT !.silenced_until = p]
<1>1. alert_state[i] \in AlertRow
  BY DEF TypeOK, Table, Ids
<1>2. SameIncident(row, alert_state[i])
  BY <1>1, UpdatesKeepIncident
<1>3. [row EXCEPT !.silenced_until = NULL] = [alert_state[i] EXCEPT !.silenced_until = NULL]
  BY <1>1 DEF AlertRow
<1>4. Ids' = Ids /\ alert_state'[i] = row /\ \A j \in Ids \ {i} : alert_state'[j] = alert_state[j]
  BY DEF Ids, TypeOK, Table
<1> HIDE DEF row
<1>5. InsertsOnlyUnopened
  BY <1>4 DEF InsertsOnlyUnopened
<1>6. KeepsIncidents
  BY <1>2, <1>3, <1>4 DEF KeepsIncidents, SameIncident
<1>7. SetsPointersToParents
  BY <1>2, <1>4 DEF SetsPointersToParents, SameIncident
<1>8. QED
  BY <1>5, <1>6, <1>7 DEF TableStep

-----------------------------------------------------------------------------

\* The triggered loop, and a crash inside one of its items.
LEMMA TriggeredIsTableStep ==
    ASSUME TypeOK, NEW k \in Key, StampChildren(k) \/ ProcessTriggered(k) \/ CrashInItem(k)
    PROVE  TableStep
<1>1. \A p : NewRow(k, p).key = k /\ NewRow(k, p).suppressed_by = p
  BY DEF NewRow
<1>2. MailedAtOnce(k).key = k /\ MailedAtOnce(k).suppressed_by = NULL
  BY DEF MailedAtOnce, NewRow
<1>3. \A i \in ActiveIds(k) :
          /\ i \in Ids
          /\ alert_state[i] \in AlertRow /\ alert_state[i].key = k
          /\ Recurring(i) \in AlertRow /\ SameIncident(Recurring(i), alert_state[i])
  BY ActiveIdsInTable, RowUpdateType, UpdatesKeepIncident DEF Recurring, Maybe
<1>4. CASE StampChildren(k)
  <2>1. CASE \E i \in ActiveIds(k) :
               alert_state' = StampedChildren(alert_state, k, i) /\ UNCHANGED nextId
    <3>1. PICK i \in ActiveIds(k) :
               alert_state' = StampedChildren(alert_state, k, i) /\ UNCHANGED nextId
      BY <2>1
    <3>2. alert_state' = [j \in Ids |-> IF j \in Ids THEN StampedChildren(alert_state, k, i)[j]
                                                     ELSE alert_state[j]]
      BY <3>1 DEF StampedChildren, Ids
    <3>3. QED
      BY <3>1, <3>2, StampIsTableStep
  <2>2. QED
    BY <1>4, <2>1, InsertAndStampIsTableStep DEF StampChildren
<1>5. CASE FirstSighting(k)
  BY <1>1, <1>2, <1>5, InsertIsTableStep DEF FirstSighting
<1>6. CASE Hold(k)
  BY <1>3, <1>6, SetRowIsTableStep DEF Hold
<1>7. CASE HoldForParent(k)
  <2>1. PICK i \in ActiveIds(k), p \in Parents(k) : SetRow(i, [Recurring(i) EXCEPT !.suppressed_by = p])
    BY <1>7 DEF HoldForParent
  <2>2. [Recurring(i) EXCEPT !.suppressed_by = p].key = k
        /\ [Recurring(i) EXCEPT !.suppressed_by = p].suppressed_by = p
    <3>1. Recurring(i) \in AlertRow /\ Recurring(i).key = k
      BY <1>3 DEF SameIncident
    <3>2. QED
      BY <3>1 DEF AlertRow
  <2>3. p \in Ids /\ IsParentOf(alert_state[p].key, k)
    BY ParentsInTable
  <2>4. QED
    BY <2>1, <2>2, <2>3, RowUpdateIsTableStep DEF SetRow
<1>8. CASE Announce(k)
  <2>1. PICK i \in ActiveIds(k) : SetRow(i, [Recurring(i) EXCEPT !.notify_count = 1, !.last_notified = now])
    BY <1>8 DEF Announce
  <2>2. SameIncident([Recurring(i) EXCEPT !.notify_count = 1, !.last_notified = now], Recurring(i))
    BY <1>3, UpdatesKeepIncident DEF TypeOK, Maybe
  <2>3. QED
    BY <1>3, <2>1, <2>2, SetRowIsTableStep DEF SameIncident
<1>9. CASE Remind(k)
  <2>1. PICK i \in ActiveIds(k) : SetRow(i, [Recurring(i) EXCEPT !.notify_count = @ + 1, !.last_notified = now])
    BY <1>9 DEF Remind
  <2>2. SameIncident([Recurring(i) EXCEPT !.notify_count = @ + 1, !.last_notified = now], Recurring(i))
    BY <1>3, UpdatesKeepIncident DEF TypeOK, Maybe
  <2>3. QED
    BY <1>3, <2>1, <2>2, SetRowIsTableStep DEF SameIncident
<1>10. CASE CrashInItem(k)
  <2>1. CASE ActiveIds(k) = {} /\ Insert(NewRow(k, NULL))
    BY <1>1, <2>1, InsertIsTableStep
  <2>2. CASE \E i \in ActiveIds(k) : SetRow(i, Recurring(i))
    BY <1>3, <2>2, SetRowIsTableStep
  <2>3. ASSUME NEW i \in ActiveIds(k), NEW C \in SUBSET Ids, UNCHANGED nextId,
               alert_state' = [j \in Ids |-> IF j \in C
                                             THEN StampedChildren(alert_state, k, i)[j]
                                             ELSE alert_state[j]]
        PROVE  TableStep
    BY <2>3, StampIsTableStep
  <2>4. QED
    BY <1>10, <2>1, <2>2, <2>3 DEF CrashInItem
<1>11. QED
  BY <1>4, <1>5, <1>6, <1>7, <1>8, <1>9, <1>10 DEF ProcessTriggered

\* The resolved loop.
LEMMA ResolvedIsTableStep ==
    ASSUME TypeOK, NEW k \in Key, ProcessResolved(k)
    PROVE  TableStep
<1>1. nextId' = nextId
  BY DEF ProcessResolved, DropUnsent, ResolveSilently, Resolve, AwaitRecovery, VisitsResolved
<1>2. CASE DropUnsent(k)
  BY <1>1, <1>2, RemovalIsTableStep DEF DropUnsent
<1>3. CASE ResolveSilently(k) \/ Resolve(k)
  <2>1. PICK i \in ActiveIds(k) : alert_state' = [alert_state EXCEPT ![i].resolved_at = now]
    BY <1>3 DEF ResolveSilently, Resolve
  <2>2. /\ [alert_state[i] EXCEPT !.resolved_at = now].key = k
        /\ [alert_state[i] EXCEPT !.resolved_at = now].suppressed_by = alert_state[i].suppressed_by
    BY ActiveIdsInTable DEF AlertRow
  <2>3. QED
    BY <1>1, <2>1, <2>2, RowUpdateIsTableStep
<1>4. CASE AwaitRecovery(k)
  <2>1. PICK i \in ActiveIds(k) : alert_state' = [alert_state EXCEPT ![i] = Recovering(i)]
    BY <1>4 DEF AwaitRecovery
  <2>2. Recovering(i).key = k /\ Recovering(i).suppressed_by = alert_state[i].suppressed_by
    BY ActiveIdsInTable DEF AlertRow, Recovering
  <2>3. QED
    BY <1>1, <2>1, <2>2, RowUpdateIsTableStep
<1>5. QED
  BY <1>2, <1>3, <1>4 DEF ProcessResolved

\* The handlers and jobs between two evaluations.
LEMMA HandlersAreTableStep ==
    ASSUME TypeOK, EngineAssumption, Handlers
    PROVE  TableStep
<1>1. nextId' = nextId
  BY DEF Handlers, SilenceLookup, SilenceUpdate, Unsilence, Delete, DeleteAlert, DeleteHost,
         DeleteContainer, PruneOldData, BetweenCycles
<1>2. CASE \E i \in Ids : SilenceLookup(i)
  BY <1>1, <1>2, RemovalIsTableStep DEF SilenceLookup
<1>3. CASE \E i \in Ids : Unsilence(i)
  BY <1>1, <1>3, SilencingIsTableStep DEF Unsilence, Maybe
<1>4. CASE \E i \in silencing, until \in {now + d : d \in SilenceMinutes} \cup {Forever} : SilenceUpdate(i, until)
  <2>1. PICK i \in silencing, until \in {now + d : d \in SilenceMinutes} \cup {Forever} : SilenceUpdate(i, until)
    BY <1>4
  <2>2. until \in Maybe(Nat)
    <3>1. Forever \in Nat
      BY DEF EngineAssumption, Forever
    <3>2. now \in Nat /\ SilenceMinutes \subseteq Nat
      BY DEF TypeOK, EngineAssumption
    <3>3. \A d \in SilenceMinutes : now + d \in Nat
      BY <3>2
    <3>4. QED
      BY <2>1, <3>1, <3>3 DEF Maybe
  <2>3. CASE i \in Ids
    BY <1>1, <2>1, <2>2, <2>3, SilencingIsTableStep DEF SilenceUpdate
  <2>4. CASE i \notin Ids
    BY <1>1, <2>1, <2>4, RemovalIsTableStep DEF SilenceUpdate
  <2>5. QED
    BY <2>3, <2>4
<1>5. CASE \E S : Delete(S)
  BY <1>1, <1>5, RemovalIsTableStep DEF Delete
<1>6. QED
  BY <1>2, <1>3, <1>4, <1>5 DEF Handlers, DeleteAlert, DeleteHost, DeleteContainer, PruneOldData

LEMMA StepIsTableStep == EngineAssumption /\ TypeOK /\ [Next]_vars => TableStep
<1> SUFFICES ASSUME EngineAssumption, TypeOK, [Next]_vars PROVE TableStep
  OBVIOUS
<1>1. CASE \E k \in Key : StampChildren(k) \/ ProcessTriggered(k) \/ CrashInItem(k)
  BY <1>1, TriggeredIsTableStep
<1>2. CASE \E k \in Key : ProcessResolved(k)
  BY <1>2, ResolvedIsTableStep
<1>3. CASE Handlers
  BY <1>3, HandlersAreTableStep
<1>4. CASE alert_state' = alert_state /\ nextId' = nextId
  BY <1>4, RemovalIsTableStep
<1>5. QED
  BY <1>1, <1>2, <1>3, <1>4 DEF Next, Process, Tick, StartCycle, EndCycle, Crash, vars

-----------------------------------------------------------------------------

\* A pointer was handed out when its target existed, so a later insert,
\* which takes an id never used before, cannot become its target.
SuppressorsAreOld == \A i \in Ids : alert_state[i].suppressed_by < nextId

SafetyInv == TypeOK /\ UniqueActive /\ SuppressorIsParent /\ SuppressorsAreOld

\* Rows that agree but for silenced_until are of the same incident.
LEMMA SameButSilence ==
    ASSUME NEW r \in AlertRow, NEW s \in AlertRow,
           [r EXCEPT !.silenced_until = NULL] = [s EXCEPT !.silenced_until = NULL]
    PROVE  r.resolved_at = s.resolved_at
<1>1. [r EXCEPT !.silenced_until = NULL].resolved_at = r.resolved_at
      /\ [s EXCEPT !.silenced_until = NULL].resolved_at = s.resolved_at
  BY DEF AlertRow
<1>2. QED
  BY <1>1

LEMMA SafetyInvInit == Init => SafetyInv
<1>1. Init => Ids = {}
  BY DEF Init, Ids
<1>2. QED
  BY <1>1, TypeOKInit DEF SafetyInv, UniqueActive, SuppressorIsParent, SuppressorsAreOld

LEMMA SafetyInvStep == SafetyInv /\ TypeOK' /\ TableStep => SafetyInv'
<1> SUFFICES ASSUME SafetyInv, TypeOK', TableStep PROVE SafetyInv'
  OBVIOUS
<1> USE DEF SafetyInv, TableStep
<1>1. /\ \A i \in Ids : i \in Nat \ {0} /\ i < nextId /\ alert_state[i] \in AlertRow
      /\ \A i \in Ids' : i \in Nat \ {0} /\ i < nextId' /\ alert_state'[i] \in AlertRow
      /\ nextId \in Nat /\ nextId' \in Nat /\ nextId <= nextId'
  BY DEF TypeOK, Table, Ids
<1>2. \A i \in Ids \cap Ids' : alert_state'[i].key = alert_state[i].key /\ (IsActive(i)' => IsActive(i))
  <2>1. \A i \in Ids \cap Ids' : ~IsActive(i) => alert_state'[i].resolved_at = alert_state[i].resolved_at
    BY <1>1, SameButSilence DEF KeepsIncidents
  <2>2. QED
    BY <2>1 DEF KeepsIncidents, IsActive
<1>3. UniqueActive'
  <2> SUFFICES ASSUME NEW i \in Ids', NEW j \in Ids', IsActive(i)', IsActive(j)',
                      alert_state'[i].key = alert_state'[j].key
               PROVE  i = j
    BY DEF UniqueActive
  <2>1. CASE i \in Ids /\ j \in Ids
    BY <1>2, <2>1 DEF UniqueActive
  <2>2. CASE i \notin Ids /\ j \in Ids
    BY <1>2, <2>2 DEF InsertsOnlyUnopened, ActiveIds
  <2>3. CASE i \in Ids /\ j \notin Ids
    BY <1>2, <2>3 DEF InsertsOnlyUnopened, ActiveIds
  <2>4. CASE i \notin Ids /\ j \notin Ids
    BY <2>4 DEF InsertsOnlyUnopened
  <2>5. QED
    BY <2>1, <2>2, <2>3, <2>4
<1>4. SuppressorIsParent'
  <2> SUFFICES ASSUME NEW i \in Ids', alert_state'[i].suppressed_by \in Ids'
               PROVE  IsParentOf(alert_state'[alert_state'[i].suppressed_by].key, alert_state'[i].key)
    BY DEF SuppressorIsParent
  <2> DEFINE p == alert_state'[i].suppressed_by
  <2>1. CASE i \in Ids /\ p = alert_state[i].suppressed_by
    <3>1. p \in Ids
      BY <1>1, <2>1 DEF InsertsOnlyUnopened, SuppressorsAreOld
    <3>2. QED
      BY <1>2, <2>1, <3>1 DEF SuppressorIsParent
  <2>2. CASE p = NULL
    BY <1>1, <2>2 DEF NULL
  <2>3. QED
    BY <2>1, <2>2 DEF SetsPointersToParents
<1>5. SuppressorsAreOld'
  <2> SUFFICES ASSUME NEW i \in Ids' PROVE alert_state'[i].suppressed_by < nextId'
    BY DEF SuppressorsAreOld
  <2> DEFINE p == alert_state'[i].suppressed_by
  <2>1. CASE i \in Ids /\ p = alert_state[i].suppressed_by
    <3>1. alert_state[i].suppressed_by < nextId /\ alert_state[i].suppressed_by \in Int
      BY <1>1, <2>1 DEF SuppressorsAreOld, AlertRow, Maybe, NULL
    <3>2. QED
      BY <1>1, <2>1, <3>1
  <2>2. CASE p = NULL
    BY <1>1, <2>2 DEF NULL
  <2>3. CASE p \in Ids'
    BY <1>1, <2>3
  <2>4. QED
    BY <2>1, <2>2, <2>3 DEF SetsPointersToParents
<1>6. QED
  BY <1>3, <1>4, <1>5

LEMMA SafetyInvariant == Spec => []SafetyInv
<1>1. Init => SafetyInv
  BY SafetyInvInit
<1>2. SafetyInv /\ [Next]_vars => SafetyInv'
  BY TypeOKStep, StepIsTableStep, SafetyInvStep, EngineAssumption DEF SafetyInv
<1>3. QED
  BY <1>1, <1>2, PTL DEF Spec

\* There is never more than one open alert per key: no interleaving of
\* evaluations, handlers and crashes inserts a second row.
THEOREM OneOpenAlert == Spec => []UniqueActive
<1>1. SafetyInv => UniqueActive
  BY DEF SafetyInv
<1>2. QED
  BY <1>1, SafetyInvariant, PTL

\* A suppressed_by_state_id dangles or names one of the alert's parents,
\* whatever is deleted under it.
THEOREM SuppressorsAreParents == Spec => []SuppressorIsParent
<1>1. SafetyInv => SuppressorIsParent
  BY DEF SafetyInv
<1>2. QED
  BY <1>1, SafetyInvariant, PTL

\* A closed alert is never reopened, restamped or rewritten.
THEOREM ClosedIsFinal == Spec => HistoryIsFinal
<1>1. TypeOK /\ [Next]_vars =>
        [\A i \in Ids \cap Ids' : ~IsActive(i) =>
            [alert_state[i] EXCEPT !.silenced_until = NULL] =
            [alert_state[i] EXCEPT !.silenced_until = NULL]']_vars
  <2> SUFFICES ASSUME TypeOK, [Next]_vars
               PROVE  \A i \in Ids \cap Ids' : ~IsActive(i) =>
                        [alert_state[i] EXCEPT !.silenced_until = NULL] =
                        [alert_state'[i] EXCEPT !.silenced_until = NULL]
    BY DEF NULL
  <2>1. TableStep
    BY StepIsTableStep, EngineAssumption
  <2>2. QED
    BY <2>1 DEF TableStep, KeepsIncidents
<1>2. QED
  BY <1>1, TypeCorrect, PTL DEF Spec, HistoryIsFinal

-----------------------------------------------------------------------------
(***************************************************************************)
(* What an evaluation leaves behind: every triggered alert and every       *)
(* resolved one is accounted for once it is visited.                       *)
(***************************************************************************)

\* The lists are those of one evaluation, and the triggered one goes first.
LoopOrder ==
    /\ ~running => trig = {} /\ res = {}
    /\ todoT # {} => todoR = res

\* The recovery a row waits for was seen after its last mail.
SoundWait(r) ==
    /\ r.last_notified <= now
    /\ r.resolved_pending_since # NULL =>
         r.last_notified <= r.resolved_pending_since /\ r.resolved_pending_since <= now

\* So RecoveryLasted's wait since the last mail is over whenever its wait
\* since the recovery is.
RecoveriesFollowMails == \A i \in Ids : SoundWait(alert_state[i])

CoverageInv ==
    /\ SafetyInv
    /\ LoopOrder
    /\ RecoveriesFollowMails
    /\ TriggeredIsAccountedFor
    /\ ResolvedIsAccountedFor

\* Rows that differ at most in the pointer to a parent.
SameButPointer(r, s) ==
    /\ r.key = s.key
    /\ r.notify_count = s.notify_count
    /\ r.last_notified = s.last_notified
    /\ r.pending_since = s.pending_since
    /\ r.resolved_pending_since = s.resolved_pending_since
    /\ r.resolved_at = s.resolved_at
    /\ r.silenced_until = s.silenced_until

\* A row keeps its onset and its silence; a new one begins now.
KeepsOnset(i) ==
    \/ /\ i \in Ids
       /\ alert_state'[i].pending_since = alert_state[i].pending_since
       /\ alert_state'[i].silenced_until = alert_state[i].silenced_until
    \/ /\ i \notin Ids
       /\ alert_state'[i].pending_since = now
       /\ alert_state'[i].silenced_until = NULL

\* All that visiting k does to the table: it touches the open row of k, or
\* inserts one, and elsewhere sets pointers only.
VisitEffect(k) ==
    /\ \A i \in Ids \ ActiveIds(k) : i \in Ids' /\ SameButPointer(alert_state'[i], alert_state[i])
    /\ \A i \in Ids' :
        \/ i \in Ids /\ SameButPointer(alert_state'[i], alert_state[i])
        \/ alert_state'[i].key = k /\ SoundWait(alert_state'[i]) /\ KeepsOnset(i)

\* And the triggered loop closes nothing.
KeepsOpen(k) == ActiveIds(k) \subseteq ActiveIds(k)'

-----------------------------------------------------------------------------
(* Parents.                                                                *)

\* The first entry of DEPS with a match is found if any entry matches.
ParentsAreOpenRows ==
    \A k : Parents(k) # {} <=> /\ SuppressDependents
                               /\ \E p \in Ids : IsActive(p) /\ IsParentOf(alert_state[p].key, k)

LEMMA ParentsExist == ParentsAreOpenRows
<1> SUFFICES ASSUME NEW k
             PROVE  FindActiveParent(k) # {} <=>
                      \E p \in Ids : IsActive(p) /\ IsParentOf(alert_state[p].key, k)
  BY DEF ParentsAreOpenRows, Parents
<1> DEFINE S(d) == SuppressorIds(d, k)
<1>1. DOMAIN DEPS = 1 .. 4
  BY DEF DEPS
<1>2. \A p : (p \in Ids /\ IsActive(p) /\ IsParentOf(alert_state[p].key, k)) <=> \E d \in 1 .. 4 : p \in S(d)
  BY <1>1 DEF SuppressorIds, IsParentOf
<1>3. \A p : p \in FindActiveParent(k) <=>
               \E d \in 1 .. 4 : p \in S(d) /\ \A f \in 1 .. d - 1 : S(f) = {}
  BY <1>1 DEF FindActiveParent
<1>4. \A d \in 1 .. 4 : S(d) # {} => \E e \in 1 .. 4 : S(e) # {} /\ \A f \in 1 .. e - 1 : S(f) = {}
  <2> HIDE DEF S
  <2>1. CASE S(1) # {}
    BY <2>1
  <2>2. CASE S(1) = {} /\ S(2) # {}
    BY <2>2
  <2>3. CASE S(1) = {} /\ S(2) = {} /\ S(3) # {}
    BY <2>3
  <2>4. CASE S(1) = {} /\ S(2) = {} /\ S(3) = {}
    BY <2>4
  <2>5. QED
    BY <2>1, <2>2, <2>3, <2>4
<1> HIDE DEF S
<1>5. QED
  BY <1>2, <1>3, <1>4

\* The same of the next state.
LEMMA ParentsExistNext == ParentsAreOpenRows'
BY ParentsExist, PTL

-----------------------------------------------------------------------------
(* The ways of writing the table.                                          *)

\* What the loops write into a row keeps its wait sound.
LEMMA UpdatesKeepWait ==
    ASSUME now \in Nat, NEW r \in AlertRow, SoundWait(r)
    PROVE  LET q == [r EXCEPT !.resolved_pending_since = NULL]
           IN  /\ SoundWait(q)
               /\ \A p : SoundWait([q EXCEPT !.suppressed_by = p])
               /\ \A n : SoundWait([q EXCEPT !.notify_count = n, !.last_notified = now])
               /\ SoundWait([r EXCEPT !.resolved_at = now])
               /\ SoundWait([r EXCEPT !.resolved_pending_since = IF @ = NULL THEN now ELSE @])
<1> DEFINE q == [r EXCEPT !.resolved_pending_since = NULL]
<1>1. /\ r.last_notified \in Nat
      /\ q.last_notified = r.last_notified /\ q.resolved_pending_since = NULL
  BY DEF AlertRow
<1>2. SoundWait(q)
  BY <1>1 DEF SoundWait
<1>3. \A p : SoundWait([q EXCEPT !.suppressed_by = p])
  BY <1>1 DEF AlertRow, SoundWait
<1>4. \A n : SoundWait([q EXCEPT !.notify_count = n, !.last_notified = now])
  BY <1>1 DEF AlertRow, SoundWait
<1>5. SoundWait([r EXCEPT !.resolved_at = now])
  BY DEF AlertRow, SoundWait
<1>6. SoundWait([r EXCEPT !.resolved_pending_since = IF @ = NULL THEN now ELSE @])
  BY DEF AlertRow, SoundWait, NULL
<1>7. QED
  BY <1>2, <1>3, <1>4, <1>5, <1>6

\* An open row of k replaced by a row of k.
LEMMA UpdateEffect ==
    ASSUME TypeOK, NEW k, NEW i \in ActiveIds(k), NEW row, row.key = k, SoundWait(row),
           row.pending_since = alert_state[i].pending_since,
           row.silenced_until = alert_state[i].silenced_until,
           alert_state' = [alert_state EXCEPT ![i] = row]
    PROVE  VisitEffect(k) /\ Ids' = Ids /\ alert_state'[i] = row
<1>1. i \in Ids /\ alert_state \in [Ids -> AlertRow]
  BY ActiveIdsInTable DEF TypeOK, Table, Ids
<1>2. Ids' = Ids /\ alert_state'[i] = row /\ \A j \in Ids \ {i} : alert_state'[j] = alert_state[j]
  BY <1>1 DEF Ids
<1>3. QED
  BY <1>1, <1>2 DEF VisitEffect, SameButPointer, KeepsOnset

\* A row of k inserted.
LEMMA InsertEffect ==
    ASSUME TypeOK, NEW k, NEW row, row.key = k, SoundWait(row),
           row.pending_since = now, row.silenced_until = NULL, Insert(row)
    PROVE  /\ VisitEffect(k) /\ KeepsOpen(k)
           /\ nextId \in Ids' /\ alert_state'[nextId] = row
<1>1. Ids' = Ids \cup {nextId} /\ nextId \notin Ids
  BY DEF Insert, Inserted, Ids, TypeOK, Table
<1>2. alert_state'[nextId] = row /\ \A j \in Ids : alert_state'[j] = alert_state[j]
  BY <1>1 DEF Insert, Inserted
<1>3. VisitEffect(k)
  BY <1>1, <1>2 DEF VisitEffect, SameButPointer, KeepsOnset
<1>4. KeepsOpen(k)
  BY <1>1, <1>2 DEF KeepsOpen, ActiveIds, IsActive
<1>5. QED
  BY <1>1, <1>2, <1>3, <1>4

\* Stamping sets pointers only.
LEMMA StampsPointers ==
    ASSUME NEW n \in Nat, NEW t, Table(t, n), NEW p, NEW id, NEW i \in DOMAIN t
    PROVE  SameButPointer(StampedChildren(t, p, id)[i], t[i])
<1>1. t[i] \in AlertRow
  BY DEF Table
<1>2. SameButPointer([t[i] EXCEPT !.suppressed_by = id], t[i])
  BY <1>1 DEF AlertRow, SameButPointer
<1>3. QED
  BY <1>2 DEF StampedChildren, SameButPointer

\* The row of k removed.
LEMMA RemoveEffect ==
    ASSUME TypeOK, NEW k, NEW i \in ActiveIds(k), alert_state' = Removed({i})
    PROVE  VisitEffect(k) /\ Ids' = Ids \ {i}
<1>1. Ids' = Ids \ {i} /\ \A j \in Ids' : alert_state'[j] = alert_state[j]
  BY DEF Removed, Ids
<1>2. QED
  BY <1>1 DEF VisitEffect, SameButPointer

\* A row written on sight waits for nothing.
LEMMA NewRowWaits ==
    ASSUME now \in Nat, NEW k, NEW p
    PROVE  /\ SoundWait(NewRow(k, p)) /\ SoundWait(MailedAtOnce(k))
           /\ \A r \in {NewRow(k, p), MailedAtOnce(k)} :
                /\ r.key = k
                /\ r.pending_since = now /\ r.resolved_pending_since = NULL
                /\ r.resolved_at = NULL /\ r.silenced_until = NULL
BY DEF NewRow, MailedAtOnce, SoundWait

-----------------------------------------------------------------------------
(* The two loops, one item at a time.                                      *)

\* The first half of a parent's visit: a row for the parent, then pointers only.
LEMMA StampEffect ==
    ASSUME TypeOK, NEW k \in Key, StampChildren(k)
    PROVE  /\ VisitEffect(k) /\ KeepsOpen(k)
           /\ \A i \in ActiveIds(k)' :
                \/ alert_state'[i].resolved_pending_since = NULL
                \/ /\ i \in ActiveIds(k)
                   /\ alert_state'[i].resolved_pending_since = alert_state[i].resolved_pending_since
<1>1. CASE \E i \in ActiveIds(k) : alert_state' = StampedChildren(alert_state, k, i)
  <2>1. PICK i \in ActiveIds(k) : alert_state' = StampedChildren(alert_state, k, i)
    BY <1>1
  <2>2. Ids' = Ids /\ \A j \in Ids : SameButPointer(alert_state'[j], alert_state[j])
    BY <2>1, ActiveIdsInTable, StampedType, StampsPointers DEF TypeOK, Ids
  <2>3. QED
    BY <2>2 DEF VisitEffect, KeepsOpen, ActiveIds, IsActive, SameButPointer
<1>2. CASE alert_state' = StampedChildren(Inserted(NewRow(k, NULL)), k, nextId)
  <2> DEFINE t == Inserted(NewRow(k, NULL))
  <2>1. NewRow(k, NULL) \in AlertRow
    BY NewRowType DEF TypeOK, Maybe
  <2>2. Table(t, nextId + 1) /\ DOMAIN t = Ids \cup {nextId} /\ nextId + 1 \in Nat
    <3>1. Table(alert_state, nextId) /\ nextId \in Nat \ {0}
      BY DEF TypeOK
    <3>2. QED
      BY <2>1, <3>1, InsertedType
  <2>3. nextId \notin Ids
    BY DEF TypeOK, Table, Ids
  <2>4. t[nextId] = NewRow(k, NULL) /\ \A j \in Ids : t[j] = alert_state[j]
    BY <2>3 DEF Inserted
  <2> HIDE DEF t
  <2>5. Ids' = Ids \cup {nextId} /\ \A j \in Ids' : SameButPointer(alert_state'[j], t[j])
    <3>1. alert_state' = StampedChildren(t, k, nextId)
      BY <1>2 DEF t
    <3>2. DOMAIN StampedChildren(t, k, nextId) = DOMAIN t
      BY DEF StampedChildren
    <3>3. QED
      BY <2>2, <3>1, <3>2, StampsPointers DEF Ids
  <2>6. /\ SoundWait(alert_state'[nextId]) /\ alert_state'[nextId].key = k
        /\ alert_state'[nextId].resolved_pending_since = NULL
        /\ KeepsOnset(nextId)
    BY <2>3, <2>4, <2>5, NewRowWaits DEF TypeOK, SameButPointer, SoundWait, KeepsOnset
  <2>7. \A j \in Ids : SameButPointer(alert_state'[j], alert_state[j])
    BY <2>4, <2>5
  <2>8. VisitEffect(k)
    BY <2>5, <2>6, <2>7 DEF VisitEffect
  <2>9. KeepsOpen(k)
    BY <2>5, <2>7 DEF KeepsOpen, ActiveIds, IsActive, SameButPointer
  <2>10. QED
    BY <2>5, <2>6, <2>7, <2>8, <2>9 DEF ActiveIds, IsActive, SameButPointer
<1>3. QED
  BY <1>1, <1>2 DEF StampChildren

\* Why a row that is not mailed about now is not forgotten.
Accounted(k, i) ==
    \/ alert_state[i].notify_count > 0
    \/ ~IsStabilized(i)
    \/ IsSilenced(i)
    \/ HeldByParent(k)

\* The second half: the visit leaves a row of k that accounts for it.
LEMMA FirstSightingEffect ==
    ASSUME EngineAssumption, TypeOK, TypeOK', NEW k \in Key, FirstSighting(k)
    PROVE  /\ VisitEffect(k) /\ KeepsOpen(k)
           /\ \E i \in ActiveIds(k)' : Accounted(k, i)'
           /\ \A i \in ActiveIds(k)' : alert_state'[i].resolved_pending_since = NULL
<1>1. now \in Nat /\ now' = now /\ StabilizeMin \in Nat
  BY DEF TypeOK, EngineAssumption, FirstSighting, Visits
<1>2. PICK row : /\ Insert(row)
                 /\ \/ Parents(k) # {} /\ \E p : row = NewRow(k, p)
                    \/ row = NewRow(k, NULL) /\ StabilizeMin > 0
                    \/ row = MailedAtOnce(k)
  BY DEF FirstSighting
<1>3. /\ row.key = k /\ SoundWait(row)
      /\ row.pending_since = now /\ row.resolved_pending_since = NULL
      /\ row.resolved_at = NULL /\ row.silenced_until = NULL
  BY <1>1, <1>2, NewRowWaits
<1>4. PICK n : n = nextId
  OBVIOUS
<1>5. /\ VisitEffect(k) /\ KeepsOpen(k)
      /\ n \in Ids' /\ alert_state'[n] = row
  BY <1>2, <1>3, <1>4, InsertEffect
<1>6. n \in ActiveIds(k)'
  BY <1>3, <1>5 DEF ActiveIds, IsActive
<1>7. Accounted(k, n)'
  <2>1. CASE Parents(k) # {}
    <3>1. PICK p \in Ids : SuppressDependents /\ IsActive(p) /\ IsParentOf(alert_state[p].key, k)
      BY <2>1, ParentsExist DEF ParentsAreOpenRows
    <3>2. p # nextId
      BY DEF TypeOK, Table, Ids
    <3>3. p \in Ids' /\ alert_state'[p] = alert_state[p]
      BY <1>2, <3>2 DEF Insert, Inserted, Ids
    <3>4. Parents(k)' # {}
      BY <3>1, <3>3, ParentsExistNext DEF ParentsAreOpenRows, IsActive
    <3>5. QED
      BY <3>4 DEF Accounted, HeldByParent
  <2>2. CASE StabilizeMin > 0
    <3>1. alert_state'[n].pending_since = now'
      BY <1>1, <1>3, <1>5
    <3>2. ~IsStabilized(n)'
      BY <1>1, <2>2, <3>1 DEF IsStabilized
    <3>3. QED
      BY <3>2 DEF Accounted
  <2>3. CASE row = MailedAtOnce(k)
    BY <1>5, <2>3 DEF MailedAtOnce, NewRow, Accounted
  <2>4. QED
    BY <1>2, <2>1, <2>2, <2>3
<1>8. \A i \in ActiveIds(k)' : i = n
  <2>1. Ids' = Ids \cup {n} /\ \A j \in Ids : alert_state'[j] = alert_state[j]
    BY <1>2, <1>4 DEF Insert, Inserted, Ids, TypeOK, Table
  <2>2. ActiveIds(k) = {}
    BY DEF FirstSighting
  <2>3. QED
    BY <2>1, <2>2 DEF ActiveIds, IsActive
<1>9. QED
  BY <1>3, <1>5, <1>6, <1>7, <1>8

\* An open row of k is visited: it stays, with what is due written into it.
LEMMA OpenRowEffect ==
    ASSUME EngineAssumption, TypeOK, TypeOK', UniqueActive, RecoveriesFollowMails, NEW k \in Key,
           Hold(k) \/ HoldForParent(k) \/ Announce(k) \/ Remind(k)
    PROVE  /\ VisitEffect(k) /\ KeepsOpen(k)
           /\ \E i \in ActiveIds(k)' : Accounted(k, i)'
           /\ \A i \in ActiveIds(k)' : alert_state'[i].resolved_pending_since = NULL
<1> DEFINE told(i, n) == [Recurring(i) EXCEPT !.notify_count = n, !.last_notified = now]
           held(i, p) == [Recurring(i) EXCEPT !.suppressed_by = p]
<1>1. now \in Nat /\ now' = now
  BY DEF TypeOK, Hold, HoldForParent, Announce, Remind, Visits
<1>2. \A i \in ActiveIds(k) :
          /\ i \in Ids /\ alert_state[i] \in AlertRow /\ SoundWait(alert_state[i])
          /\ alert_state[i].key = k /\ alert_state[i].resolved_at = NULL
          /\ alert_state[i].notify_count \in Nat
  BY ActiveIdsInTable DEF RecoveriesFollowMails, AlertRow
<1>3. PICK i \in ActiveIds(k) : \E row :
          /\ alert_state' = [alert_state EXCEPT ![i] = row]
          /\ \/ NothingDue(k, i) /\ row = Recurring(i)
             \/ Parents(k) # {} /\ \E p : row = held(i, p)
             \/ row = told(i, 1)
             \/ alert_state[i].notify_count > 0 /\ row = told(i, alert_state[i].notify_count + 1)
  <2>1. CASE Hold(k)
    BY <2>1 DEF Hold, SetRow
  <2>2. CASE HoldForParent(k)
    <3>1. PICK i \in ActiveIds(k), p \in Parents(k) : SetRow(i, held(i, p))
      BY <2>2 DEF HoldForParent
    <3>2. alert_state' = [alert_state EXCEPT ![i] = held(i, p)]
      BY <3>1 DEF SetRow
    <3>3. Parents(k) # {} /\ \E q : held(i, p) = held(i, q)
      BY <3>1
    <3> HIDE DEF held, told
    <3>4. QED
      BY <3>2, <3>3
  <2>3. CASE Announce(k)
    BY <2>3 DEF Announce, SetRow
  <2>4. CASE Remind(k)
    <3>1. PICK i \in ActiveIds(k) :
              alert_state[i].notify_count > 0
              /\ SetRow(i, [Recurring(i) EXCEPT !.notify_count = @ + 1, !.last_notified = now])
      BY <2>4 DEF Remind
    <3>2. Recurring(i).notify_count = alert_state[i].notify_count
      BY <1>2 DEF AlertRow, Recurring
    <3>3. SetRow(i, told(i, alert_state[i].notify_count + 1))
      BY <3>1, <3>2
    <3>4. QED
      BY <3>1, <3>3 DEF SetRow
  <2>5. QED
    BY <2>1, <2>2, <2>3, <2>4
<1>r. PICK row :
          /\ alert_state' = [alert_state EXCEPT ![i] = row]
          /\ \/ NothingDue(k, i) /\ row = Recurring(i)
             \/ Parents(k) # {} /\ \E p : row = held(i, p)
             \/ row = told(i, 1)
             \/ alert_state[i].notify_count > 0 /\ row = told(i, alert_state[i].notify_count + 1)
  BY <1>3
<1>4. /\ SoundWait(Recurring(i))
      /\ \A p : SoundWait(held(i, p))
      /\ \A n : SoundWait(told(i, n))
  BY <1>1, <1>2, UpdatesKeepWait DEF Recurring
<1>5. LET same(r) == /\ r.key = k /\ r.resolved_at = NULL /\ r.resolved_pending_since = NULL
                     /\ r.silenced_until = alert_state[i].silenced_until
                     /\ r.pending_since = alert_state[i].pending_since
      IN  /\ same(Recurring(i)) /\ Recurring(i).notify_count = alert_state[i].notify_count
          /\ \A p : same(held(i, p))
          /\ \A n : same(told(i, n)) /\ told(i, n).notify_count = n
  BY <1>2 DEF AlertRow, Recurring
<1> HIDE DEF told, held
<1>6. /\ row.key = k /\ SoundWait(row) /\ row.resolved_at = NULL /\ row.resolved_pending_since = NULL
      /\ row.silenced_until = alert_state[i].silenced_until
      /\ row.pending_since = alert_state[i].pending_since
  BY <1>r, <1>4, <1>5
<1>7. VisitEffect(k) /\ Ids' = Ids /\ alert_state'[i] = row
  <2>1. alert_state' = [alert_state EXCEPT ![i] = row]
    BY <1>r
  <2>2. QED
    BY ONLY <1>6, <2>1, TypeOK, i \in ActiveIds(k), UpdateEffect
<1>8. \A j \in Ids \ {i} : alert_state'[j] = alert_state[j]
  BY <1>r DEF Ids
<1>9. KeepsOpen(k)
  BY <1>6, <1>7, <1>8 DEF KeepsOpen, ActiveIds, IsActive
<1>10. i \in ActiveIds(k)'
  BY <1>9 DEF KeepsOpen
<1>11. Accounted(k, i)'
  <2>1. CASE NothingDue(k, i) /\ row = Recurring(i)
    <3>1. row.notify_count = alert_state[i].notify_count
      BY <1>5, <2>1
    <3>2. CASE IsSilenced(i)
      BY <1>1, <1>6, <1>7, <3>2 DEF Accounted, IsSilenced
    <3>3. CASE ~IsStabilized(i)
      BY <1>1, <1>6, <1>7, <3>3 DEF Accounted, IsStabilized
    <3>4. CASE alert_state[i].notify_count > 0
      BY <1>7, <3>1, <3>4 DEF Accounted
    <3>5. QED
      BY <2>1, <3>2, <3>3, <3>4 DEF NothingDue
  <2>2. CASE Parents(k) # {}
    <3>1. PICK p \in Ids : SuppressDependents /\ IsActive(p) /\ IsParentOf(alert_state[p].key, k)
      BY <2>2, ParentsExist DEF ParentsAreOpenRows
    <3>2. IsActive(p)' /\ alert_state'[p].key = alert_state[p].key
      BY <1>2, <1>6, <1>7, <1>8, <3>1 DEF IsActive
    <3>3. Parents(k)' # {}
      BY <1>7, <3>1, <3>2, ParentsExistNext DEF ParentsAreOpenRows
    <3>4. QED
      BY <3>3 DEF Accounted, HeldByParent
  <2>3. CASE \E n \in Nat \ {0} : row = told(i, n)
    BY <1>5, <1>7, <2>3 DEF Accounted
  <2>4. QED
    <3>1. 1 \in Nat \ {0} /\ (alert_state[i].notify_count > 0 => alert_state[i].notify_count + 1 \in Nat \ {0})
      BY <1>2
    <3>2. QED
      BY <1>r, <2>1, <2>2, <2>3, <3>1
<1>12. \A j \in ActiveIds(k)' : j = i
  <2>1. \A j \in ActiveIds(k) : j = i
    BY DEF UniqueActive, ActiveIds
  <2>2. QED
    BY <1>7, <1>8, <2>1 DEF ActiveIds, IsActive
<1>13. QED
  BY <1>6, <1>7, <1>9, <1>10, <1>11, <1>12

\* The resolved loop: the visit closes the row of k, or starts or continues its wait.
LEMMA ResolvedEffect ==
    ASSUME EngineAssumption, TypeOK, UniqueActive, RecoveriesFollowMails, NEW k \in Key, ProcessResolved(k)
    PROVE  /\ VisitEffect(k)
           /\ \A i \in ActiveIds(k)' :
                /\ alert_state'[i].notify_count > 0
                /\ alert_state'[i].resolved_pending_since # NULL
                /\ now' - alert_state'[i].resolved_pending_since < StabilizeMin
                /\ i \in ActiveIds(k)
                /\ alert_state'[i].resolved_pending_since =
                     IF alert_state[i].resolved_pending_since = NULL THEN now
                     ELSE alert_state[i].resolved_pending_since
<1>1. now \in Nat /\ now' = now /\ StabilizeMin \in Nat
  BY DEF TypeOK, EngineAssumption, ProcessResolved, DropUnsent, ResolveSilently, Resolve, AwaitRecovery,
         VisitsResolved
<1>2. PICK i \in ActiveIds(k) :
          \/ alert_state' = Removed({i})
          \/ alert_state' = [alert_state EXCEPT ![i] = [alert_state[i] EXCEPT !.resolved_at = now]]
          \/ /\ alert_state[i].notify_count > 0
             /\ ~RecoveryLasted(i)
             /\ alert_state' = [alert_state EXCEPT ![i] = Recovering(i)]
  BY DEF ProcessResolved, DropUnsent, ResolveSilently, Resolve, AwaitRecovery
<1> DEFINE closed == [alert_state[i] EXCEPT !.resolved_at = now]
<1>3. /\ i \in Ids /\ alert_state[i] \in AlertRow /\ SoundWait(alert_state[i])
      /\ alert_state[i].key = k /\ alert_state[i].resolved_at = NULL
  BY ActiveIdsInTable DEF RecoveriesFollowMails
<1>4. \A j \in ActiveIds(k) : j = i
  BY DEF ActiveIds, UniqueActive
<1>5. SoundWait(closed) /\ SoundWait(Recovering(i))
  BY <1>1, <1>3, UpdatesKeepWait DEF Recovering
<1>6. /\ closed.key = k /\ closed.resolved_at = now
      /\ closed.pending_since = alert_state[i].pending_since
      /\ closed.silenced_until = alert_state[i].silenced_until
      /\ Recovering(i).pending_since = alert_state[i].pending_since
      /\ Recovering(i).silenced_until = alert_state[i].silenced_until
      /\ Recovering(i).key = k /\ Recovering(i).notify_count = alert_state[i].notify_count
      /\ Recovering(i).resolved_pending_since = IF alert_state[i].resolved_pending_since = NULL
                                                THEN now ELSE alert_state[i].resolved_pending_since
  BY <1>3 DEF AlertRow, Recovering
<1> HIDE DEF closed
<1>u. ASSUME NEW row, row.key = k, SoundWait(row),
             row.pending_since = alert_state[i].pending_since,
             row.silenced_until = alert_state[i].silenced_until,
             alert_state' = [alert_state EXCEPT ![i] = row]
      PROVE  VisitEffect(k) /\ Ids' = Ids /\ alert_state'[i] = row
  BY <1>u, UpdateEffect
<1>7. CASE alert_state' = Removed({i})
  <2>1. VisitEffect(k) /\ Ids' = Ids \ {i} /\ \A j \in Ids' : alert_state'[j] = alert_state[j]
    BY <1>7, RemoveEffect DEF Removed, Ids
  <2>2. ActiveIds(k)' = {}
    BY <1>4, <2>1 DEF ActiveIds, IsActive
  <2>3. QED
    BY <2>1, <2>2
<1>8. CASE alert_state' = [alert_state EXCEPT ![i] = closed]
  <2>1. VisitEffect(k) /\ Ids' = Ids /\ alert_state'[i] = closed
    BY <1>5, <1>6, <1>8, <1>u
  <2>2. \A j \in Ids \ {i} : alert_state'[j] = alert_state[j]
    BY <1>8 DEF Ids
  <2>3. ActiveIds(k)' = {}
    BY <1>1, <1>4, <1>6, <2>1, <2>2 DEF ActiveIds, IsActive, NULL
  <2>4. QED
    BY <2>1, <2>3
<1>9. CASE /\ alert_state[i].notify_count > 0
           /\ ~RecoveryLasted(i)
           /\ alert_state' = [alert_state EXCEPT ![i] = Recovering(i)]
  <2>1. VisitEffect(k) /\ Ids' = Ids /\ alert_state'[i] = Recovering(i)
    BY <1>5, <1>6, <1>9, <1>u
  <2>2. \A j \in Ids \ {i} : alert_state'[j] = alert_state[j]
    BY <1>9 DEF Ids
  <2>3. \A j \in ActiveIds(k)' : j = i
    BY <1>4, <2>1, <2>2 DEF ActiveIds, IsActive
  <2>4. /\ Recovering(i).resolved_pending_since # NULL
        /\ now - Recovering(i).resolved_pending_since < StabilizeMin
    <3>1. alert_state[i].last_notified \in Nat /\ alert_state[i].resolved_pending_since \in Nat \cup {NULL}
      BY <1>3 DEF AlertRow, Maybe
    <3>2. QED
      BY <1>1, <1>3, <1>6, <1>9, <3>1 DEF RecoveryLasted, SoundWait, NULL
  <2>5. QED
    BY <1>1, <1>6, <1>9, <2>1, <2>3, <2>4
<1>10. QED
  BY <1>2, <1>7, <1>8, <1>9 DEF closed

-----------------------------------------------------------------------------
(* The invariant, step by step.                                            *)

\* A visit to j leaves the open rows of the other keys alone.
LEMMA OthersKept ==
    ASSUME NEW j, VisitEffect(j), NEW k, k # j
    PROVE  /\ ActiveIds(k)' = ActiveIds(k)
           /\ \A i \in ActiveIds(k) : SameButPointer(alert_state'[i], alert_state[i])
<1>1. ASSUME NEW i \in ActiveIds(k)
      PROVE  i \in ActiveIds(k)' /\ SameButPointer(alert_state'[i], alert_state[i])
  BY <1>1 DEF VisitEffect, ActiveIds, IsActive, SameButPointer
<1>2. ASSUME NEW i \in ActiveIds(k)'
      PROVE  i \in ActiveIds(k)
  BY <1>2 DEF VisitEffect, ActiveIds, IsActive, SameButPointer
<1>3. QED
  BY <1>1, <1>2

\* What accounts for k still does after a visit to j: a parent of k is closed
\* by the resolved loop alone, which says so in res.
LEMMA StaysAccounted ==
    ASSUME NEW j, VisitEffect(j), KeepsOpen(j) \/ j \in res, now' = now, res' = res,
           NEW k, k # j, NEW i \in ActiveIds(k), Accounted(k, i)
    PROVE  i \in ActiveIds(k)' /\ Accounted(k, i)'
<1>1. i \in ActiveIds(k)' /\ SameButPointer(alert_state'[i], alert_state[i])
  BY OthersKept
<1>2. CASE Parents(k) # {}
  <2>1. PICK p \in Ids : SuppressDependents /\ IsActive(p) /\ IsParentOf(alert_state[p].key, k)
    BY <1>2, ParentsExist DEF ParentsAreOpenRows
  <2>2. CASE p \in Ids' /\ IsActive(p)' /\ alert_state'[p].key = alert_state[p].key
    <3>1. Parents(k)' # {}
      BY <2>1, <2>2, ParentsExistNext DEF ParentsAreOpenRows
    <3>2. QED
      BY <1>1, <3>1 DEF Accounted, HeldByParent
  <2>3. CASE p \in ActiveIds(j) /\ j \in res
    <3>1. HeldByParent(k)'
      BY <2>1, <2>3 DEF HeldByParent, ActiveIds
    <3>2. QED
      BY <1>1, <3>1 DEF Accounted
  <2>4. CASE p \notin ActiveIds(j)
    BY <2>1, <2>2, <2>4 DEF VisitEffect, SameButPointer, IsActive
  <2>5. QED
    BY <2>1, <2>2, <2>3, <2>4 DEF KeepsOpen, ActiveIds
<1>3. CASE SuppressDependents /\ \E p \in res : IsParentOf(p, k)
  BY <1>1, <1>3 DEF Accounted, HeldByParent
<1>4. CASE alert_state[i].notify_count > 0 \/ ~IsStabilized(i) \/ IsSilenced(i)
  BY <1>1, <1>4 DEF Accounted, SameButPointer, IsStabilized, IsSilenced
<1>5. QED
  BY <1>2, <1>3, <1>4 DEF Accounted, HeldByParent

\* The waits stay sound through a visit.
LEMMA VisitKeepsWaits ==
    ASSUME NEW k, VisitEffect(k), now' = now, RecoveriesFollowMails
    PROVE  RecoveriesFollowMails'
BY DEF VisitEffect, RecoveriesFollowMails, SoundWait, SameButPointer

\* One item of the triggered list.
LEMMA CoverageTriggered ==
    ASSUME EngineAssumption, CoverageInv, TypeOK', NEW k \in Key, StampChildren(k) \/ ProcessTriggered(k)
    PROVE  LoopOrder' /\ RecoveriesFollowMails' /\ TriggeredIsAccountedFor' /\ ResolvedIsAccountedFor'
<1> USE DEF CoverageInv, SafetyInv
<1>1. /\ k \in todoT /\ running /\ running'
      /\ now' = now /\ trig' = trig /\ res' = res /\ todoR' = todoR
      /\ todoT' \subseteq todoT
      /\ todoT \ todoT' \subseteq {k}
  <2>1. CASE StampChildren(k)
    BY <2>1 DEF StampChildren, HeadsTriggered
  <2>2. CASE Visits(k)
    BY <2>2 DEF Visits, HeadsTriggered
  <2>3. QED
    BY <2>1, <2>2 DEF ProcessTriggered, FirstSighting, Hold, HoldForParent, Announce, Remind
<1>2. /\ VisitEffect(k) /\ KeepsOpen(k)
      /\ k \notin todoT' => \E i \in ActiveIds(k)' : Accounted(k, i)'
  <2>1. CASE StampChildren(k)
    BY <1>1, <2>1, StampEffect DEF StampChildren
  <2>2. CASE ProcessTriggered(k)
    BY <2>2, FirstSightingEffect, OpenRowEffect DEF ProcessTriggered
  <2>3. QED
    BY <2>1, <2>2
<1>3. LoopOrder' /\ todoR = res
  BY <1>1 DEF LoopOrder
<1>4. ResolvedIsAccountedFor'
  BY <1>1, <1>3 DEF ResolvedIsAccountedFor
<1>5. ASSUME NEW j \in trig' \ (todoT' \cup res')
      PROVE  \E i \in ActiveIds(j)' : Accounted(j, i)'
  <2>1. CASE j = k
    BY <1>2, <1>5, <2>1
  <2>2. CASE j # k
    <3>1. j \in trig \ (todoT \cup res)
      BY <1>1, <1>5, <2>2
    <3>2. PICK i \in ActiveIds(j) : Accounted(j, i)
      BY <3>1 DEF TriggeredIsAccountedFor, Accounted
    <3>3. QED
      BY <1>1, <1>2, <2>2, <3>2, StaysAccounted
  <2>3. QED
    BY <2>1, <2>2
<1>6. TriggeredIsAccountedFor'
  BY <1>5 DEF TriggeredIsAccountedFor, Accounted
<1>7. QED
  BY <1>1, <1>2, <1>3, <1>4, <1>6, VisitKeepsWaits

\* One item of the resolved list.
LEMMA CoverageResolved ==
    ASSUME EngineAssumption, CoverageInv, NEW k \in Key, ProcessResolved(k)
    PROVE  LoopOrder' /\ RecoveriesFollowMails' /\ TriggeredIsAccountedFor' /\ ResolvedIsAccountedFor'
<1> USE DEF CoverageInv, SafetyInv
<1>1. /\ todoT = {} /\ k \in todoR /\ running /\ running'
      /\ now' = now /\ trig' = trig /\ res' = res /\ todoT' = todoT /\ todoR' = todoR \ {k}
  BY DEF ProcessResolved, DropUnsent, ResolveSilently, Resolve, AwaitRecovery, VisitsResolved
<1>2. k \in res
  BY <1>1 DEF TypeOK
<1>3. /\ VisitEffect(k)
      /\ \A i \in ActiveIds(k)' :
            /\ alert_state'[i].notify_count > 0
            /\ alert_state'[i].resolved_pending_since # NULL
            /\ now' - alert_state'[i].resolved_pending_since < StabilizeMin
  BY ResolvedEffect
<1>4. LoopOrder'
  BY <1>1 DEF LoopOrder
<1>5. ASSUME NEW j \in res' \ todoR', NEW i \in ActiveIds(j)'
      PROVE  /\ alert_state'[i].notify_count > 0
             /\ alert_state'[i].resolved_pending_since # NULL
             /\ now' - alert_state'[i].resolved_pending_since < StabilizeMin
  <2>1. CASE j = k
    BY <1>3, <1>5, <2>1
  <2>2. CASE j # k
    BY <1>1, <1>3, <1>5, <2>2, OthersKept DEF ResolvedIsAccountedFor, SameButPointer
  <2>3. QED
    BY <2>1, <2>2
<1>6. ResolvedIsAccountedFor'
  BY <1>5 DEF ResolvedIsAccountedFor
<1>7. ASSUME NEW j \in trig' \ (todoT' \cup res')
      PROVE  \E i \in ActiveIds(j)' : Accounted(j, i)'
  <2>1. j \in trig \ (todoT \cup res) /\ j # k
    BY <1>1, <1>2, <1>7
  <2>2. PICK i \in ActiveIds(j) : Accounted(j, i)
    BY <2>1 DEF TriggeredIsAccountedFor, Accounted
  <2>3. QED
    BY <1>1, <1>2, <1>3, <2>1, <2>2, StaysAccounted
<1>8. TriggeredIsAccountedFor'
  BY <1>7 DEF TriggeredIsAccountedFor, Accounted
<1>9. QED
  BY <1>1, <1>3, <1>4, <1>6, <1>8, VisitKeepsWaits

\* A crash inside an item forgets the evaluation and writes sound waits.
LEMMA CrashInItemKeepsWaits ==
    ASSUME CoverageInv, NEW k \in Key, CrashInItem(k)
    PROVE  RecoveriesFollowMails'
<1> USE DEF CoverageInv, SafetyInv
<1>1. now' = now /\ now \in Nat
  BY DEF CrashInItem, TypeOK
<1>2. CASE Insert(NewRow(k, NULL))
  BY <1>1, <1>2, InsertEffect, NewRowWaits, VisitKeepsWaits
<1>3. ASSUME NEW i \in ActiveIds(k), NEW C \in SUBSET Ids,
             alert_state' = [j \in Ids |-> IF j \in C THEN StampedChildren(alert_state, k, i)[j]
                                                     ELSE alert_state[j]]
      PROVE  RecoveriesFollowMails'
  <2>1. \A j \in Ids : SameButPointer(StampedChildren(alert_state, k, i)[j], alert_state[j])
    BY StampsPointers DEF TypeOK, Ids
  <2>2. Ids' = Ids /\ \A j \in Ids : SameButPointer(alert_state'[j], alert_state[j])
    BY <1>3, <2>1 DEF Ids, SameButPointer
  <2>3. QED
    BY <1>1, <2>2 DEF RecoveriesFollowMails, SoundWait, SameButPointer
<1>4. ASSUME NEW i \in ActiveIds(k), SetRow(i, Recurring(i))
      PROVE  RecoveriesFollowMails'
  <2>1. alert_state[i] \in AlertRow /\ alert_state[i].key = k /\ SoundWait(alert_state[i])
    BY ActiveIdsInTable DEF RecoveriesFollowMails
  <2>2. SoundWait(Recurring(i))
    BY <1>1, <2>1, UpdatesKeepWait DEF Recurring
  <2>3. /\ Recurring(i).key = k
        /\ Recurring(i).pending_since = alert_state[i].pending_since
        /\ Recurring(i).silenced_until = alert_state[i].silenced_until
    BY <2>1 DEF Recurring, AlertRow
  <2>4. QED
    BY <1>1, <1>4, <2>2, <2>3, UpdateEffect, VisitKeepsWaits DEF SetRow
<1>5. QED
  BY <1>2, <1>3, <1>4 DEF CrashInItem

\* The handlers and jobs leave the waits alone.
LEMMA HandlersKeepWaits ==
    ASSUME TypeOK, RecoveriesFollowMails, Handlers
    PROVE  RecoveriesFollowMails'
<1>1. now' = now
  BY DEF Handlers, SilenceLookup, SilenceUpdate, Unsilence, Delete, DeleteAlert, DeleteHost,
         DeleteContainer, PruneOldData, BetweenCycles
<1>2. ASSUME NEW i \in Ids, NEW u, alert_state' = [alert_state EXCEPT ![i].silenced_until = u]
      PROVE  RecoveriesFollowMails'
  <2>1. alert_state[i] \in AlertRow
    BY DEF TypeOK, Table, Ids
  <2>2. SoundWait([alert_state[i] EXCEPT !.silenced_until = u])
    BY <2>1 DEF RecoveriesFollowMails, SoundWait, AlertRow
  <2>3. Ids' = Ids /\ \A j \in Ids : SoundWait(alert_state'[j])
    BY <1>2, <2>2 DEF RecoveriesFollowMails, Ids
  <2>4. QED
    BY <1>1, <2>3 DEF RecoveriesFollowMails, SoundWait
<1>3. ASSUME NEW S, alert_state' = Removed(S)
      PROVE  RecoveriesFollowMails'
  BY <1>1, <1>3 DEF RecoveriesFollowMails, SoundWait, Removed, Ids
<1>4. CASE alert_state' = alert_state
  BY <1>1, <1>4 DEF RecoveriesFollowMails, SoundWait, Ids
<1>5. QED
  BY <1>2, <1>3, <1>4 DEF Handlers, SilenceLookup, SilenceUpdate, Unsilence, Delete, DeleteAlert,
         DeleteHost, DeleteContainer, PruneOldData

\* Nothing is visited in an evaluation that has not begun.
LEMMA NothingVisited ==
    ASSUME trig' \subseteq todoT', res' = todoR', ~running' => trig' = {} /\ res' = {}
    PROVE  LoopOrder' /\ TriggeredIsAccountedFor' /\ ResolvedIsAccountedFor'
BY DEF LoopOrder, TriggeredIsAccountedFor, ResolvedIsAccountedFor

LEMMA CoverageInvInit == Init => CoverageInv
<1> SUFFICES ASSUME Init PROVE CoverageInv
  OBVIOUS
<1>1. SafetyInv
  BY SafetyInvInit
<1>2. LoopOrder /\ RecoveriesFollowMails /\ TriggeredIsAccountedFor /\ ResolvedIsAccountedFor
  BY DEF Init, LoopOrder, RecoveriesFollowMails, Ids, TriggeredIsAccountedFor, ResolvedIsAccountedFor
<1>3. QED
  BY <1>1, <1>2 DEF CoverageInv

LEMMA CoverageInvStep == EngineAssumption /\ CoverageInv /\ [Next]_vars => CoverageInv'
<1> SUFFICES ASSUME EngineAssumption, CoverageInv, [Next]_vars PROVE CoverageInv'
  OBVIOUS
<1> USE DEF CoverageInv
<1>1. SafetyInv' /\ TypeOK /\ TypeOK'
  BY TypeOKStep, StepIsTableStep, SafetyInvStep DEF SafetyInv
<1>2. CASE Tick
  <2>1. RecoveriesFollowMails'
    BY <1>1, <1>2 DEF Tick, RecoveriesFollowMails, SoundWait, TypeOK, Table, Ids, AlertRow, Maybe, NULL
  <2>2. trig' = {} /\ res' = {} /\ todoR' = {}
    BY <1>1, <1>2 DEF Tick, LoopOrder, cycleVars, TypeOK
  <2>3. QED
    BY <1>1, <2>1, <2>2, NothingVisited
<1>3. ASSUME NEW T \in SUBSET Key, NEW R \in SUBSET Key, NEW Q \in SUBSET R, StartCycle(T, R, Q)
      PROVE  CoverageInv'
  <2>1. RecoveriesFollowMails'
    BY <1>3 DEF StartCycle, RecoveriesFollowMails, SoundWait, Ids
  <2>2. trig' \subseteq todoT' /\ res' = todoR' /\ running'
    BY <1>3 DEF StartCycle
  <2>3. QED
    BY <1>1, <2>1, <2>2, NothingVisited
<1>4. CASE \E k \in Key : StampChildren(k) \/ ProcessTriggered(k)
  BY <1>1, <1>4, CoverageTriggered
<1>5. CASE \E k \in Key : ProcessResolved(k)
  BY <1>1, <1>5, CoverageResolved
<1>6. CASE EndCycle \/ Crash
  <2>1. RecoveriesFollowMails'
    BY <1>6 DEF EndCycle, Crash, RecoveriesFollowMails, SoundWait, Ids
  <2>2. trig' = {} /\ res' = {} /\ todoR' = {}
    BY <1>6 DEF EndCycle, Crash, CycleForgotten
  <2>3. QED
    BY <1>1, <2>1, <2>2, NothingVisited
<1>7. CASE \E k \in Key : CrashInItem(k)
  <2>1. RecoveriesFollowMails'
    BY <1>7, CrashInItemKeepsWaits
  <2>2. trig' = {} /\ res' = {} /\ todoR' = {}
    BY <1>7 DEF CrashInItem, CycleForgotten
  <2>3. QED
    BY <1>1, <2>1, <2>2, NothingVisited
<1>8. CASE Handlers
  <2>1. RecoveriesFollowMails'
    BY <1>1, <1>8, HandlersKeepWaits
  <2>2. BetweenCycles
    BY <1>8 DEF Handlers, SilenceLookup, SilenceUpdate, Unsilence, Delete, DeleteAlert, DeleteHost,
           DeleteContainer, PruneOldData
  <2>3. trig' = {} /\ res' = {} /\ todoR' = {}
    BY <1>1, <2>2 DEF BetweenCycles, LoopOrder, cycleVars, TypeOK
  <2>4. QED
    BY <1>1, <2>1, <2>3, NothingVisited
<1>9. CASE UNCHANGED vars
  BY <1>1, <1>9 DEF vars, cycleVars, LoopOrder, RecoveriesFollowMails, SoundWait, Ids, IsActive, ActiveIds,
         TriggeredIsAccountedFor, ResolvedIsAccountedFor, IsStabilized, IsSilenced, HeldByParent,
         Parents, FindActiveParent, SuppressorIds
<1>10. QED
  BY <1>2, <1>3, <1>4, <1>5, <1>6, <1>7, <1>8, <1>9 DEF Next, Process

LEMMA CoverageInvariant == Spec => []CoverageInv
<1>1. Init => CoverageInv
  BY CoverageInvInit
<1>2. CoverageInv /\ [Next]_vars => CoverageInv'
  BY CoverageInvStep, EngineAssumption
<1>3. QED
  BY <1>1, <1>2, PTL DEF Spec

\* No triggered alert is lost: whatever fires together with it, whatever
\* resolves in the same evaluation and wherever an earlier one crashed, a
\* visited alert was mailed about, or is in its window, silenced or held by
\* a parent.
THEOREM TriggeredAccounted == Spec => []TriggeredIsAccountedFor
<1>1. CoverageInv => TriggeredIsAccountedFor
  BY DEF CoverageInv
<1>2. QED
  BY <1>1, CoverageInvariant, PTL

\* No resolved alert lingers: a visited one is closed or waits for a recovery
\* younger than the window.
THEOREM ResolvedAccounted == Spec => []ResolvedIsAccountedFor
<1>1. CoverageInv => ResolvedIsAccountedFor
  BY DEF CoverageInv
<1>2. QED
  BY <1>1, CoverageInvariant, PTL

(***************************************************************************)
(* AlertEngine implements AlertContract, for every set of keys and every   *)
(* value of the constants: whatever the handlers, parents and crashes do,  *)
(* the mails about each alert keep their order and their distances.        *)
(***************************************************************************)

(***************************************************************************)
(* What ties the table to the mails: of an open row never mailed about,    *)
(* the last mail is not younger than the row; of one mailed about, it is   *)
(* the one the row remembers.                                              *)
(***************************************************************************)
MailInv ==
    /\ \A k \in Key : lastMail[k] <= now
    /\ \A i \in Ids : IsActive(i) =>
        LET r == alert_state[i]
        IN  /\ r.pending_since <= now
            /\ r.notify_count = 0 => lastMail[r.key] <= r.pending_since
            /\ r.notify_count > 0 => lastMail[r.key] = r.last_notified

RefinementInv == SafetyInv /\ MailInv

\* The columns of a row the contract depends on.
SameMails(r, s) ==
    /\ r.key = s.key
    /\ r.notify_count = s.notify_count
    /\ r.last_notified = s.last_notified
    /\ r.pending_since = s.pending_since

\* A step that mails nothing: what is open after it was open before, or is new and not mailed about.
QuietStep ==
    /\ now' = now
    /\ lastMail' = lastMail
    /\ \A i \in Ids' : alert_state'[i].resolved_at = NULL =>
        \/ i \in Ids /\ IsActive(i) /\ SameMails(alert_state'[i], alert_state[i])
        \/ i \notin Ids /\ alert_state'[i].notify_count = 0 /\ alert_state'[i].pending_since = now

\* A step that mails about k: row i of k becomes `row`, or is inserted as it.
MailStep(k, i, row) ==
    /\ now' = now
    /\ lastMail' = [lastMail EXCEPT ![k] = now]
    /\ row.key = k
    /\ \/ ActiveIds(k) = {} /\ i = nextId /\ alert_state' = Inserted(row)
       \/ i \in ActiveIds(k) /\ alert_state' = [alert_state EXCEPT ![i] = row]

-----------------------------------------------------------------------------
(* How OpenCount reads the table.                                          *)

\* The one open row counts.
LEMMA OpenCountOfRow ==
    ASSUME UniqueActive, NEW k, NEW i \in ActiveIds(k)
    PROVE  OpenCount(k) = alert_state[i].notify_count
<1>1. \A j \in ActiveIds(k) : j = i
  BY DEF UniqueActive, ActiveIds
<1>2. (CHOOSE j \in ActiveIds(k) : TRUE) = i
  BY <1>1
<1>3. QED
  BY <1>2 DEF OpenCount

LEMMA OpenCountOfRowNext ==
    ASSUME UniqueActive', NEW k, NEW i \in ActiveIds(k)'
    PROVE  OpenCount(k)' = alert_state'[i].notify_count
<1>1. \A j \in ActiveIds(k)' : j = i
  BY DEF UniqueActive, ActiveIds
<1>2. (CHOOSE j \in ActiveIds(k)' : TRUE) = i
  BY <1>1
<1>3. QED
  BY <1>2 DEF OpenCount

LEMMA OpenCountType ==
    ASSUME TypeOK, UniqueActive, NEW k
    PROVE  OpenCount(k) \in Nat
<1>1. CASE ActiveIds(k) = {}
  BY <1>1 DEF OpenCount
<1>2. CASE \E i : i \in ActiveIds(k)
  <2>1. PICK i \in ActiveIds(k) : TRUE
    BY <1>2
  <2>2. QED
    BY <2>1, OpenCountOfRow, ActiveIdsInTable DEF AlertRow
<1>3. QED
  BY <1>1, <1>2

\* The mapping of the state variables that AlertContract sees.
Count == [k \in Key |-> OpenCount(k)]

-----------------------------------------------------------------------------
(* Steps that mail nothing.                                                *)

\* They leave an alert's mails as they are counted, or forget them.
LEMMA QuietStepCounts ==
    ASSUME TypeOK, TypeOK', UniqueActive, UniqueActive', QuietStep, NEW k
    PROVE  OpenCount(k)' \in {OpenCount(k), 0}
<1> SUFFICES ASSUME OpenCount(k)' # OpenCount(k), OpenCount(k)' # 0 PROVE FALSE
  OBVIOUS
<1>1. PICK i : i \in ActiveIds(k)'
  BY DEF OpenCount
<1>2. OpenCount(k)' = alert_state'[i].notify_count
  BY <1>1, OpenCountOfRowNext
<1>3. i \in Ids' /\ alert_state'[i].resolved_at = NULL /\ alert_state'[i].key = k
  BY <1>1 DEF ActiveIds, IsActive
<1>4. i \in Ids /\ IsActive(i) /\ SameMails(alert_state'[i], alert_state[i])
  BY <1>2, <1>3 DEF QuietStep
<1>5. i \in ActiveIds(k) /\ alert_state'[i].notify_count = alert_state[i].notify_count
  BY <1>3, <1>4 DEF ActiveIds, SameMails
<1>6. QED
  BY <1>2, <1>5, OpenCountOfRow

\* They forget the alerts whose open rows they close or remove.
LEMMA QuietStepForgets ==
    ASSUME TypeOK, TypeOK', UniqueActive, UniqueActive', QuietStep
    PROVE  \E K \in SUBSET Key : Contract!Forget(K)
<1> DEFINE K == {k \in Key : OpenCount(k)' # OpenCount(k)}
<1>1. \A k \in K : OpenCount(k)' = 0
  BY QuietStepCounts
<1>2. Count' = [k \in Key |-> IF k \in K THEN 0 ELSE Count[k]]
  BY <1>1 DEF Count
<1>3. Contract!Forget(K)
  BY <1>2 DEF Contract!Forget, Count, QuietStep
<1>4. QED
  BY <1>3

LEMMA QuietStepKeepsMailInv ==
    ASSUME TypeOK, TypeOK', MailInv, QuietStep
    PROVE  MailInv'
<1>1. \A k \in Key : lastMail'[k] <= now'
  BY DEF MailInv, QuietStep
<1>2. ASSUME NEW i \in Ids', alert_state'[i].resolved_at = NULL
      PROVE  LET r == alert_state'[i]
             IN  /\ r.pending_since <= now'
                 /\ r.notify_count = 0 => lastMail'[r.key] <= r.pending_since
                 /\ r.notify_count > 0 => lastMail'[r.key] = r.last_notified
  <2>1. CASE i \in Ids /\ IsActive(i) /\ SameMails(alert_state'[i], alert_state[i])
    BY <2>1 DEF MailInv, QuietStep, SameMails
  <2>2. CASE i \notin Ids /\ alert_state'[i].notify_count = 0 /\ alert_state'[i].pending_since = now
    <3>1. alert_state'[i].key \in Key /\ now \in Nat
      BY <1>2 DEF TypeOK, Table, Ids, AlertRow
    <3>2. QED
      BY <2>2, <3>1 DEF MailInv, QuietStep
  <2>3. QED
    BY <1>2, <2>1, <2>2 DEF QuietStep
<1>3. QED
  BY <1>1, <1>2 DEF MailInv, IsActive

-----------------------------------------------------------------------------
(* The ways of writing the table without a mail.                           *)

Silent == now' = now /\ lastMail' = lastMail

\* Rows removed, or nothing written.
LEMMA RemovalIsQuiet ==
    ASSUME TypeOK, Silent, NEW S, alert_state' = Removed(S) \/ alert_state' = alert_state
    PROVE  QuietStep
BY DEF Silent, QuietStep, Removed, Ids, IsActive, SameMails

\* A row replaced by a closed one, or by one of the same mails.
LEMMA RowUpdateIsQuiet ==
    ASSUME TypeOK, Silent, NEW i \in Ids, NEW row, alert_state' = [alert_state EXCEPT ![i] = row],
           row.resolved_at = NULL => IsActive(i) /\ SameMails(row, alert_state[i])
    PROVE  QuietStep
<1>1. Ids' = Ids /\ alert_state'[i] = row /\ \A j \in Ids \ {i} : alert_state'[j] = alert_state[j]
  BY DEF Ids, TypeOK, Table
<1>2. QED
  BY <1>1 DEF Silent, QuietStep, IsActive, SameMails

\* A new row not mailed about.
LEMMA InsertIsQuiet ==
    ASSUME TypeOK, Silent, NEW k, NEW p, Insert(NewRow(k, p))
    PROVE  QuietStep
<1>1. Ids' = Ids \cup {nextId}
  BY DEF Insert, Inserted, Ids
<1>2. alert_state'[nextId] = NewRow(k, p) /\ \A j \in Ids : j # nextId => alert_state'[j] = alert_state[j]
  BY <1>1 DEF Insert, Inserted
<1>3. NewRow(k, p).notify_count = 0 /\ NewRow(k, p).pending_since = now
  BY DEF NewRow
<1>4. nextId \notin Ids
  BY DEF TypeOK, Table, Ids
<1>5. QED
  BY <1>1, <1>2, <1>3, <1>4 DEF Silent, QuietStep, IsActive, SameMails

\* Stamps leave a row's mails alone.
LEMMA StampsKeepMails ==
    ASSUME NEW n \in Nat, NEW t, Table(t, n), NEW k, NEW id, NEW i \in DOMAIN t
    PROVE  LET r == StampedChildren(t, k, id)[i]
           IN  SameMails(r, t[i]) /\ r.resolved_at = t[i].resolved_at
<1>1. t[i] \in AlertRow
  BY DEF Table
<1>2. SameMails([t[i] EXCEPT !.suppressed_by = id], t[i])
      /\ [t[i] EXCEPT !.suppressed_by = id].resolved_at = t[i].resolved_at
  BY <1>1 DEF AlertRow, SameMails
<1>3. QED
  BY <1>2 DEF StampedChildren, SameMails

\* Some of the stamps.
LEMMA StampIsQuiet ==
    ASSUME TypeOK, Silent, NEW k, NEW id, NEW C \in SUBSET Ids,
           alert_state' = [j \in Ids |-> IF j \in C
                                         THEN StampedChildren(alert_state, k, id)[j]
                                         ELSE alert_state[j]]
    PROVE  QuietStep
<1>1. Ids' = Ids
  BY DEF Ids
<1>2. \A j \in Ids : SameMails(StampedChildren(alert_state, k, id)[j], alert_state[j])
                     /\ StampedChildren(alert_state, k, id)[j].resolved_at = alert_state[j].resolved_at
  BY StampsKeepMails DEF TypeOK, Ids
<1>3. \A j \in Ids : SameMails(alert_state'[j], alert_state[j])
                     /\ alert_state'[j].resolved_at = alert_state[j].resolved_at
  BY <1>2 DEF SameMails
<1>4. QED
  BY <1>1, <1>3 DEF Silent, QuietStep, IsActive

\* The parent's insert, then the stamps.
LEMMA InsertAndStampIsQuiet ==
    ASSUME TypeOK, Silent, NEW k \in Key,
           alert_state' = StampedChildren(Inserted(NewRow(k, NULL)), k, nextId)
    PROVE  QuietStep
<1> DEFINE t == Inserted(NewRow(k, NULL))
<1>1. now \in Nat /\ nextId \in Nat \ {0} /\ Table(alert_state, nextId)
  BY DEF TypeOK
<1>2. NewRow(k, NULL) \in AlertRow
  BY <1>1, NewRowType DEF Maybe
<1>3. Table(t, nextId + 1) /\ DOMAIN t = Ids \cup {nextId}
  BY <1>1, <1>2, InsertedType
<1>4. Ids' = Ids \cup {nextId}
  BY <1>3 DEF Ids, StampedChildren
<1>5. \A j \in Ids' : SameMails(alert_state'[j], t[j]) /\ alert_state'[j].resolved_at = t[j].resolved_at
  BY <1>1, <1>3, <1>4, StampsKeepMails
<1>6. t[nextId].notify_count = 0 /\ t[nextId].pending_since = now
  BY DEF Inserted, NewRow
<1>7. \A j \in Ids : j # nextId => t[j] = alert_state[j]
  BY DEF Inserted
<1>8. nextId \notin Ids
  BY <1>1 DEF Table, Ids
<1>9. QED
  BY <1>4, <1>5, <1>6, <1>7, <1>8 DEF Silent, QuietStep, IsActive, SameMails

\* Every action that mails nothing, time apart.
LEMMA TriggeredIsQuiet ==
    ASSUME TypeOK, NEW k \in Key,
           \/ StampChildren(k) \/ CrashInItem(k) \/ Hold(k) \/ HoldForParent(k)
           \/ \E p \in Maybe(Nat) : Visits(k) /\ Insert(NewRow(k, p)) /\ NoMail
    PROVE  QuietStep
<1>1. Silent
  BY DEF StampChildren, CrashInItem, Hold, HoldForParent, Visits, NoMail, Silent
<1>2. \A i \in ActiveIds(k) :
          /\ i \in Ids /\ IsActive(i)
          /\ alert_state[i] \in AlertRow
          /\ SameMails(Recurring(i), alert_state[i])
          /\ \A p : SameMails([Recurring(i) EXCEPT !.suppressed_by = p], alert_state[i])
  <2> SUFFICES ASSUME NEW i \in ActiveIds(k)
               PROVE  /\ i \in Ids /\ IsActive(i)
                      /\ alert_state[i] \in AlertRow
                      /\ SameMails(Recurring(i), alert_state[i])
                      /\ \A p : SameMails([Recurring(i) EXCEPT !.suppressed_by = p], alert_state[i])
    OBVIOUS
  <2>1. i \in Ids /\ IsActive(i) /\ alert_state[i] \in AlertRow
    BY ActiveIdsInTable DEF IsActive
  <2>2. SameMails(Recurring(i), alert_state[i])
    BY <2>1 DEF Recurring, AlertRow, SameMails
  <2>3. ASSUME NEW p PROVE SameMails([Recurring(i) EXCEPT !.suppressed_by = p], alert_state[i])
    BY <2>1 DEF Recurring, AlertRow, SameMails
  <2>4. QED
    BY <2>1, <2>2, <2>3
<1>3. CASE StampChildren(k)
  <2>1. CASE \E i \in ActiveIds(k) : alert_state' = StampedChildren(alert_state, k, i)
    <3>1. PICK i \in ActiveIds(k) : alert_state' = StampedChildren(alert_state, k, i)
      BY <2>1
    <3>2. alert_state' = [j \in Ids |-> IF j \in Ids THEN StampedChildren(alert_state, k, i)[j]
                                                     ELSE alert_state[j]]
      BY <3>1 DEF StampedChildren, Ids
    <3>3. QED
      BY <1>1, <3>2, StampIsQuiet
  <2>2. QED
    BY <1>1, <1>3, <2>1, InsertAndStampIsQuiet DEF StampChildren
<1>4. CASE Hold(k)
  BY <1>1, <1>2, <1>4, RowUpdateIsQuiet DEF Hold, SetRow
<1>5. CASE HoldForParent(k)
  <2>1. PICK i \in ActiveIds(k), p \in Parents(k) : SetRow(i, [Recurring(i) EXCEPT !.suppressed_by = p])
    BY <1>5 DEF HoldForParent
  <2>2. QED
    BY <1>1, <1>2, <2>1, RowUpdateIsQuiet DEF SetRow
<1>6. CASE CrashInItem(k)
  <2>1. CASE Insert(NewRow(k, NULL))
    BY <1>1, <2>1, InsertIsQuiet
  <2>2. CASE \E i \in ActiveIds(k) : SetRow(i, Recurring(i))
    BY <1>1, <1>2, <2>2, RowUpdateIsQuiet DEF SetRow
  <2>3. QED
    BY <1>1, <1>6, <2>1, <2>2, StampIsQuiet DEF CrashInItem
<1>7. QED
  BY <1>1, <1>3, <1>4, <1>5, <1>6, InsertIsQuiet

LEMMA ResolvedIsQuiet ==
    ASSUME TypeOK, NEW k \in Key, DropUnsent(k) \/ ResolveSilently(k) \/ AwaitRecovery(k)
    PROVE  QuietStep
<1>1. Silent
  BY DEF DropUnsent, ResolveSilently, AwaitRecovery, VisitsResolved, NoMail, Silent
<1>2. CASE DropUnsent(k)
  BY <1>1, <1>2, RemovalIsQuiet DEF DropUnsent
<1>3. CASE ResolveSilently(k)
  <2>1. PICK i \in ActiveIds(k) : alert_state' = [alert_state EXCEPT ![i].resolved_at = now]
    BY <1>3 DEF ResolveSilently
  <2>2. i \in Ids /\ [alert_state[i] EXCEPT !.resolved_at = now].resolved_at # NULL
    BY ActiveIdsInTable DEF AlertRow, TypeOK, NULL
  <2>3. QED
    BY <1>1, <2>1, <2>2, RowUpdateIsQuiet
<1>4. CASE AwaitRecovery(k)
  <2>1. PICK i \in ActiveIds(k) : alert_state' = [alert_state EXCEPT ![i] = Recovering(i)]
    BY <1>4 DEF AwaitRecovery
  <2>2. i \in Ids /\ IsActive(i) /\ SameMails(Recovering(i), alert_state[i])
    BY ActiveIdsInTable DEF AlertRow, Recovering, IsActive, SameMails
  <2>3. QED
    BY <1>1, <2>1, <2>2, RowUpdateIsQuiet
<1>5. QED
  BY <1>2, <1>3, <1>4

LEMMA HandlersAreQuiet ==
    ASSUME TypeOK, Handlers
    PROVE  QuietStep
<1>1. Silent
  BY DEF Handlers, SilenceLookup, SilenceUpdate, Unsilence, Delete, DeleteAlert, DeleteHost,
         DeleteContainer, PruneOldData, BetweenCycles, Silent
<1>2. ASSUME NEW i \in Ids, NEW until, alert_state' = [alert_state EXCEPT ![i].silenced_until = until]
      PROVE  QuietStep
  <2>1. alert_state[i] \in AlertRow
    BY DEF TypeOK, Table, Ids
  <2>2. SameMails([alert_state[i] EXCEPT !.silenced_until = until], alert_state[i])
        /\ [alert_state[i] EXCEPT !.silenced_until = until].resolved_at = alert_state[i].resolved_at
    BY <2>1 DEF AlertRow, SameMails
  <2>3. QED
    BY <1>1, <1>2, <2>2, RowUpdateIsQuiet DEF IsActive
<1>3. CASE \E i \in Ids : SilenceLookup(i) \/ Unsilence(i)
  BY <1>1, <1>2, <1>3, RemovalIsQuiet DEF SilenceLookup, Unsilence
<1>4. CASE \E i \in silencing, until \in {now + d : d \in SilenceMinutes} \cup {Forever} : SilenceUpdate(i, until)
  BY <1>1, <1>2, <1>4, RemovalIsQuiet DEF SilenceUpdate
<1>5. CASE \E S : Delete(S)
  BY <1>1, <1>5, RemovalIsQuiet DEF Delete
<1>6. QED
  BY <1>3, <1>4, <1>5 DEF Handlers, DeleteAlert, DeleteHost, DeleteContainer, PruneOldData

-----------------------------------------------------------------------------
(* Steps that mail.                                                        *)

\* They touch one row of the table.
LEMMA MailStepRows ==
    ASSUME TypeOK, UniqueActive, NEW k, NEW i, NEW row, MailStep(k, i, row)
    PROVE  /\ i \in Ids' /\ alert_state'[i] = row
           /\ \A j \in Ids' : j # i => j \in Ids /\ alert_state'[j] = alert_state[j]
           /\ \A j \in Ids : j # i => j \in Ids'
           /\ \A j \in Ids : alert_state[j].key = k /\ IsActive(j) => j = i
           /\ i \in Ids => alert_state[i].key = k
<1>1. CASE ActiveIds(k) = {} /\ i = nextId /\ alert_state' = Inserted(row)
  <2>1. Ids' = Ids \cup {nextId} /\ nextId \notin Ids
    BY <1>1 DEF Inserted, Ids, TypeOK, Table
  <2>2. alert_state'[nextId] = row /\ \A j \in Ids : alert_state'[j] = alert_state[j]
    BY <1>1, <2>1 DEF Inserted
  <2>3. QED
    BY <1>1, <2>1, <2>2 DEF ActiveIds
<1>2. CASE i \in ActiveIds(k) /\ alert_state' = [alert_state EXCEPT ![i] = row]
  <2>1. i \in Ids /\ IsActive(i) /\ alert_state[i].key = k
    BY <1>2 DEF ActiveIds
  <2>2. Ids' = Ids /\ alert_state'[i] = row /\ \A j \in Ids \ {i} : alert_state'[j] = alert_state[j]
    BY <1>2, <2>1 DEF Ids, TypeOK, Table
  <2>3. QED
    BY <2>1, <2>2 DEF UniqueActive
<1>3. QED
  BY <1>1, <1>2 DEF MailStep

\* Only the count of k changes.
LEMMA MailStepCounts ==
    ASSUME TypeOK, UniqueActive, UniqueActive', NEW k \in Key, NEW i, NEW row, MailStep(k, i, row),
           NEW n, row.resolved_at = NULL => n = row.notify_count, row.resolved_at # NULL => n = 0
    PROVE  Count' = [Count EXCEPT ![k] = n]
<1> USE MailStepRows
<1>1. row.key = k
  BY DEF MailStep
<1>2. ASSUME NEW j \in Key, j # k PROVE OpenCount(j)' = OpenCount(j)
  <2>1. ActiveIds(j)' = ActiveIds(j)
    BY <1>1, <1>2 DEF ActiveIds, IsActive
  <2>2. \A r \in ActiveIds(j) : alert_state'[r] = alert_state[r]
    BY <1>1, <1>2 DEF ActiveIds
  <2>3. CASE ActiveIds(j) = {}
    BY <2>1, <2>3 DEF OpenCount
  <2>4. CASE \E r : r \in ActiveIds(j)
    BY <2>1, <2>2, <2>4, OpenCountOfRow, OpenCountOfRowNext
  <2>5. QED
    BY <2>3, <2>4
<1>3. OpenCount(k)' = n
  <2>1. CASE row.resolved_at = NULL
    <3>1. i \in ActiveIds(k)'
      BY <1>1, <2>1 DEF ActiveIds, IsActive
    <3>2. QED
      BY <2>1, <3>1, OpenCountOfRowNext
  <2>2. CASE row.resolved_at # NULL
    <3>1. ActiveIds(k)' = {}
      BY <2>2 DEF ActiveIds, IsActive
    <3>2. QED
      BY <2>2, <3>1 DEF OpenCount
  <2>3. QED
    BY <2>1, <2>2
<1>4. QED
  BY <1>2, <1>3 DEF Count

\* The row remembers the mail, or is closed by it.
LEMMA MailStepKeepsMailInv ==
    ASSUME TypeOK, TypeOK', UniqueActive, MailInv, NEW k \in Key, NEW i, NEW row, MailStep(k, i, row),
           row.resolved_at = NULL => /\ row.notify_count > 0
                                     /\ row.last_notified = now
                                     /\ row.pending_since <= now
    PROVE  MailInv'
<1> USE MailStepRows
<1>1. now \in Nat /\ now' = now /\ lastMail \in [Key -> Maybe(Nat)]
      /\ lastMail' = [lastMail EXCEPT ![k] = now] /\ row.key = k
  BY DEF MailStep, TypeOK
<1>2. \A j \in Key : lastMail'[j] <= now'
  BY <1>1 DEF MailInv
<1>3. ASSUME NEW j \in Ids', alert_state'[j].resolved_at = NULL
      PROVE  LET r == alert_state'[j]
             IN  /\ r.pending_since <= now'
                 /\ r.notify_count = 0 => lastMail'[r.key] <= r.pending_since
                 /\ r.notify_count > 0 => lastMail'[r.key] = r.last_notified
  <2>1. CASE j = i
    BY <1>1, <1>3, <2>1
  <2>2. CASE j # i
    <3>1. j \in Ids /\ alert_state'[j] = alert_state[j] /\ IsActive(j)
      BY <1>3, <2>2 DEF IsActive
    <3>2. alert_state[j].key # k
      BY <2>2, <3>1
    <3>3. QED
      BY <1>1, <3>1, <3>2 DEF MailInv
  <2>3. QED
    BY <2>1, <2>2
<1>4. QED
  BY <1>2, <1>3 DEF MailInv, IsActive

\* The history is a function of minutes, never ahead of the clock.
LEMMA QuietForSince ==
    ASSUME TypeOK, NEW k \in Key, NEW t \in Nat, NEW d \in Nat, lastMail[k] <= t, now - t >= d
    PROVE  Contract!QuietFor(k, d)
<1>1. now \in Nat /\ lastMail[k] \in Int
  BY DEF TypeOK, Maybe, NULL
<1>2. now - lastMail[k] >= d
  BY <1>1
<1>3. QED
  BY <1>2 DEF Contract!QuietFor

\* A mail on sight, or once the window is over, is an announcement.
LEMMA FirstMailIsAnnouncement ==
    ASSUME EngineAssumption, TypeOK, TypeOK', UniqueActive, UniqueActive', MailInv, NEW k \in Key,
           \/ /\ Visits(k) /\ ActiveIds(k) = {} /\ StabilizeMin = 0
              /\ Insert(MailedAtOnce(k)) /\ QueueMail(k, "alert", 0)
           \/ Announce(k)
    PROVE  Contract!Announce(k) /\ MailInv'
<1>1. now \in Nat /\ StabilizeMin \in Nat
  BY DEF TypeOK, EngineAssumption
<1>2. CASE /\ Visits(k) /\ ActiveIds(k) = {} /\ StabilizeMin = 0
           /\ Insert(MailedAtOnce(k)) /\ QueueMail(k, "alert", 0)
  <2> DEFINE row == MailedAtOnce(k)
  <2>1. row.key = k /\ row.resolved_at = NULL /\ row.notify_count = 1
        /\ row.last_notified = now /\ row.pending_since = now
    BY DEF MailedAtOnce, NewRow
  <2>2. MailStep(k, nextId, row)
    BY <1>2, <2>1 DEF MailStep, Visits, Insert, QueueMail
  <2>3. Count' = [Count EXCEPT ![k] = 1]
    BY <2>1, <2>2, MailStepCounts
  <2>4. MailInv'
    BY <1>1, <2>1, <2>2, MailStepKeepsMailInv
  <2>5. OpenCount(k) = 0
    BY <1>2 DEF OpenCount
  <2>6. Contract!QuietFor(k, StabilizeMin)
    BY <1>1, <1>2, QuietForSince DEF MailInv
  <2>7. QED
    BY <2>2, <2>3, <2>4, <2>5, <2>6 DEF Contract!Announce, Count, MailStep
<1>3. CASE Announce(k)
  <2>1. PICK i \in ActiveIds(k) :
          /\ alert_state[i].notify_count = 0
          /\ IsStabilized(i)
          /\ SetRow(i, [Recurring(i) EXCEPT !.notify_count = 1, !.last_notified = now])
    BY <1>3 DEF Announce
  <2> DEFINE row == [Recurring(i) EXCEPT !.notify_count = 1, !.last_notified = now]
  <2>2. i \in Ids /\ IsActive(i) /\ alert_state[i] \in AlertRow /\ alert_state[i].key = k
    BY ActiveIdsInTable DEF IsActive
  <2>3. row.key = k /\ row.resolved_at = NULL /\ row.notify_count = 1
        /\ row.last_notified = now /\ row.pending_since = alert_state[i].pending_since
    BY <2>2 DEF Recurring, AlertRow, IsActive
  <2>4. MailStep(k, i, row)
    BY <1>3, <2>1, <2>3 DEF MailStep, Announce, Visits, SetRow, QueueMail
  <2>5. Count' = [Count EXCEPT ![k] = 1]
    BY <2>3, <2>4, MailStepCounts
  <2>6. alert_state[i].pending_since <= now /\ lastMail[k] <= alert_state[i].pending_since
    BY <2>1, <2>2 DEF MailInv
  <2> HIDE DEF row
  <2>7. MailInv'
    BY <1>1, <2>3, <2>4, <2>6, MailStepKeepsMailInv
  <2>8. OpenCount(k) = 0
    BY <2>1, OpenCountOfRow
  <2>9. Contract!QuietFor(k, StabilizeMin)
    BY <1>1, <2>1, <2>2, <2>6, QuietForSince DEF IsStabilized, AlertRow
  <2>10. QED
    BY <2>4, <2>5, <2>7, <2>8, <2>9 DEF Contract!Announce, Count, MailStep
<1>4. QED
  BY <1>2, <1>3

\* The engine and its contract mean the same backoff.
LEMMA SameGap == \A n : Contract!RequiredReminderGap(n) = RequiredReminderGap(n)
BY DEF Contract!RequiredReminderGap, RequiredReminderGap, Contract!Lesser, Lesser,
       Contract!MaxExponent, MaxExponent

\* A reminder keeps the gap the contract asks for.
LEMMA RemindIsReminder ==
    ASSUME TypeOK, TypeOK', UniqueActive, UniqueActive', MailInv, NEW k \in Key, Remind(k)
    PROVE  Contract!Remind(k) /\ MailInv'
<1>1. PICK i \in ActiveIds(k) :
        /\ alert_state[i].notify_count > 0
        /\ IsReminderDue(i)
        /\ SetRow(i, [Recurring(i) EXCEPT !.notify_count = @ + 1, !.last_notified = now])
  BY DEF Remind
<1> DEFINE n == alert_state[i].notify_count
           row == [Recurring(i) EXCEPT !.notify_count = @ + 1, !.last_notified = now]
<1>2. i \in Ids /\ IsActive(i) /\ alert_state[i] \in AlertRow /\ alert_state[i].key = k
  BY ActiveIdsInTable DEF IsActive
<1>3. n \in Nat /\ now \in Nat
  BY <1>2 DEF AlertRow, TypeOK
<1>4. row.key = k /\ row.resolved_at = NULL /\ row.notify_count = n + 1
      /\ row.last_notified = now /\ row.pending_since = alert_state[i].pending_since
  <2>1. Recurring(i).key = k /\ Recurring(i).resolved_at = NULL /\ Recurring(i).notify_count = n
        /\ Recurring(i).pending_since = alert_state[i].pending_since
    BY <1>2 DEF Recurring, AlertRow, IsActive
  <2>2. Recurring(i) \in AlertRow
    BY <1>2, RowUpdateType DEF Recurring, Maybe
  <2>3. QED
    BY <2>1, <2>2, Zenon DEF AlertRow
<1>5. MailStep(k, i, row)
  BY <1>1, <1>4 DEF MailStep, Remind, Visits, SetRow, QueueMail
<1>6. Count' = [Count EXCEPT ![k] = n + 1]
  <2> HIDE DEF row, n
  <2>1. row.resolved_at = NULL => n + 1 = row.notify_count
    BY <1>4
  <2>2. row.resolved_at # NULL => n + 1 = 0
    BY <1>4
  <2> QED BY ONLY <1>5, <2>1, <2>2, TypeOK, UniqueActive, UniqueActive', k \in Key, MailStepCounts
<1>7. alert_state[i].pending_since <= now /\ lastMail[k] = alert_state[i].last_notified
  BY <1>1, <1>2 DEF MailInv
<1> HIDE DEF row
<1>8. MailInv'
  BY <1>3, <1>1, <1>4, <1>5, <1>7, MailStepKeepsMailInv
<1>9. OpenCount(k) = n
  BY OpenCountOfRow
<1>10. Contract!QuietFor(k, Contract!RequiredReminderGap(n))
  BY <1>1, <1>7, SameGap DEF IsReminderDue, Contract!QuietFor
<1>11. QED
  BY <1>1, <1>5, <1>6, <1>8, <1>9, <1>10 DEF Contract!Remind, Count, MailStep

\* A resolution is told the window after the last mail.
LEMMA ResolveIsResolution ==
    ASSUME EngineAssumption, TypeOK, TypeOK', UniqueActive, UniqueActive', MailInv, NEW k \in Key, Resolve(k)
    PROVE  Contract!Resolve(k) /\ MailInv'
<1>1. PICK i \in ActiveIds(k) :
        /\ alert_state[i].notify_count > 0
        /\ RecoveryLasted(i)
        /\ alert_state' = [alert_state EXCEPT ![i].resolved_at = now]
  BY DEF Resolve
<1> DEFINE row == [alert_state[i] EXCEPT !.resolved_at = now]
<1>2. i \in Ids /\ IsActive(i) /\ alert_state[i] \in AlertRow /\ alert_state[i].key = k
  BY ActiveIdsInTable DEF IsActive
<1>3. now \in Nat /\ StabilizeMin \in Nat
  BY DEF TypeOK, EngineAssumption
<1>4. row.key = k /\ row.resolved_at # NULL
  BY <1>2, <1>3 DEF AlertRow, NULL
<1>5. MailStep(k, i, row)
  BY <1>1, <1>4 DEF MailStep, Resolve, VisitsResolved, QueueMail
<1> HIDE DEF row
<1>6. Count' = [Count EXCEPT ![k] = 0]
  BY <1>4, <1>5, MailStepCounts
<1>7. MailInv'
  BY <1>4, <1>5, MailStepKeepsMailInv
<1>8. OpenCount(k) > 0
  BY <1>1, OpenCountOfRow
<1>9. Contract!QuietFor(k, StabilizeMin)
  <2>1. CASE StabilizeMin = 0
    BY <1>3, <2>1, QuietForSince DEF MailInv
  <2>2. CASE StabilizeMin # 0
    <3>1. now - alert_state[i].last_notified >= StabilizeMin
      BY <1>1, <2>2 DEF RecoveryLasted
    <3>2. lastMail[k] = alert_state[i].last_notified
      BY <1>1, <1>2 DEF MailInv
    <3>3. QED
      BY <3>1, <3>2 DEF Contract!QuietFor
  <2>3. QED
    BY <2>1, <2>2
<1>10. QED
  BY <1>5, <1>6, <1>7, <1>8, <1>9 DEF Contract!Resolve, Count, MailStep

\* A minute passes for both.
LEMMA TickIsAdvance ==
    ASSUME TypeOK, MailInv, Tick
    PROVE  Contract!Advance /\ MailInv'
<1>1. now \in Nat /\ now' = now + 1 /\ alert_state' = alert_state /\ lastMail' = lastMail
  BY DEF TypeOK, Tick
<1>2. Ids' = Ids /\ \A k : ActiveIds(k)' = ActiveIds(k)
  BY <1>1 DEF Ids, ActiveIds, IsActive
<1>3. ASSUME NEW k PROVE OpenCount(k)' = OpenCount(k)
  <2>1. ActiveIds(k)' = ActiveIds(k)
    BY <1>2
  <2>2. (CHOOSE i \in ActiveIds(k)' : TRUE) = (CHOOSE i \in ActiveIds(k) : TRUE)
    BY <2>1
  <2>3. QED
    BY <1>1, <2>1, <2>2, Zenon DEF OpenCount
<1>4. MailInv'
  <2>1. \A k \in Key : lastMail[k] \in Int
    BY DEF TypeOK, Maybe, NULL
  <2>2. \A k \in Key : lastMail'[k] <= now'
    BY <1>1, <2>1 DEF MailInv
  <2>3. \A i \in Ids : alert_state[i].pending_since \in Nat
    BY DEF TypeOK, Table, Ids, AlertRow
  <2>4. QED
    BY <1>1, <1>2, <2>2, <2>3 DEF MailInv, IsActive
<1>5. QED
  BY <1>1, <1>3, <1>4 DEF Contract!Advance

-----------------------------------------------------------------------------

LEMMA RefinementInit == Init => Contract!Init /\ RefinementInv
<1> SUFFICES ASSUME Init PROVE Contract!Init /\ RefinementInv
  OBVIOUS
<1>1. Ids = {} /\ now = 0 /\ lastMail = [k \in Key |-> Never]
  BY DEF Init, Ids
<1>2. \A k : OpenCount(k) = 0
  BY <1>1 DEF OpenCount, ActiveIds
<1>3. Contract!Init
  BY <1>1, <1>2 DEF Contract!Init, Contract!Never, Never, NULL
<1>4. MailInv
  BY <1>1 DEF MailInv, Never, NULL
<1>5. QED
  BY <1>3, <1>4, SafetyInvInit DEF RefinementInv

\* Every step is a step of the contract, or none.
LEMMA RefinementStep ==
    EngineAssumption /\ RefinementInv /\ SafetyInv' /\ [Next]_vars => Contract!Next /\ MailInv'
<1> SUFFICES ASSUME EngineAssumption, RefinementInv, SafetyInv', [Next]_vars
             PROVE  Contract!Next /\ MailInv'
  OBVIOUS
<1>1. TypeOK /\ TypeOK' /\ UniqueActive /\ UniqueActive' /\ MailInv
  BY DEF RefinementInv, SafetyInv
<1>2. CASE QuietStep
  BY <1>1, <1>2, QuietStepForgets, QuietStepKeepsMailInv DEF Contract!Next
<1>3. CASE Tick
  BY <1>1, <1>3, TickIsAdvance DEF Contract!Next
<1>4. ASSUME NEW k \in Key, StampChildren(k) \/ CrashInItem(k)
      PROVE  QuietStep
  BY <1>1, <1>4, TriggeredIsQuiet
<1>5. ASSUME NEW k \in Key, ProcessTriggered(k)
      PROVE  Contract!Next /\ MailInv'
  <2>1. CASE FirstSighting(k)
    <3>1. Parents(k) \subseteq Maybe(Nat) /\ NULL \in Maybe(Nat)
      BY <1>1, ParentsInTable DEF Maybe
    <3>2. CASE \E p \in Maybe(Nat) : Visits(k) /\ Insert(NewRow(k, p)) /\ NoMail
      BY <1>1, <1>2, <3>2, TriggeredIsQuiet
    <3>3. CASE /\ Visits(k) /\ ActiveIds(k) = {} /\ StabilizeMin = 0
               /\ Insert(MailedAtOnce(k)) /\ QueueMail(k, "alert", 0)
      BY <1>1, <3>3, FirstMailIsAnnouncement DEF Contract!Next
    <3>4. QED
      BY <2>1, <3>1, <3>2, <3>3 DEF FirstSighting
  <2>2. CASE Hold(k) \/ HoldForParent(k)
    BY <1>1, <1>2, <2>2, TriggeredIsQuiet
  <2>3. CASE Announce(k)
    BY <1>1, <2>3, FirstMailIsAnnouncement DEF Contract!Next
  <2>4. CASE Remind(k)
    BY <1>1, <2>4, RemindIsReminder DEF Contract!Next
  <2>5. QED
    BY <1>5, <2>1, <2>2, <2>3, <2>4 DEF ProcessTriggered
<1>6. ASSUME NEW k \in Key, ProcessResolved(k)
      PROVE  Contract!Next /\ MailInv'
  <2>1. CASE DropUnsent(k) \/ ResolveSilently(k) \/ AwaitRecovery(k)
    BY <1>1, <1>2, <2>1, ResolvedIsQuiet
  <2>2. CASE Resolve(k)
    BY <1>1, <2>2, ResolveIsResolution DEF Contract!Next
  <2>3. QED
    BY <1>6, <2>1, <2>2 DEF ProcessResolved
<1>7. CASE Handlers
  BY <1>1, <1>2, <1>7, HandlersAreQuiet
<1>8. CASE Silent /\ alert_state' = alert_state
  BY <1>1, <1>2, <1>8, RemovalIsQuiet
<1>9. QED
  BY <1>2, <1>3, <1>4, <1>5, <1>6, <1>7, <1>8
  DEF Next, Process, StartCycle, EndCycle, Crash, vars, Silent

\* AlertEngine implements AlertContract: with rows, parents, evaluations and
\* crashes hidden, an alert is announced once, reminded of at the distances
\* of the backoff and resolved, never within the window of another mail.
THEOREM EngineImplementsContract == Spec => ImplementsContract
<1>1. Init => Contract!Init /\ RefinementInv
  BY RefinementInit
<1>2. RefinementInv /\ [Next]_vars => SafetyInv'
  BY TypeOKStep, StepIsTableStep, SafetyInvStep, EngineAssumption DEF RefinementInv, SafetyInv
<1>3. RefinementInv /\ [Next]_vars => RefinementInv' /\ [Contract!Next]_(Contract!vars)
  BY <1>2, RefinementStep, EngineAssumption DEF RefinementInv
<1>4. QED
  BY <1>1, <1>3, PTL DEF Spec, ImplementsContract, Contract!Spec
=============================================================================
