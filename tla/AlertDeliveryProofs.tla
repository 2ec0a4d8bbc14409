------------------------ MODULE AlertDeliveryProofs ------------------------
(***************************************************************************)
(* What the readers are told, for every set of keys, every number of runs  *)
(* in flight and every request: the mails and webhooks of a run are        *)
(* followed from the queue of processAlerts to the reader.                 *)
(***************************************************************************)
EXTENDS AlertDelivery, AlertEngineProofs

\* A step that closes no alert and opens each new row.
ClosesNothing == \A i \in Ids' :
    alert_state'[i].resolved_at = IF i \in Ids THEN alert_state[i].resolved_at ELSE NULL

\* A step that removes no open row a mail was sent about.
KeepsMailed == \A i \in Ids : IsActive(i) /\ alert_state[i].notify_count > 0 => i \in Ids'

\* A step that closes the open row of k.
Closes(k) == \E i \in ActiveIds(k) : alert_state' = [alert_state EXCEPT ![i].resolved_at = now]

-----------------------------------------------------------------------------
(* What the steps of the engine close.                                     *)

LEMMA UpdateClosesNothing ==
    ASSUME TypeOK, NEW i \in Ids, NEW row, row.resolved_at = alert_state[i].resolved_at,
           alert_state' = [alert_state EXCEPT ![i] = row]
    PROVE  ClosesNothing /\ KeepsMailed
<1>1. Ids' = Ids /\ \A j \in Ids : alert_state'[j] = IF j = i THEN row ELSE alert_state[j]
  BY DEF Ids, TypeOK, Table
<1>2. QED
  BY <1>1 DEF ClosesNothing, KeepsMailed

LEMMA InsertClosesNothing ==
    ASSUME TypeOK, NEW row, row.resolved_at = NULL, alert_state' = Inserted(row)
    PROVE  ClosesNothing /\ KeepsMailed
<1>1. Ids' = Ids \cup {nextId} /\ nextId \notin Ids
  BY DEF Inserted, Ids, TypeOK, Table
<1>2. alert_state'[nextId] = row /\ \A j \in Ids : alert_state'[j] = alert_state[j]
  BY <1>1 DEF Inserted
<1>3. QED
  BY <1>1, <1>2 DEF ClosesNothing, KeepsMailed

LEMMA StampClosesNothing ==
    ASSUME TypeOK, NEW k, NEW id, NEW C \in SUBSET Ids,
           alert_state' = [j \in Ids |-> IF j \in C
                                         THEN StampedChildren(alert_state, k, id)[j]
                                         ELSE alert_state[j]]
    PROVE  ClosesNothing /\ KeepsMailed
<1>1. Ids' = Ids
  BY DEF Ids
<1>2. \A j \in Ids : StampedChildren(alert_state, k, id)[j].resolved_at = alert_state[j].resolved_at
  BY StampsKeepMails DEF TypeOK, Ids
<1>3. \A j \in Ids : alert_state'[j].resolved_at = alert_state[j].resolved_at
  BY <1>2
<1>4. QED
  BY <1>1, <1>3 DEF ClosesNothing, KeepsMailed

LEMMA InsertAndStampClosesNothing ==
    ASSUME TypeOK, NEW k \in Key,
           alert_state' = StampedChildren(Inserted(NewRow(k, NULL)), k, nextId)
    PROVE  ClosesNothing /\ KeepsMailed
<1> DEFINE t == Inserted(NewRow(k, NULL))
<1>1. now \in Nat /\ nextId \in Nat \ {0} /\ Table(alert_state, nextId)
  BY DEF TypeOK
<1>2. Table(t, nextId + 1) /\ DOMAIN t = Ids \cup {nextId}
  BY <1>1, NewRowType, InsertedType DEF Maybe
<1>3. Ids' = Ids \cup {nextId} /\ nextId \notin Ids
  BY <1>1, <1>2 DEF Ids, StampedChildren, Table
<1>4. \A j \in Ids' : alert_state'[j].resolved_at = t[j].resolved_at
  BY <1>1, <1>2, <1>3, StampsKeepMails
<1>5. t[nextId].resolved_at = NULL /\ \A j \in Ids : t[j] = alert_state[j]
  BY <1>3 DEF Inserted, NewRow
<1>6. QED
  BY <1>3, <1>4, <1>5 DEF ClosesNothing, KeepsMailed

\* What the triggered loop writes to a row leaves it as open as it is.
LEMMA RecurringStaysOpen ==
    ASSUME TypeOK, NEW k, NEW i \in ActiveIds(k), NEW n, NEW p
    PROVE  /\ i \in Ids
           /\ Recurring(i).resolved_at = alert_state[i].resolved_at
           /\ [Recurring(i) EXCEPT !.suppressed_by = p].resolved_at = alert_state[i].resolved_at
           /\ [Recurring(i) EXCEPT !.notify_count = n, !.last_notified = now].resolved_at =
                alert_state[i].resolved_at
           /\ [Recurring(i) EXCEPT !.notify_count = @ + 1, !.last_notified = now].resolved_at =
                alert_state[i].resolved_at
<1>1. i \in Ids /\ alert_state[i] \in AlertRow
  BY ActiveIdsInTable
<1>2. Recurring(i).resolved_at = alert_state[i].resolved_at
  BY <1>1 DEF Recurring, AlertRow
<1>3. Recurring(i) \in AlertRow
  BY <1>1, RowUpdateType DEF Recurring, Maybe
<1>4. [Recurring(i) EXCEPT !.suppressed_by = p].resolved_at = alert_state[i].resolved_at
  BY <1>2, <1>3 DEF AlertRow
<1>5. [Recurring(i) EXCEPT !.notify_count = n, !.last_notified = now].resolved_at = alert_state[i].resolved_at
  BY <1>2, <1>3, Zenon DEF AlertRow
<1>6. [Recurring(i) EXCEPT !.notify_count = @ + 1, !.last_notified = now].resolved_at = alert_state[i].resolved_at
  BY <1>2, <1>3, Zenon DEF AlertRow
<1>7. QED
  BY <1>1, <1>2, <1>4, <1>5, <1>6

\* The triggered loop, wherever the hub crashes in it, closes nothing.
LEMMA TriggeredClosesNothing ==
    ASSUME TypeOK, NEW k \in Key, StampChildren(k) \/ ProcessTriggered(k) \/ CrashInItem(k)
    PROVE  ClosesNothing /\ KeepsMailed
<1> USE RecurringStaysOpen
<1>1. CASE StampChildren(k)
  <2>1. CASE \E i \in ActiveIds(k) : alert_state' = StampedChildren(alert_state, k, i)
    <3>1. PICK i \in ActiveIds(k) : alert_state' = StampedChildren(alert_state, k, i)
      BY <2>1
    <3>2. alert_state' = [j \in Ids |-> IF j \in Ids THEN StampedChildren(alert_state, k, i)[j]
                                                     ELSE alert_state[j]]
      BY <3>1 DEF StampedChildren, Ids
    <3>3. QED
      BY <3>2, StampClosesNothing
  <2>2. QED
    BY <1>1, <2>1, InsertAndStampClosesNothing DEF StampChildren
<1>2. ASSUME NEW p PROVE NewRow(k, p).resolved_at = NULL /\ MailedAtOnce(k).resolved_at = NULL
  BY DEF NewRow, MailedAtOnce
<1>3. CASE FirstSighting(k)
  BY <1>2, <1>3, InsertClosesNothing DEF FirstSighting, Insert
<1>4. CASE Hold(k)
  BY <1>4, UpdateClosesNothing DEF Hold, SetRow
<1>5. CASE HoldForParent(k)
  <2>1. PICK i \in ActiveIds(k), p \in Parents(k) : SetRow(i, [Recurring(i) EXCEPT !.suppressed_by = p])
    BY <1>5 DEF HoldForParent
  <2>2. QED
    BY <2>1, UpdateClosesNothing DEF SetRow
<1>6. CASE Announce(k)
  <2>1. PICK i \in ActiveIds(k) : SetRow(i, [Recurring(i) EXCEPT !.notify_count = 1, !.last_notified = now])
    BY <1>6 DEF Announce
  <2>2. QED
    BY <2>1, UpdateClosesNothing DEF SetRow
<1>7. CASE Remind(k)
  <2>1. PICK i \in ActiveIds(k) : SetRow(i, [Recurring(i) EXCEPT !.notify_count = @ + 1, !.last_notified = now])
    BY <1>7 DEF Remind
  <2>2. QED
    BY <2>1, UpdateClosesNothing DEF SetRow
<1>8. CASE CrashInItem(k)
  <2>1. CASE Insert(NewRow(k, NULL))
    BY <1>2, <2>1, InsertClosesNothing DEF Insert
  <2>2. CASE \E i \in ActiveIds(k) : SetRow(i, Recurring(i))
    BY <2>2, UpdateClosesNothing DEF SetRow
  <2>3. QED
    BY <1>8, <2>1, <2>2, StampClosesNothing DEF CrashInItem
<1>9. QED
  BY <1>1, <1>3, <1>4, <1>5, <1>6, <1>7, <1>8 DEF ProcessTriggered

\* The resolved loop closes the row of the alert it visits, or nothing.
LEMMA ResolvedCloses ==
    ASSUME TypeOK, NEW k \in Key
    PROVE  /\ ResolveSilently(k) \/ Resolve(k) => Closes(k)
           /\ DropUnsent(k) \/ AwaitRecovery(k) => ClosesNothing /\ KeepsMailed
<1>1. ASSUME DropUnsent(k) PROVE ClosesNothing /\ KeepsMailed
  <2>1. PICK i \in ActiveIds(k) : alert_state[i].notify_count = 0 /\ alert_state' = Removed({i})
    BY <1>1 DEF DropUnsent
  <2>2. Ids' = Ids \ {i} /\ \A j \in Ids' : alert_state'[j] = alert_state[j]
    BY <2>1 DEF Removed, Ids
  <2>3. QED
    BY <2>1, <2>2 DEF ClosesNothing, KeepsMailed
<1>2. ASSUME AwaitRecovery(k) PROVE ClosesNothing /\ KeepsMailed
  <2>1. PICK i \in ActiveIds(k) : alert_state' = [alert_state EXCEPT ![i] = Recovering(i)]
    BY <1>2 DEF AwaitRecovery
  <2>2. i \in Ids /\ Recovering(i).resolved_at = alert_state[i].resolved_at
    BY ActiveIdsInTable DEF AlertRow, Recovering
  <2>3. QED
    BY <2>1, <2>2, UpdateClosesNothing
<1>3. ResolveSilently(k) \/ Resolve(k) => Closes(k)
  BY DEF ResolveSilently, Resolve, Closes
<1>4. QED
  BY <1>1, <1>2, <1>3

\* Handlers remove rows and silence them.
LEMMA HandlersCloseNothing ==
    ASSUME TypeOK, Handlers
    PROVE  ClosesNothing
<1>1. ASSUME NEW i \in Ids, NEW until, alert_state' = [alert_state EXCEPT ![i].silenced_until = until]
      PROVE  ClosesNothing
  <2>1. alert_state[i] \in AlertRow
    BY DEF TypeOK, Table, Ids
  <2>2. [alert_state[i] EXCEPT !.silenced_until = until].resolved_at = alert_state[i].resolved_at
    BY <2>1 DEF AlertRow
  <2>3. QED
    BY <1>1, <2>2, UpdateClosesNothing
<1>2. ASSUME NEW S, alert_state' = Removed(S) \/ alert_state' = alert_state PROVE ClosesNothing
  BY <1>2 DEF ClosesNothing, Removed, Ids
<1>3. CASE \E i \in Ids : SilenceLookup(i) \/ Unsilence(i)
  BY <1>1, <1>2, <1>3 DEF SilenceLookup, Unsilence
<1>4. CASE \E i \in silencing, until \in {now + d : d \in SilenceMinutes} \cup {Forever} : SilenceUpdate(i, until)
  BY <1>1, <1>2, <1>4 DEF SilenceUpdate
<1>5. CASE \E S : Delete(S)
  BY <1>2, <1>5 DEF Delete
<1>6. QED
  BY <1>3, <1>4, <1>5 DEF Handlers, DeleteAlert, DeleteHost, DeleteContainer, PruneOldData

-----------------------------------------------------------------------------
(* The history of an alert: its rows closed in the order of their ids.     *)

ClosedInOrder == \A i, j \in Ids : alert_state[i].key = alert_state[j].key /\ j < i =>
    /\ ~IsActive(j)
    /\ ~IsActive(i) => alert_state[j].resolved_at <= alert_state[i].resolved_at

ClosedBefore == \A i \in Ids : alert_state[i].resolved_at <= now

HistoryInv == ClosedInOrder /\ ClosedBefore

\* Rows are inserted open and closed at the time.
RowsClose == \A i \in Ids' :
    \/ /\ i \in Ids
       /\ \/ alert_state'[i].resolved_at = alert_state[i].resolved_at
          \/ IsActive(i) /\ alert_state'[i].resolved_at = now
    \/ i \notin Ids /\ alert_state'[i].resolved_at = NULL

LEMMA StepClosesRows ==
    ASSUME TypeOK, [Next]_vars
    PROVE  RowsClose /\ now' \in {now, now + 1}
<1>1. ASSUME ClosesNothing PROVE RowsClose
  BY <1>1 DEF ClosesNothing, RowsClose
<1>2. ASSUME NEW k \in Key, Closes(k) PROVE RowsClose
  <2>1. PICK i \in ActiveIds(k) : alert_state' = [alert_state EXCEPT ![i].resolved_at = now]
    BY <1>2 DEF Closes
  <2>2. /\ Ids' = Ids /\ i \in Ids /\ IsActive(i) /\ alert_state[i] \in AlertRow
        /\ \A j \in Ids \ {i} : alert_state'[j] = alert_state[j]
        /\ alert_state'[i] = [alert_state[i] EXCEPT !.resolved_at = now]
    BY <2>1, ActiveIdsInTable DEF Ids, TypeOK, Table, IsActive
  <2>3. alert_state'[i].resolved_at = now
    BY <2>2 DEF AlertRow
  <2>4. QED
    BY <2>2, <2>3 DEF RowsClose
<1>3. ASSUME alert_state' = alert_state PROVE RowsClose
  BY <1>3 DEF RowsClose, Ids
<1>4. ASSUME NEW k \in Key, StampChildren(k) \/ ProcessTriggered(k) \/ ProcessResolved(k) \/ CrashInItem(k)
      PROVE  RowsClose /\ now' = now
  <2>1. RowsClose
    BY <1>1, <1>2, <1>4, TriggeredClosesNothing, ResolvedCloses DEF ProcessResolved
  <2>2. now' = now
    BY <1>4 DEF StampChildren, ProcessTriggered, FirstSighting, Hold, HoldForParent, Announce, Remind, Visits,
                ProcessResolved, DropUnsent, ResolveSilently, Resolve, AwaitRecovery, VisitsResolved, CrashInItem
  <2>3. QED
    BY <2>1, <2>2
<1>5. CASE Handlers
  <2>1. now' = now
    BY <1>5 DEF Handlers, SilenceLookup, SilenceUpdate, Unsilence, Delete, DeleteAlert, DeleteHost,
                DeleteContainer, PruneOldData, BetweenCycles
  <2>2. QED
    BY <1>1, <1>5, <2>1, HandlersCloseNothing
<1>6. QED
  BY <1>3, <1>4, <1>5 DEF Next, Process, Tick, StartCycle, EndCycle, Crash, vars

LEMMA HistoryInvStep ==
    ASSUME TypeOK, TypeOK', TableStep, HistoryInv, RowsClose, now' \in {now, now + 1}
    PROVE  HistoryInv'
<1>1. /\ now \in Nat /\ now' >= now /\ nextId \in Nat
      /\ \A i \in Ids : i \in Nat /\ i < nextId /\ alert_state[i].resolved_at \in Int
      /\ \A i \in Ids' : i \in Nat /\ alert_state'[i].resolved_at \in Int
  BY DEF TypeOK, Table, Ids, AlertRow, Maybe, NULL
<1>2. \A i \in Ids' \ Ids : i = nextId /\ ActiveIds(alert_state'[i].key) = {}
  BY DEF TableStep, InsertsOnlyUnopened
<1>3. \A i \in Ids \cap Ids' : alert_state'[i].key = alert_state[i].key
  BY DEF TableStep, KeepsIncidents
<1>4. ClosedBefore'
  <2> SUFFICES ASSUME NEW i \in Ids' PROVE alert_state'[i].resolved_at <= now'
    BY DEF ClosedBefore
  <2>1. CASE i \in Ids
    BY <1>1, <2>1 DEF RowsClose, HistoryInv, ClosedBefore
  <2>2. CASE i \notin Ids
    BY <1>1, <2>2 DEF RowsClose, NULL
  <2>3. QED
    BY <2>1, <2>2
<1>5. ClosedInOrder'
  <2> SUFFICES ASSUME NEW i \in Ids', NEW j \in Ids', alert_state'[i].key = alert_state'[j].key, j < i
               PROVE  /\ alert_state'[j].resolved_at # NULL
                      /\ alert_state'[i].resolved_at # NULL =>
                            alert_state'[j].resolved_at <= alert_state'[i].resolved_at
    BY DEF ClosedInOrder, IsActive
  <2>1. j \in Ids
    BY <1>1, <1>2
  <2>2. CASE i \in Ids
    <3>1. alert_state[i].key = alert_state[j].key /\ ~IsActive(j)
      BY <1>3, <2>1, <2>2 DEF HistoryInv, ClosedInOrder
    <3>2. alert_state'[j].resolved_at = alert_state[j].resolved_at
      BY <2>1, <3>1 DEF RowsClose
    <3>3. alert_state[j].resolved_at <= now
      BY <2>1 DEF HistoryInv, ClosedBefore
    <3>4. CASE alert_state'[i].resolved_at = alert_state[i].resolved_at
      BY <2>1, <2>2, <3>1, <3>2, <3>4 DEF HistoryInv, ClosedInOrder, IsActive
    <3>5. CASE alert_state'[i].resolved_at = now
      BY <3>1, <3>2, <3>3, <3>5 DEF IsActive
    <3>6. QED
      BY <2>2, <3>4, <3>5 DEF RowsClose
  <2>3. CASE i \notin Ids
    <3>1. ~IsActive(j)
      BY <1>2, <1>3, <2>1, <2>3 DEF ActiveIds
    <3>2. alert_state'[j].resolved_at = alert_state[j].resolved_at
      BY <2>1, <3>1 DEF RowsClose
    <3>3. QED
      BY <2>3, <3>1, <3>2 DEF RowsClose, IsActive
  <2>4. QED
    BY <2>2, <2>3
<1>6. QED
  BY <1>4, <1>5 DEF HistoryInv

-----------------------------------------------------------------------------
(* What the readers ought to hear, and what a list of mails tells them.    *)

Word(k) == IF OpenCount(k) > 0 THEN "alert" ELSE "resolution"

\* The last of the mails about k says w.
LastSays(mails, k, w) == \A n \in DOMAIN mails :
    /\ mails[n].key = k
    /\ \A m \in DOMAIN mails : m > n => mails[m].key # k
    => mails[n].kind = w

LEMMA LastSaysAppend ==
    ASSUME NEW mails \in Seq(Mail), NEW m \in Mail, NEW k, NEW w,
           IF m.key = k THEN m.kind = w ELSE LastSays(mails, k, w)
    PROVE  LastSays(Append(mails, m), k, w)
<1> DEFINE more == Append(mails, m)
<1>1. /\ Len(mails) \in Nat /\ DOMAIN mails = 1 .. Len(mails) /\ DOMAIN more = 1 .. Len(mails) + 1
      /\ more[Len(mails) + 1] = m
      /\ \A n \in DOMAIN mails : n \in DOMAIN more /\ more[n] = mails[n]
  OBVIOUS
<1> HIDE DEF more
<1>2. LastSays(more, k, w)
  <2> SUFFICES ASSUME NEW n \in DOMAIN more, more[n].key = k,
                      \A l \in DOMAIN more : l > n => more[l].key # k
               PROVE  more[n].kind = w
    BY DEF LastSays
  <2>1. CASE n = Len(mails) + 1
    BY <1>1, <2>1
  <2>2. CASE n \in DOMAIN mails
    <3>1. m.key # k
      BY <1>1, <2>2
    <3>2. mails[n].key = k /\ \A l \in DOMAIN mails : l > n => mails[l].key # k
      BY <1>1, <2>2
    <3>3. QED
      BY <1>1, <2>2, <3>1, <3>2 DEF LastSays
  <2>3. QED
    BY <1>1, <2>1, <2>2
<1>3. QED
  BY <1>2 DEF more

LEMMA MailKeysAppend ==
    ASSUME NEW mails \in Seq(Mail), NEW m \in Mail
    PROVE  MailKeys(Append(mails, m)) = MailKeys(mails) \cup {m.key}
<1> DEFINE more == Append(mails, m)
<1>1. /\ DOMAIN more = DOMAIN mails \cup {Len(mails) + 1}
      /\ more[Len(mails) + 1] = m
      /\ \A n \in DOMAIN mails : more[n] = mails[n]
  OBVIOUS
<1> HIDE DEF more
<1>2. MailKeys(more) = MailKeys(mails) \cup {m.key}
  BY <1>1 DEF MailKeys
<1>3. QED
  BY <1>2 DEF more

\* Taking the first mail off the list.
LEMMA TailOfMails ==
    ASSUME NEW mails \in Seq(Mail), mails # << >>
    PROVE  /\ Tail(mails) \in Seq(Mail) /\ Head(mails) \in Mail
           /\ MailKeys(mails) = MailKeys(Tail(mails)) \cup {Head(mails).key}
           /\ \A k, w : LastSays(mails, k, w) => LastSays(Tail(mails), k, w)
           /\ \A w : LastSays(mails, Head(mails).key, w) /\ Head(mails).key \notin MailKeys(Tail(mails))
                        => Head(mails).kind = w
<1> DEFINE rest == Tail(mails)
           m == Head(mails)
<1>1. /\ rest \in Seq(Mail) /\ m \in Mail
      /\ Len(mails) \in Nat \ {0} /\ DOMAIN mails = 1 .. Len(mails) /\ DOMAIN rest = 1 .. Len(mails) - 1
      /\ m = mails[1]
      /\ \A n \in DOMAIN rest : n + 1 \in DOMAIN mails /\ rest[n] = mails[n + 1]
  OBVIOUS
<1> HIDE DEF rest, m
<1>2. \A n \in DOMAIN mails : n # 1 => n - 1 \in DOMAIN rest /\ rest[n - 1] = mails[n]
  BY <1>1
<1>3. MailKeys(mails) = MailKeys(rest) \cup {m.key}
  <2>1. MailKeys(mails) \subseteq MailKeys(rest) \cup {m.key}
    BY <1>1, <1>2 DEF MailKeys
  <2>2. MailKeys(rest) \cup {m.key} \subseteq MailKeys(mails)
    BY <1>1 DEF MailKeys
  <2>3. QED
    BY <2>1, <2>2
<1>4. ASSUME NEW k, NEW w, LastSays(mails, k, w) PROVE LastSays(rest, k, w)
  <2> SUFFICES ASSUME NEW n \in DOMAIN rest, rest[n].key = k,
                      \A l \in DOMAIN rest : l > n => rest[l].key # k
               PROVE  rest[n].kind = w
    BY DEF LastSays
  <2>1. mails[n + 1].key = k /\ n + 1 \in DOMAIN mails
    BY <1>1
  <2>2. ASSUME NEW l \in DOMAIN mails, l > n + 1 PROVE mails[l].key # k
    BY <1>1, <1>2, <2>2
  <2>3. QED
    BY <1>1, <1>4, <2>1, <2>2 DEF LastSays
<1>5. ASSUME NEW w, LastSays(mails, m.key, w), m.key \notin MailKeys(rest) PROVE m.kind = w
  <2>1. ASSUME NEW l \in DOMAIN mails, l > 1 PROVE mails[l].key # m.key
    BY <1>1, <1>2, <1>5, <2>1 DEF MailKeys
  <2>2. QED
    BY <1>1, <1>5, <2>1 DEF LastSays
<1>6. QED
  BY <1>1, <1>3, <1>4, <1>5 DEF rest, m

-----------------------------------------------------------------------------
(* What the steps of the engine do to the word about an alert.             *)

\* Without a mail it changes for closed alerts only.
LEMMA QuietStepWords ==
    ASSUME TypeOK, TypeOK', UniqueActive, UniqueActive', QuietStep, NEW k \in Key, Word(k)' # Word(k)
    PROVE  k \in ClosedKeys
<1>1. OpenCount(k) > 0 /\ OpenCount(k)' = 0
  <2>1. OpenCount(k)' \in {OpenCount(k), 0} /\ OpenCount(k) \in Nat
    BY QuietStepCounts, OpenCountType
  <2>2. QED
    BY <2>1 DEF Word
<1>2. PICK i : i \in ActiveIds(k)
  BY <1>1 DEF OpenCount
<1>3. i \in Ids /\ IsActive(i) /\ alert_state[i].key = k /\ alert_state[i].notify_count > 0
  BY <1>1, <1>2, OpenCountOfRow, ActiveIdsInTable DEF IsActive
<1>4. ASSUME i \in Ids', alert_state'[i].resolved_at = NULL PROVE FALSE
  <2>1. SameMails(alert_state'[i], alert_state[i])
    BY <1>3, <1>4 DEF QuietStep
  <2>2. i \in ActiveIds(k)' /\ alert_state'[i].notify_count = alert_state[i].notify_count
    BY <1>3, <1>4, <2>1 DEF SameMails, ActiveIds, IsActive
  <2>3. OpenCount(k)' = alert_state'[i].notify_count
    BY <2>2, OpenCountOfRowNext
  <2>4. QED
    BY <1>1, <1>3, <2>2, <2>3
<1>5. QED
  BY <1>3, <1>4 DEF ClosedKeys

\* Where nothing is closed or removed it does not change.
LEMMA SteadyWords ==
    ASSUME TypeOK, TypeOK', UniqueActive, UniqueActive', QuietStep, ClosesNothing, KeepsMailed, NEW k \in Key
    PROVE  Word(k)' = Word(k)
<1>1. ClosedKeys = {}
  BY DEF ClosedKeys, ClosesNothing, KeepsMailed, IsActive
<1>2. QED
  BY <1>1, QuietStepWords

MailAbout(k, kind, l) == [key |-> k, kind |-> kind, reminder |-> l]

\* An item of processAlerts without a mail: nothing to say but about an alert closed silently.
QuietItem ==
    /\ toSend' = toSend
    /\ \A j \in Key : Word(j)' # Word(j) => j \in ClosedKeys \cap silent

\* An item with one, which says what is so then.
MailedItem(k) == \E m \in Mail :
    /\ toSend' = Append(toSend, m)
    /\ m.key = k /\ k \notin silent
    /\ m.kind = Word(k)'
    /\ \A j \in Key \ {k} : Word(j)' = Word(j)

LEMMA ItemWords ==
    ASSUME EngineAssumption, RefinementInv, SafetyInv', silent \cap trig = {}, NEW k \in Key,
           StampChildren(k) \/ ProcessTriggered(k) \/ ProcessResolved(k)
    PROVE  QuietItem \/ MailedItem(k)
<1>1. TypeOK /\ TypeOK' /\ UniqueActive /\ UniqueActive' /\ MailInv
  BY DEF RefinementInv, SafetyInv
<1>2. ASSUME QuietStep, ClosesNothing, KeepsMailed, toSend' = toSend
      PROVE  QuietItem
  BY <1>1, <1>2, SteadyWords DEF QuietItem
<1>3. \A kind \in {"alert", "resolution"}, l \in Nat :
        LET m == MailAbout(k, kind, l) IN m \in Mail /\ m.key = k /\ m.kind = kind
  BY DEF Mail, MailAbout
<1>4. ASSUME HeadsTriggered(k) PROVE k \notin silent
  BY <1>1, <1>4 DEF HeadsTriggered, TypeOK
<1>5. CASE StampChildren(k)
  <2>1. toSend' = toSend
    BY <1>5 DEF StampChildren
  <2>2. QED
    BY <1>1, <1>2, <1>5, <2>1, TriggeredIsQuiet, TriggeredClosesNothing
<1>6. CASE ProcessTriggered(k)
  <2>1. k \notin silent
    BY <1>4, <1>6 DEF ProcessTriggered, FirstSighting, Hold, HoldForParent, Announce, Remind, Visits
  <2>2. ClosesNothing /\ KeepsMailed
    BY <1>1, <1>6, TriggeredClosesNothing
  <2>3. CASE FirstSighting(k)
    <3>1. Parents(k) \subseteq Maybe(Nat) /\ NULL \in Maybe(Nat)
      BY <1>1, ParentsInTable DEF Maybe
    <3>2. CASE \E p \in Maybe(Nat) : Visits(k) /\ Insert(NewRow(k, p)) /\ NoMail
      BY <1>1, <1>2, <2>2, <3>2, TriggeredIsQuiet DEF NoMail
    <3>3. CASE /\ Visits(k) /\ ActiveIds(k) = {} /\ StabilizeMin = 0
               /\ Insert(MailedAtOnce(k)) /\ QueueMail(k, "alert", 0)
      <4>1. Contract!Announce(k)
        BY <1>1, <3>3, FirstMailIsAnnouncement
      <4>2. \A j \in Key : OpenCount(j)' = IF j = k THEN 1 ELSE OpenCount(j)
        BY <4>1 DEF Contract!Announce
      <4>3. toSend' = Append(toSend, MailAbout(k, "alert", 0))
        BY <3>3 DEF QueueMail, MailAbout
      <4>4. Word(k)' = "alert" /\ \A j \in Key \ {k} : Word(j)' = Word(j)
        BY <4>2 DEF Word
      <4>5. QED
        BY <1>3, <2>1, <4>3, <4>4 DEF MailedItem
    <3>4. QED
      BY <2>3, <3>1, <3>2, <3>3 DEF FirstSighting
  <2>4. CASE Hold(k) \/ HoldForParent(k)
    <3>1. toSend' = toSend
      BY <2>4 DEF Hold, HoldForParent, NoMail
    <3>2. QED
      BY <1>1, <1>2, <2>2, <2>4, <3>1, TriggeredIsQuiet
  <2>5. CASE Announce(k)
    <3>1. Contract!Announce(k)
      BY <1>1, <2>5, FirstMailIsAnnouncement
    <3>2. \A j \in Key : OpenCount(j)' = IF j = k THEN 1 ELSE OpenCount(j)
      BY <3>1 DEF Contract!Announce
    <3>3. toSend' = Append(toSend, MailAbout(k, "alert", 0))
      BY <2>5 DEF Announce, QueueMail, MailAbout
    <3>4. Word(k)' = "alert" /\ \A j \in Key \ {k} : Word(j)' = Word(j)
      BY <3>2 DEF Word
    <3>5. QED
      BY <1>3, <2>1, <3>3, <3>4 DEF MailedItem
  <2>6. CASE Remind(k)
    <3>1. Contract!Remind(k)
      BY <1>1, <2>6, RemindIsReminder
    <3>2. /\ OpenCount(k) \in Nat
          /\ \A j \in Key : OpenCount(j)' = IF j = k THEN OpenCount(k) + 1 ELSE OpenCount(j)
      BY <1>1, <3>1, OpenCountType DEF Contract!Remind
    <3>3. \E l \in Nat : toSend' = Append(toSend, MailAbout(k, "alert", l))
      BY <1>1, <2>6, ActiveIdsInTable DEF Remind, AlertRow, QueueMail, MailAbout
    <3>4. Word(k)' = "alert" /\ \A j \in Key \ {k} : Word(j)' = Word(j)
      BY <3>2 DEF Word
    <3>5. QED
      BY <1>3, <2>1, <3>3, <3>4 DEF MailedItem
  <2>7. QED
    BY <1>6, <2>3, <2>4, <2>5, <2>6 DEF ProcessTriggered
<1>7. CASE ProcessResolved(k)
  <2>1. CASE DropUnsent(k) \/ AwaitRecovery(k)
    <3>1. toSend' = toSend
      BY <2>1 DEF DropUnsent, AwaitRecovery, NoMail
    <3>2. QuietStep /\ ClosesNothing /\ KeepsMailed
      BY <1>1, <2>1, ResolvedIsQuiet, ResolvedCloses
    <3>3. QED
      BY <1>2, <3>1, <3>2
  <2>2. CASE ResolveSilently(k)
    <3>1. QuietStep /\ toSend' = toSend /\ k \in silent
      BY <1>1, <2>2, ResolvedIsQuiet DEF ResolveSilently, NoMail
    <3>2. ASSUME NEW j \in Key, Word(j)' # Word(j) PROVE j \in ClosedKeys \cap silent
      <4>1. j \in ClosedKeys
        BY <1>1, <3>1, <3>2, QuietStepWords
      <4>2. PICK i \in ActiveIds(k) : alert_state' = [alert_state EXCEPT ![i].resolved_at = now]
        BY <2>2 DEF ResolveSilently
      <4>3. Ids' = Ids /\ alert_state[i].key = k /\ \A l \in Ids : l # i => alert_state'[l] = alert_state[l]
        BY <1>1, <4>2, ActiveIdsInTable DEF Ids, TypeOK, Table
      <4>4. j = k
        BY <4>1, <4>3 DEF ClosedKeys, IsActive
      <4>5. QED
        BY <3>1, <4>1, <4>4
    <3>3. QED
      BY <3>1, <3>2 DEF QuietItem
  <2>3. CASE Resolve(k)
    <3>1. Contract!Resolve(k)
      BY <1>1, <2>3, ResolveIsResolution
    <3>2. \A j \in Key : OpenCount(j)' = IF j = k THEN 0 ELSE OpenCount(j)
      BY <3>1 DEF Contract!Resolve
    <3>3. toSend' = Append(toSend, MailAbout(k, "resolution", 0)) /\ k \notin silent
      BY <2>3 DEF Resolve, QueueMail, MailAbout
    <3>4. Word(k)' = "resolution" /\ \A j \in Key \ {k} : Word(j)' = Word(j)
      BY <3>2 DEF Word
    <3>5. QED
      BY <1>3, <3>3, <3>4 DEF MailedItem
  <2>4. QED
    BY <1>7, <2>1, <2>2, <2>3 DEF ProcessResolved
<1>8. QED
  BY <1>5, <1>6, <1>7

-----------------------------------------------------------------------------
(* The inductive invariant.                                                *)

EngineInv == RefinementInv /\ HistoryInv

\* A run is named after its evaluation once that is over; processAlerts leaves
\* nothing behind when it is not running.
RunsAreNumbered ==
    /\ running => /\ evaluations > 0 /\ evaluations \notin DOMAIN sending
                  /\ \A k \in Key : newest[k] # evaluations
    /\ ~running => toSend = << >> /\ silent = {}

\* A run awaits the mail or the webhook of the first item it has left.
HeadsAreAwaited == \A r \in DOMAIN sending :
    sending[r].awaits \in {"smtp", "webhook"} => sending[r].mails # << >>

\* What resolves silently is neither triggered nor mailed about by this evaluation.
SilentAlertsAreUnsaid == silent \cap (trig \cup MailKeys(toSend)) = {}

\* The last mail queued about an alert says what is so.
QueueSaysSo == \A k \in MailKeys(toSend) : LastSays(toSend, k, Word(k))

\* Else the last mail of its newest run does, while that run has one left.
FlightSaysSo == \A k \in Key \ MailKeys(toSend) : \A r \in DOMAIN sending :
    newest[k] = r => LastSays(sending[r].mails, k, Word(k))

\* Else the readers were told so, unless they missed it.
ToldSaysSo == \A k \in Key \ missed :
    k \notin MailKeys(toSend) \cup InFlight => (told[k] = "alert" <=> Word(k) = "alert")

\* The webhook of an item is awaited after its mail: if that was the newest
\* about the alert and was not missed, it was the last one told.
HooksFollowMails == \A r \in DOMAIN sending : sending[r].awaits = "webhook" =>
    LET m == Head(sending[r].mails)
    IN  newest[m.key] = r /\ m.key \notin missed => told[m.key] = m.kind

RunInv == DeliveryTypeOK /\ RunsAreNumbered /\ HeadsAreAwaited

ReaderInv == SilentAlertsAreUnsaid /\ QueueSaysSo /\ FlightSaysSo /\ ToldSaysSo /\ HooksFollowMails

DeliveryInv == EngineInv /\ RunInv /\ ReaderInv

-----------------------------------------------------------------------------
(* The engine within the delivery.                                         *)

LEMMA StepIsEngineStep ==
    ASSUME [DeliveryNext]_deliveryVars
    PROVE  [Next]_vars \/ SkipEvaluation
<1>1. ASSUME NEW r, Sends(r) PROVE vars' = vars
  BY <1>1 DEF Sends, BeginItem, MailSent, MailFailed, WebhookSettled, BeginAftermath, SkipAftermath,
              AftermathSettled, Return, SendingOnly
<1>2. CASE Requests
  <2>1. CASE DeleteRows
    BY <2>1 DEF DeleteRows, Next, Handlers
  <2>2. QED
    BY <1>2, <2>1 DEF Requests, UpdateRule, ResetRules, SnoozeAlerts
<1>3. CASE HubExits
  BY <1>3 DEF HubExits, Next
<1>4. CASE Evaluates
  BY <1>4 DEF Evaluates, ProcessItems, HandOver, NothingToSend, Next, Process
<1>5. CASE TimePasses
  BY <1>5 DEF TimePasses, Next
<1>6. ASSUME NEW T \in SUBSET Key, NEW R \in SUBSET Key, NEW Q \in SUBSET R, RunAlerts(T, R, Q)
      PROVE  Next
  BY <1>6 DEF RunAlerts, Next
<1>7. CASE deliveryVars' = deliveryVars
  BY <1>7 DEF deliveryVars
<1>8. QED
  BY <1>1, <1>2, <1>3, <1>4, <1>5, <1>6, <1>7 DEF DeliveryNext

LEMMA EngineInvInit == Init => EngineInv
<1> SUFFICES ASSUME Init PROVE EngineInv
  OBVIOUS
<1>1. Ids = {}
  BY DEF Init, Ids
<1>2. QED
  BY <1>1, RefinementInit DEF EngineInv, HistoryInv, ClosedInOrder, ClosedBefore

LEMMA EngineInvStep ==
    ASSUME EngineAssumption, EngineInv, [DeliveryNext]_deliveryVars
    PROVE  EngineInv'
<1>1. TypeOK /\ SafetyInv /\ MailInv /\ HistoryInv
  BY DEF EngineInv, RefinementInv, SafetyInv
<1>2. CASE [Next]_vars
  <2>1. TypeOK' /\ TableStep
    BY <1>1, <1>2, TypeOKStep, StepIsTableStep
  <2>2. SafetyInv'
    BY <1>1, <2>1, SafetyInvStep
  <2>3. MailInv'
    BY <1>1, <1>2, <2>2, RefinementStep DEF RefinementInv
  <2>4. HistoryInv'
    BY <1>1, <1>2, <2>1, StepClosesRows, HistoryInvStep
  <2>5. QED
    BY <2>2, <2>3, <2>4 DEF EngineInv, RefinementInv
<1>3. CASE SkipEvaluation
  <2>1. alert_state' = alert_state /\ nextId' = nextId /\ now' = now /\ lastMail' = lastMail
    BY <1>3 DEF SkipEvaluation
  <2>2. TypeOK'
    BY <1>1, <1>3 DEF TypeOK, SkipEvaluation, cycleVars
  <2>3. TableStep /\ QuietStep
    BY <1>1, <2>1, RemovalIsTableStep, RemovalIsQuiet DEF Silent
  <2>4. RowsClose
    BY <2>1 DEF RowsClose, Ids
  <2>5. SafetyInv' /\ MailInv' /\ HistoryInv'
    BY <1>1, <2>1, <2>2, <2>3, <2>4, SafetyInvStep, QuietStepKeepsMailInv, HistoryInvStep
  <2>6. QED
    BY <2>5 DEF EngineInv, RefinementInv
<1>4. QED
  BY <1>2, <1>3, StepIsEngineStep

\* An untouched table says the same.
LEMMA SameTableSameWord ==
    ASSUME alert_state' = alert_state, NEW k
    PROVE  Word(k)' = Word(k)
<1>1. ActiveIds(k)' = ActiveIds(k)
  BY DEF ActiveIds, Ids, IsActive
<1>2. (CHOOSE i \in ActiveIds(k)' : TRUE) = (CHOOSE i \in ActiveIds(k) : TRUE)
  BY <1>1
<1>3. OpenCount(k)' = OpenCount(k)
  BY <1>1, <1>2, Zenon DEF OpenCount
<1>4. QED
  BY <1>3 DEF Word

-----------------------------------------------------------------------------
(* The runs.                                                               *)

LEMMA AwaitingType ==
    ASSUME NEW run \in Run, NEW promise \in {"nothing", "smtp", "webhook", "aftermath"}, NEW hook \in BOOLEAN
    PROVE  [run EXCEPT !.awaits = promise] \in Run /\ [run EXCEPT !.hook = hook] \in Run
BY DEF Run

\* The ways a run goes on after a mail keep it well typed.
LEMMA AfterMailType ==
    ASSUME NEW run \in Run, run.mails # << >>
    PROVE  /\ NextItem(run) \in Run /\ AfterMail(run) \in Run
           /\ NextItem(run).mails = Tail(run.mails) /\ NextItem(run).awaits = "nothing"
           /\ \/ ~run.hook /\ AfterMail(run) = NextItem(run)
              \/ /\ run.hook /\ AfterMail(run).mails = run.mails
                 /\ AfterMail(run).awaits = "webhook"
<1>1. run.mails \in Seq(Mail) /\ Tail(run.mails) \in Seq(Mail)
  BY DEF Run
<1>2. NextItem(run) \in Run /\ NextItem(run).mails = Tail(run.mails) /\ NextItem(run).awaits = "nothing"
  BY <1>1 DEF NextItem, Run
<1>3. /\ [run EXCEPT !.awaits = "webhook"] \in Run
      /\ [run EXCEPT !.awaits = "webhook"].mails = run.mails
      /\ [run EXCEPT !.awaits = "webhook"].awaits = "webhook"
  BY DEF Run
<1>4. QED
  BY <1>2, <1>3 DEF AfterMail

LEMMA AftermathType ==
    ASSUME NEW run \in Run
    PROVE  /\ NextAftermath(run) \in Run
           /\ NextAftermath(run).mails = run.mails /\ NextAftermath(run).awaits = "nothing"
BY DEF NextAftermath, Run

\* The rule of the item the run begins decides what it awaits.
LEMMA BeginItemType ==
    ASSUME DeliveryTypeOK, NEW r \in DOMAIN sending, BeginItem(r)
    PROVE  LET read == rule[Head(Mails(r)).key.type]
               run == [sending[r] EXCEPT !.hook = read.enabled /\ read.webhook]
           IN  run \in Run /\ run.mails = Mails(r)
<1> DEFINE t == Head(Mails(r)).key.type
           read == rule[t]
<1>1. sending[r] \in Run /\ Mails(r) \in Seq(Mail) /\ Mails(r) # << >>
  BY DEF DeliveryTypeOK, BeginItem, Mails, Run
<1>2. Head(Mails(r)) \in Mail
  BY <1>1
<1>3. t \in Types
  BY <1>2 DEF Mail, Types
<1>4. read \in Rule
  BY <1>3 DEF DeliveryTypeOK
<1>5. (read.enabled /\ read.webhook) \in BOOLEAN
  OBVIOUS
<1>6. QED
  BY <1>1, <1>5 DEF Run, Mails

\* What a step of run r may leave of it.
RunGoesOn(r) ==
    \/ sending' = [q \in DOMAIN sending \ {r} |-> sending[q]] /\ Mails(r) = << >>
    \/ \E run \in Run :
        /\ sending' = [sending EXCEPT ![r] = run]
        /\ run.mails # Mails(r) => Mails(r) # << >> /\ run.mails = Tail(Mails(r))
        /\ run.awaits \in {"smtp", "webhook"} => run.mails # << >>

\* A run that is written back goes on with it.
LEMMA PutGoesOn ==
    ASSUME NEW r, NEW run \in Run, Put(r, run),
           run.mails # Mails(r) => Mails(r) # << >> /\ run.mails = Tail(Mails(r)),
           run.awaits \in {"smtp", "webhook"} => run.mails # << >>
    PROVE  RunGoesOn(r)
BY DEF RunGoesOn, Put

LEMMA SendsType ==
    ASSUME DeliveryTypeOK, HeadsAreAwaited, NEW r \in DOMAIN sending, Sends(r)
    PROVE  /\ RunGoesOn(r)
           /\ told' \in [Key -> {"nothing", "alert", "resolution"}]
           /\ missed' \in SUBSET Key
<1>1. sending[r] \in Run /\ Mails(r) = sending[r].mails /\ Mails(r) \in Seq(Mail)
  BY DEF DeliveryTypeOK, Mails, Run
<1>2. /\ told \in [Key -> {"nothing", "alert", "resolution"}] /\ missed \in SUBSET Key
      /\ Mails(r) # << >> => Head(Mails(r)).key \in Key /\ Head(Mails(r)).kind \in {"alert", "resolution"}
  <2>1. Mails(r) # << >> => Head(Mails(r)) \in Mail
    BY <1>1
  <2>2. QED
    BY <2>1 DEF DeliveryTypeOK, Mail
<1>3. CASE BeginItem(r)
  <2> DEFINE read == rule[Head(Mails(r)).key.type]
             run == [sending[r] EXCEPT !.hook = read.enabled /\ read.webhook]
  <2>1. run \in Run /\ run.mails = Mails(r) /\ Mails(r) # << >>
    BY <1>3, BeginItemType DEF BeginItem
  <2>2. told' = told /\ missed' \in SUBSET Key
    BY <1>2, <1>3 DEF BeginItem, MissedFrom
  <2>3. Put(r, [run EXCEPT !.awaits = "smtp"]) \/ Put(r, AfterMail(run))
    BY <1>3 DEF BeginItem
  <2> HIDE DEF run
  <2>4. [run EXCEPT !.awaits = "smtp"] \in Run /\ [run EXCEPT !.awaits = "smtp"].mails = Mails(r)
    BY <2>1 DEF Run
  <2>5. RunGoesOn(r)
    <3>1. CASE Put(r, [run EXCEPT !.awaits = "smtp"])
      BY <2>1, <2>4, <3>1, PutGoesOn
    <3>2. CASE Put(r, AfterMail(run))
      <4>1. AfterMail(run) \in Run /\ (AfterMail(run).mails # Mails(r) => AfterMail(run).mails = Tail(Mails(r)))
            /\ (AfterMail(run).awaits \in {"smtp", "webhook"} => AfterMail(run).mails # << >>)
        BY <2>1, AfterMailType
      <4>2. QED
        BY <2>1, <3>2, <4>1, PutGoesOn
    <3>3. QED
      BY <2>3, <3>1, <3>2
  <2>6. QED
    BY <1>2, <2>2, <2>5
<1>4. CASE MailSent(r) \/ MailFailed(r)
  <2>1. Mails(r) # << >>
    BY <1>1, <1>4 DEF MailSent, MailFailed, Awaits, HeadsAreAwaited
  <2>2. Put(r, AfterMail(sending[r]))
    BY <1>4 DEF MailSent, MailFailed
  <2>3. RunGoesOn(r)
    <3>1. /\ AfterMail(sending[r]) \in Run
          /\ AfterMail(sending[r]).mails # Mails(r) => AfterMail(sending[r]).mails = Tail(Mails(r))
          /\ AfterMail(sending[r]).awaits \in {"smtp", "webhook"} =>
               AfterMail(sending[r]).mails # << >>
      BY <1>1, <2>1, AfterMailType
    <3>2. QED
      BY <2>1, <2>2, <3>1, PutGoesOn
  <2>4. told' \in [Key -> {"nothing", "alert", "resolution"}] /\ missed' \in SUBSET Key
    BY <1>2, <1>4, <2>1 DEF MailSent, MailFailed, MissedFrom
  <2>5. QED
    BY <2>3, <2>4
<1>5. CASE WebhookSettled(r)
  <2>1. Mails(r) # << >>
    BY <1>1, <1>5 DEF WebhookSettled, Awaits, HeadsAreAwaited
  <2>2. Put(r, NextItem(sending[r]))
    BY <1>5 DEF WebhookSettled, AfterWebhook
  <2>3. RunGoesOn(r)
    <3>1. /\ NextItem(sending[r]) \in Run /\ NextItem(sending[r]).awaits = "nothing"
          /\ NextItem(sending[r]).mails = Tail(Mails(r))
      BY <1>1, <2>1, AfterMailType
    <3>2. QED
      BY <2>1, <2>2, <3>1, PutGoesOn
  <2>4. QED
    BY <1>2, <1>5, <2>3 DEF WebhookSettled
<1>6. CASE BeginAftermath(r)
  <2>1. [sending[r] EXCEPT !.awaits = "aftermath"] \in Run
        /\ [sending[r] EXCEPT !.awaits = "aftermath"].mails = Mails(r)
        /\ [sending[r] EXCEPT !.awaits = "aftermath"].awaits = "aftermath"
    BY <1>1 DEF Run
  <2>2. RunGoesOn(r)
    BY <1>6, <2>1, PutGoesOn DEF BeginAftermath
  <2>3. QED
    BY <1>2, <1>6, <2>2 DEF BeginAftermath
<1>7. CASE SkipAftermath(r) \/ AftermathSettled(r)
  <2>1. RunGoesOn(r)
    BY <1>1, <1>7, AftermathType DEF SkipAftermath, AftermathSettled, RunGoesOn, Put
  <2>2. QED
    BY <1>2, <1>7, <2>1 DEF SkipAftermath, AftermathSettled
<1>8. CASE Return(r)
  BY <1>2, <1>8 DEF Return, RunGoesOn
<1>9. QED
  BY <1>3, <1>4, <1>5, <1>6, <1>7, <1>8 DEF Sends

LEMMA RunInvInit == DeliveryInit => RunInv
<1> SUFFICES ASSUME DeliveryInit PROVE RunInv
  OBVIOUS
<1>1. DeliveryTypeOK
  BY DEF DeliveryInit, DeliveryTypeOK, DefaultRule, Rule
<1>2. RunsAreNumbered /\ HeadsAreAwaited
  BY DEF DeliveryInit, Init, RunsAreNumbered, HeadsAreAwaited
<1>3. QED
  BY <1>1, <1>2 DEF RunInv

\* Only the runs, the readers and the evaluation matter to it.
LEMMA RunInvKept ==
    ASSUME RunInv, DeliveryTypeOK',
           evaluations' = evaluations /\ sending' = sending /\ newest' = newest,
           running' = running /\ toSend' = toSend /\ silent' = silent
    PROVE  RunInv'
BY DEF RunInv, RunsAreNumbered, HeadsAreAwaited

LEMMA ClosedKeysAreKeys == TypeOK => ClosedKeys \subseteq Key
BY DEF TypeOK, Table, Ids, AlertRow, ClosedKeys

LEMMA RunInvProcessItems ==
    ASSUME TypeOK, RunInv, ProcessItems
    PROVE  RunInv' /\ running /\ running' = running /\ silent' = silent /\ trig' = trig
<1> DEFINE K == ClosedKeys \cap silent
<1>1. running /\ running' = running /\ silent' = silent /\ trig' = trig
  BY DEF ProcessItems, StampChildren, HeadsTriggered, ProcessTriggered, FirstSighting, Hold, HoldForParent,
         Announce, Remind, Visits, ProcessResolved, DropUnsent, ResolveSilently, Resolve, AwaitRecovery,
         VisitsResolved
<1>2. missed' = missed \cup K /\ newest' = [k \in Key |-> IF k \in K THEN 0 ELSE newest[k]]
      /\ UNCHANGED <<evaluations, handled, sending, rule, snoozeUntil, told>>
  BY DEF ProcessItems, ClosedUnsaid
<1>3. K \subseteq Key
  BY ClosedKeysAreKeys
<1> HIDE DEF K
<1>4. DeliveryTypeOK'
  BY <1>2, <1>3 DEF RunInv, DeliveryTypeOK
<1>5. RunsAreNumbered'
  BY <1>1, <1>2 DEF RunInv, RunsAreNumbered, DeliveryTypeOK
<1>6. HeadsAreAwaited'
  BY <1>2 DEF RunInv, HeadsAreAwaited
<1>7. QED
  BY <1>1, <1>4, <1>5, <1>6 DEF RunInv

LEMMA MailKeysAreKeys ==
    ASSUME NEW mails \in Seq(Mail)
    PROVE  MailKeys(mails) \subseteq Key
<1>1. \A n \in DOMAIN mails : mails[n] \in Mail
  OBVIOUS
<1>2. QED
  BY <1>1 DEF MailKeys, Mail

\* The run that begins where processAlerts ends.
LEMMA HandOverStarts ==
    ASSUME TypeOK, RunInv, HandOver
    PROVE  /\ running /\ evaluations \in 1 .. evaluations /\ evaluations \notin DOMAIN sending
           /\ DOMAIN sending' = DOMAIN sending \cup {evaluations}
           /\ \A r \in DOMAIN sending : sending'[r] = sending[r]
           /\ sending'[evaluations] \in Run
           /\ sending'[evaluations].mails = toSend /\ sending'[evaluations].awaits = "nothing"
<1> DEFINE run == [at |-> now, mails |-> toSend, awaits |-> "nothing", hook |-> FALSE,
                   recovered |-> RecoveredParents(toSend)]
<1>1. running /\ evaluations \in Nat /\ evaluations > 0 /\ evaluations \notin DOMAIN sending
  BY DEF HandOver, EndCycle, RunInv, RunsAreNumbered, DeliveryTypeOK
<1>2. sending' = [r \in DOMAIN sending \cup {evaluations} |-> IF r = evaluations THEN run ELSE sending[r]]
  BY DEF HandOver
<1>3. toSend \in Seq(Mail) /\ now \in Nat
  BY DEF TypeOK
<1>4. RecoveredParents(toSend) \in SUBSET (Nat \X Key)
  <2>1. ASSUME NEW n \in ParentPlaces(toSend) PROVE <<n, toSend[n].key>> \in Nat \X Key
    <3>1. n \in 1 .. Len(toSend) /\ toSend[n] \in Mail
      BY <1>3, <2>1 DEF ParentPlaces
    <3>2. QED
      BY <1>3, <3>1 DEF Mail
  <2>2. QED
    BY <2>1 DEF RecoveredParents
<1>5. run \in Run
  BY <1>3, <1>4 DEF Run
<1>6. QED
  BY <1>1, <1>2, <1>5

LEMMA RunInvHandOver ==
    ASSUME TypeOK, RunInv, HandOver
    PROVE  RunInv'
<1> USE HandOverStarts
<1>1. /\ running' = FALSE /\ toSend' = << >> /\ silent' = {}
      /\ newest' = [k \in Key |-> IF k \in MailKeys(toSend) THEN evaluations ELSE newest[k]]
      /\ UNCHANGED <<evaluations, handled, rule, snoozeUntil, told, missed>>
  BY DEF HandOver, EndCycle, CycleForgotten
<1>2. DOMAIN sending' \subseteq 1 .. evaluations' /\ \A r \in DOMAIN sending' : sending'[r] \in Run
  BY <1>1 DEF RunInv, DeliveryTypeOK
<1>3. DeliveryTypeOK'
  BY <1>1, <1>2 DEF RunInv, DeliveryTypeOK
<1>4. HeadsAreAwaited'
  BY DEF RunInv, HeadsAreAwaited
<1>5. QED
  BY <1>1, <1>3, <1>4 DEF RunInv, RunsAreNumbered

\* A step of one run leaves the others as they are.
LEMMA RunGoesOnRuns ==
    ASSUME DeliveryTypeOK, HeadsAreAwaited, NEW r \in DOMAIN sending, RunGoesOn(r)
    PROVE  /\ DOMAIN sending' \subseteq DOMAIN sending
           /\ \A q \in DOMAIN sending' : sending'[q] \in Run
           /\ \A q \in DOMAIN sending \ {r} : q \in DOMAIN sending' /\ sending'[q] = sending[q]
           /\ HeadsAreAwaited'
<1>1. CASE sending' = [q \in DOMAIN sending \ {r} |-> sending[q]]
  BY <1>1 DEF DeliveryTypeOK, HeadsAreAwaited
<1>2. CASE \E run \in Run : /\ sending' = [sending EXCEPT ![r] = run]
                            /\ run.awaits \in {"smtp", "webhook"} => run.mails # << >>
  <2>1. PICK run \in Run : /\ sending' = [sending EXCEPT ![r] = run]
                           /\ run.awaits \in {"smtp", "webhook"} => run.mails # << >>
    BY <1>2
  <2>2. DOMAIN sending' = DOMAIN sending
    BY <2>1
  <2>3. \A q \in DOMAIN sending : sending'[q] = IF q = r THEN run ELSE sending[q]
    BY <2>1
  <2>4. QED
    BY <2>1, <2>2, <2>3 DEF DeliveryTypeOK, HeadsAreAwaited
<1>3. QED
  BY <1>1, <1>2 DEF RunGoesOn

LEMMA RunInvSends ==
    ASSUME RunInv, NEW r \in DOMAIN sending, Sends(r)
    PROVE  RunInv' /\ SendingOnly /\ ~running
<1>1. SendingOnly /\ ~running
  BY DEF Sends, BeginItem, MailSent, MailFailed, WebhookSettled, BeginAftermath, SkipAftermath, SendsAftermath,
         AftermathSettled, Return, Awaits
<1>2. /\ RunGoesOn(r)
      /\ told' \in [Key -> {"nothing", "alert", "resolution"}] /\ missed' \in SUBSET Key
  BY SendsType DEF RunInv
<1>3. DeliveryTypeOK' /\ HeadsAreAwaited'
  BY <1>1, <1>2, RunGoesOnRuns DEF RunInv, DeliveryTypeOK, SendingOnly
<1>4. QED
  BY <1>1, <1>3 DEF RunInv, RunsAreNumbered, SendingOnly, vars, cycleVars

LEMMA PatchedType ==
    ASSUME DeliveryAssumption, NEW current \in Rule, NEW patch \in RulePatches
    PROVE  Patched(current, patch) \in Rule
<1>1. PICK F \in SUBSET Field : patch \in [F -> BOOLEAN]
  BY DEF DeliveryAssumption
<1>2. \A f \in DOMAIN patch : patch[f] \in BOOLEAN
  BY <1>1
<1>3. QED
  BY <1>2 DEF Patched, Rule

LEMMA RunInvRequests ==
    ASSUME DeliveryAssumption, TypeOK, RunInv, Requests
    PROVE  RunInv' /\ ~running /\ running' = running /\ toSend' = toSend /\ silent' = silent /\ trig' = trig
<1>1. ~running /\ running' = running /\ toSend' = toSend /\ silent' = silent /\ trig' = trig
  BY DEF Requests, UpdateRule, ResetRules, SnoozeAlerts, DeleteRows, Request, DeleteHost, DeleteContainer,
         DeleteAlert, Delete, BetweenCycles, vars, cycleVars
<1>2. ASSUME NEW t \in Types, NEW patch \in RulePatches, UpdateRule(t, patch)
      PROVE  DeliveryTypeOK'
  <2>1. rule' = [rule EXCEPT ![t] = Patched(rule[t], patch)] /\ handled' = handled + 1
        /\ UNCHANGED <<evaluations, sending, snoozeUntil, told, newest, missed>>
    BY <1>2 DEF UpdateRule, Request, Handle
  <2>2. rule \in [Types -> Rule] /\ Patched(rule[t], patch) \in Rule
    BY PatchedType DEF RunInv, DeliveryTypeOK
  <2>3. rule' \in [Types -> Rule]
    BY <2>1, <2>2
  <2>4. QED
    BY <2>1, <2>3 DEF RunInv, DeliveryTypeOK
<1>3. CASE ResetRules
  <2>1. DefaultRule \in Rule
    BY DEF DefaultRule, Rule
  <2>2. DeliveryTypeOK'
    BY <1>3, <2>1 DEF ResetRules, RunInv, DeliveryTypeOK
  <2>3. QED
    BY <1>1, <1>3, <2>2, RunInvKept DEF ResetRules
<1>4. ASSUME NEW d \in SnoozeMinutes, SnoozeAlerts(d)
      PROVE  DeliveryTypeOK'
  BY <1>4 DEF SnoozeAlerts, Request, Handle, DeliveryAssumption, TypeOK, RunInv, DeliveryTypeOK
<1>5. CASE DeleteRows
  <2>1. missed' = missed \cup ClosedKeys
        /\ newest' = [k \in Key |-> IF k \in ClosedKeys THEN 0 ELSE newest[k]]
        /\ UNCHANGED <<evaluations, sending, rule, snoozeUntil, told>> /\ handled' = handled + 1
    BY <1>5 DEF DeleteRows, ClosedUnsaid, Request, Handle
  <2>2. DeliveryTypeOK'
    BY <2>1, ClosedKeysAreKeys DEF RunInv, DeliveryTypeOK
  <2>3. QED
    BY <1>1, <2>1, <2>2 DEF RunInv, RunsAreNumbered, HeadsAreAwaited
<1>6. ASSUME NEW t \in Types, NEW patch \in RulePatches, UpdateRule(t, patch)
      PROVE  RunInv'
  BY <1>1, <1>2, <1>6, RunInvKept DEF UpdateRule
<1>7. ASSUME NEW d \in SnoozeMinutes, SnoozeAlerts(d) PROVE RunInv'
  BY <1>1, <1>4, <1>7, RunInvKept DEF SnoozeAlerts
<1>8. QED
  BY <1>1, <1>3, <1>5, <1>6, <1>7 DEF Requests

LEMMA RunInvHubExits ==
    ASSUME TypeOK, RunInv, HubExits
    PROVE  RunInv' /\ running' = FALSE /\ toSend' = << >> /\ silent' = {} /\ sending' = [r \in {} |-> NULL]
<1>1. running' = FALSE /\ toSend' = << >> /\ silent' = {}
  BY DEF HubExits, Crash, CrashInItem, CycleForgotten
<1>2. /\ sending' = [r \in {} |-> NULL] /\ snoozeUntil' = 0 /\ handled' = handled + 1
      /\ missed' = missed \cup MailKeys(toSend) \cup InFlight
      /\ UNCHANGED <<evaluations, rule, told, newest>>
  BY DEF HubExits, Handle
<1>3. MailKeys(toSend) \subseteq Key /\ InFlight \subseteq Key
  BY MailKeysAreKeys DEF TypeOK, InFlight
<1>4. DeliveryTypeOK'
  BY <1>2, <1>3 DEF RunInv, DeliveryTypeOK
<1>5. QED
  BY <1>1, <1>2, <1>4 DEF RunInv, RunsAreNumbered, HeadsAreAwaited

LEMMA RunInvRunAlerts ==
    ASSUME TypeOK, RunInv, NEW T \in SUBSET Key, NEW R \in SUBSET Key, NEW Q \in SUBSET R, RunAlerts(T, R, Q)
    PROVE  RunInv' /\ toSend = << >> /\ toSend' = << >> /\ alert_state' = alert_state
<1>1. /\ ~running /\ running' = TRUE /\ toSend' = << >> /\ evaluations' = evaluations + 1
      /\ alert_state' = alert_state
      /\ UNCHANGED <<handled, sending, rule, snoozeUntil, told, newest, missed>>
  BY DEF RunAlerts, StartCycle, notifyVars
<1>2. DeliveryTypeOK'
  BY <1>1 DEF RunInv, DeliveryTypeOK
<1>3. evaluations' > 0 /\ evaluations' \notin DOMAIN sending' /\ \A k \in Key : newest'[k] # evaluations'
  BY <1>1 DEF RunInv, DeliveryTypeOK
<1>4. HeadsAreAwaited'
  BY <1>1 DEF RunInv, HeadsAreAwaited
<1>5. QED
  BY <1>1, <1>2, <1>3, <1>4 DEF RunInv, RunsAreNumbered

\* Waiting: the clock, a snoozed evaluation, one without a mail.
LEMMA RunInvIdle ==
    ASSUME RunInv, SkipEvaluation \/ NothingToSend \/ TimePasses
    PROVE  RunInv' /\ toSend' = toSend /\ silent' \subseteq silent /\ trig' \subseteq trig
           /\ UNCHANGED <<alert_state, sending, told, newest, missed>>
<1>1. CASE SkipEvaluation \/ TimePasses
  <2>1. UNCHANGED <<running, toSend, silent, trig, alert_state, evaluations, handled, notifyVars>>
    BY <1>1 DEF SkipEvaluation, TimePasses, Tick, cycleVars
  <2>2. DeliveryTypeOK'
    BY <2>1 DEF RunInv, DeliveryTypeOK, notifyVars
  <2>3. QED
    BY <2>1, <2>2, RunInvKept DEF notifyVars
<1>2. CASE NothingToSend
  <2>1. /\ running' = FALSE /\ toSend = << >> /\ toSend' = << >> /\ silent' = {} /\ trig' = {}
        /\ alert_state' = alert_state
        /\ UNCHANGED <<evaluations, handled, sending, rule, snoozeUntil, told, newest, missed>>
    BY <1>2 DEF NothingToSend, EndCycle, CycleForgotten, notifyVars
  <2>2. DeliveryTypeOK'
    BY <2>1 DEF RunInv, DeliveryTypeOK
  <2>3. QED
    BY <2>1, <2>2 DEF RunInv, RunsAreNumbered, HeadsAreAwaited
<1>3. QED
  BY <1>1, <1>2

LEMMA RunInvStep ==
    ASSUME DeliveryAssumption, TypeOK, RunInv, [DeliveryNext]_deliveryVars
    PROVE  RunInv'
<1>1. CASE deliveryVars' = deliveryVars
  BY <1>1 DEF deliveryVars, notifyVars, vars, cycleVars, RunInv, DeliveryTypeOK, RunsAreNumbered, HeadsAreAwaited
<1>2. CASE Evaluates
  BY <1>2, RunInvProcessItems, RunInvHandOver, RunInvIdle DEF Evaluates
<1>3. QED
  BY <1>1, <1>2, RunInvRunAlerts, RunInvIdle, RunInvSends, RunInvRequests, RunInvHubExits DEF DeliveryNext

-----------------------------------------------------------------------------
(* The readers.                                                            *)

\* Only these matter to what they hear.
LEMMA ReaderInvKept ==
    ASSUME ReaderInv, SilentAlertsAreUnsaid', alert_state' = alert_state,
           UNCHANGED <<toSend, sending, told, newest, missed>>
    PROVE  ReaderInv'
<1>1. \A k : Word(k)' = Word(k)
  BY SameTableSameWord
<1>2. InFlight' = InFlight
  BY DEF InFlight
<1>3. QueueSaysSo'
  BY <1>1 DEF ReaderInv, QueueSaysSo
<1>4. FlightSaysSo'
  BY <1>1 DEF ReaderInv, FlightSaysSo
<1>5. ToldSaysSo'
  BY <1>1, <1>2 DEF ReaderInv, ToldSaysSo
<1>6. HooksFollowMails'
  BY DEF ReaderInv, HooksFollowMails
<1>7. QED
  BY <1>3, <1>4, <1>5, <1>6 DEF ReaderInv

\* Where nothing is queued they follow from the other parts alone.
LEMMA NothingQueued ==
    ASSUME toSend = << >>
    PROVE  MailKeys(toSend) = {} /\ QueueSaysSo
<1>1. MailKeys(toSend) = {}
  BY DEF MailKeys
<1>2. QED
  BY <1>1 DEF QueueSaysSo

LEMMA NothingQueuedNext ==
    ASSUME toSend' = << >>
    PROVE  MailKeys(toSend') = {} /\ QueueSaysSo' /\ (trig' \cap silent' = {} => SilentAlertsAreUnsaid')
<1>1. MailKeys(toSend') = {}
  BY DEF MailKeys
<1>2. QED
  BY <1>1 DEF QueueSaysSo, SilentAlertsAreUnsaid

LEMMA ReaderInvInit == DeliveryInit => ReaderInv
<1> SUFFICES ASSUME DeliveryInit PROVE ReaderInv
  OBVIOUS
<1>1. toSend = << >> /\ silent = {} /\ DOMAIN sending = {}
  BY DEF DeliveryInit, Init
<1>2. \A k : Word(k) = "resolution"
  <2>1. Ids = {}
    BY DEF DeliveryInit, Init, Ids
  <2>2. QED
    BY <2>1 DEF Word, OpenCount, ActiveIds
<1>3. SilentAlertsAreUnsaid
  BY <1>1 DEF SilentAlertsAreUnsaid
<1>4. QED
  BY <1>1, <1>2, <1>3, NothingQueued
  DEF ReaderInv, FlightSaysSo, ToldSaysSo, HooksFollowMails, DeliveryInit

\* The evaluation begins.
LEMMA ReaderInvRunAlerts ==
    ASSUME TypeOK, RunInv, ReaderInv, NEW T \in SUBSET Key, NEW R \in SUBSET Key, NEW Q \in SUBSET R,
           RunAlerts(T, R, Q)
    PROVE  ReaderInv'
<1>1. toSend = << >> /\ toSend' = << >> /\ alert_state' = alert_state
  BY RunInvRunAlerts
<1>2. trig' = T /\ silent' = Q /\ UNCHANGED <<sending, told, newest, missed>>
  BY DEF RunAlerts, StartCycle, notifyVars
<1>3. T \cap Q = {}
  BY DEF RunAlerts, StartCycle, ContainerAlertTypes, SilentlyResolvedTypes
<1>4. QED
  BY <1>1, <1>2, <1>3, NothingQueuedNext, ReaderInvKept

LEMMA ReaderInvIdle ==
    ASSUME RunInv, ReaderInv, SkipEvaluation \/ NothingToSend \/ TimePasses
    PROVE  ReaderInv'
<1>1. /\ toSend' = toSend /\ silent' \subseteq silent /\ trig' \subseteq trig
      /\ UNCHANGED <<alert_state, sending, told, newest, missed>>
  BY RunInvIdle
<1>2. SilentAlertsAreUnsaid'
  BY <1>1 DEF ReaderInv, SilentAlertsAreUnsaid
<1>3. QED
  BY <1>1, <1>2, ReaderInvKept

\* What the words change for is in the queue, or is known to have been missed.
LEMMA ReaderInvUnsaid ==
    ASSUME RunInv, ReaderInv, NEW K \in SUBSET Key, ClosedUnsaid(K), UNCHANGED <<sending, told>>,
           MailKeys(toSend) \subseteq MailKeys(toSend'),
           \A j \in Key : Word(j)' # Word(j) => j \in K \cup MailKeys(toSend'),
           QueueSaysSo', SilentAlertsAreUnsaid'
    PROVE  ReaderInv'
<1>1. /\ missed' = missed \cup K
      /\ \A j \in Key : newest'[j] = IF j \in K THEN 0 ELSE newest[j]
  BY DEF ClosedUnsaid
<1>2. \A r \in DOMAIN sending : r # 0 /\ sending[r] \in Run
  BY DEF RunInv, DeliveryTypeOK
<1>3. FlightSaysSo'
  <2> SUFFICES ASSUME NEW k \in Key \ MailKeys(toSend'), NEW r \in DOMAIN sending, newest'[k] = r
               PROVE  LastSays(sending[r].mails, k, Word(k)')
    BY DEF FlightSaysSo
  <2>1. k \notin K /\ newest[k] = r /\ Word(k)' = Word(k)
    BY <1>1, <1>2
  <2>2. QED
    BY <2>1 DEF ReaderInv, FlightSaysSo
<1>4. ToldSaysSo'
  <2> SUFFICES ASSUME NEW k \in Key \ missed', k \notin MailKeys(toSend'), k \notin InFlight'
               PROVE  told[k] = "alert" <=> Word(k)' = "alert"
    BY DEF ToldSaysSo
  <2>1. k \notin K /\ k \notin missed /\ newest'[k] = newest[k] /\ Word(k)' = Word(k) /\ k \notin MailKeys(toSend)
    BY <1>1
  <2>2. k \notin InFlight
    BY <2>1 DEF InFlight
  <2>3. QED
    BY <2>1, <2>2 DEF ReaderInv, ToldSaysSo
<1>5. HooksFollowMails'
  <2> SUFFICES ASSUME NEW r \in DOMAIN sending, sending[r].awaits = "webhook",
                      newest'[Head(sending[r].mails).key] = r, Head(sending[r].mails).key \notin missed'
               PROVE  told[Head(sending[r].mails).key] = Head(sending[r].mails).kind
    BY DEF HooksFollowMails
  <2>1. sending[r].mails \in Seq(Mail) /\ sending[r].mails # << >>
    BY <1>2 DEF Run, RunInv, HeadsAreAwaited
  <2>2. Head(sending[r].mails) \in Mail
    BY <2>1
  <2>3. Head(sending[r].mails).key \in Key
    BY <2>2 DEF Mail
  <2>4. newest[Head(sending[r].mails).key] = r /\ Head(sending[r].mails).key \notin missed
    BY <1>1, <1>2, <2>3
  <2>5. QED
    BY <2>4 DEF ReaderInv, HooksFollowMails
<1>6. QED
  BY <1>3, <1>4, <1>5 DEF ReaderInv

\* processAlerts, item by item.
LEMMA ReaderInvProcessItems ==
    ASSUME EngineAssumption, EngineInv, EngineInv', RunInv, ReaderInv, ProcessItems
    PROVE  ReaderInv'
<1>1. /\ TypeOK /\ RefinementInv /\ SafetyInv' /\ silent \cap trig = {}
      /\ toSend \in Seq(Mail) /\ ClosedKeys \cap silent \in SUBSET Key
  BY ClosedKeysAreKeys DEF EngineInv, RefinementInv, SafetyInv, ReaderInv, SilentAlertsAreUnsaid, TypeOK
<1>2. silent' = silent /\ trig' = trig
  BY <1>1, RunInvProcessItems
<1>3. ClosedUnsaid(ClosedKeys \cap silent) /\ UNCHANGED <<sending, told>>
  BY DEF ProcessItems
<1>4. PICK k \in Key : StampChildren(k) \/ ProcessTriggered(k) \/ ProcessResolved(k)
  BY DEF ProcessItems
<1>5. CASE QuietItem
  <2>1. toSend' = toSend /\ \A j \in Key : Word(j)' # Word(j) => j \in ClosedKeys \cap silent
    BY <1>5 DEF QuietItem
  <2>2. SilentAlertsAreUnsaid'
    BY <1>2, <2>1 DEF ReaderInv, SilentAlertsAreUnsaid
  <2>3. QueueSaysSo'
    <3> SUFFICES ASSUME NEW j \in MailKeys(toSend) PROVE LastSays(toSend, j, Word(j)')
      BY <2>1 DEF QueueSaysSo
    <3>1. j \in Key /\ j \notin silent
      BY <1>1, MailKeysAreKeys DEF ReaderInv, SilentAlertsAreUnsaid
    <3>2. Word(j)' = Word(j)
      BY <2>1, <3>1
    <3>3. QED
      BY <3>2 DEF ReaderInv, QueueSaysSo
  <2>4. QED
    BY <1>1, <1>3, <2>1, <2>2, <2>3, ReaderInvUnsaid
<1>6. CASE MailedItem(k)
  <2>1. PICK m \in Mail :
          /\ toSend' = Append(toSend, m)
          /\ m.key = k /\ k \notin silent
          /\ m.kind = Word(k)'
          /\ \A j \in Key \ {k} : Word(j)' = Word(j)
    BY <1>6 DEF MailedItem
  <2>2. MailKeys(toSend') = MailKeys(toSend) \cup {k}
    BY <1>1, <2>1, MailKeysAppend
  <2>3. SilentAlertsAreUnsaid'
    BY <1>2, <2>1, <2>2 DEF ReaderInv, SilentAlertsAreUnsaid
  <2>4. QueueSaysSo'
    <3> SUFFICES ASSUME NEW j \in MailKeys(toSend') PROVE LastSays(toSend', j, Word(j)')
      BY DEF QueueSaysSo
    <3>1. CASE j = k
      BY <1>1, <2>1, <3>1, LastSaysAppend
    <3>2. CASE j # k
      <4>1. j \in MailKeys(toSend) /\ j \in Key
        BY <1>1, <2>2, <3>2, MailKeysAreKeys
      <4>2. LastSays(toSend, j, Word(j)) /\ Word(j)' = Word(j)
        BY <2>1, <3>2, <4>1 DEF ReaderInv, QueueSaysSo
      <4>3. LastSays(Append(toSend, m), j, Word(j))
        BY <1>1, <2>1, <3>2, <4>2, LastSaysAppend
      <4>4. QED
        BY <2>1, <4>2, <4>3
    <3>3. QED
      BY <3>1, <3>2
  <2>5. QED
    BY <1>1, <1>3, <2>1, <2>2, <2>3, <2>4, ReaderInvUnsaid
<1>7. QED
  BY <1>1, <1>4, <1>5, <1>6, ItemWords

\* The queue becomes the newest run of its alerts.
LEMMA ReaderInvHandOver ==
    ASSUME TypeOK, RunInv, ReaderInv, HandOver
    PROVE  ReaderInv'
<1> USE HandOverStarts
<1>1. /\ toSend' = << >> /\ silent' = {} /\ alert_state' = alert_state
      /\ newest' = [k \in Key |-> IF k \in MailKeys(toSend) THEN evaluations ELSE newest[k]]
      /\ told' = told /\ missed' = missed
  BY DEF HandOver, EndCycle, CycleForgotten
<1>2. \A k : Word(k)' = Word(k)
  BY <1>1, SameTableSameWord
<1>3. MailKeys(toSend') = {} /\ QueueSaysSo' /\ SilentAlertsAreUnsaid'
  BY <1>1, NothingQueuedNext
<1>4. \A k \in Key : newest[k] # evaluations
  BY DEF RunInv, RunsAreNumbered
<1>5. FlightSaysSo'
  <2> SUFFICES ASSUME NEW k \in Key, NEW r \in DOMAIN sending', newest'[k] = r
               PROVE  LastSays(sending'[r].mails, k, Word(k))
    BY <1>2, <1>3 DEF FlightSaysSo
  <2>1. CASE k \in MailKeys(toSend)
    BY <1>1, <2>1 DEF ReaderInv, QueueSaysSo
  <2>2. CASE k \notin MailKeys(toSend)
    <3>1. newest[k] = r /\ r \in DOMAIN sending /\ sending'[r] = sending[r]
      BY <1>1, <1>4, <2>2
    <3>2. QED
      BY <2>2, <3>1 DEF ReaderInv, FlightSaysSo
  <2>3. QED
    BY <2>1, <2>2
<1>6. ToldSaysSo'
  <2> SUFFICES ASSUME NEW k \in Key \ missed, k \notin InFlight'
               PROVE  told[k] = "alert" <=> Word(k) = "alert"
    BY <1>1, <1>2, <1>3 DEF ToldSaysSo
  <2>1. k \notin MailKeys(toSend)
    BY <1>1 DEF InFlight
  <2>2. newest'[k] = newest[k] /\ newest[k] # evaluations
    BY <1>1, <1>4, <2>1
  <2>3. k \notin InFlight
    BY <2>2 DEF InFlight
  <2>4. QED
    BY <2>1, <2>3 DEF ReaderInv, ToldSaysSo
<1>7. HooksFollowMails'
  <2> SUFFICES ASSUME NEW r \in DOMAIN sending', sending'[r].awaits = "webhook",
                      newest'[Head(sending'[r].mails).key] = r, Head(sending'[r].mails).key \notin missed
               PROVE  told[Head(sending'[r].mails).key] = Head(sending'[r].mails).kind
    BY <1>1 DEF HooksFollowMails
  <2>1. r \in DOMAIN sending /\ sending'[r] = sending[r]
    OBVIOUS
  <2>2. sending[r].mails \in Seq(Mail) /\ sending[r].mails # << >>
    BY <2>1 DEF RunInv, DeliveryTypeOK, Run, HeadsAreAwaited
  <2>3. Head(sending[r].mails) \in Mail
    BY <2>2
  <2>4. newest[Head(sending[r].mails).key] = r
    BY <1>1, <2>1, <2>3 DEF Mail
  <2>5. QED
    BY <2>1, <2>4 DEF ReaderInv, HooksFollowMails
<1>8. QED
  BY <1>3, <1>5, <1>6, <1>7 DEF ReaderInv

\* Deleted rows are closed alerts nobody is told of.
LEMMA ReaderInvDeleteRows ==
    ASSUME EngineInv, EngineInv', DeliveryAssumption, RunInv, ReaderInv, DeleteRows
    PROVE  ReaderInv'
<1>1. TypeOK /\ TypeOK' /\ UniqueActive /\ UniqueActive'
  BY DEF EngineInv, RefinementInv, SafetyInv
<1>2. ~running /\ toSend' = toSend /\ silent' = silent /\ trig' = trig
  BY <1>1, RunInvRequests DEF Requests
<1>3. toSend = << >> /\ toSend' = << >>
  BY <1>2 DEF RunInv, RunsAreNumbered
<1>4. QuietStep
  <2>1. Handlers
    BY DEF DeleteRows, Handlers
  <2>2. QED
    BY <1>1, <2>1, HandlersAreQuiet
<1>5. \A j \in Key : Word(j)' # Word(j) => j \in ClosedKeys
  BY <1>1, <1>4, QuietStepWords
<1>6. SilentAlertsAreUnsaid' /\ QueueSaysSo'
  BY <1>2, <1>3, NothingQueuedNext DEF ReaderInv, SilentAlertsAreUnsaid
<1>7. ClosedUnsaid(ClosedKeys) /\ UNCHANGED <<sending, told>> /\ ClosedKeys \in SUBSET Key
  BY <1>1, ClosedKeysAreKeys DEF DeleteRows
<1>8. QED
  BY <1>2, <1>5, <1>6, <1>7, ReaderInvUnsaid

LEMMA ReaderInvRequests ==
    ASSUME EngineInv, EngineInv', DeliveryAssumption, RunInv, ReaderInv, Requests
    PROVE  ReaderInv'
<1>1. TypeOK
  BY DEF EngineInv, RefinementInv, SafetyInv
<1>2. toSend' = toSend /\ silent' = silent /\ trig' = trig
  BY <1>1, RunInvRequests
<1>3. SilentAlertsAreUnsaid'
  BY <1>2 DEF ReaderInv, SilentAlertsAreUnsaid
<1>4. CASE UNCHANGED <<vars, sending, told, newest, missed>>
  BY <1>2, <1>3, <1>4, ReaderInvKept DEF vars
<1>5. QED
  BY <1>4, ReaderInvDeleteRows DEF Requests, UpdateRule, ResetRules, SnoozeAlerts

\* The hub exits: the readers miss what was queued or in flight.
LEMMA ReaderInvHubExits ==
    ASSUME EngineInv, EngineInv', RunInv, ReaderInv, HubExits
    PROVE  ReaderInv'
<1>1. TypeOK /\ TypeOK' /\ UniqueActive /\ UniqueActive'
  BY DEF EngineInv, RefinementInv, SafetyInv
<1>2. toSend' = << >> /\ silent' = {} /\ sending' = [r \in {} |-> NULL]
  BY <1>1, RunInvHubExits
<1>3. missed' = missed \cup MailKeys(toSend) \cup InFlight /\ told' = told
  BY DEF HubExits
<1>4. \A j \in Key : Word(j)' = Word(j)
  <2>1. CASE Crash
    BY <2>1, SameTableSameWord DEF Crash
  <2>2. CASE \E k \in Key : CrashInItem(k)
    <3>1. QuietStep /\ ClosesNothing /\ KeepsMailed
      BY <1>1, <2>2, TriggeredIsQuiet, TriggeredClosesNothing
    <3>2. QED
      BY <1>1, <3>1, SteadyWords
  <2>3. QED
    BY <2>1, <2>2 DEF HubExits
<1>5. SilentAlertsAreUnsaid' /\ QueueSaysSo'
  BY <1>2, NothingQueuedNext
<1>6. FlightSaysSo' /\ HooksFollowMails'
  BY <1>2 DEF FlightSaysSo, HooksFollowMails
<1>7. ToldSaysSo'
  <2> SUFFICES ASSUME NEW k \in Key \ missed' PROVE told'[k] = "alert" <=> Word(k)' = "alert"
    BY DEF ToldSaysSo
  <2>1. k \notin missed /\ k \notin MailKeys(toSend) \cup InFlight /\ Word(k)' = Word(k)
    BY <1>3, <1>4
  <2>2. QED
    BY <1>3, <2>1 DEF ReaderInv, ToldSaysSo
<1>8. QED
  BY <1>5, <1>6, <1>7 DEF ReaderInv

\* A step of run r is over with one mail at most, the first it had left.
LEMMA LeavesFlight ==
    ASSUME RunInv, NEW r \in DOMAIN sending, RunGoesOn(r), newest' = newest, NEW k \in InFlight, k \notin InFlight'
    PROVE  /\ newest[k] = r /\ Mails(r) # << >> /\ k = Head(Mails(r)).key
           /\ r \in DOMAIN sending' /\ k \notin MailKeys(sending'[r].mails)
<1>1. /\ DeliveryTypeOK /\ HeadsAreAwaited /\ Mails(r) \in Seq(Mail) /\ Mails(r) = sending[r].mails
      /\ k \in Key /\ newest[k] \in DOMAIN sending /\ k \in MailKeys(sending[newest[k]].mails)
  BY DEF RunInv, DeliveryTypeOK, Run, Mails, InFlight
<1>2. newest[k] = r
  <2> SUFFICES ASSUME newest[k] # r PROVE FALSE
    OBVIOUS
  <2>1. newest[k] \in DOMAIN sending' /\ sending'[newest[k]] = sending[newest[k]]
    BY <1>1, RunGoesOnRuns
  <2>2. QED
    BY <1>1, <2>1 DEF InFlight
<1>3. Mails(r) # << >>
  BY <1>1, <1>2 DEF MailKeys
<1>4. PICK run \in Run :
        /\ sending' = [sending EXCEPT ![r] = run]
        /\ run.mails # Mails(r) => run.mails = Tail(Mails(r))
  BY <1>3 DEF RunGoesOn
<1>5. r \in DOMAIN sending' /\ sending'[r] = run
  BY <1>4
<1>6. k \notin MailKeys(run.mails)
  BY <1>1, <1>2, <1>5 DEF InFlight
<1>7. k = Head(Mails(r)).key
  BY <1>1, <1>2, <1>3, <1>4, <1>6, TailOfMails
<1>8. QED
  BY <1>2, <1>3, <1>5, <1>6, <1>7

\* What a step of run r owes the readers: to leave the alerts of other runs
\* alone, and to be done with a mail only when it was told or missed.
LEMMA ReaderInvGoesOn ==
    ASSUME RunInv, ReaderInv, NEW r \in DOMAIN sending, RunGoesOn(r), SendingOnly, ~running,
           \A k \in Key \ missed' : newest[k] # r => k \notin missed /\ told'[k] = told[k],
           \A k \in Key \ missed' : newest[k] = r /\ k \notin InFlight' =>
                \/ k \notin InFlight /\ k \notin missed /\ told'[k] = told[k]
                \/ Mails(r) # << >> /\ k = Head(Mails(r)).key /\ told'[k] = Head(Mails(r)).kind,
           r \in DOMAIN sending' /\ sending'[r].awaits = "webhook" =>
                LET m == Head(sending'[r].mails)
                IN  newest[m.key] = r /\ m.key \notin missed' => told'[m.key] = m.kind
    PROVE  ReaderInv'
<1>1. /\ newest' = newest /\ alert_state' = alert_state
      /\ toSend = << >> /\ toSend' = << >> /\ trig' = trig /\ silent' = silent
  BY DEF SendingOnly, RunInv, RunsAreNumbered, vars, cycleVars
<1>2. \A k : Word(k)' = Word(k)
  BY <1>1, SameTableSameWord
<1>3. MailKeys(toSend) = {} /\ MailKeys(toSend') = {} /\ QueueSaysSo' /\ SilentAlertsAreUnsaid'
  BY <1>1, NothingQueued, NothingQueuedNext DEF ReaderInv, SilentAlertsAreUnsaid
<1>4. /\ DOMAIN sending' \subseteq DOMAIN sending
      /\ \A q \in DOMAIN sending \ {r} : q \in DOMAIN sending' /\ sending'[q] = sending[q]
  BY RunGoesOnRuns DEF RunInv
<1>5. Mails(r) \in Seq(Mail) /\ Mails(r) = sending[r].mails
  BY DEF RunInv, DeliveryTypeOK, Run, Mails
<1>6. r \in DOMAIN sending' =>
        /\ sending'[r].mails # Mails(r) => Mails(r) # << >> /\ sending'[r].mails = Tail(Mails(r))
  BY DEF RunGoesOn
<1>7. FlightSaysSo'
  <2> SUFFICES ASSUME NEW k \in Key, NEW q \in DOMAIN sending', newest[k] = q
               PROVE  LastSays(sending'[q].mails, k, Word(k))
    BY <1>1, <1>2 DEF FlightSaysSo
  <2>1. LastSays(sending[q].mails, k, Word(k))
    BY <1>3, <1>4 DEF ReaderInv, FlightSaysSo
  <2>2. CASE q # r
    BY <1>4, <2>1, <2>2
  <2>3. CASE q = r
    BY <1>5, <1>6, <2>1, <2>3, TailOfMails
  <2>4. QED
    BY <2>2, <2>3
<1>8. ToldSaysSo'
  <2> SUFFICES ASSUME NEW k \in Key \ missed', k \notin InFlight'
               PROVE  told'[k] = "alert" <=> Word(k) = "alert"
    BY <1>2 DEF ToldSaysSo
  <2>1. CASE k \notin InFlight /\ k \notin missed /\ told'[k] = told[k]
    BY <1>3, <2>1 DEF ReaderInv, ToldSaysSo
  <2>2. CASE newest[k] # r
    <3>1. k \notin InFlight
      BY <1>1, <2>2, LeavesFlight
    <3>2. QED
      BY <2>1, <2>2, <3>1
  <2>3. CASE newest[k] = r /\ Mails(r) # << >> /\ k = Head(Mails(r)).key /\ told'[k] = Head(Mails(r)).kind
    <3>1. k \in MailKeys(Mails(r))
      BY <1>5, <2>3, TailOfMails
    <3>2. k \in InFlight
      BY <1>5, <2>3, <3>1 DEF InFlight
    <3>3. r \in DOMAIN sending' /\ k \notin MailKeys(sending'[r].mails)
      BY <1>1, <3>2, LeavesFlight
    <3>4. sending'[r].mails = Tail(Mails(r))
      BY <1>6, <3>1, <3>3
    <3>5. LastSays(Mails(r), k, Word(k))
      BY <1>3, <1>5, <2>3 DEF ReaderInv, FlightSaysSo
    <3>6. Head(Mails(r)).kind = Word(k)
      <4>1. LastSays(Mails(r), Head(Mails(r)).key, Word(k)) /\ Head(Mails(r)).key \notin MailKeys(Tail(Mails(r)))
        BY <2>3, <3>3, <3>4, <3>5
      <4>2. QED
        BY <1>5, <2>3, <4>1, TailOfMails
    <3>7. QED
      BY <2>3, <3>6
  <2>4. QED
    BY <2>1, <2>2, <2>3
<1>9. HooksFollowMails'
  <2> SUFFICES ASSUME NEW q \in DOMAIN sending', sending'[q].awaits = "webhook",
                      newest[Head(sending'[q].mails).key] = q, Head(sending'[q].mails).key \notin missed'
               PROVE  told'[Head(sending'[q].mails).key] = Head(sending'[q].mails).kind
    BY <1>1 DEF HooksFollowMails
  <2>1. CASE q = r
    BY <2>1
  <2>2. CASE q # r
    <3> DEFINE m == Head(sending[q].mails)
    <3>1. q \in DOMAIN sending /\ sending'[q] = sending[q]
      BY <1>4, <2>2
    <3>2. sending[q].mails \in Seq(Mail) /\ sending[q].mails # << >>
      BY <3>1 DEF RunInv, DeliveryTypeOK, Run, HeadsAreAwaited
    <3>3. m \in Mail
      BY <3>2
    <3>4. m.key \in Key
      BY <3>3 DEF Mail
    <3>5. m.key \notin missed /\ told'[m.key] = told[m.key]
      BY <2>2, <3>1, <3>4
    <3>6. QED
      BY <3>1, <3>5 DEF ReaderInv, HooksFollowMails
  <2>3. QED
    BY <2>1, <2>2
<1>10. QED
  BY <1>3, <1>7, <1>8, <1>9 DEF ReaderInv

LEMMA ReaderInvSends ==
    ASSUME RunInv, ReaderInv, NEW r \in DOMAIN sending, Sends(r)
    PROVE  ReaderInv'
<1> DEFINE m == Head(Mails(r))
<1>1. /\ SendingOnly /\ ~running /\ RunGoesOn(r) /\ newest' = newest
      /\ sending[r] \in Run /\ Mails(r) \in Seq(Mail) /\ Mails(r) = sending[r].mails
  BY RunInvSends, SendsType DEF RunInv, DeliveryTypeOK, Run, Mails, SendingOnly
<1>2. /\ told \in [Key -> {"nothing", "alert", "resolution"}] /\ missed \in SUBSET Key
      /\ Mails(r) # << >> => m.key \in Key /\ m.key \in MailKeys(Mails(r))
  <2>1. Mails(r) # << >> => m \in Mail /\ m.key \in MailKeys(Mails(r))
    BY <1>1, TailOfMails
  <2>2. QED
    BY <2>1 DEF Mail, RunInv, DeliveryTypeOK
<1> HIDE DEF m
<1>3. ASSUME NEW k \in InFlight, k \notin InFlight'
      PROVE  /\ newest[k] = r /\ Mails(r) # << >> /\ k = m.key
             /\ r \in DOMAIN sending' /\ k \notin MailKeys(sending'[r].mails)
  BY <1>1, <1>3, LeavesFlight DEF m
<1>4. ASSUME NEW run \in Run, run.mails = Mails(r), Mails(r) # << >>,
             sending' = [sending EXCEPT ![r] = AfterMail(run)],
             missed' = MissedFrom(r, m.key), told' = told
      PROVE  ReaderInv'
  <2>1. sending'[r] = AfterMail(run)
    BY <1>4
  <2>2. sending'[r].awaits = "webhook" => Head(sending'[r].mails) = m
    BY <1>4, <2>1, AfterMailType DEF m
  <2>3. missed \subseteq missed' /\ (newest[m.key] = r => m.key \in missed')
    BY <1>4 DEF MissedFrom
  <2>4. ASSUME NEW k \in Key \ missed', newest[k] = r, k \notin InFlight'
        PROVE  k \notin InFlight /\ k \notin missed /\ told'[k] = told[k]
    BY <1>3, <1>4, <2>3, <2>4
  <2>5. \A k \in Key \ missed' : newest[k] # r => k \notin missed /\ told'[k] = told[k]
    BY <1>4, <2>3
  <2>6. QED
    BY <1>1, <2>2, <2>3, <2>4, <2>5, ReaderInvGoesOn
<1>5. ASSUME missed' = missed, told' = told,
             r \in DOMAIN sending' => sending'[r].mails = Mails(r) /\ sending'[r].awaits # "webhook"
      PROVE  ReaderInv'
  <2>1. ASSUME NEW k \in Key \ missed', newest[k] = r, k \notin InFlight' PROVE k \notin InFlight
    BY <1>2, <1>3, <1>5, <2>1
  <2>2. QED
    BY <1>1, <1>5, <2>1, ReaderInvGoesOn
<1>6. CASE BeginItem(r)
  <2> DEFINE read == rule[m.key.type]
             run == [sending[r] EXCEPT !.hook = read.enabled /\ read.webhook]
  <2>1. run \in Run /\ run.mails = Mails(r) /\ Mails(r) # << >>
    BY <1>6, BeginItemType DEF BeginItem, RunInv, m
  <2>2. \/ Put(r, [run EXCEPT !.awaits = "smtp"]) /\ missed' = missed
        \/ Put(r, AfterMail(run)) /\ missed' = MissedFrom(r, m.key)
    BY <1>6 DEF BeginItem, m
  <2>3. told' = told
    BY <1>6 DEF BeginItem
  <2> HIDE DEF run
  <2>4. CASE Put(r, [run EXCEPT !.awaits = "smtp"]) /\ missed' = missed
    <3>1. sending'[r] = [run EXCEPT !.awaits = "smtp"]
      BY <2>4 DEF Put
    <3>2. [run EXCEPT !.awaits = "smtp"].mails = Mails(r) /\ [run EXCEPT !.awaits = "smtp"].awaits = "smtp"
      BY <2>1 DEF Run
    <3>3. QED
      BY <1>5, <2>3, <2>4, <3>1, <3>2
  <2>5. CASE Put(r, AfterMail(run)) /\ missed' = MissedFrom(r, m.key)
    <3>1. sending' = [sending EXCEPT ![r] = AfterMail(run)]
      BY <2>5 DEF Put
    <3>2. QED
      BY <1>4, <2>1, <2>3, <2>5, <3>1
  <2>6. QED
    BY <2>2, <2>4, <2>5
<1>7. CASE MailFailed(r)
  <2>1. Mails(r) # << >>
    BY <1>1, <1>7 DEF MailFailed, Awaits, RunInv, HeadsAreAwaited
  <2>2. sending' = [sending EXCEPT ![r] = AfterMail(sending[r])]
        /\ missed' = MissedFrom(r, m.key) /\ told' = told
    BY <1>7 DEF MailFailed, Put, m
  <2>3. QED
    BY <1>1, <1>4, <2>1, <2>2
<1>8. CASE MailSent(r)
  <2>1. Mails(r) # << >>
    BY <1>1, <1>8 DEF MailSent, Awaits, RunInv, HeadsAreAwaited
  <2>2. /\ sending'[r] = AfterMail(sending[r])
        /\ told' = [told EXCEPT ![m.key] = m.kind]
        /\ missed' = IF newest[m.key] = r THEN missed \ {m.key} ELSE missed \cup {m.key}
    BY <1>8 DEF MailSent, Put, m
  <2>3. sending'[r].awaits = "webhook" => Head(sending'[r].mails) = m
    BY <1>1, <2>1, <2>2, AfterMailType DEF m
  <2>4. told'[m.key] = m.kind
    BY <1>2, <2>1, <2>2
  <2>5. \A k \in Key \ missed' : newest[k] # r => k \notin missed /\ told'[k] = told[k]
    BY <1>2, <2>2
  <2>6. ASSUME NEW k \in Key \ missed', newest[k] = r, k \notin InFlight'
        PROVE  \/ k \notin InFlight /\ k \notin missed /\ told'[k] = told[k]
               \/ Mails(r) # << >> /\ k = m.key /\ told'[k] = m.kind
    <3>1. CASE k = m.key
      BY <2>1, <2>4, <3>1
    <3>2. CASE k # m.key
      BY <1>2, <1>3, <2>2, <2>6, <3>2
    <3>3. QED
      BY <3>1, <3>2
  <2>7. QED
    BY <1>1, <2>3, <2>4, <2>5, <2>6, ReaderInvGoesOn DEF m
<1>9. CASE WebhookSettled(r)
  <2>1. Mails(r) # << >> /\ sending[r].awaits = "webhook"
    BY <1>1, <1>9 DEF WebhookSettled, Awaits, RunInv, HeadsAreAwaited
  <2>2. sending'[r] = NextItem(sending[r]) /\ told' = told /\ missed' = missed
    BY <1>9 DEF WebhookSettled, AfterWebhook, Put
  <2>3. sending'[r].awaits # "webhook"
    BY <1>1, <2>1, <2>2, AfterMailType
  <2>4. newest[m.key] = r /\ m.key \notin missed => told[m.key] = m.kind
    BY <1>1, <2>1 DEF ReaderInv, HooksFollowMails, m
  <2>5. ASSUME NEW k \in Key \ missed', newest[k] = r, k \notin InFlight'
        PROVE  \/ k \notin InFlight /\ k \notin missed /\ told'[k] = told[k]
               \/ Mails(r) # << >> /\ k = m.key /\ told'[k] = m.kind
    BY <1>3, <2>1, <2>2, <2>4, <2>5
  <2>6. QED
    BY <1>1, <2>2, <2>3, <2>5, ReaderInvGoesOn DEF m
<1>10. CASE BeginAftermath(r)
  <2>1. sending'[r] = [sending[r] EXCEPT !.awaits = "aftermath"] /\ told' = told /\ missed' = missed
    BY <1>10 DEF BeginAftermath, Put
  <2>2. [sending[r] EXCEPT !.awaits = "aftermath"].mails = Mails(r)
        /\ [sending[r] EXCEPT !.awaits = "aftermath"].awaits = "aftermath"
    BY <1>1 DEF Run
  <2>3. QED
    BY <1>5, <2>1, <2>2
<1>11. CASE SkipAftermath(r) \/ AftermathSettled(r)
  <2>1. sending'[r] = NextAftermath(sending[r]) /\ told' = told /\ missed' = missed
    BY <1>11 DEF SkipAftermath, AftermathSettled, Put
  <2>2. QED
    BY <1>1, <1>5, <2>1, AftermathType
<1>12. CASE Return(r)
  <2>1. r \notin DOMAIN sending' /\ told' = told /\ missed' = missed
    BY <1>12 DEF Return
  <2>2. QED
    BY <1>5, <2>1
<1>13. QED
  BY <1>6, <1>7, <1>8, <1>9, <1>10, <1>11, <1>12 DEF Sends

-----------------------------------------------------------------------------

LEMMA DeliveryInvariant == DeliverySpec => []DeliveryInv
<1>1. DeliveryInit => DeliveryInv
  BY EngineInvInit, RunInvInit, ReaderInvInit DEF DeliveryInit, DeliveryInv
<1>2. DeliveryInv /\ [DeliveryNext]_deliveryVars => DeliveryInv'
  <2> SUFFICES ASSUME DeliveryInv, [DeliveryNext]_deliveryVars PROVE DeliveryInv'
    OBVIOUS
  <2>1. TypeOK /\ EngineInv /\ RunInv /\ ReaderInv
    BY DEF DeliveryInv, EngineInv, RefinementInv, SafetyInv
  <2>2. EngineInv' /\ RunInv'
    BY <2>1, EngineAssumption, DeliveryAssumption, EngineInvStep, RunInvStep
  <2>3. CASE deliveryVars' = deliveryVars
    <3>1. UNCHANGED <<alert_state, toSend, sending, told, newest, missed, silent, trig>>
      BY <2>3 DEF deliveryVars, notifyVars, vars, cycleVars
    <3>2. SilentAlertsAreUnsaid'
      BY <2>1, <3>1 DEF ReaderInv, SilentAlertsAreUnsaid
    <3>3. ReaderInv'
      BY <2>1, <3>1, <3>2, ReaderInvKept
    <3>4. QED
      BY <2>2, <3>3 DEF DeliveryInv
  <2>4. CASE Evaluates
    <3>1. ReaderInv'
      BY <2>1, <2>2, <2>4, EngineAssumption, ReaderInvProcessItems, ReaderInvHandOver, ReaderInvIdle DEF Evaluates
    <3>2. QED
      BY <2>2, <3>1 DEF DeliveryInv
  <2>5. CASE Requests \/ HubExits
    <3>1. ReaderInv'
      BY <2>1, <2>2, <2>5, DeliveryAssumption, ReaderInvRequests, ReaderInvHubExits
    <3>2. QED
      BY <2>2, <3>1 DEF DeliveryInv
  <2>6. CASE \/ TimePasses \/ SkipEvaluation
             \/ \E T, R \in SUBSET Key : \E Q \in SUBSET R : RunAlerts(T, R, Q)
             \/ \E r \in DOMAIN sending : Sends(r)
    <3>1. ReaderInv'
      BY <2>1, <2>6, ReaderInvIdle, ReaderInvRunAlerts, ReaderInvSends
    <3>2. QED
      BY <2>2, <3>1 DEF DeliveryInv
  <2>7. QED
    BY <2>3, <2>4, <2>5, <2>6 DEF DeliveryNext
<1>3. QED
  BY <1>1, <1>2, PTL DEF DeliverySpec

\* Every run in flight, rule and mail keeps its type, whatever is sent, muted,
\* deleted or lost meanwhile.
THEOREM DeliveryTypeCorrect == DeliverySpec => []DeliveryTypeOK
<1>1. DeliveryInv => DeliveryTypeOK
  BY DEF DeliveryInv, RunInv
<1>2. QED
  BY <1>1, DeliveryInvariant, PTL

\* With nothing in flight the readers know which alerts are open, but for the
\* mails that failed, were muted or lost, and the alerts closed without one.
THEOREM ReadersAreUpToDate == DeliverySpec => []ReaderIsUpToDate
<1>1. DeliveryInv => ReaderIsUpToDate
  <2> SUFFICES ASSUME DeliveryInv, ~running, DOMAIN sending = {}, NEW k \in Key \ missed
               PROVE  told[k] = "alert" <=> OpenCount(k) > 0
    BY DEF ReaderIsUpToDate
  <2>1. MailKeys(toSend) = {}
    BY NothingQueued DEF DeliveryInv, RunInv, RunsAreNumbered
  <2>2. InFlight = {}
    BY DEF InFlight
  <2>3. told[k] = "alert" <=> Word(k) = "alert"
    BY <2>1, <2>2 DEF DeliveryInv, ReaderInv, ToldSaysSo
  <2>4. QED
    BY <2>3 DEF Word
<1>2. QED
  BY <1>1, DeliveryInvariant, PTL

\* The aftermath mail looked up after any delay is about the incident its run
\* saw resolved, or about a later one: rows close in the order of their ids.
THEOREM AftermathsAreOfTheirRuns == DeliverySpec => AftermathIsOfItsRun
<1>1. DeliveryInv /\ [DeliveryNext]_deliveryVars =>
        [\A r \in DOMAIN sending, i \in Ids :
            /\ SendsAftermath(r, i)
            /\ r \in DOMAIN sending' /\ sending'[r].awaits = "aftermath"
            /\ \E j \in ResolvedRows(alert_state[i].key) : alert_state[j].resolved_at = sending[r].at
            => alert_state[i].resolved_at >= sending[r].at]_deliveryVars
  <2> SUFFICES ASSUME DeliveryInv, NEW r \in DOMAIN sending, NEW i \in Ids, SendsAftermath(r, i),
                      NEW j \in ResolvedRows(alert_state[i].key), alert_state[j].resolved_at = sending[r].at
               PROVE  alert_state[i].resolved_at >= sending[r].at
    OBVIOUS
  <2>1. TypeOK /\ ClosedInOrder
    BY DEF DeliveryInv, EngineInv, RefinementInv, SafetyInv, HistoryInv
  <2>2. PICK k : i \in LatestResolved(k)
    BY DEF SendsAftermath
  <2>3. alert_state[i].key = k /\ ~IsActive(i) /\ j \in ResolvedRows(k) /\ j <= i
    BY <2>2 DEF LatestResolved, ResolvedRows
  <2>4. j \in Ids /\ alert_state[j].key = k
    BY <2>3 DEF ResolvedRows
  <2>5. i \in Nat /\ j \in Nat /\ alert_state[i].resolved_at \in Int /\ alert_state[j].resolved_at \in Int
    BY <2>1, <2>4 DEF TypeOK, Table, Ids, AlertRow, Maybe, NULL
  <2>6. alert_state[j].resolved_at <= alert_state[i].resolved_at
    BY <2>1, <2>3, <2>4, <2>5 DEF ClosedInOrder
  <2>7. QED
    BY <2>5, <2>6
<1>2. QED
  BY <1>1, DeliveryInvariant, PTL DEF DeliverySpec, AftermathIsOfItsRun

-----------------------------------------------------------------------------
(* What holds of the engine, holds of it within the delivery.              *)

\* A skipped evaluation leaves everything as it is but the tick of the cron.
LEMMA SkipKeepsCoverage ==
    ASSUME CoverageInv, SkipEvaluation
    PROVE  CoverageInv'
<1>1. ~running /\ UNCHANGED <<now, alert_state, nextId, cycleVars, toSend, silencing, lastMail>>
      /\ due' = FALSE
  BY DEF SkipEvaluation
<1>2. UNCHANGED <<running, trig, res, silent, todoT, todoR, stamped>>
  BY <1>1 DEF cycleVars
<1>3. TypeOK'
  BY <1>1, <1>2 DEF CoverageInv, SafetyInv, TypeOK
<1>4. UniqueActive' /\ SuppressorIsParent' /\ SuppressorsAreOld'
  BY <1>1 DEF CoverageInv, SafetyInv, UniqueActive, SuppressorIsParent, SuppressorsAreOld,
              ActiveIds, IsActive, Ids
<1>5. LoopOrder' /\ RecoveriesFollowMails'
  BY <1>1, <1>2 DEF CoverageInv, LoopOrder, RecoveriesFollowMails, SoundWait, Ids, IsActive
<1>6. trig = {} /\ res = {}
  BY <1>1 DEF CoverageInv, LoopOrder
<1>7. TriggeredIsAccountedFor' /\ ResolvedIsAccountedFor'
  BY <1>2, <1>6 DEF TriggeredIsAccountedFor, ResolvedIsAccountedFor
<1> QED BY <1>3, <1>4, <1>5, <1>7 DEF CoverageInv, SafetyInv

LEMMA DeliveryCoverage == DeliverySpec => []CoverageInv
<1>1. DeliveryInit => CoverageInv
  BY CoverageInvInit DEF DeliveryInit
<1>2. CoverageInv /\ [DeliveryNext]_deliveryVars => CoverageInv'
  BY StepIsEngineStep, CoverageInvStep, SkipKeepsCoverage, EngineAssumption
<1>3. QED
  BY <1>1, <1>2, PTL DEF DeliverySpec

\* processAlerts within runAlerts: whatever is sent, fails, waits or is lost around it, no
\* alert has two open rows, no pointer names anything but a parent, and every alert that
\* an evaluation visited is accounted for.
THEOREM DeliveryKeepsEngine == DeliverySpec =>
    [](UniqueActive /\ SuppressorIsParent /\ TriggeredIsAccountedFor /\ ResolvedIsAccountedFor)
<1>1. CoverageInv => /\ UniqueActive /\ SuppressorIsParent
                     /\ TriggeredIsAccountedFor /\ ResolvedIsAccountedFor
  BY DEF CoverageInv, SafetyInv
<1>2. QED
  BY <1>1, DeliveryCoverage, PTL

\* The mails that runs are handed, keep the contract while runs overlap, fail and are lost
\* with the hub, rows are deleted and evaluations are skipped: of each alert, their order
\* and their distances are those of AlertContract.
THEOREM DeliveryImplementsContract == DeliverySpec => ImplementsContract
<1>1. DeliveryInit => Contract!Init
  BY RefinementInit DEF DeliveryInit
<1>2. DeliveryInv /\ [DeliveryNext]_deliveryVars => [Contract!Next]_(Contract!vars)
  <2> SUFFICES ASSUME DeliveryInv, [DeliveryNext]_deliveryVars
               PROVE  [Contract!Next]_(Contract!vars)
    OBVIOUS
  <2>1. EngineInv /\ EngineInv'
    BY EngineAssumption, EngineInvStep DEF DeliveryInv
  <2>2. RefinementInv /\ SafetyInv /\ SafetyInv'
    BY <2>1 DEF EngineInv, RefinementInv
  <2>3. CASE [Next]_vars
    BY <2>2, <2>3, EngineAssumption, RefinementStep
  <2>4. CASE SkipEvaluation
    <3>1. TypeOK /\ TypeOK' /\ UniqueActive /\ UniqueActive'
      BY <2>2 DEF SafetyInv
    <3>2. QuietStep
      BY <2>4, <3>1, RemovalIsQuiet DEF SkipEvaluation, Silent
    <3>3. \E K \in SUBSET Key : Contract!Forget(K)
      BY <3>1, <3>2, QuietStepForgets
    <3> QED BY <3>3 DEF Contract!Next
  <2> QED BY <2>3, <2>4, StepIsEngineStep
<1>3. QED
  BY <1>1, <1>2, DeliveryInvariant, PTL DEF DeliverySpec, ImplementsContract, Contract!Spec
=============================================================================
