---------------------------- MODULE AlertDelivery ----------------------------
(***************************************************************************)
(* From the queue of processAlerts to the readers: the rest of runAlerts   *)
(* (hub/src/alerts/evaluator.ts), the alert rules, the snooze, and the     *)
(* mails and webhooks it awaits.                                           *)
(*                                                                         *)
(* processAlerts is synchronous, the sends after it are not: while one     *)
(* runAlerts awaits a mail server the cron starts the next, handlers write *)
(* the rules and the table, and the hub may exit.  A run is one runAlerts  *)
(* with something to send, named by the number of its evaluation; it reads *)
(* rules and table when it reaches an item, not when the item was queued.  *)
(*                                                                         *)
(* An operator named ...Mutant is the definition below it with a plausible *)
(* mistake; nothing refers to it, a run that swaps it in must fail.        *)
(***************************************************************************)
EXTENDS AlertEngine

CONSTANTS
    RulePatches,   \* what the settings page and the mute link write to a rule
    SnoozeMinutes, \* how long an update snoozes the alerts
    MaxSending,    \* bound on the runs in flight at once
    MaxHandled     \* bound on the requests and exits

Field == {"enabled", "mail", "webhook"}

ASSUME DeliveryAssumption ==
    /\ RulePatches \subseteq UNION {[F -> BOOLEAN] : F \in SUBSET Field}
    /\ SnoozeMinutes \subseteq Nat
    /\ MaxSending \in Nat
    /\ MaxHandled \in Nat

VARIABLES
    evaluations, \* evaluations begun: names the runs
    sending,     \* the runs in flight: number of the evaluation -> Run
    rule,        \* alert_rules: type -> Rule
    snoozeUntil, \* in memory only
    handled,     \* requests and exits so far
    told,        \* history: what the last mail delivered about a key said
    newest,      \* history: the evaluation that queued the newest mail about a key,
                 \* 0 when there is none or the alert was closed without one since
    missed       \* history: keys whose newest mail did not arrive, or not last

notifyVars == <<sending, rule, snoozeUntil, told, newest, missed>>
deliveryVars == <<vars, evaluations, handled, notifyVars>>

Types == {k.type : k \in Key}

\* A row of alert_rules; mail stands for rule.mail together with the
\* critical-only setting, which a type passes or not by its severity.
Rule == [Field -> BOOLEAN]

\* The seed of a critical type.
DefaultRule == [f \in Field |-> TRUE]

\* at: when it was evaluated; mails: what is left of toSend, its first item being
\* dealt with; awaits: the promise it waits for; hook: rule.webhook as read for that
\* item; recovered: the resolved parents whose aftermath is left, by their place in toSend.
Run ==
    [at : Nat, mails : Seq(Mail), awaits : {"nothing", "smtp", "webhook", "aftermath"},
     hook : BOOLEAN, recovered : SUBSET (Nat \X Key)]

DeliveryTypeOK ==
    /\ evaluations \in Nat /\ handled \in Nat
    /\ DOMAIN sending \subseteq 1 .. evaluations
    /\ \A r \in DOMAIN sending : sending[r] \in Run
    /\ rule \in [Types -> Rule]
    /\ snoozeUntil \in Nat
    /\ told \in [Key -> {"nothing", "alert", "resolution"}]
    /\ newest \in [Key -> 0 .. evaluations]
    /\ missed \in SUBSET Key

DeliveryInit ==
    /\ Init
    /\ evaluations = 0 /\ handled = 0
    /\ sending = [r \in {} |-> NULL]
    /\ rule = [t \in Types |-> DefaultRule]
    /\ snoozeUntil = 0
    /\ told = [k \in Key |-> "nothing"]
    /\ newest = [k \in Key |-> 0]
    /\ missed = {}

-----------------------------------------------------------------------------
(* Evaluating.                                                             *)

IsSnoozed == now < snoozeUntil

\* runAlerts up to the call of processAlerts.
RunAlerts(T, R, Q) ==
    /\ ~IsSnoozed
    /\ Cardinality(DOMAIN sending) < MaxSending
    /\ StartCycle(T, R, Q)
    /\ evaluations' = evaluations + 1
    /\ UNCHANGED <<handled, notifyVars>>

\* Snoozed: nothing is evaluated until the next tick of the cron.
SkipEvaluation ==
    /\ IsSnoozed
    /\ ~running /\ due
    /\ due' = FALSE
    /\ UNCHANGED <<now, alert_state, nextId, cycleVars, toSend, silencing, lastMail>>
    /\ UNCHANGED <<evaluations, handled, notifyVars>>

\* The keys of mailed alerts that a step closes.
ClosedKeys == {alert_state[i].key : i \in {j \in Ids : IsActive(j) /\ alert_state[j].notify_count > 0
                                                /\ (j \in Ids' => alert_state[j].resolved_at' # NULL)}}

ClosedUnsaid(K) ==
    /\ missed' = missed \cup K
    /\ newest' = [k \in Key |-> IF k \in K THEN 0 ELSE newest[k]]

\* processAlerts, item by item.  Only the types that resolve silently close without a mail.
ProcessItems ==
    /\ \E k \in Key : StampChildren(k) \/ ProcessTriggered(k) \/ ProcessResolved(k)
    /\ ClosedUnsaid(ClosedKeys \cap silent)
    /\ UNCHANGED <<evaluations, handled, sending, rule, snoozeUntil, told>>

MailKeys(mails) == {mails[n].key : n \in DOMAIN mails}

IsParentsResolution(m) == m.kind = "resolution" /\ m.key.type \in ParentTypes

ParentPlaces(mails) == {n \in DOMAIN mails : IsParentsResolution(mails[n])}

\* The items themselves.
RecoveredParentsMutant(mails) == {<<n, mails[n]>> : n \in ParentPlaces(mails)}

\* The parents whose resolution is among the mails, in their order.
RecoveredParents(mails) == {<<n, mails[n].key>> : n \in ParentPlaces(mails)}

\* The one the aftermath loop gets to next.
NextRecovered(run) == CHOOSE p \in run.recovered : \A q \in run.recovered : p[1] <= q[1]

\* processAlerts returns; with anything to send, runAlerts goes on to its loops.
HandOver ==
    /\ toSend # << >>
    /\ EndCycle
    /\ sending' = [r \in DOMAIN sending \cup {evaluations} |->
        IF r = evaluations
        THEN [at |-> now, mails |-> toSend, awaits |-> "nothing", hook |-> FALSE,
              recovered |-> RecoveredParents(toSend)]
        ELSE sending[r]]
    /\ newest' = [k \in Key |-> IF k \in MailKeys(toSend) THEN evaluations ELSE newest[k]]
    /\ UNCHANGED <<evaluations, handled, rule, snoozeUntil, told, missed>>

NothingToSend ==
    /\ toSend = << >>
    /\ EndCycle
    /\ UNCHANGED <<evaluations, handled, notifyVars>>

-----------------------------------------------------------------------------
(* Sending: one run, one item at a time.                                   *)

SendingOnly == UNCHANGED <<vars, evaluations, handled, rule, snoozeUntil, newest>>

Put(r, run) == sending' = [sending EXCEPT ![r] = run]

\* A run continues when its promise is settled and the event loop is free.
Awaits(r, promise) == ~running /\ r \in DOMAIN sending /\ sending[r].awaits = promise

Mails(r) == sending[r].mails

\* The newest mail about k does not reach the readers, if it is this one.
MissedFrom(r, k) == IF newest[k] = r THEN missed \cup {k} ELSE missed

NextItem(run) == [run EXCEPT !.mails = Tail(@), !.awaits = "nothing", !.hook = FALSE]

\* A rejected promise leaves the loop: no try around the send.
AfterMailMutant(run) == [run EXCEPT !.mails = << >>, !.awaits = "nothing", !.hook = FALSE]

\* The mail is settled either way; the webhook is tried on its own.
AfterMail(run) == IF run.hook THEN [run EXCEPT !.awaits = "webhook"] ELSE NextItem(run)

\* The loop gets to an item and reads its rule: disabled, neither mail nor webhook.
BeginItem(r) ==
    /\ Awaits(r, "nothing") /\ Mails(r) # << >>
    /\ LET k == Head(Mails(r)).key
           read == rule[k.type]
           run == [sending[r] EXCEPT !.hook = read.enabled /\ read.webhook]
       IN  \/ /\ read.enabled /\ read.mail
              /\ Put(r, [run EXCEPT !.awaits = "smtp"])
              /\ UNCHANGED missed
           \/ /\ ~(read.enabled /\ read.mail)
              /\ Put(r, AfterMail(run))
              /\ missed' = MissedFrom(r, k)
    /\ UNCHANGED told
    /\ SendingOnly

\* The mail server accepts the mail.
MailSent(r) ==
    /\ Awaits(r, "smtp")
    /\ LET m == Head(Mails(r))
       IN  /\ told' = [told EXCEPT ![m.key] = m.kind]
           /\ missed' = IF newest[m.key] = r THEN missed \ {m.key} ELSE missed \cup {m.key}
    /\ Put(r, AfterMail(sending[r]))
    /\ SendingOnly

\* It does not, or not in time: logged, never tried again.
MailFailed(r) ==
    /\ Awaits(r, "smtp")
    /\ missed' = MissedFrom(r, Head(Mails(r)).key)
    /\ Put(r, AfterMail(sending[r]))
    /\ UNCHANGED told
    /\ SendingOnly

\* The item is not taken off the list.
AfterWebhookMutant(run) == [run EXCEPT !.awaits = "nothing"]

\* Each webhook answers, fails or is aborted after ten seconds; all are logged alike.
AfterWebhook(run) == NextItem(run)

WebhookSettled(r) ==
    /\ Awaits(r, "webhook")
    /\ Put(r, AfterWebhook(sending[r]))
    /\ UNCHANGED <<told, missed>>
    /\ SendingOnly

ResolvedRows(k) == {i \in Ids : alert_state[i].key = k /\ ~IsActive(i)}

\* The latest row, resolved or open again.
LatestResolvedMutant(k) == {i \in Ids : alert_state[i].key = k
    /\ \A j \in Ids : alert_state[j].key = k => j <= i}

\* ... AND resolved_at IS NOT NULL ORDER BY id DESC LIMIT 1: a row, or none.
LatestResolved(k) == {i \in ResolvedRows(k) : \A j \in ResolvedRows(k) : j <= i}

\* buildAftermath: the rows that name the parent's row, open and resolved.
Dependents(i) == {j \in Ids : alert_state[j].suppressed_by = i}

\* The parent's row is looked up now, whatever happened since it resolved.
\* Nothing is read from its rule.
SendsAftermath(r, i) ==
    /\ Awaits(r, "nothing") /\ Mails(r) = << >>
    /\ sending[r].recovered # {}
    /\ i \in LatestResolved(NextRecovered(sending[r])[2])
    /\ Dependents(i) # {}

BeginAftermath(r) ==
    /\ \E i \in Ids : SendsAftermath(r, i)
    /\ Put(r, [sending[r] EXCEPT !.awaits = "aftermath"])
    /\ UNCHANGED <<told, missed>>
    /\ SendingOnly

NextAftermath(run) == [run EXCEPT !.recovered = @ \ {NextRecovered(run)}, !.awaits = "nothing"]

\* No row, or nobody depended on it.
SkipAftermath(r) ==
    /\ Awaits(r, "nothing") /\ Mails(r) = << >>
    /\ sending[r].recovered # {}
    /\ ~ \E i \in Ids : SendsAftermath(r, i)
    /\ Put(r, NextAftermath(sending[r]))
    /\ UNCHANGED <<told, missed>>
    /\ SendingOnly

\* Sent or failed: logged.
AftermathSettled(r) ==
    /\ Awaits(r, "aftermath")
    /\ Put(r, NextAftermath(sending[r]))
    /\ UNCHANGED <<told, missed>>
    /\ SendingOnly

\* runAlerts returns.
Return(r) ==
    /\ Awaits(r, "nothing")
    /\ Mails(r) = << >> /\ sending[r].recovered = {}
    /\ sending' = [q \in DOMAIN sending \ {r} |-> sending[q]]
    /\ UNCHANGED <<told, missed>>
    /\ SendingOnly

Sends(r) ==
    \/ BeginItem(r) \/ MailSent(r) \/ MailFailed(r) \/ WebhookSettled(r)
    \/ BeginAftermath(r) \/ SkipAftermath(r) \/ AftermathSettled(r)
    \/ Return(r)

-----------------------------------------------------------------------------
(* Requests, and the end of the process.                                   *)

Handle == handled < MaxHandled /\ handled' = handled + 1

Request == ~running /\ Handle

Patched(current, patch) == [f \in Field |-> IF f \in DOMAIN patch THEN patch[f] ELSE current[f]]

\* updateRule: from the settings page, or mail off from the link in a mail.
UpdateRule(type, patch) ==
    /\ Request
    /\ rule' = [rule EXCEPT ![type] = Patched(@, patch)]
    /\ UNCHANGED <<vars, evaluations, sending, snoozeUntil, told, newest, missed>>

\* Idempotent, so not counted.
ResetRules ==
    /\ ~running
    /\ rule' = [t \in Types |-> DefaultRule]
    /\ UNCHANGED <<vars, evaluations, handled, sending, snoozeUntil, told, newest, missed>>

\* An update of an agent or of the hub begins: from now on, whatever was set before.
SnoozeAlerts(d) ==
    /\ Request
    /\ snoozeUntil' = now + d
    /\ UNCHANGED <<vars, evaluations, sending, rule, told, newest, missed>>

\* A handler deletes rows, those of open alerts among them.
DeleteRows ==
    /\ Request
    /\ \/ \E k \in Key : DeleteHost(k.host) \/ DeleteContainer(k.host, k.target)
       \/ \E i \in Ids : DeleteAlert(i)
    /\ ClosedUnsaid(ClosedKeys)
    /\ UNCHANGED <<evaluations, sending, rule, snoozeUntil, told>>

\* The mails of k's newest run are still to be sent.
InFlight == {k \in Key : newest[k] \in DOMAIN sending /\ k \in MailKeys(sending[newest[k]].mails)}

\* The hub exits: mails, awaits and the snooze were in memory.
HubExits ==
    /\ Handle
    /\ Crash \/ \E k \in Key : CrashInItem(k)
    /\ sending' = [r \in {} |-> NULL]
    /\ snoozeUntil' = 0
    /\ missed' = missed \cup MailKeys(toSend) \cup InFlight
    /\ UNCHANGED <<evaluations, rule, told, newest>>

TimePasses ==
    /\ Tick
    /\ UNCHANGED <<evaluations, handled, notifyVars>>

Requests ==
    \/ \E t \in Types, patch \in RulePatches : UpdateRule(t, patch)
    \/ ResetRules
    \/ \E d \in SnoozeMinutes : SnoozeAlerts(d)
    \/ DeleteRows

\* processAlerts is a loop over two lists.
Evaluates == ProcessItems \/ HandOver \/ NothingToSend

DeliveryNext ==
    \/ TimePasses
    \/ \E T, R \in SUBSET Key : \E Q \in SUBSET R : RunAlerts(T, R, Q)
    \/ SkipEvaluation
    \/ Evaluates
    \/ \E r \in DOMAIN sending : Sends(r)
    \/ Requests
    \/ HubExits

\* Some promise is always settled next: nodemailer and sendWebhook give up after
\* their timeouts, and the event loop resumes the run that waits.  Nothing is
\* assumed of the cron, the requests or the mail server's answers.
DeliverySpec ==
    /\ DeliveryInit /\ [][DeliveryNext]_deliveryVars
    /\ WF_deliveryVars(Evaluates)
    /\ WF_deliveryVars(\E r \in DOMAIN sending : Sends(r))

-----------------------------------------------------------------------------
(* Properties.                                                             *)

\* Between evaluations, with nothing in flight, the readers' last mail about an
\* alert says that it is open exactly when it is: unless their newest mail about
\* it failed, was muted, was lost with the process or overtaken by an older one,
\* or the alert was closed without a mail.  Each of these spoils one alert only.
ReaderIsUpToDate ==
    ~running /\ DOMAIN sending = {} =>
        \A k \in Key \ missed : (told[k] = "alert") <=> (OpenCount(k) > 0)

\* An aftermath mail never reports on an older incident than the one its run saw
\* resolved while the row of that one exists, however late it is looked up.
AftermathIsOfItsRun ==
    [][\A r \in DOMAIN sending, i \in Ids :
        /\ SendsAftermath(r, i)
        /\ r \in DOMAIN sending' /\ sending'[r].awaits = "aftermath"
        /\ \E j \in ResolvedRows(alert_state[i].key) : alert_state[j].resolved_at = sending[r].at
        => alert_state[i].resolved_at >= sending[r].at]_deliveryVars

\* A failed mail, a dead webhook, a muted type or a deleted row never keeps a run
\* from its end: what is in flight drains (the horizon ends the cron's ticks).
MailsDrain == DOMAIN sending # {} ~> DOMAIN sending = {}
=============================================================================
