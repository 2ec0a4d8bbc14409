# insightd in TLA+

Specifications, model-checking configurations and proofs for insightd: agents
on container hosts publish what they collect over MQTT, a hub stores it in
SQLite, evaluates alert conditions every few minutes and mails about them.
Paths below are relative to the repository.

The development starts at the behaviour users depend on most: what happens
between a container or host failing and a mail about it, and between its
recovery and the mail that says so. The hub's decisions are spread over several
evaluations, the operators' handlers run between them, and processes die; that
is where testing one call at a time says least.

## 1. Inventory of the system

| Part | Where | State | Operations | What is hard | What makes it correct |
|---|---|---|---|---|---|
| Alert engine | `hub/src/alerts/evaluator.ts` (`processAlerts`, `runAlerts`) | table `alert_state` | one evaluation: triggered items, then resolved items | decisions spread over evaluations; statements commit one by one; crashes; handlers with an `await` | one open row per alert; nobody forgotten; mails in order and with their distances; history final |
| Alert dependencies | `hub/src/alerts/dependencies.ts` | static `DEPS` | `findActiveParent`, `findActiveChildren` | three scopes, one of them a join | a pointer names a parent; a root cause silences what it explains |
| Trigger and resolution checks | `evaluator.ts` (`evaluateAlerts`, `checkResolutions`), `respawn-loop.ts` | reads snapshots, registry, hosts | one list each of triggered and resolved alerts | edges and levels; two queries per type over rows that may be stale, removed or pruned | a lasting outage is reported, a lasting recovery closes; the two never contradict each other and leave no gap |
| Alert delivery | `runAlerts`, `rules.ts`, `severity.ts`, `sender.ts`, `aftermath.ts`, `shared/webhooks` | rules, snooze in memory | mails and webhooks one after the other, awaited | overlapping cron runs; failures and crashes after the state was bumped | the readers' last mail agrees with the table, or a named event explains why not; what was taken over drains |
| Collection | `agent/src/scheduler.ts`, `agent/src/mqtt.ts` | MQTT client's outgoing store | collect, publish, answer requests | restarts, duplicates | what is published is a complete listing |
| Ingest | `hub/src/mqtt.ts`, `hub/src/ingest.ts` | `hosts`, `containers`, `container_snapshots`, ... | one handler per topic | QoS 1 redelivery, batches of one second, empty batches | the registry follows the newest listing |
| Agent commands | `hub/src/mqtt.ts`, `agent/src/mqtt.ts` | pending requests with timers | logs, actions, updates | late, duplicated and lost answers | each request settles once, with its own answer |
| Leader lease | `agent/src/runtime/k8s-lease.ts` | Lease object; `leader` flag | acquire, renew, release | lost replies, stop in mid-acquire, clocks | one holder of the lease; prompt handoff |
| Identity | `hub/src/identity/matcher.ts`, `hub/src/mqtt.ts` | hints in memory, links in the table | hint, match, manual link, inventories | order of hints, hosts and inventories; guests that move | a host is linked to its own guest, and never to another |
| Process events | `agent/src/collectors/processes`, `hub/src/ingest-process-events.ts` | bounded buffer, shipped hashes | poll, drain | buffer at its limit | every hash used was defined; an exit reported was one |
| Agent update | `agent/src/updater.ts` | old and new containers | rename, stop, create, start | each step may fail | some agent and one hub run |
| Monitors | `hub/src/http-monitor` | checks, failure counters, certificates | rounds of probes | overlapping rounds, endpoints edited during a probe | an alert of a monitor settles with its site; no ghost of a certificate |
| Rollups, retention | `hub/src/db/rollups.ts`, `hub/src/db/schema.ts` | rollup tables, `last_rollup_at` | daily jobs | a crash between days, time strings of two formats | nothing is pruned that was not rolled up |
| Schema | `hub/src/db/schema.ts` | `meta.schema_version`, every table | bootstrap, migrate | no transactions: a start cut off leaves a file between releases | every start serves a complete schema |
| Web API | `hub/src/web` | sessions, rate limits | handlers | state across awaits | - |
| Runtimes and collectors | `agent/src/runtime`, `agent/src/collectors` | little | calls to outside APIs | - | - |
| Diagnosis | `hub/src/insights/diagnosis` | log cache, cache of findings, votes | diagnose, fetch logs, vote | two caches with lives of their own under changing rows, logs and votes | a finding draws the conclusion, and has the confidence, of the moment |
| Log patterns | `hub/src/log-patterns`, `periodicMine.ts` | `log_pattern_events` | fetch, match, record, show, delete | the same tail fetched again and again; fetches that fail | a line that stays is recorded; what is shown was there |
| Insights | `hub/src/insights/detector.ts` | table `insights`, emptied every 15 minutes | derive from the rows of a week | rows outlive their containers | nothing is said for ever of what is gone or well |
| Docker runtime | `agent/src/runtime/docker.ts` | restarts counted, kills remembered, by name | list, inspect | Docker's count starts again; inspections fail | restarts told were restarts |
| Standalone program | `src/src` | the same database; what it remembers of Docker | its own bootstrap, migrate, collect, evaluate | two programs on one file; cycles that overlap and fail | a file serves either; an alert closes when its cause is over |
| Health scores | `hub/src/insights/health.ts`, `hub/src/web/queries.ts` | table `health_scores` | compute every quarter of an hour, show at any time | a stored score next to rows of the moment | the score shown is that of what is shown next to it |
| Pages about a container | `hub/src/web/queries.ts` | reads snapshots | dashboard, list, detail, timeline, incidents, feed | six queries with windows of their own over the same rows | they do not contradict each other |
| Groups | `hub/src/ingest.ts`, `hub/src/web/handlers.ts`, `HostsPage.tsx` | a reported group, an override, a board in the browser | report, set, rename, delete, drag | a cached board, requests under way, reports at any time | hosts do not come back into a group that was deleted |
| Settings | `hub/src/db/settings.ts`, `config.ts`, `SettingsPage.tsx` | the settings table, the environment, edits in the browser | resolve, mask, edit, save | five kinds of resolution; a masked secret goes round | what is shown is what is used and what was saved |
| Page of a container | `ContainerDetailPage.tsx`, its hooks, `Layout.tsx`, `hub/src/insights/ai-diagnose` | the life of the page, of its viewer or card, the query cache, requests under way, stored diagnoses | act, confirm, load logs, diagnose, go to a sibling, away and back | each path is a page of its own, and answers outlive it | what is shown and begun is of this container |
| Baselines, anomalies, digest, other queries, templates, other pages | `hub/src/insights`, `hub/src/digest`, `hub/src/web/queries.ts`, `shared/mail`, `hub/src/web/frontend` | - | computation, SELECTs, layout | floating-point statistics | not modelled |

`src/src` is an older single-process version of the same program. Its schema, its
count of restarts and its cycle of collecting, storing and evaluating are modelled,
where they meet or differ from the hub's and the agent's; its mails and its digest are
not.

How the parts interact: an agent's `runCollection` publishes a batch per topic
(QoS 1); the hub's MQTT handler ingests it synchronously; a cron job starts
`runAlerts`, which reads the tables (`evaluateAlerts`), updates `alert_state`
(`processAlerts`, synchronous) and then awaits one mail after the other. HTTP
handlers and nightly jobs run between any two of these, share the tables with
them, and hold what they read across their own `await`s.

## 2. Modules

| Module | Models | Kind |
|---|---|---|
| `ReminderBackoff` | `requiredReminderGap` | pure operator |
| `AlertDependencies` | `DEPS`, scopes, the order of `evaluateAlerts` | pure operators |
| `AlertContract` | what the engine promises a recipient, per alert key | abstract specification |
| `AlertEngine` | `alert_state`, `processAlerts`, handlers, retention, crashes | component |
| `AlertPipeline` | agents, MQTT, ingest, trigger and resolution checks, on top of `AlertEngine` | composition |
| `AlertMailDesign` | claims of the mail design document about root causes | properties of `AlertEngine` |
| `AlertEngineProofs` | theorems about `AlertEngine` | proofs |
| `AlertPipelineProofs` | theorems about `AlertPipeline` | proofs |
| `LeaderLease` | leader election of the Kubernetes agents | component |
| `LeaderLeaseProofs` | theorems about `LeaderLease` | proofs |
| `AlertDelivery` | `runAlerts` after `processAlerts`, rules, snooze, mails, webhooks, aftermath, on top of `AlertEngine` | composition |
| `AlertDeliveryProofs` | theorems about `AlertDelivery` | proofs |
| `AlertChecks` | both queries of 23 alert types, and the rows they read | component |
| `MqttRequests` | requests of the hub to agents, log fetches | component |
| `AgentUpdater` | `performUpdate`, `cleanupOldContainers` | component |
| `IdentityLink` | links between hosts and Proxmox guests | component |
| `ProcessEvents` | process poller, buffer, ingest, argv dictionary | component |
| `SchemaMigration` | `bootstrap`, `migrate`, of hub and standalone program | component |
| `HttpMonitor` | HTTP and TLS checks and their alerts | component |
| `Rollups` | rollup run and pruning of raw rows | component |
| `ClusterListings` | the fifteen cluster and node listings, from an agent's cycle to what pages and alerts read | component |
| `ContainerRestarts` | restarts as the agent, or the standalone program, counts them, and `checkRestartLoop` | component |
| `LogMining` | log fetches and the lines that match a pattern | component |
| `Diagnosis` | `runDiagnosis` with its caches and votes | component |
| `HostInsights` | insights about the containers of a host | component |
| `MCServices` | six components that share no state, one at a time | model checking |
| `StandaloneProgram` | the cycle of the program without a hub, and one alert of it | component |
| `FleetScores` | health scores of hosts and system, stored and shown | component |
| `FleetPages` | what the pages say of one container | component |
| `HostGroups` | groups of hosts, and the board on which they are dragged | component |
| `HubSettings` | resolution, editing and use of settings | component |
| `ContainerPage` | actions, logs and AI diagnosis on the page of a container | component |
| `MCContainers` | six more, about containers and processes over time | model checking |
| `MCViews` | the standalone program, and what pages show and change | model checking |
| `SetLemmas` | least and greatest of a set of numbers, induction over finite sets, sums and means | proofs |
| `ServiceProofs` | theorems about `SchemaMigration`, `AlertChecks`, `MqttRequests`, `IdentityLink`, `ClusterListings` and `HttpMonitor`, and their composition | proofs |
| `ContainerProofs` | theorems about `AgentUpdater`, `ContainerRestarts`, `ProcessEvents`, `Diagnosis`, `LogMining` and `HostInsights`, and their composition | proofs |
| `ViewProofs` | theorems about `FleetScores`, `FleetPages`, `HubSettings`, `HostGroups`, `ContainerPage` and `StandaloneProgram`, and their composition | proofs |
| `MC...` | instances for TLC | model checking |

### AlertEngine

One evaluation is a *cycle*. `StartCycle(T, R, Q)` is the moment `runAlerts`
calls `processAlerts` with triggered alerts `T` and resolved alerts `R`, those
in `Q` flagged `isSilentResolution`. `processAlerts` is synchronous, so no
handler can run before `EndCycle`; but it opens no transaction, so the process
may die between any two of its statements. The cycle is therefore one step per
list item, or two for a parent type (`StampChildren`, then the visit), and
`Crash` and `CrashInItem` end it at any of these points, and inside an item.

| Variable | Code |
|---|---|
| `alert_state`, `nextId` | the table and its AUTOINCREMENT sequence |
| `now`, `due` | SQLite's `datetime('now')` in minutes; the cron job has fired |
| `running`, `trig`, `res`, `silent`, `todoT`, `todoR`, `stamped` | the loops of `processAlerts` |
| `toSend` | its result, the mails `runAlerts` will send |
| `silencing` | `handleSilenceAlert` between its lookup and its update |
| `lastMail` | history variable of the properties |

Each branch of the two loops is an action: `FirstSighting`, `Hold` (silenced,
not stabilised, reminded recently), `HoldForParent`, `Announce`, `Remind`;
`DropUnsent`, `ResolveSilently`, `Resolve`, `AwaitRecovery`. Clearing
`resolved_pending_since` is part of each triggered action on an existing row
(`Recurring`), as in the code. `.get()` without ORDER BY returns any matching
row: a lookup is `\E i \in ActiveIds(k)`. Triggered items are visited in the
order `evaluateAlerts` pushes them (`EvaluatedBefore`); rows of one type from
one query in any order. Resolved items have no order the model relies on.

Times are whole minutes. The code compares fractions of minutes with `>=`; an
evaluation happens at cron ticks, on the minute.

### AlertPipeline

Adds the path to the two lists. `Publish` hands a batch to the agent's MQTT
client, `Deliver` ingests and acknowledges it, `DeliverUnacknowledged` ingests
it and leaves it to be delivered again; `AgentRestart` loses a suffix of what
was not acknowledged. `IngestContainers` writes a row per container, upserts the registry and
marks what it no longer lists, comparing whole units of `collected_at`: two
batches in one unit are indistinguishable, as two in one second are in the
code. `Evaluate` is `StartCycle` with `Triggered` and `Resolved` computed from
the stored rows. Only the newest two rows of a container are read by the
checks modelled, so only those are kept.

`outSince` and `wellSince` are history variables: since when every evaluation
has seen a condition, and since when none has after one saw it resolved. An
evaluation that neither reports nor resolves a condition leaves `outSince`
alone (that is what the edge of `container_down` looks like from outside).

### LeaderLease

Independent of the other modules: the pods of a cluster compete for one Lease
object. Each of `tryAcquire`, `tryRenew` and the release in `stop()` is an
*attempt* `op[p][s]` that goes through asked, answered, sent and replied: the
timers are `setInterval`s that do not wait for the previous call, so every
`await` is a point where other attempts of the same pod run. `Read`, `Apply`
and `Refuse` are the API server, whose PUT succeeds only for the
resourceVersion it names. `Fail` is the catch block or the 10-second timeout
of the client: what was sent may still be applied (an `orphan`), as it may
after `Exit`. `Start` is a new process with the same pod name, which re-adopts
a lease it finds in its name.

| Variable | Code |
|---|---|
| `lease` | the Lease object: holderIdentity, renewTime, resourceVersion |
| `up`, `stopped`, `leader` | the process, `stopped` and `leader` of the elector |
| `op` | requests and replies under way |
| `now`, `Drift` | true time, and how far each pod's `Date.now()` is from it |
| `stamp` | history: the newest renewTime under which p knows it held the lease |

The timers may fire at any moment, so nothing rests on the 5, 10 and 15
seconds. The release has a slot of its own, as `stop()` is called once per
process.

### AlertDelivery

`processAlerts` is synchronous, the sends after it are awaited, and the cron
(`hub/src/scheduler.ts:69-75`) has no guard: a slow mail server lets a second
evaluation begin while the first is still sending. A *run* is one `runAlerts`
with something to send. Each `await` is a pair of actions: `BeginItem` and
`MailSent`, `MailFailed` or `WebhookSettled`; `BeginAftermath` and
`AftermathSettled`. The rule of an item and the parent row of an aftermath are
read when the run gets there, not when the item was queued; between the two,
rules change (`UpdateRule`, also from the mute link), rows are deleted, the hub
exits (`HubExits`: mails, awaits and the snooze were in memory).

`told`, `newest` and `missed` are history variables: what a reader was last
told about an alert, by which evaluation, and the alerts about which a reader
knows something else for a reason of its own.

### AlertChecks

One alert type at a time (`kind`), one target of it, and the rows its queries
read, at most `MaxStored`. `Triggers` and `Resolves` are the two queries;
`EvaluateOne` is an evaluation without a window. `Report`, `ListTarget`,
`OmitTarget`, `OmitLast`, `OtherHostReports`, `PruneStored` and
`ChangeSettings` are what changes the rows: a batch with or without the target,
the last container of a host gone (an empty listing is not ingested), a batch
of another host, retention, thresholds set to 0. Values are NULL or one of
three levels around the threshold. A clock unit is half an hour for restarts
and a day in units of two for respawn loops and backups (`DayLength`), enough
to tell "the same UTC day" from "inside the window".

### The services and the containers

`MqttRequests`: `request[r]` is one promise of the hub, in the pending map of
its kind until its answer, its timer or a publish error settles it. Messages
are a set: at least once (QoS 1), in any order, lost when nobody is connected
and the broker keeps nothing. Clocks of hub and agent differ by `AgentClock`.
`FetchLogs` is the log cache's fetch and its mark `pendingFetches`.

`AgentUpdater`: containers are numbered in order of creation; each call of
`performUpdate` to Docker is an action that succeeds or fails (`Mishap`).
Overlapping updates are possible as the MQTT handler does not wait. `Boot` is
`cleanupOldContainers` of an agent that starts.

`IdentityLink`: `at` is where a guest really is, `listing` the inventories
published and not ingested, `guestRows` the newest row of each guest and node,
`retained` the hints the broker keeps, `pendingHints` the hub's memory.

`ProcessEvents`: a poll compares what it sees with what it saw by
`(pid, startedAt)`; the payload is buffered up
to `BufferMaxCycles` and evicted oldest first. A look attributes some of the
processes of containers, and skips those it cannot read: one whose `stat` or `cmdline`
is missing or empty, or all when `/proc` cannot be listed (`skipped`; such a look counts
as one of `MaxLosses`). `overlooked` is history: the processes that a look missed
while they ran and were known. `Publish` is the part of `PollCycle` that compares and sends.

`SchemaMigration`: a file is the set of tables, columns, indexes and seeds it
has. `Release(v)` are the files that a finished start of version v left.
`Bootstrap` and `MigrateBlock` are single statements' worth of change;
`CutBootstrap` and `CutMigration` stop in the middle. Each start is of the hub or
of the standalone program (`program`), whose tables and blocks are its own
(`StandaloneTables`, `StandaloneAltered`, `NeedsMigration`).

`HttpMonitor`: a *round* is one `runChecks` or `runTlsChecks`, which works on
the endpoints as it read them, in batches of `CONCURRENCY`, and records after
the await by id.

`ClusterListings`: `topic` is the listing a behaviour follows; `place` is where each
object really is. `reads` holds what the cycles of an agent have collected and
not published: `setInterval` does not wait, so two cycles overlap and may
publish in the other order. `FailedRead` is what each collector makes of an
error. `table` has the age in batches of each row of each owner, a host or a
cluster id; one `Ingest...` per topic says whether rows not in a batch stay
(`Written`), go by time (`Pruned`, `Stamped`) or by name (`Rewritten`), and
`Shown` is what the queries read. `HandleAtOnce` and `HandleAcrossSeconds` are the
two ways whole seconds deceive: two batches in one, one batch in two.

`ContainerRestarts`: `container` is what Docker knows, `restartState` what the
collector remembers of the name. A collection is `List` and then one inspection:
in between the container lives on. `newestRow` and `olderRow` are the two rows that
`checkRestartLoop` compares; in both, `life` and `found` are history: which life of the
container the row is about and which was counted last.

`LogMining`: `pending` is the mark in `pendingFetches`, `fetch` what is under way; a
unit of time is the life of a cache entry, three of which make a period of the
cron (`FiveMinutes`), and days (`DayPasses`). `MqttRequests` has the messages of a
fetch, here it has an outcome.

`Diagnosis`: `situation` is what the rows show, `logTags` what the log cache holds,
`sticky` the cache of findings. `Diagnosed` is the order of the two layers in
`runDiagnosis`. A conclusion is one of ten; evidence is the episode and the logs
it was gathered from.

`HostInsights`: `week` is what the collections of a week found of each container,
`registry` the `containers` table. `GenerateInsights` writes the table anew: `Found`
is the loops of `generateInsights` and `generatePredictions`, `Enriched` the
replacement of a host's availability insights by one.

### The standalone program and the pages

`StandaloneProgram`: `sort` is the alert followed. A cycle is `StartCycle`, at which
Docker lists, and `FinishCycle`, which inspects, stores, reads the disks and evaluates;
cycles overlap, and the process may end between the two.

`FleetScores`: `ComputeScores` writes a row per host and one for the system (`CutCompute`
the first of them); `Shown` and `SystemShown` are `getSystemHealthScore`, which corrects
them by the alerts of the moment. Scores are the integers the code rounds to.

`FleetPages`: `rows` are a container's by age, one tick per collection. Each page is
an operator over them: `Counted`, `OnHostPage`, `OnOwnPage`, `Slot`, `Incidents`, `Events`.

`HostGroups`: `setting` is what an agent is configured to report, `row` what the hub
has of a host, `board` the browser's copy, `request` the one under way, `columns` those
that only the browser has, `left` history.

`HubSettings`: a behaviour follows one setting, a member of `Setting` for each way of
resolving it, beside a plain one. `Raw` is the resolution, `settingsShown` and `edits`
the page's form, `putRequest` a save under way.

`ContainerPage`: `Layout.tsx:126` keys its outlet by the path, so each change of path
(`GoTo`: to a sibling, back to the host, and to a container again) begins a page with the
state of its hooks anew (`Opens`); the logs' viewer and the diagnosis' card begin anew with
the tab too, and when the page is replaced by an error (`Fresh`). `page` and `mount` number
these lives. `flights` are the requests under way, each with the life that asked: an answer
to a life that is over sets no state. The query cache (`seen`, `existing`) outlives the
pages; so does the end of a removal, which navigates wherever the user is by then
(`RemovalAnswered`). `FetchFails` is a container that is not found, or no answer.

`Rollups`: time in ticks of which `TicksPerDay` make a day; a time is `Spaced`
as SQLite writes it or `Iso` as JavaScript does, and `Before` compares them as
the strings they are.

## 3. Runs

| Run | Instance | States | Shows |
|---|---|---|---|
| `AlertEngine` | host and container alert, window 2 min, 5 minutes, 3 rows | 443 382 | `TypeOK`, `UniqueActive`, `SuppressorIsParent`, `TriggeredIsAccountedFor`, `ResolvedIsAccountedFor`, `HistoryIsFinal`, `ImplementsContract` |
| `AlertEngineInstant` | host, node and backup alert, no window | 89 696 | `ImplementsContract` with the mail-on-sight branch, a chain host > node, silent resolution, a finite silence |
| `AlertPipeline` | one host, one container, `container_unhealthy` and `host_offline`, window 2, 7 minutes | 2 736 704 | `LevelOutageIsMailed`, `HostRecoveryCloses`, `ResolutionMeansRecovery` |
| `LeaderLease` | two pods, clocks one apart, lease duration 1, 3 time units, 3 writes | 4 016 660 | `LeaseTypeOK`, `StaleLeaderIsCutOff`, `TakeoverOnlyExpired` |
| `AlertDelivery` | host and container alert, no window, two runs in flight, one request or exit | 671 850 | `ReaderIsUpToDate`, `AftermathIsOfItsRun`, `MailsDrain` |
| `Services` | six services, one at a time | 416 290 | `RequestsAreSound`, `LinksAreOwn`, `ChecksPartition`, `StartsServe`, `MonitorSettles`, `ListingsAreTrue` |
| `Containers` | six parts, one at a time | 429 020 | `UpdatesLeaveOne`, `RestartsAreTold`, `ProcessesAreTold`, `MatchesSettle`, `FindingsKeepUp`, `InsightsSettle` |
| `Views` | six parts, one at a time | 561 946 | `ScoresAgree`, `PagesAgree`, `SettingsHold`, `AlertsClose`, `BoardIsTrue`, `PageIsSound` |
| `DownOutage` | one container that can stop | violation | see findings |
| `DependentResolution` | host and container alert | violation | see findings |
| `LeaseHandoff` | two pods | violation | see findings |
| `Rollups` | one day's rows, two runs | violation | see findings |

The properties in words:

- `UniqueActive`: no two open rows for one alert. Every lookup of the engine
  assumes it and no index enforces it.
- `SuppressorIsParent`: `suppressed_by_state_id`, which has no foreign key,
  dangles or names one of the alert's parents.
- `TriggeredIsAccountedFor`: after its visit a triggered alert was mailed
  about, is inside its window, is silenced, or is held by a parent that is
  active or resolved in this very evaluation. The last case is real: a child is
  visited before its parent's resolution and may stay unmailed until the next
  evaluation, not longer.
- `ResolvedIsAccountedFor`: after its visit a resolved alert has no open row,
  or one whose recovery is younger than the window. That is stronger than the
  code reads: `RecoveryLasted` also waits for the distance to the last mail,
  and the invariant shows that this wait never prolongs anything, since a mail
  cannot come after the recovery was seen without resetting it.
- `HistoryIsFinal`: a resolved row's record of its incident never changes; a
  silence request that looked the row up before it was resolved may still set
  `silenced_until` on it, nothing else.
- `ImplementsContract`: refinement of `AlertContract`. The number of mails
  about the open alert and the time of the last mail, with rows, parents,
  cycles and crashes abstracted away, behave as: announced once, reminded of at
  the backoff's distances, resolved, and never announced or resolved within
  the stabilisation window of another mail.
- `LevelOutageIsMailed`, `HostRecoveryCloses`, `ResolutionMeansRecovery`: the
  same promise from the condition's side, whatever is delivered twice, late or
  not at all.

- `ReaderIsUpToDate`: with nothing in flight, the last mail a reader got about
  an alert says it is open exactly when it is, unless one of the events the code
  accepts came between: a mail failed, was muted, was lost with the process or
  overtaken, or the alert was closed by a deletion. A failed mail spoils its own
  alert, never another one: the catch blocks are per item.
- `AftermathIsOfItsRun`: the aftermath's parent row is looked up after the
  awaits, by key; it is never the row of an older incident.
- `MailsDrain`: whatever fails, a run reaches its end.
- `RequestsAreSound` is `AnswerIsOwn`, `NoUpdateAfterTimeout` and
  `EveryRequestSettles`: a caller gets the
  answer to the request it made, however duplicated or late; an update reported as
  timed out is not begun any more (for an action the hub's wait of 30 s is shorter
  than the agent's limit of 60 s, and it may be); no promise stays pending.
- `UpdatesLeaveOne`: an agent's update leaves an agent that runs or that Docker
  restarts, and the hub's leaves one hub, unless a call of Docker failed or two
  updates overlapped (the property names which).
- `LinksAreOwn` is `NotLinkedToAnother` and `LinksSettle`: a host without an override whose own guest
  is in the table is not linked to another one, whatever their names, and is linked
  to its own in the end.
- `ProcessesAreTold` is `HostExitsAreReal`, `ArgvIsKnown` and `EndIsRecorded`: an exit recorded of a
  process outside containers was one, unless a look in `/proc` missed the process
  (finding 39); every stored event's command line is in the dictionary, but for
  definitions that were lost; every end is recorded unless an upset lost it.
- `ChecksPartition`: the two queries of a type never both hold (but for the three
  types whose rows outlive their target), and one of them does, but for the states
  `LeftAsIs` names.
- `StartsServe`: whatever release a file is of, whichever of the two programs upgraded
  it and wherever starts were cut off, a program that serves has every table and
  column, and a file never makes every start fail, but for the cuts and the upgrade
  of the findings.
- `MonitorSettles`: once a site and its endpoint keep still, the alert agrees with the
  site, and an endpoint that stays http loses its certificate.
- `RestartsAreTold` is `RestartsAreReal` and `RestartsAreSeen`: "restarted n times in 30 minutes" is never more
  than the starts between what the two rows last counted; and an agent that finds a
  container in another life than the last it counted counts one more. Crashes,
  manual starts, recreations, failed inspections and restarts of the agent come in any
  mixture.
- `MatchesSettle`: a line that matches and stays in the tail is recorded again and
  again, whatever fetches failed and although the retention deletes records.
- `FindingsKeepUp`: between votes, rows and logs in any order, a finding has the
  conclusion and the confidence of the moment, and keeps its wording as long as its
  conclusion.
- `InsightsSettle`: nothing is said for ever of a container that is gone for good or
  well for good, whatever it did before and whatever the others of its host do.
- `RemovalIsReal`, in `ListingsAreTrue`: a row leaves what pages and alerts see only by a batch that was
  read while its object was not there: no failed read, no late or doubled batch,
  no change of the leader makes the hub resolve an alert. Three cases are
  exempt, as the code is wrong or cannot know: batches that run into the next
  second, ZFS pools (finding 15) and guests.
- `ListingsSettle`, in `ListingsAreTrue`: once the cluster keeps still, every table comes to show what
  is there and goes on doing so, whatever was lost, doubled, late or misread
  before.
- `AlertsClose`: an alert of the standalone program whose cause is over for good is
  closed, whichever of its cycles overlapped, were late or failed (but for finding 27).
- `ScoresAgree`: a score is stored once in a quarter of an hour and shown with the alerts
  of the moment by a formula of its own; what is shown is what a computation would give
  now, of each host whose measures are the same and of the system if those of all are.
- `PagesAgree`: no page says of a container what another one denies: what the dashboard
  counts the host's page lists, every stop of the feed is in one incident, no hour with
  a row of an incident is shown as up.
- `BoardIsTrue` is `GroupsStayGone`, that a host does not come back into a group that
  was renamed or deleted, and `BoardSettles`, that the board shows where hosts are.
- `SettingsHold`: what the page shows of a setting is what the hub uses (the exceptions
  are finding 31), the mask of a secret is never stored, and what was saved is shown.
- `PageIsSound`: what the page of a container shows of logs, diagnoses, results and
  questions is of that container, wherever the user went and however late an answer
  comes, and a diagnosis is of what was asked; without a shortcut (finding 36) a page has
  one action of its own under way, and tells of it; everything asked settles. Across pages
  actions are not single (finding 35).
- `TakeoverOnlyExpired`: the pod that takes the lease from another finds it
  expired at the moment its write is applied, not only when it looked: the
  holder's renewal in between is never overwritten.
- `StaleLeaderIsCutOff`: two pods can both believe they lead (a failed renewal
  does not step down). It happens only to a pod that has not learnt of a
  renewal of its own for the lease's duration, less the difference of the
  clocks; the release, re-adoption after a crash and replies that come late are
  covered.

### Bounds, and why they are enough

- Two or three keys: suppression relates a parent and a child; the chain
  host > node > workload types needs two parents, which the instant run has.
  Alerts not related by `DEPS` do not touch each other's rows.
- `MaxTime` 5 with window 2, cooldown 1 and reminder cap 2: announce at the
  earliest at minute 2, a reminder at 3 (gap 1), one at 5 (gap 2, the cap),
  or a resolution after its own window: each branch of both loops is
  reached (TLC's action coverage confirms that every action fires). The pipeline
  runs for 7 minutes, so that an outage, its mail, a recovery, a relapse and the
  end of a second recovery fit.
- `MaxRows` 3 rows ever inserted: an alert, its successor after a resolution or
  deletion, and another key's.
- One silence request in flight; one batch in flight per host, which can be
  delivered any number of times; two batches per unit of `collected_at`, as
  many as the two newest rows can show.

- `LeaderLease`: three writes are a creation, a renewal and a takeover, or a
  creation, a release and a takeover; three units of time let each pod find the
  other's lease expired, the one whose clock is ahead and the one whose clock is
  behind. One attempt beside a release overlaps in a pod; the proofs cover any
  number.

- `AlertDelivery`: two evaluations in flight interleave every pair of sends; one
  request or exit is enough for each spoiling event, as each spoils one alert.
- `Services`: its parts share no variable, so a behaviour of one is what it would
  be in a run of its own; `part` chooses it in the initial state and a state count
  is the sum of the parts'. Two requests of one kind (a map per kind) interleave
  answers; two nodes, two guests of one name and one host give an ambiguous
  match, a move and a stale row; three stored rows are an edge and an older one; one
  cut start followed by a whole one, of either program; two rounds and a batch size of 1 make rounds overlap within an
  endpoint and between two; two nodes and two objects, one change and one trouble
  are a leader that changes or an object that goes, with a late, lost, doubled or
  failed batch; a row is past the retention after one batch without it.
- `Containers`: as in `Services`. Five containers are an agent and a hub, two updates of
  either and one leftover. Two processes, one of them in a container, two
  upsets, each of which may be a look that misses processes, and a buffer of one cycle
  that evicts; three lives of a container and one failed
  inspection or restart of the collector give each order of crash, manual start and
  recreation around a look; two lines, one or both of which match, stay in the tail
  past the retention of their records; one fetch that fails or one restart; two
  episodes, two votes (`MinSamples`) and two situations change conclusion and
  confidence in both orders; two collections a day and three a week, of two
  containers of which one may use much, give every kind of insight, alone and as part
  of a host's (which takes three insights: a dip and restarts of each of two).

- `Views`: as in `Services`. Two cycles overlap, of which one is lost; a row is stale
  after one interval. Two hosts, one of which does not tell its cpu and one not its
  load, have other weights; two alerts and their changes come between two computations.
  Four ticks in the window, two in an hour and a row older than both give each page an
  edge, an hour of both states and a previous row. Two hosts and two groups with three
  doings of the user are a drag, a rename and an edit that overlap. Two edits with one
  change by another browser, a save under way. Two containers, two moves, two requests
  and one change or failed fetch are going away and back while an action is under way, and
  an answer that comes to the other container, to a later page of the same one, or to
  none.

Deadlock is checked where time does not bound the run: everywhere but in
`Services`, `Containers`, `Views` and `Rollups`, whose bounded clocks and numbers of upsets end.

### Fairness

Each liveness property assumes only what the code's timers give:

- `MailsDrain`: weak fairness of the loop over alerts and of *some* pending send:
  nodemailer and `sendWebhook` have timeouts, and their catch blocks go on.
- `EveryRequestSettles`: time passes and timers fire. Nothing of agent or broker.
- `LinksSettle`: agents publish and the hub handles what arrives; inventories
  are published periodically and rows older than the retention are pruned.
- `EndIsRecorded`: the poll's interval, the return of the connection, delivery.
- `ListingsSettle`: each agent's cycles go on, what they read they publish, and the
  broker delivers it.
- `MonitorSettles`: the minute's and the hour's timers, probes that answer or time
  out, evaluations.
- `MatchesSettle`: the cron's timer, and the end of a fetch: the agent's answer is
  handled, or the hub's 15 seconds are over.
- `AlertsClose`: the cron's timer, and that a cycle which is started again and again is
  finished at some time.
- `BoardIsTrue`: requests are handled, the board is fetched every half minute, agents
  report.
- `PageIsSound`: the hub answers, since its requests to an agent have timeouts. Nothing
  of Gemini's answer or of the user.
- `InsightsSettle`: the cron's timer; collections, until the week's have all found the
  same. (A host that is never collected again keeps its rows for the retention, and
  its insights with them.)

Nothing is assumed of the cron in `AlertEngine` and `AlertPipeline`: there, "is
eventually mailed" is stated with time (`LevelOutageIsMailed` holds in the state
in which an evaluation has visited everything), which is stronger.

## 4. Findings

The violation runs each refute what a document or comment says.

1. `DownOutage`: `container_down` is an edge. `checkContainerDown`
   (`evaluator.ts:275`) triggers only while the two newest rows are
   `[exited, running]`; after the next collection the container is still down
   and nothing is reported, so with `flapStabilizeMinutes` not shorter than the
   collection interval nothing is ever mailed. The design document's tests
   (`2026-05-11-strategic-alert-mail-design.md:447`) expect a mail for a
   6-minute outage.
2. `DownRecoveryCloses` (`AlertPipeline`, no run of its own): a container removed
   right after it went down keeps its two rows. Each evaluation triggers
   `container_down` from them and resolves it from the registry; the trigger clears
   the pending resolution, so the alert never closes. (`OutlivesTarget` of
   `AlertChecks` names the types this concerns; `ChecksPartition` shows that there are
   no others.)
3. `DependentResolution`: the resolved loop does not look at
   `suppressed_by_state_id`; the design says dependents' resolution mails are
   replaced by the aftermath mail.
4. `QuorumLossSilencesCluster` (`AlertMailDesign`, no run of its own): the quorum alert's `host_id` is the cluster's name, the cluster
   scope joins `hosts` on it: a quorum loss silences nothing. The unit test
   passes because it inserts the alert under a host's id.

5. `LeaseHandoff`: the release writes `holderIdentity: null` with a fresh
   `renewTime` (`k8s-lease.ts:206`) and a candidate looks only at the expiry, so
   after a release it waits out `leaseDurationSec`; the comment at
   `k8s-lease.ts:50` promises a takeover within one tick. (On SIGTERM the
   release is rarely sent at all: the listener of `agent/src/index.ts:124` exits
   the process while `leader.stop()` awaits its first request.)

6. `Rollups`: `stopBefore` has a `T` between date and time (`rollups.ts:14`) and is
   compared with SQLite's strings, which have a space. Rows of the stop's own
   day all sort before it, so running hours are rolled up too early and never
   corrected; afterwards `last_rollup_at` sorts after all of its day's rows, so
   those that come later on that day are never rolled up, and are deleted by the
   retention although `schema.ts:1550` says they are rolled up first.

Properties that state what a comment or a document says, kept in their modules
and checked by hand only, each violated:

7. `RespawnsAreRecent` (`AlertChecks`): the same comparison in
   `respawn-loop.ts:49` makes every spawn of the limit's UTC day recent; the
   15-minute window is up to a day long. (`checkPveBackupOverdue`,
   `evaluator.ts:1017`, compares likewise: an overdue backup is reported up to a
   day late.)
8. `FullDiskIsReported` (`AlertChecks`): `checkDiskFull` (`evaluator.ts:461`) sees
   only the newest `collected_at` of all hosts.
9. `RulesAreSeeded` (`SchemaMigration`): `ensureRulesSeeded` does not run at every
   boot. A fresh install that is cut off after `schema.ts:820` has no rules.
   Likewise a cut after version 27's plain INSERT (`schema.ts:1021`) makes every
   later start throw; `StartsAgain`, a part of `StartsServe`, names that one exception.
10. `OverrideHolds` (`IdentityLink`): a hint that is retained or remembered replaces
    or clears the link that an override set (`mqtt.ts:485-488`).
11. `ExitMeansEnded` (`ProcessEvents`): processes of containers get the time of
    observation as their start time (`dockerTop.ts:46`, `crictl.ts:104`), so every
    cycle reports all of them as ended and started.
12. `CertRecoveryIsReal` (`HttpMonitor`): a failed probe writes NULL over the expiry,
    and `cert_expired` is resolved with "is no longer expired" (`evaluator.ts:1412`).
13. `ListingsSettle` (`ClusterListings`) holds for PersistentVolumes only because the
    retention drops them: an empty batch writes nothing, so the last volumes of a
    cluster stay the newest batch (`ingest.ts:317-320` says that stale rows fall off).
14. Volumes of a host: `pruneOldData` has no statement for `volume_snapshots`, so rows
    do not "naturally age out" (`ingest.ts:164-166`) and a host's last volumes are
    shown for ever. `IsShown` exempts this; without it `ListingsSettle` is violated.
15. `collectZfsPools` takes an error for "no pools" (`proxmox-cluster.ts:154-159`) and
    the hub deletes the pools a batch does not list: a failed read resolves an
    unhealthy pool's alert. `RemovalIsReal` exempts it; without it it is violated.
16. `SharedFileServes` (`SchemaMigration`): the standalone program's version 51 adds the
    guest columns to `hosts` only (`src/db/schema.ts:1294`) and writes the newest
    version; a hub started on that file never adds them to `container_snapshots`, into
    which `ingestContainers` inserts them. `src/db/schema.ts:282` says that a shared
    file migrates cleanly.
17. `FirstRowsCount` (`ContainerRestarts`): the rows of a container that an agent just
    started finds stopped say 0 restarts (`docker.ts:107-109`); once it runs, the
    difference to Docker's count since the creation passes for restarts of the last
    30 minutes.
18. `OomIsOfLastExit` (`ContainerRestarts`): a clean exit does not end the signal of an
    earlier kill, as the comment at `docker.ts:29-31` says it does.
19. `StandaloneSees` (`ContainerRestarts`): the standalone program forgets a restart that
    it first sees when the container is stopped again (`src/collectors/containers.ts:54`).
20. `OccurrencesAreReal` (`LogMining`): "Matched n x in last 24h" (`detector.ts:481`) counts
    a line once per fetch that brings it (`events.ts:14`).
21. `RecurrenceIsShown`, `RecentIsRecent` (`LogMining`): insight, explanation and retention
    go by `fired_at`, the time of the first fetch with the line. A pattern that fires
    every day is shown on its first day only; an old line that is fetched for the
    first time, or again after its record was deleted, passes for a new one.
22. `CronSeesLogs` (`LogMining`): cache entries live 5 minutes, the cron has 15 and fetches
    after it has diagnosed: its diagnoses find no logs, although the comment at
    `periodicMine.ts:4-9` counts on them.
23. `EvidenceIsOfEpisode`, `LogsExpireQuietly` (`Diagnosis`): the cached finding outlives
    the recovery, so the next episode shows the evidence of the last; and an entry of
    the log cache that expires does rewrite a finding that rests on logs, which the
    comment at `sticky.ts:4-7` says the cache is to prevent.
24. `CascadeIsReal` (`HostInsights`): "3 containers affected" counts insights
    (`detector.ts:695-700`): two containers are enough for a host that "appears to have
    gone offline".
25. `RemovedIsSilent` (`HostInsights`): predictions read the rows of seven days without
    the registry (`detector.ts:567`), and go on about containers that are gone
    (`detector.ts:219-222` says insights stop). `InsightsSettle` holds as the rows age.
26. `SustainedIsCurrent` (`HostInsights`): the newest six rows that say *running*
    (`detector.ts:237`) may be old: a container stopped while busy keeps its
    "Current: ...".

27. `RemovalCloses` (`StandaloneProgram`): as finding 2, in the standalone program: an
    alert of a removed container is triggered and resolved by each evaluation
    (`src/alerts/evaluator.ts:387` says it is resolved).
28. `SystemIsOfItsHosts` (`FleetScores`): the system's score is recomputed only if the
    number of alerts of some host has changed (`queries.ts:1058`); otherwise it is the
    stored one, whatever the hosts shown next to it have.
29. `CompletionIsNotDown` (`FleetPages`): an hour with rows of a one-shot container both
    running and completed is painted as down (`queries.ts:1398`).
30. `PendingIsEmpty` (`HostGroups`): a column stays "Pending (no hosts yet)" when a host
    came into it in another way, and renaming or deleting it then asks the hub nothing.
31. `UsedAsShown` (`HubSettings`), in two ways: jobs keep the cron expressions and the
    time zone the process began with (`scheduler.ts:50`), and the status page does not look at the
    environment (`handlers.ts:1460`) though the page says it is on.
32. `StoredOverrides` (`HubSettings`): an empty text or a zero that is saved does not
    override the environment (`settings.ts:276`), as the page says it will.
33. `EditsAreKept` (`HubSettings`): text typed while a save is under way is lost when it
    is answered (`SettingsPage.tsx:131`).
34. `SecretAsTyped` (`HubSettings`): after Cancel, what is typed is saved with the mask in
    front (`SettingsPage.tsx:537`).
35. `OneActionAtATime` (`ContainerPage`): the buttons are disabled while an action is under
    way (`ContainerDetailPage.tsx:448-461`), but `actionLoading` is state of the page
    (`useContainerAction.ts:18`), and each path is a page of its own (`Layout.tsx:126`): go
    to the next container and back, and a second action can be begun on the first one.
36. `SilentIsLeftAlone` (`ContainerPage`): "Actions are hidden until the agent
    reconnects", but the shortcuts work, also while an action is under way.
37. `AnswerIsFresh` (`ContainerPage`): the hash of a diagnosis leaves out what the answer
    depends on, such as the text of the log (`service.ts:56-60`).
38. `PageIsLeftAlone` (`ContainerPage`): Remove awaits the answer and then navigates to the
    page of the host (`ContainerDetailPage.tsx:451`), also when the page that asked was left:
    the user is taken away from whatever is open by then.
39. `SeenIsNotEnded` (`ProcessEvents`): a process that one look skips (`procWalk.ts:64`,
    `procWalk.ts:72-82`) is reported as ended, by the next look as started
    (`poller.ts:71-86`), and the hub's INSERT OR IGNORE keeps the row with its `exited_at`:
    it runs and stays recorded as ended. The design
    (`2026-05-12-per-container-process-visibility-design.md:281-282`) has such processes
    skipped "silently".

## 5. Proofs

Eight modules hold the theorems: one for each core component (the engine, the pipeline,
delivery, the lease), three (`ServiceProofs`, `ContainerProofs`, `ViewProofs`) for smaller
components that share no state and for the compositions the runs check, and `SetLemmas`,
which the three cite. Each theorem holds for every value of the constants: any number of keys, hosts,
pods, runs, containers and failures, any windows, durations and clocks. Besides the
facts named in each section they use only the assumptions the modules state about their
constants, which TLC evaluates in the runs. Those of `IdentityLink`, `FleetScores`,
`LogMining` and `HostInsights` (guests, hosts, texts and containers are finitely many),
`HostGroups` and `ContainerPage` (no name is one of the marks the model
uses for none) say what the code takes for granted.

### The alert engine

`AlertEngineProofs`:

| Theorem | States |
|---|---|
| `TypeCorrect` | `Spec => []TypeOK` |
| `OneOpenAlert` | `Spec => []UniqueActive` |
| `SuppressorsAreParents` | `Spec => []SuppressorIsParent` |
| `ClosedIsFinal` | `Spec => HistoryIsFinal` |
| `TriggeredAccounted` | `Spec => []TriggeredIsAccountedFor` |
| `ResolvedAccounted` | `Spec => []ResolvedIsAccountedFor` |
| `EngineImplementsContract` | `Spec => ImplementsContract` |

They use `EngineAssumption` (the configured numbers are natural numbers, the switches
are Boolean), and nothing about `Key`, `DEPS` or `ClusterOf`: no property
depends on which alert may silence which.

The argument. `TypeOK` is inductive by itself. Instead of showing each
invariant for each of the twenty actions, one lemma (`StepIsTableStep`)
describes what *any* step may do to the table (`TableStep`): a row inserted is
open, has the next id, and its key had no open row; a row kept keeps its key
and, once closed, everything but `silenced_until`; a pointer set names a
parent's row. From `TableStep`, `UniqueActive` is inductive.
`SuppressorIsParent` is not: a dangling pointer could come to name a row
inserted later. The strengthening `SuppressorsAreOld` (every pointer is below
the AUTOINCREMENT sequence) excludes it, and it is exactly what AUTOINCREMENT
buys the code over a plain rowid. `SafetyInv` is the conjunction.
`HistoryIsFinal` follows from `TableStep` and `TypeOK` alone.

That nobody is forgotten (`CoverageInv`) needs two more facts. `LoopOrder`: the
resolved list is untouched while triggered alerts are left, so what the second loop does
cannot undo what the first accounted for. `RecoveriesFollowMails`: the recovery a row
waits for was never seen before its last mail; so the second wait in
`RecoveryLasted`, since the last mail, is over whenever the first is, and a row of a
resolved alert waits for the window at most. `VisitEffect` says once what the visit of one alert may do to
the rows of all others (their pointers, nothing else), for both loops and for an
evaluation that crashes inside a visit.

`ImplementsContract` needs the table tied to the history of mails. `MailInv`
says that the last mail about an alert is not younger than an open row that
was never mailed about, and is the row's `last_notified` if it was. Under it
(with `SafetyInv`, since the abstract count is read off *the* open row) every
step is one of three kinds. A `QuietStep` mails nothing: open rows keep the
columns the contract reads or are new and unmailed, so the abstract state
stutters or forgets (`Forget`). A `MailStep` is `Announce`, `Remind` or
`Resolve`: its guards in the engine give the contract's guards, because
`MailInv` translates `last_notified` and `pending_since` into the last mail.
`Tick` is `Advance`.

### The pipeline

`AlertPipelineProofs`, on top of the engine's:

| Theorem | States |
|---|---|
| `PipelineTypeCorrect` | `PipelineSpec => []PipelineTypeOK` |
| `LevelOutagesAreMailed` | `PipelineSpec => []LevelOutageIsMailed` |
| `HostRecoveriesClose` | `PipelineSpec => []HostRecoveryCloses` |
| `ResolutionsMeanRecovery` | `PipelineSpec => ResolutionMeansRecovery` |
| `PipelineImplementsEngine` | `PipelineSpec => Spec` |
| `PipelineImplementsContract` | `PipelineSpec => ImplementsContract` |

Every step of the pipeline is a step of the engine or leaves it alone (`StepIsEngineStep`),
so `CoverageInv` holds of it without being proved again. What is added, `HistoryInv`,
relates the table to what the evaluations saw of the world: an outage that every evaluation
has seen has a row whose `pending_since` is as old as the outage (`OutagesHaveRows`); a row
waits for no recovery that an evaluation has seen relapse (`RecoveriesAreSeen`); the row of
a host that is back has waited since it came back (`OfflineRecoveriesWait`). With
`CoverageInv` the three properties are read off: a row as old as the window that is neither
mailed about nor silenced is held by a parent. Messages in flight, their order and number,
are in no part of the invariant but its types: the argument does not depend on how batches
are delivered, only on what each evaluation finds stored.

`PipelineImplementsEngine` turns `StepIsEngineStep` into a refinement: with agents,
messages and stored rows hidden, the pipeline is an engine whose lists happen to come from
them. The contract follows from the engine's theorem alone, so the mails about an alert
keep their order and distances from the collection on the host to the mail.

### Delivery

`AlertDeliveryProofs`:

| Theorem | States |
|---|---|
| `DeliveryTypeCorrect` | `DeliverySpec => []DeliveryTypeOK` |
| `ReadersAreUpToDate` | `DeliverySpec => []ReaderIsUpToDate` |
| `AftermathsAreOfTheirRuns` | `DeliverySpec => AftermathIsOfItsRun` |
| `DeliveryKeepsEngine` | `DeliverySpec => [](UniqueActive /\ SuppressorIsParent /\ TriggeredIsAccountedFor /\ ResolvedIsAccountedFor)` |
| `DeliveryImplementsContract` | `DeliverySpec => ImplementsContract` |

`ReaderIsUpToDate` speaks of moments with nothing in flight; its invariant must follow a
mail on its way. Where the newest mail about an alert is, it says what the table says:
in the list of the evaluation that runs (`QueueSaysSo`), else in the newest run that has
one left (`FlightSaysSo`), else with the reader (`ToldSaysSo`), unless the alert is in
`missed`. Two facts keep this going: an evaluation queues nothing about an alert that it closes
silently (`SilentAlertsAreUnsaid`), and a run waits for the webhook of an item only
after its mail (`HooksFollowMails`). `Word(k)`, what the table says, is the engine's;
`ItemWords` and `SteadyWords` show which steps of `processAlerts` change it and
that these queue the mail that says so.

`AftermathIsOfItsRun` rests on the history of one alert: rows close in the order of
their ids (`ClosedInOrder`), so the code's `ORDER BY id DESC` finds the one that closed last.

Delivery is not an engine: while alerts are snoozed the cron does not evaluate
(`SkipEvaluation`), which no step of the engine is. So there is no `DeliverySpec => Spec`;
the engine's invariants are proved of it with the engine's lemmas for every other step and
`SkipKeepsCoverage` for that one, and the contract directly: a skipped evaluation mails
nothing.

### The leader lease

`LeaderLeaseProofs`, from `LeaseAssumption`:

| Theorem | States |
|---|---|
| `LeaseTypeCorrect` | `LeaseSpec => []LeaseTypeOK` |
| `TakeoverNeedsExpiry` | `LeaseSpec => TakeoverOnlyExpired` |
| `StaleLeaderCutOff` | `LeaseSpec => []StaleLeaderIsCutOff` |

`TakeoverOnlyExpired` is about the moment of the write, the decision was made
earlier, and other pods wrote in between. `AttemptsKnow` bridges that: an
answer with the lease's current version *is* the lease, and a write under way
with the current version that would change the holder finds the lease expired.
Every write of the lease makes all other versions old ones (`ApplyKeepsInv`),
and what is expired stays expired as time passes (`TickKeepsInv`).

`StaleLeaderIsCutOff` compares two clocks with a stamp that a late answer may still
set. `RenewalInv` therefore speaks of every renewal a pod *knows of* (`Known`: its stamp,
and those its attempts under way will put there): none is newer than the lease while the
pod holds or has released it (`SoundRenewal`), all are old by the pod's own clock once
another pod took over, and a write that may still succeed is not older than any of them
(`SoundWrite`).

### The services

`ServiceProofs`:

| Theorem | States |
|---|---|
| `EveryStartServes` | `SchemaSpec => []StartsServe` |
| `SchemaTypeCorrect` | `SchemaSpec => []SchemaTypeOK` |
| `ChecksShareOut` | `ChecksSpec => []ChecksPartition` |
| `AnswersAreOwn` | `RequestsSpec => [](RequestsTypeOK /\ AnswerIsOwn)` |
| `NoLateUpdates` | `RequestsSpec => NoUpdateAfterTimeout` |
| `LinksAreNotAnothers` | `LinkSpec => [](LinkTypeOK /\ NotLinkedToAnother)` |
| `ListingsTypeCorrect` | `ListingsSpec => []ListingsTypeOK` |
| `RemovalsAreReal` | `ListingsSpec => RemovalIsReal` |
| `MonitorTypeCorrect` | `MonitorSpec => []MonitorTypeOK` |
| `ServicesTypeCorrect` | `ServicesSpec => []ServicesTypeOK` |
| `ServicesAreSafe` | `ServicesSpec => [](StartsServe /\ ChecksPartition /\ AnswerIsOwn /\ NotLinkedToAnother) /\ NoUpdateAfterTimeout /\ RemovalIsReal` |

The schema. `SchemaInv` says how far a file has come: the tables it has, have the columns
of every version up to the one it reached, or up to the step its migration is at
(`FileIsUpgraded`, but for the columns the standalone program leaves out); what is retired
goes on its way (`StacksAreRetired`); the index and the rules, which only `migrate`
makes, are there from their version on, unless the file was fresh when a start was
cut off (`ExtrasAreMade`). No step of the proof goes through the 54 versions one by one
where the lists of tables suffice (`BlocksAlterTables`, `BlocksDifferOnce`).

The checks. `ChecksInv` says what the rows of one alert type can be: reports of its
type, in the order of time, one row if they are upserted, and, for containers, that
the registry lists a container exactly when it is in the newest batch
(`ListedInNewest`), on which the agreement of trigger and resolution queries rests.
The partition is then shown type by type (`ContainerLevelsPartition`, `HealthPartition`,
...), each from the thresholds alone.

Requests. Ids are numbered and never used again, so an answer can be paired with another
request only if it names it (`RequestsShape`, `MessagesShape`); what says "ok" on its way
is about a request that was carried out (`OkIsCarried`). A request that was timed out was
due (`TimeoutsAreDue`): as `RequestsAssumption` keeps the agent's limit of age under the hub's
timer by more than the clocks differ, the agent finds its update stale.

Links. The argument is about one match: the only candidate that `match` may find, is the
guest itself if the hub has a row of it (`SingleIsIt`, `MatchIsOwn`). The rest of `LinkInv`
says that a link comes from such a match or from a manual link that was set (`OverridesAreSet`).

Listings. `RemovalIsReal` leaves out the listings that a failed read or a batch across two
seconds takes rows from (`IsFaithful` is the rest). Of these, every message under way says what was
seen (`Sent`), wherever it waits and however many leaders sent it; so a row that
`HandlingWrites` takes away was not there when its batch was read.

Monitors. A round takes its next batch from what is left of it, so that it records no
endpoint twice and none that it does not have (`NextBatchIsRound`, `ProbingIsRound`); of two
rounds that overlap, each change is of one (`RoundsButOne`).

The composition. A step of `ServicesSpec` is, for each part, a step of that part or leaves
all of its variables alone (`StepsOfServices`), whichever part was chosen. So `ServicesInv`
is the conjunction of the parts' invariants, and what was proved of each holds of the run's
specification too. `ContainersInv` and `ViewsInv`, below, are made the same way.

### Containers

`ContainerProofs`:

| Theorem | States |
|---|---|
| `OneIsLeft` | `UpdaterSpec => []UpdatesLeaveOne` |
| `UpdaterTypeCorrect` | `UpdaterSpec => []UpdaterTypeOK` |
| `RestartsAreCounted` | `RestartsSpec => RestartsAreTold` |
| `RestartsTypeCorrect` | `RestartsSpec => []RestartsTypeOK` |
| `FindingsAreOfTheMoment` | `DiagnosisSpec => FindingsKeepUp` |
| `DiagnosisTypeCorrect` | `DiagnosisSpec => []DiagnosisTypeOK` |
| `MiningTypeCorrect` | `MiningSpec => []MiningTypeOK` |
| `InsightsTypeCorrect` | `InsightsSpec => []InsightsTypeOK` |
| `EndsAreReal` | `ProcessSpec => [](ProcessTypeOK /\ HostExitsAreReal /\ ArgvIsKnown)` |
| `ContainersTypeCorrect` | `ContainersSpec => []ContainersTypeOK` |
| `ContainersAreSafe` | `ContainersSpec => RestartsAreTold /\ FindingsKeepUp /\ [](UpdatesLeaveOne /\ HostExitsAreReal /\ ArgvIsKnown)` |

Updates. While nothing has spoiled an update of the hub, the hub is one container, or the
one replaced and its replacement, in the state that the next call of the update expects
(`HubIsKept`); the same of the agent (`AgentIsKept`); while every stop has worked, no
hub but the newest runs and none between a stop and a start (`HubsAreApart`); an agent
that cleans up removes nothing that has its own name (`LeftoversAreOld`).

Restarts. Count and life are compared by their difference. Docker's `RestartCount` never
gains on the number of lives (`DockerFallsBehind`), and the count the collector keeps lies
between Docker's and what it counted before (`CountsFallBehind`); so of two rows the
newer has gained no more counts than lives, also when the collector lost its memory in between and
started again from Docker's count. `MemoryIsOfLife` (what is remembered is of the life
counted last, and is the newest row's count) shows that no other life is overlooked.

Findings. The cache holds what was returned last, but for the confidence
(`CacheIsOfFinding`): it is applied to the finding as it is before the votes are.

The types of these parts bound what the code bounds: a log is its tail, a record is no older
than the retention, a score of votes is a number of votes, the rows of a day and a week are
those of its collections. That of the updates needs more than their safety does: Docker
gives no name twice (`NamesAreUnique`), only an agent that runs acts (`AgentsAct`), and what
went wrong is what was counted (`MishapsAreCounted`).

Processes. A start that is on its way finds its argv with the hub, in its own
message or in one that arrives before it, on the wire or in the buffer behind it,
unless the definition is among those lost (`DefsComeFirst`). `ToldWithoutOldest`,
`ToldBehind` and `KeptIsTold` show it of a queue that loses its oldest message to the buffer's
limit, is put behind another or loses some on the way. `ExitsAreReal` says of both queues
that they tell of no end of a host's process that runs, unless a look missed it. What was known in
the cycle before and is not observed now has ended or was missed in this very look; since
neither is undone, what a message says stays true for as long as it is under way.

### Views

`ViewProofs`:

| Theorem | States |
|---|---|
| `ScoresAreCurrent` | `ScoresSpec => []ScoresAgree` |
| `ScoresTypeCorrect` | `ScoresSpec => []ScoresTypeOK` |
| `SettingsTypeCorrect` | `SettingsSpec => []SettingsTypeOK` |
| `SettingsAreTrue` | `SettingsSpec => []SettingsHold` |
| `PagesDoAgree` | `PagesSpec => []PagesAgree` |
| `GroupsAreGone` | `GroupsSpec => [](GroupsTypeOK /\ GroupsStayGone)` |
| `PageShowsItsOwn` | `ContainerPageSpec => [](ShownIsOwn /\ AnswerIsOfAsked /\ ActionsAreSingle)` |
| `ContainerPageTypeCorrect` | `ContainerPageSpec => []ContainerPageTypeOK` |
| `StandaloneTypeCorrect` | `StandaloneSpec => []StandaloneTypeOK` |
| `ViewsTypeCorrect` | `ViewsSpec => []ViewsTypeOK` |
| `ViewsAreSafe` | `ViewsSpec => [](ScoresAgree /\ PagesAgree /\ SettingsHold /\ GroupsStayGone /\ ShownIsOwn /\ AnswerIsOfAsked /\ ActionsAreSingle)` |

Scores. What is stored of a host is the score of the factors stored beside it, and the
system's is the mean of what it was made of (`ScoresInv`); for that nothing is used of the
arithmetic but that it is a function. That every score is between 0 and 100
(`ScoresTypeCorrect`) is about the arithmetic: the factors are (`FactorsAreTyped`), a
weighed sum of such factors is at most a hundred times the sum of the weights, so its
quotient, rounded, is at most a hundred (`WeighedIsScore`), whichever factors are missing;
so is the mean of a finite set of scores (`MeanIsScore`). The library's induction theorem
for finite sets takes an operator; `SetLemmas` has one that takes the family of sets of
which a claim holds (`SubsetsByOne`), from which the recursion that the community module's
folds are defined by is shown to have a solution (`SumsExist`).

Settings. `SettingsInv` says what can be stored, typed in a field and on its way in a
request: never a mask under a secret's key that the server would not recognise; and that
what is shown is what was stored when it was fetched, unless somebody wrote since.

Pages. Here the invariant is plain (`PagesInv`: types, and rows only of a host that has a
row) and the work is in the operators: that the oldest and youngest of a set of rows
exist (`LeastAge`, `GreatestAge`), that incidents do not overlap (`IncidentsAreApart`),
that every stop of the feed lies in one (`StopIsInIncident`) and no row of one is of a running
container (`NothingRunsDuring`).

Groups. A host that was moved out of a group has an override since, and what its agent
reports is stored beside it and not shown (`LeftAreOverridden`): that is why the handlers
that rename or delete a group write an override for each host of it.

The page of a container. A page, viewer or card that begins has a number that no request
under way has (`PageShape`), so an answer that finds its own life was asked for the
container of the page (`FlightsAreOwn`), and so was what the page shows (`OnPageIsOwn`). The cache and
the table are by container and never by page (`RowsAreOwn`). A diagnosis is called for with
the signals it will be filed under (`DiagnosesAreOfAsked`). While no shortcut was used in this life
of the page, an open dialog and an action of its own under way exclude each other
(`OneAtATime`). The types rest on this invariant: what a confirmed question begins is of a
container because the question is of the page's.

### What is only model-checked

- Liveness under fairness: `MailsDrain`, and the part of a property that says that
  something settles. Of `RequestsAreSound`, `LinksAreOwn`, `ListingsAreTrue`,
  `ProcessesAreTold`, `BoardIsTrue` and `PageIsSound` the other parts are proved (above); the
  properties themselves, like `MonitorSettles`, `MatchesSettle`, `InsightsSettle` and
  `AlertsClose`, are not. The prover has no rules for fairness that apply here, and cannot
  prove ENABLED.
- The values of `RequiredReminderGap`: the backends do not reason about powers. Engine and
  contract share the operator, so that the refinement needs nothing of it.
- What a fold over a sequence computes (induction over data); no proof depends on it.
- `Rollups`, whose only run expects a violation.
- The runs that expect a violation: what they refute is not a theorem.

## 6. What is abstracted or left out

- Messages, values, thresholds and explanation columns of an alert; severities.
  Rules are in `AlertDelivery`, with one switch for mail.
- In `AlertEngine` the lists `T` and `R` are any sets the checks could report:
  `R` only names alerts with an open row, and only container alerts can be in
  both (their trigger and resolution read different tables).
- `AlertPipeline` composes three of the alert types end to end, chosen for the three shapes of
  a check: an edge, a level, a silence. Its hub does not crash (`AlertEngine`'s
  does) and its clock is bounded below the retention.
- `ContainerRestarts`: one name; collections do not overlap (`AlertPipeline` has the
  order of batches), times of kills are lives, and a kill is not older than Docker's
  record of it.
- `LogMining`: one container that is listed all along, one pattern; line hashes are the
  texts.
- `Diagnosis`: the detectors' conditions are members of `Situation`; `app_errors` has one
  label; priorities, confidences and the calibration are the code's. A vote is
  `POST /api/insights/feedback` with the finding's diagnoser and tag, which the handler
  accepts and today's frontend leaves out. The correlations of `ppr_root` and bursts,
  which change no conclusion, are left out.
- `HostInsights`: insights about hosts and workloads, comparisons of weeks and respawn
  loops; baselines and the arithmetic of the trend are the step from low to high.
  Annotations by temporal correlation are wording.
- `StandaloneProgram`: one alert at a time, without parents; mails are awaited at the end
  and decide nothing.
- `FleetScores`: scores of hosts and system, not of containers.
- `HubSettings` and `ContainerPage`: one browser whose requests are modelled; another one
  changes what is stored at any time. Prompts and answers of Gemini are members of a
  small set.
- `ContainerPage`: the card is on the overview, where it is while the container is well;
  Restart is folded into Stop, whose answer may leave the container running; the tabs
  without requests of their own and the redirect of a Proxmox guest are left out.
- `ProcessEvents`: a look is one step; what starts, ends or moves between `docker top`,
  `crictl` and the walk of `/proc` within one cycle is not modelled.
- Baselines, anomaly detection, the RCA graph, right-sizing and disk
  forecasts: floating-point statistics, which TLC cannot enumerate.
- The components with status `not_modelled` in `PROJECT.json`.

## 7. Plan

1. The Kubernetes and Proxmox runtimes as far as they keep state (restart counts of
   pods, samples between which rates are taken).
2. Thresholds of right-sizing and disk forecasts as integer operators against a
   reference definition.
3. Proofs: what holds of `Rollups` beside its finding, and the invariants that the properties
   of settling rest on.
