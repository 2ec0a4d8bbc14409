--------------------------- MODULE SchemaMigration --------------------------
(***************************************************************************)
(* The database from a file of any release of the hub, or none, to the     *)
(* schema that is served: bootstrap and migrate of hub/src/db/schema.ts,   *)
(* their copies in the standalone program (src/db/schema.ts), which may be *)
(* started on the same file, and the end of a start at any point between   *)
(* two statements.  Nothing runs in a transaction.                         *)
(*                                                                         *)
(* The columns that one version adds to a table are one object, named by   *)
(* both; the version of a table is the one that its rows first appear in.  *)
(*                                                                         *)
(* An operator named ...Mutant is the definition below it with a plausible *)
(* mistake; nothing refers to it, a run that swaps it in must fail.        *)
(***************************************************************************)
EXTENDS Integers, FiniteSets, Sequences

CONSTANT MaxCuts  \* bound on the starts that are cut off

ASSUME SchemaAssumption == MaxCuts \in Nat

VARIABLES
    schema,     \* the objects of the file
    version,    \* meta.schema_version, 0 without a row
    snapshots,  \* container_snapshots has rows
    registry,   \* and so has containers
    program,    \* the program that was started last
    hub,        \* what its process does
    step,       \* the block of migrate that is next
    from,       \* the version migrate was called with
    cuts,       \* how many starts were cut off
    freshCut,   \* history: a fresh install was cut off after its version was written
    refilled,   \* history: a migration was cut off after it filled containers
    born,       \* history: the program that wrote the first version
    halfLinked  \* history: the standalone program upgraded the file past version 51

historyVars == <<freshCut, refilled, born, halfLinked>>
schemaVars == <<schema, version, snapshots, registry, program, hub, step, from, cuts, historyVars>>

Programs == {"hub", "standalone"}

SCHEMA_VERSION == 54
Versions == 1 .. SCHEMA_VERSION

-----------------------------------------------------------------------------
(* The tables, in the order bootstrap makes them, with their versions.     *)

CoreTables ==
    <<<<"meta", 1>>, <<"hosts", 3>>, <<"container_snapshots", 1>>, <<"containers", 27>>,
      <<"host_snapshots", 4>>, <<"disk_snapshots", 1>>>>

ProxmoxTables ==
    <<<<"pve_storage_snapshots", 49>>, <<"pve_zfs_pools", 49>>, <<"pve_cluster_status", 49>>,
      <<"pve_guest_snapshots", 50>>, <<"pve_guest_backups", 50>>>>

KubernetesTables ==
    <<<<"volume_snapshots", 31>>, <<"pv_snapshots", 32>>, <<"pvc_snapshots", 33>>,
      <<"k8s_events", 34>>, <<"node_conditions", 35>>, <<"k8s_ingresses", 37>>,
      <<"k8s_services", 43>>, <<"pod_volumes", 44>>, <<"pending_pods", 41>>,
      <<"workload_rollouts", 45>>>>

AlertTables ==
    <<<<"update_checks", 1>>, <<"alert_state", 1>>, <<"alert_rules", 52>>, <<"settings", 5>>,
      <<"http_endpoints", 6>>, <<"http_checks", 6>>>>

InsightTables ==
    <<<<"baselines", 10>>, <<"health_scores", 10>>, <<"insights", 10>>, <<"insight_feedback", 14>>,
      <<"confidence_calibration", 26>>, <<"ai_diagnoses", 21>>, <<"log_templates", 23>>,
      <<"template_burst_events", 47>>>>

OtherTables ==
    <<<<"webhooks", 7>>, <<"sessions", 12>>, <<"api_keys", 12>>, <<"host_rollups", 18>>,
      <<"container_rollups", 18>>, <<"disk_rollups", 18>>, <<"http_rollups", 18>>,
      <<"rollup_anomalies", 24>>, <<"rca_edges", 25>>, <<"argv_dictionary", 53>>,
      <<"process_events", 53>>, <<"log_pattern_events", 54>>>>

Tables ==
    CoreTables \o ProxmoxTables \o KubernetesTables \o AlertTables \o InsightTables \o OtherTables

TablesAt(v) == {Tables[i][1] : i \in {j \in DOMAIN Tables : Tables[j][2] <= v}}

-----------------------------------------------------------------------------
(* The tables each block of migrate alters.                                *)

EarlyColumns ==
    [v \in {3, 4, 8, 9, 11, 13, 15, 16, 17, 19, 20, 22, 24, 26} |->
        CASE v = 3 -> {"container_snapshots", "disk_snapshots", "update_checks", "alert_state"}
          [] v \in {4, 8, 19} -> {"container_snapshots"}
          [] v = 9 -> {"host_snapshots"}
          [] v \in {11, 15, 16, 17} -> {"hosts"}
          [] v \in {13, 22} -> {"alert_state"}
          [] v = 20 -> {"insights"}
          [] v = 24 -> {"baselines"}
          [] v = 26 -> {"insight_feedback"}]

MiddleColumns ==
    [v \in {28, 30, 36, 37, 38, 39, 40} |->
        CASE v \in {28, 30, 36, 40} -> {"container_snapshots"}
          [] v \in {37, 39} -> {"http_endpoints"}
          [] v = 38 -> {"k8s_ingresses"}]

LateColumns ==
    [v \in {42, 46, 48} |->
        IF v = 48 THEN {"container_snapshots", "hosts"} ELSE {"container_snapshots"}]

LastColumns ==
    [v \in {51, 52, 54} |->
        IF v = 51 THEN {"container_snapshots", "hosts"} ELSE {"alert_state"}]

Altered(v) ==
    IF v \in DOMAIN EarlyColumns THEN EarlyColumns[v]
    ELSE IF v \in DOMAIN MiddleColumns THEN MiddleColumns[v]
    ELSE IF v \in DOMAIN LateColumns THEN LateColumns[v]
    ELSE IF v \in DOMAIN LastColumns THEN LastColumns[v] ELSE {}

-----------------------------------------------------------------------------
(* The copy of all that in the standalone program: the same tables in the  *)
(* same order, the same alterations but for one.                           *)

StandaloneCore == CoreTables
StandaloneProxmox == ProxmoxTables
StandaloneKubernetes == KubernetesTables
StandaloneAlerts == AlertTables
StandaloneInsights == InsightTables
StandaloneOther == OtherTables

StandaloneTables ==
    StandaloneCore \o StandaloneProxmox \o StandaloneKubernetes
        \o StandaloneAlerts \o StandaloneInsights \o StandaloneOther

StandaloneEarly == EarlyColumns
StandaloneMiddle == MiddleColumns
StandaloneLate == LateColumns

\* The guest columns of version 51 go to hosts only.
StandaloneLast == [LastColumns EXCEPT ![51] = {"hosts"}]

StandaloneAltered(v) ==
    IF v \in DOMAIN StandaloneEarly THEN StandaloneEarly[v]
    ELSE IF v \in DOMAIN StandaloneMiddle THEN StandaloneMiddle[v]
    ELSE IF v \in DOMAIN StandaloneLate THEN StandaloneLate[v]
    ELSE IF v \in DOMAIN StandaloneLast THEN StandaloneLast[v] ELSE {}

-----------------------------------------------------------------------------

Table(t) == [table |-> t, added |-> 0]
Columns(t, v) == [table |-> t, added |-> v]
TablesMade(T) == {Table(t) : t \in T}
ColumnsAt(T, v) == UNION {{Columns(t, w) : t \in Altered(w) \cap T} : w \in 1 .. v}

\* The index hosts_proxmox_link, the rows of alert_rules and the retired stacks.
LinkIndex == [table |-> "hosts_proxmox_link", added |-> 0]
Rules == [table |-> "rules", added |-> 0]
Stacks == [table |-> "service_groups", added |-> 0]

\* What release v left behind.
Release(v) ==
    TablesMade(TablesAt(v)) \cup ColumnsAt(TablesAt(v), v)
        \cup (IF v \in 8 .. 28 THEN {Stacks} ELSE {})
        \cup (IF v >= 51 THEN {LinkIndex} ELSE {}) \cup (IF v >= 52 THEN {Rules} ELSE {})

Complete == Release(SCHEMA_VERSION)
Objects == Complete \cup {Stacks}

SchemaTypeOK ==
    /\ schema \subseteq Objects
    /\ version \in 0 .. SCHEMA_VERSION /\ from \in 0 .. SCHEMA_VERSION
    /\ step \in 1 .. SCHEMA_VERSION + 1
    /\ program \in Programs /\ born \in Programs \cup {"nobody"}
    /\ hub \in {"down", "bootstrapped", "migrating", "up", "refused"}
    /\ {snapshots, registry, freshCut, refilled, halfLinked} \subseteq BOOLEAN
    /\ cuts \in 0 .. MaxCuts

SchemaInit ==
    /\ version \in 0 .. SCHEMA_VERSION
    /\ schema = IF version = 0 THEN {} ELSE Release(version)
    /\ snapshots \in IF version = 0 THEN {FALSE} ELSE BOOLEAN
    /\ registry = (snapshots /\ version >= 27)
    /\ program = "hub" /\ hub = "down" /\ step = 1 /\ from = 0
    /\ cuts = 0 /\ freshCut = FALSE /\ refilled = FALSE
    /\ born = (IF version = 0 THEN "nobody" ELSE "hub") /\ halfLinked = FALSE

-----------------------------------------------------------------------------
(* bootstrap.                                                              *)

\* A table that is made new has all columns; one that exists keeps those it has.
WithTables(T) ==
    LET new == {t \in T : Table(t) \notin schema}
    IN  schema \cup TablesMade(new) \cup ColumnsAt(new, SCHEMA_VERSION)

TablesOf(p) == IF p = "hub" THEN Tables ELSE StandaloneTables
First(p, n) == {TablesOf(p)[i][1] : i \in 1 .. n}

\* The index over host_id, made right after container_snapshots.
LacksHostId ==
    Table("container_snapshots") \in schema /\ Columns("container_snapshots", 3) \notin schema

Bootstrap ==
    /\ hub = "down"
    /\ program' \in Programs
    /\ IF LacksHostId
       THEN schema' = WithTables(First(program', 3)) /\ hub' = "refused"
       ELSE /\ schema' = WithTables(First(program', Len(TablesOf(program'))))
            /\ hub' = "bootstrapped"
    /\ UNCHANGED <<version, snapshots, registry, step, from, cuts, historyVars>>

CutBootstrap ==
    /\ hub = "down" /\ ~LacksHostId
    /\ cuts < MaxCuts /\ cuts' = cuts + 1
    /\ \E p \in Programs : \E n \in 0 .. Len(TablesOf(p)) : schema' = WithTables(First(p, n))
    /\ UNCHANGED <<version, snapshots, registry, program, hub, step, from, historyVars>>

\* An upgrade is stamped before it is done, too.
StampedFirstMutant == IF version < SCHEMA_VERSION THEN SCHEMA_VERSION ELSE version

\* A fresh file gets its version before the hub migrates it.
StampedFirst == IF version = 0 THEN SCHEMA_VERSION ELSE version

\* The standalone program does not migrate a fresh file.
NeedsMigration == version < SCHEMA_VERSION /\ (program = "hub" \/ version > 0)

ReadVersion ==
    /\ hub = "bootstrapped"
    /\ IF NeedsMigration
       THEN hub' = "migrating" /\ from' = version /\ step' = version + 1
       ELSE hub' = "up" /\ UNCHANGED <<from, step>>
    /\ version' = StampedFirst
    /\ born' = IF version = 0 THEN program ELSE born
    /\ UNCHANGED <<schema, snapshots, registry, program, cuts, freshCut, refilled, halfLinked>>

-----------------------------------------------------------------------------
(* migrate.                                                                *)

\* Only the plain INSERT into containers can fail; a column that exists is caught.
Fails == step = 27 /\ snapshots /\ registry

Block ==
    {Columns(t, step) : t \in IF program = "hub" THEN Altered(step) ELSE StandaloneAltered(step)}
        \cup (IF step = 51 THEN {LinkIndex} ELSE {}) \cup (IF step = 52 THEN {Rules} ELSE {})

Dropped == IF step = 29 THEN {Stacks} ELSE {}

MigrateBlock ==
    /\ hub = "migrating" /\ step <= SCHEMA_VERSION
    /\ IF Fails
       THEN hub' = "refused" /\ UNCHANGED <<schema, registry, step>>
       ELSE /\ schema' = (schema \cup Block) \ Dropped
            /\ registry' = (registry \/ (step = 27 /\ snapshots))
            /\ step' = step + 1
            /\ UNCHANGED hub
    /\ UNCHANGED <<version, snapshots, program, from, cuts, historyVars>>

\* Between two blocks, or between two statements of one.
CutMigration ==
    /\ hub = "migrating"
    /\ cuts < MaxCuts /\ cuts' = cuts + 1
    /\ \E S \in SUBSET (IF step <= SCHEMA_VERSION THEN Block ELSE {}) : schema' = schema \cup S
    /\ hub' = "down" /\ step' = 1 /\ from' = 0
    /\ freshCut' = (freshCut \/ from = 0)
    /\ refilled' = (refilled \/ (from \in 1 .. 26 /\ registry))
    /\ UNCHANGED <<version, snapshots, registry, program, born, halfLinked>>

Stamp ==
    /\ hub = "migrating" /\ step > SCHEMA_VERSION
    /\ version' = SCHEMA_VERSION
    /\ hub' = "up" /\ step' = 1 /\ from' = 0
    /\ halfLinked' = (halfLinked \/ (program = "standalone" /\ from < 51))
    /\ UNCHANGED <<schema, snapshots, registry, program, cuts, freshCut, refilled, born>>

-----------------------------------------------------------------------------
(* The program serves, ends and is started again.                          *)

\* ingestContainers of either program writes both tables.
StoreContainers ==
    /\ hub = "up"
    /\ snapshots' = TRUE /\ registry' = TRUE
    /\ UNCHANGED <<schema, version, program, hub, step, from, cuts, historyVars>>

\* The user resets the alert rules: ensureRulesSeeded.
ReseedRules ==
    /\ hub = "up" /\ program = "hub"
    /\ schema' = schema \cup {Rules}
    /\ UNCHANGED <<version, snapshots, registry, program, hub, step, from, cuts, historyVars>>

\* The container is started again, after a refused start too.
HubEnds ==
    /\ hub \in {"up", "refused", "bootstrapped"}
    /\ hub' = "down" /\ step' = 1 /\ from' = 0
    /\ UNCHANGED <<schema, version, snapshots, registry, program, cuts, historyVars>>

SchemaNext ==
    \/ Bootstrap \/ CutBootstrap \/ ReadVersion \/ MigrateBlock \/ CutMigration \/ Stamp
    \/ StoreContainers \/ ReseedRules \/ HubEnds

SchemaSpec == SchemaInit /\ [][SchemaNext]_schemaVars

-----------------------------------------------------------------------------
(* Properties.                                                             *)

\* What the ways a file can come about leave out for good: migrate does not run twice.
LeftOut ==
    (IF freshCut \/ born = "standalone" THEN {LinkIndex, Rules} ELSE {})
        \cup (IF halfLinked THEN {Columns("container_snapshots", 51)} ELSE {})

\* A program that serves has every table and column its queries name and no table that was
\* retired, whatever release the file is of, whichever of the programs upgraded it and
\* wherever earlier starts were cut off; only a fresh install that was cut off, or of the
\* standalone program, may lack the index and the rules, and only a file that the standalone
\* program upgraded the guest columns (README, findings).
ServesCompleteSchema ==
    hub = "up" => schema \subseteq Complete /\ Complete \ LeftOut \subseteq schema

\* migrate and bootstrap can be run again over whatever a cut left: a start is refused
\* only for a file older than host_id, or when an upgrade was cut off after it had filled
\* the containers registry.
StartsAgain == hub = "refused" => version \in {1, 2} \/ refilled

\* Every start ends with a program that serves all of its schema, or is refused for a
\* known cause (bootstrap and migrate of schema.ts).
StartsServe == ServesCompleteSchema /\ StartsAgain

\* schema.ts:1465 "ensureRulesSeeded() that runs every boot": a hub that serves has the
\* default rules.  (Fails: README, findings.)
RulesAreSeeded == hub = "up" => Rules \in schema

\* src/db/schema.ts:282 "keeps schema in sync with the hub so a shared DB blob would migrate
\* cleanly": the hub's ingestContainers finds its columns.  (Fails: README, findings.)
SharedFileServes ==
    hub = "up" /\ program = "hub" => Columns("container_snapshots", 51) \in schema
=============================================================================
