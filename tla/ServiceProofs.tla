----------------------------- MODULE ServiceProofs -----------------------------
(***************************************************************************)
(* Services of the hub and the agent that share no state, each for every   *)
(* value of its constants: the migrations of the database                  *)
(* (SchemaMigration), the two lists of checks of an evaluation             *)
(* (AlertChecks), requests to an agent (MqttRequests), links of hosts      *)
(* (IdentityLink), listings of a cluster (ClusterListings) and endpoint    *)
(* checks (HttpMonitor); last, they are put together.                      *)
(***************************************************************************)
EXTENDS MCServices, SetLemmas, FunctionTheorems, SequenceTheorems, TLAPS

(***************************************************************************)
(* The tables.  All that matters of the lists is which names are in them.  *)
(***************************************************************************)

Retired == {"hosts_proxmox_link", "rules", "service_groups"}
Names(list) == {list[i][1] : i \in DOMAIN list}
AllTables == TablesAt(SCHEMA_VERSION)

IsListOfTables(list) ==
    /\ \E S : list \in Seq(S)
    /\ \A i \in DOMAIN list : list[i][1] \notin Retired /\ list[i][2] \in 1 .. 54

LEMMA ListsOfTables ==
    /\ IsListOfTables(CoreTables) /\ IsListOfTables(ProxmoxTables)
    /\ IsListOfTables(KubernetesTables) /\ IsListOfTables(AlertTables)
    /\ IsListOfTables(InsightTables) /\ IsListOfTables(OtherTables)
<1>1. IsListOfTables(CoreTables)
  <2>1. CoreTables \in Seq({CoreTables[i] : i \in 1 .. 6})
    BY DEF CoreTables
  <2>2. \A i \in DOMAIN CoreTables : CoreTables[i][1] \notin Retired /\ CoreTables[i][2] \in 1 .. 54
    BY DEF CoreTables, Retired
  <2> QED BY <2>1, <2>2 DEF IsListOfTables
<1>2. IsListOfTables(ProxmoxTables)
  <2>1. ProxmoxTables \in Seq({ProxmoxTables[i] : i \in 1 .. 5})
    BY DEF ProxmoxTables
  <2>2. \A i \in DOMAIN ProxmoxTables : ProxmoxTables[i][1] \notin Retired /\ ProxmoxTables[i][2] \in 1 .. 54
    BY DEF ProxmoxTables, Retired
  <2> QED BY <2>1, <2>2 DEF IsListOfTables
<1>3. IsListOfTables(KubernetesTables)
  <2>1. KubernetesTables \in Seq({KubernetesTables[i] : i \in 1 .. 10})
    BY DEF KubernetesTables
  <2>2. \A i \in DOMAIN KubernetesTables : KubernetesTables[i][1] \notin Retired /\ KubernetesTables[i][2] \in 1 .. 54
    BY DEF KubernetesTables, Retired
  <2> QED BY <2>1, <2>2 DEF IsListOfTables
<1>4. IsListOfTables(AlertTables)
  <2>1. AlertTables \in Seq({AlertTables[i] : i \in 1 .. 6})
    BY DEF AlertTables
  <2>2. \A i \in DOMAIN AlertTables : AlertTables[i][1] \notin Retired /\ AlertTables[i][2] \in 1 .. 54
    BY DEF AlertTables, Retired
  <2> QED BY <2>1, <2>2 DEF IsListOfTables
<1>5. IsListOfTables(InsightTables)
  <2>1. InsightTables \in Seq({InsightTables[i] : i \in 1 .. 8})
    BY DEF InsightTables
  <2>2. \A i \in DOMAIN InsightTables : InsightTables[i][1] \notin Retired /\ InsightTables[i][2] \in 1 .. 54
    BY DEF InsightTables, Retired
  <2> QED BY <2>1, <2>2 DEF IsListOfTables
<1>6. IsListOfTables(OtherTables)
  <2>1. OtherTables \in Seq({OtherTables[i] : i \in 1 .. 12})
    BY DEF OtherTables
  <2>2. \A i \in DOMAIN OtherTables : OtherTables[i][1] \notin Retired /\ OtherTables[i][2] \in 1 .. 54
    BY DEF OtherTables, Retired
  <2> QED BY <2>1, <2>2 DEF IsListOfTables
<1> QED BY <1>1, <1>2, <1>3, <1>4, <1>5, <1>6

LEMMA NamesOfTwoLists ==
    ASSUME NEW a, IsListOfTables(a), NEW b, IsListOfTables(b)
    PROVE  /\ IsListOfTables(a \o b) /\ Names(a \o b) = Names(a) \cup Names(b)
           /\ DOMAIN a \subseteq DOMAIN (a \o b)
<1>0. PICK S, T : a \in Seq(S) /\ b \in Seq(T)
  BY DEF IsListOfTables
<1>1. a \in Seq(S \cup T) /\ b \in Seq(S \cup T) /\ a \o b \in Seq(S \cup T)
  BY <1>0
<1>2. ASSUME NEW i \in DOMAIN (a \o b)
      PROVE  \/ i \in DOMAIN a /\ (a \o b)[i] = a[i]
             \/ i - Len(a) \in DOMAIN b /\ (a \o b)[i] = b[i - Len(a)]
  BY <1>1
<1>3. ASSUME NEW n \in Names(a) PROVE n \in Names(a \o b)
  <2>1. PICK i \in DOMAIN a : n = a[i][1]
    BY DEF Names
  <2>2. i \in DOMAIN (a \o b) /\ (a \o b)[i] = a[i]
    BY <1>1
  <2> QED BY <2>1, <2>2 DEF Names
<1>4. ASSUME NEW n \in Names(b) PROVE n \in Names(a \o b)
  <2>1. PICK i \in DOMAIN b : n = b[i][1]
    BY DEF Names
  <2>2. i + Len(a) \in DOMAIN (a \o b) /\ (a \o b)[i + Len(a)] = b[i]
    BY <1>1
  <2> QED BY <2>1, <2>2 DEF Names
<1>5. Names(a \o b) \subseteq Names(a) \cup Names(b)
  BY <1>2 DEF Names
<1>6. IsListOfTables(a \o b)
  BY <1>1, <1>2 DEF IsListOfTables
<1>7. DOMAIN a \subseteq DOMAIN (a \o b)
  BY <1>1
<1> QED BY <1>3, <1>4, <1>5, <1>6, <1>7

LEMMA TablesOfLists ==
    /\ IsListOfTables(Tables)
    /\ Names(Tables) = Names(CoreTables) \cup Names(ProxmoxTables) \cup Names(KubernetesTables)
            \cup Names(AlertTables) \cup Names(InsightTables) \cup Names(OtherTables)
    /\ DOMAIN CoreTables \subseteq DOMAIN Tables
<1> DEFINE two == CoreTables \o ProxmoxTables
           three == two \o KubernetesTables
           four == three \o AlertTables
           five == four \o InsightTables
<1>1. /\ IsListOfTables(two) /\ Names(two) = Names(CoreTables) \cup Names(ProxmoxTables)
      /\ DOMAIN CoreTables \subseteq DOMAIN two
  BY ListsOfTables, NamesOfTwoLists
<1>2. Tables = five \o OtherTables
  BY DEF Tables
<1> HIDE DEF two
<1>3. /\ IsListOfTables(three) /\ Names(three) = Names(two) \cup Names(KubernetesTables)
      /\ DOMAIN two \subseteq DOMAIN three
  BY <1>1, ListsOfTables, NamesOfTwoLists
<1> HIDE DEF three
<1>4. /\ IsListOfTables(four) /\ Names(four) = Names(three) \cup Names(AlertTables)
      /\ DOMAIN three \subseteq DOMAIN four
  BY <1>3, ListsOfTables, NamesOfTwoLists
<1> HIDE DEF four
<1>5. /\ IsListOfTables(five) /\ Names(five) = Names(four) \cup Names(InsightTables)
      /\ DOMAIN four \subseteq DOMAIN five
  BY <1>4, ListsOfTables, NamesOfTwoLists
<1> HIDE DEF five
<1>6. /\ IsListOfTables(five \o OtherTables)
      /\ Names(five \o OtherTables) = Names(five) \cup Names(OtherTables)
      /\ DOMAIN five \subseteq DOMAIN (five \o OtherTables)
  BY <1>5, ListsOfTables, NamesOfTwoLists
<1> QED BY <1>1, <1>2, <1>3, <1>4, <1>5, <1>6

LEMMA AllTablesAreTables ==
    /\ AllTables = Names(Tables)
    /\ AllTables \cap Retired = {}
    /\ \A v \in 0 .. SCHEMA_VERSION : TablesAt(v) \subseteq AllTables
    /\ \A p \in Programs : /\ First(p, Len(TablesOf(p))) = AllTables
                           /\ Len(TablesOf(p)) \in Nat /\ Len(TablesOf(p)) >= 3
                           /\ \A n \in 0 .. Len(TablesOf(p)) : First(p, n) \subseteq AllTables
<1>0. \E S : Tables \in Seq(S)
  BY TablesOfLists DEF IsListOfTables
<1>1. \A i \in DOMAIN Tables : Tables[i][1] \notin Retired /\ Tables[i][2] \in 1 .. 54
  BY TablesOfLists DEF IsListOfTables
<1>2. AllTables = Names(Tables) /\ AllTables \cap Retired = {}
  <2>1. AllTables = {Tables[i][1] : i \in {j \in DOMAIN Tables : Tables[j][2] <= 54}}
    BY DEF AllTables, TablesAt, SCHEMA_VERSION
  <2>2. \A j \in DOMAIN Tables : Tables[j][2] <= 54
    BY <1>1
  <2>3. {j \in DOMAIN Tables : Tables[j][2] <= 54} = DOMAIN Tables
    BY <2>2
  <2> QED BY <1>1, <2>1, <2>3 DEF Names
<1>3. \A v \in 0 .. SCHEMA_VERSION : TablesAt(v) \subseteq AllTables
  BY <1>2 DEF TablesAt, Names
<1>4. \A p \in Programs : TablesOf(p) = Tables
  BY DEF Programs, TablesOf, Tables, StandaloneTables, StandaloneCore, StandaloneProxmox,
     StandaloneKubernetes, StandaloneAlerts, StandaloneInsights, StandaloneOther
<1>5. DOMAIN Tables = 1 .. Len(Tables) /\ Len(Tables) \in Nat
  BY <1>0
<1>6. \A p \in Programs : \A n \in 0 .. Len(Tables) : First(p, n) \subseteq AllTables
  BY <1>2, <1>4, <1>5 DEF First, Names
<1>7. \A p \in Programs : First(p, Len(Tables)) = AllTables
  BY <1>2, <1>4, <1>5 DEF First, Names
<1>8. Len(Tables) >= 3
  <2>1. 3 \in DOMAIN CoreTables
    BY DEF CoreTables
  <2> QED BY <1>5, <2>1, TablesOfLists
<1> QED BY <1>2, <1>3, <1>4, <1>5, <1>6, <1>7, <1>8

LEMMA SomeTables ==
    {"hosts", "container_snapshots", "disk_snapshots", "update_checks", "alert_state",
     "host_snapshots", "insights", "baselines", "insight_feedback", "http_endpoints",
     "k8s_ingresses"} \subseteq AllTables
<1>1. {"hosts", "container_snapshots", "disk_snapshots", "host_snapshots"} \subseteq Names(CoreTables)
  <2>1. /\ 2 \in DOMAIN CoreTables /\ CoreTables[2][1] = "hosts"
        /\ 3 \in DOMAIN CoreTables /\ CoreTables[3][1] = "container_snapshots"
        /\ 5 \in DOMAIN CoreTables /\ CoreTables[5][1] = "host_snapshots"
        /\ 6 \in DOMAIN CoreTables /\ CoreTables[6][1] = "disk_snapshots"
    BY DEF CoreTables
  <2> QED BY <2>1 DEF Names
<1>2. {"update_checks", "alert_state", "http_endpoints"} \subseteq Names(AlertTables)
  <2>1. /\ 1 \in DOMAIN AlertTables /\ AlertTables[1][1] = "update_checks"
        /\ 2 \in DOMAIN AlertTables /\ AlertTables[2][1] = "alert_state"
        /\ 5 \in DOMAIN AlertTables /\ AlertTables[5][1] = "http_endpoints"
    BY DEF AlertTables
  <2> QED BY <2>1 DEF Names
<1>3. {"insights", "baselines", "insight_feedback"} \subseteq Names(InsightTables)
  <2>1. /\ 1 \in DOMAIN InsightTables /\ InsightTables[1][1] = "baselines"
        /\ 3 \in DOMAIN InsightTables /\ InsightTables[3][1] = "insights"
        /\ 4 \in DOMAIN InsightTables /\ InsightTables[4][1] = "insight_feedback"
    BY DEF InsightTables
  <2> QED BY <2>1 DEF Names
<1>4. "k8s_ingresses" \in Names(KubernetesTables)
  <2>1. 6 \in DOMAIN KubernetesTables /\ KubernetesTables[6][1] = "k8s_ingresses"
    BY DEF KubernetesTables
  <2> QED BY <2>1 DEF Names
<1> QED BY <1>1, <1>2, <1>3, <1>4, TablesOfLists, AllTablesAreTables

-----------------------------------------------------------------------------
(* What the blocks of the two programs alter.                              *)

LEMMA BlocksAlterTables == \A v \in Versions : Altered(v) \subseteq AllTables
<1>1. \A v \in DOMAIN EarlyColumns : EarlyColumns[v] \subseteq AllTables
  BY SomeTables DEF EarlyColumns
<1>2. \A v \in DOMAIN MiddleColumns : MiddleColumns[v] \subseteq AllTables
  BY SomeTables DEF MiddleColumns
<1>3. \A v \in DOMAIN LateColumns : LateColumns[v] \subseteq AllTables
  BY SomeTables DEF LateColumns
<1>4. \A v \in DOMAIN LastColumns : LastColumns[v] \subseteq AllTables
  BY SomeTables DEF LastColumns
<1> QED BY <1>1, <1>2, <1>3, <1>4 DEF Altered

\* The programs differ in the guest columns of the containers alone.
LEMMA BlocksDifferOnce ==
    /\ \A v \in Versions : v # 51 => StandaloneAltered(v) = Altered(v)
    /\ Altered(51) = {"container_snapshots", "hosts"} /\ StandaloneAltered(51) = {"hosts"}
    /\ "container_snapshots" \in Altered(3)
<1>1. 51 \notin DOMAIN EarlyColumns /\ 51 \notin DOMAIN MiddleColumns /\ 51 \notin DOMAIN LateColumns
  BY DEF EarlyColumns, MiddleColumns, LateColumns
<1>2. 51 \in DOMAIN LastColumns /\ LastColumns[51] = {"container_snapshots", "hosts"}
  BY DEF LastColumns
<1>3. /\ StandaloneLast[51] = {"hosts"} /\ DOMAIN StandaloneLast = DOMAIN LastColumns
      /\ \A v \in DOMAIN LastColumns : v # 51 => StandaloneLast[v] = LastColumns[v]
  BY <1>2 DEF StandaloneLast, LastColumns
<1>4. "container_snapshots" \in Altered(3)
  BY DEF Altered, EarlyColumns
<1> QED BY <1>1, <1>2, <1>3, <1>4
     DEF Altered, StandaloneAltered, StandaloneEarly, StandaloneMiddle, StandaloneLate

-----------------------------------------------------------------------------
(* What a file holds.                                                      *)

LEMMA ColumnsOfTables ==
    \A T, v, o : o \in ColumnsAt(T, v) <=> \E w \in 1 .. v : \E t \in Altered(w) \cap T : o = Columns(t, w)
BY DEF ColumnsAt

\* The objects are told apart.
LEMMA ObjectsDiffer ==
    /\ \A t, u : Table(t) = Table(u) => t = u
    /\ \A t, u : \A w \in Versions : Table(t) # Columns(u, w)
    /\ \A t \in AllTables : Table(t) # Stacks /\ Table(t) # LinkIndex /\ Table(t) # Rules
    /\ \A t : \A w \in Versions : /\ Columns(t, w) # Stacks /\ Columns(t, w) # LinkIndex
                                  /\ Columns(t, w) # Rules
    /\ LinkIndex # Stacks /\ Rules # Stacks
<1>1. \A t \in AllTables : t \notin Retired
  BY AllTablesAreTables
<1>2. \A t, u : Table(t) = Table(u) => t = u
  BY DEF Table
<1>3. \A t, u : \A w \in Versions : Table(t) # Columns(u, w)
  <2>1. \A t, u : \A w \in Versions : Table(t).added = 0 /\ Columns(u, w).added = w /\ w # 0
    BY DEF Table, Columns, Versions
  <2> QED BY <2>1
<1>4. \A t \in AllTables : Table(t) # Stacks /\ Table(t) # LinkIndex /\ Table(t) # Rules
  <2>1. \A t : Table(t).table = t
    BY DEF Table
  <2>2. Stacks.table \in Retired /\ LinkIndex.table \in Retired /\ Rules.table \in Retired
    BY DEF Stacks, LinkIndex, Rules, Retired
  <2> QED BY <1>1, <2>1, <2>2
<1>5. \A t : \A w \in Versions : /\ Columns(t, w) # Stacks /\ Columns(t, w) # LinkIndex
                                 /\ Columns(t, w) # Rules
  <2>1. \A t : \A w \in Versions : Columns(t, w).added = w /\ w # 0
    BY DEF Columns, Versions
  <2>2. Stacks.added = 0 /\ LinkIndex.added = 0 /\ Rules.added = 0
    BY DEF Stacks, LinkIndex, Rules
  <2> QED BY <2>1, <2>2
<1>6. LinkIndex # Stacks /\ Rules # Stacks
  <2>1. Stacks.table = "service_groups" /\ LinkIndex.table = "hosts_proxmox_link" /\ Rules.table = "rules"
    BY DEF Stacks, LinkIndex, Rules
  <2> QED BY <2>1
<1> QED BY <1>2, <1>3, <1>4, <1>5, <1>6

\* What is served, object by object.
LEMMA CompleteSchema ==
    /\ \A t \in AllTables : Table(t) \in Complete
    /\ \A w \in Versions : \A t \in Altered(w) : Columns(t, w) \in Complete
    /\ LinkIndex \in Complete /\ Rules \in Complete /\ Stacks \notin Complete
    /\ \A o \in Complete : \/ \E t \in AllTables : o = Table(t)
                           \/ \E w \in Versions : \E t \in Altered(w) : o = Columns(t, w)
                           \/ o \in {LinkIndex, Rules}
<1>1. Complete = TablesMade(AllTables) \cup ColumnsAt(AllTables, 54) \cup {LinkIndex} \cup {Rules}
  BY DEF Complete, Release, AllTables, SCHEMA_VERSION
<1>2. \A o : o \in ColumnsAt(AllTables, 54) <=> \E w \in Versions : \E t \in Altered(w) : o = Columns(t, w)
  BY ColumnsOfTables, BlocksAlterTables DEF Versions, SCHEMA_VERSION
<1>3. \A o : o \in TablesMade(AllTables) <=> \E t \in AllTables : o = Table(t)
  BY DEF TablesMade
<1>4. \A o : o \in Complete <=> \/ \E t \in AllTables : o = Table(t)
                                \/ \E w \in Versions : \E t \in Altered(w) : o = Columns(t, w)
                                \/ o \in {LinkIndex, Rules}
  BY <1>1, <1>2, <1>3
<1> HIDE DEF Complete
<1>5. Stacks \notin Complete
  BY <1>4, ObjectsDiffer
<1> QED BY <1>4, <1>5

\* The tables of S have the columns of the first n versions, but for the guest columns of
\* the containers if those are excused.
HasColumnsUpTo(S, n, excused) ==
    \A w \in Versions : \A t \in Altered(w) :
        w <= n /\ Table(t) \in S =>
            Columns(t, w) \in S \/ (excused /\ w = 51 /\ t = "container_snapshots")

\* A release left nothing unknown behind, and its tables had the columns of its version.
LEMMA ReleaseIsSound ==
    ASSUME NEW v \in Versions
    PROVE  /\ Release(v) \subseteq Complete \cup {Stacks}
           /\ HasColumnsUpTo(Release(v), v, FALSE)
           /\ Stacks \in Release(v) => v <= 28
           /\ v >= 51 => LinkIndex \in Release(v)
           /\ v >= 52 => Rules \in Release(v)
<1>1. TablesAt(v) \subseteq AllTables
  BY AllTablesAreTables DEF Versions
<1>2. ASSUME NEW o \in Release(v)
      PROVE  \/ \E t \in TablesAt(v) : o = Table(t)
             \/ \E w \in Versions : \E t \in Altered(w) : o = Columns(t, w)
             \/ o = LinkIndex \/ o = Rules
             \/ o = Stacks /\ v <= 28
  <2>1. \/ o \in TablesMade(TablesAt(v)) \/ o \in ColumnsAt(TablesAt(v), v)
        \/ o = LinkIndex \/ o = Rules
        \/ o = Stacks /\ v \in 8 .. 28
    BY DEF Release
  <2>2. CASE o \in ColumnsAt(TablesAt(v), v)
    <3>1. PICK w \in 1 .. v : \E t \in Altered(w) : o = Columns(t, w)
      BY <2>2, ColumnsOfTables
    <3>2. w \in Versions
      BY DEF Versions, SCHEMA_VERSION
    <3> QED BY <3>1, <3>2
  <2>3. CASE o \in TablesMade(TablesAt(v))
    BY <2>3 DEF TablesMade
  <2> QED BY <2>1, <2>2, <2>3
<1>3. Release(v) \subseteq Complete \cup {Stacks}
  BY <1>1, <1>2, CompleteSchema
<1>4. Stacks \in Release(v) => v <= 28
  <2>1. \A t \in TablesAt(v) : Stacks # Table(t)
    BY <1>1, ObjectsDiffer
  <2>2. \A w \in Versions : \A t \in Altered(w) : Stacks # Columns(t, w)
    BY ObjectsDiffer
  <2> QED BY <1>2, <2>1, <2>2, ObjectsDiffer
<1>5. ASSUME NEW w \in Versions, NEW t \in Altered(w), w <= v, Table(t) \in Release(v)
      PROVE  Columns(t, w) \in Release(v)
  <2>1. t \in AllTables /\ w \in 1 .. v
    BY <1>5, BlocksAlterTables DEF Versions
  <2>2. t \in TablesAt(v)
    <3>1. \A u \in Versions : \A x \in Altered(u) : Table(t) # Columns(x, u)
      BY ObjectsDiffer
    <3>2. Table(t) # LinkIndex /\ Table(t) # Rules /\ Table(t) # Stacks
      BY <2>1, ObjectsDiffer
    <3>3. \E x \in TablesAt(v) : Table(t) = Table(x)
      BY <1>2, <1>5, <3>1, <3>2
    <3> QED BY <3>3, ObjectsDiffer
  <2>3. Columns(t, w) \in ColumnsAt(TablesAt(v), v)
    BY <2>1, <2>2, ColumnsOfTables
  <2> QED BY <2>3 DEF Release
<1>6. (v >= 51 => LinkIndex \in Release(v)) /\ (v >= 52 => Rules \in Release(v))
  BY DEF Release
<1> QED BY <1>3, <1>4, <1>5, <1>6 DEF HasColumnsUpTo

-----------------------------------------------------------------------------
(* The inductive invariant.                                                *)

\* The version whose columns the tables of the file have.
Reached == IF version = 0 THEN SCHEMA_VERSION ELSE version

\* The standalone program is past version 51 with a file that was not.
Halving == program = "standalone" /\ from < 51

\* Nothing unknown is in the file; a column is missing only if its version is still to come,
\* or if the standalone program left it out.
FileIsUpgraded ==
    /\ schema \subseteq Complete \cup {Stacks}
    /\ HasColumnsUpTo(schema, Reached, halfLinked)
    /\ hub = "migrating" => HasColumnsUpTo(schema, step - 1, halfLinked \/ Halving)
    /\ hub \in {"bootstrapped", "migrating", "up"} => \A t \in AllTables : Table(t) \in schema

\* The retired table goes on the way from version 28.
StacksAreRetired ==
    Stacks \in schema => version \in 1 .. 28 /\ (hub = "migrating" => step <= 29)

\* Only migrate makes the index and the rules: a file has them from its version on, but for
\* a fresh one that has not been migrated.
ExtrasAreMade ==
    /\ hub = "migrating" /\ step > 51 => LinkIndex \in schema
    /\ hub = "migrating" /\ step > 52 => Rules \in schema
    /\ version >= 51 /\ ~freshCut /\ born # "standalone" /\ ~(hub = "migrating" /\ from = 0)
        => LinkIndex \in schema
    /\ version >= 52 /\ ~freshCut /\ born # "standalone" /\ ~(hub = "migrating" /\ from = 0)
        => Rules \in schema

\* A fresh file is stamped before it is migrated, any other one after; the hub serves the
\* last version alone.
MigrationIsOfFile ==
    /\ hub = "migrating" =>
        \/ from = version /\ version \in 1 .. 53 /\ step \in version + 1 .. 55
        \/ from = 0 /\ version = 54 /\ ~snapshots /\ program = "hub" /\ step \in 1 .. 55
    /\ hub = "up" => version = 54
    /\ version = 0 => ~snapshots
    /\ freshCut \/ born = "standalone" => version = 54

\* containers is filled by the migration to version 27, or after a cut.
RegistryIsFilled ==
    registry => refilled \/ version >= 27 \/ (hub = "migrating" /\ step > 27)

SchemaInv ==
    /\ version \in 0 .. 54 /\ from \in 0 .. 54 /\ step \in 1 .. 55
    /\ program \in Programs
    /\ hub \in {"down", "bootstrapped", "migrating", "up", "refused"}
    /\ FileIsUpgraded
    /\ StacksAreRetired
    /\ ExtrasAreMade
    /\ MigrationIsOfFile
    /\ RegistryIsFilled
    /\ StartsAgain

LEMMA SchemaInvInit == SchemaInit => SchemaInv
<1> SUFFICES ASSUME SchemaInit PROVE SchemaInv
  OBVIOUS
<1>1. /\ version \in 0 .. 54 /\ from = 0 /\ step = 1 /\ program = "hub" /\ hub = "down"
      /\ freshCut = FALSE /\ born # "standalone"
  BY DEF SchemaInit, SCHEMA_VERSION
<1>2. CASE version = 0
  <2>1. schema = {} /\ ~snapshots /\ ~registry
    BY <1>2 DEF SchemaInit
  <2>2. FileIsUpgraded /\ StacksAreRetired
    BY <1>1, <2>1 DEF FileIsUpgraded, HasColumnsUpTo, StacksAreRetired
  <2>3. ExtrasAreMade /\ MigrationIsOfFile /\ RegistryIsFilled /\ StartsAgain
    BY <1>1, <1>2, <2>1 DEF ExtrasAreMade, MigrationIsOfFile, RegistryIsFilled, StartsAgain
  <2> QED BY <1>1, <2>2, <2>3 DEF SchemaInv, Programs
<1>3. CASE version # 0
  <2>1. version \in Versions /\ schema = Release(version) /\ Reached = version
    BY <1>1, <1>3 DEF SchemaInit, Versions, SCHEMA_VERSION, Reached
  <2>2. FileIsUpgraded
    BY <1>1, <2>1, ReleaseIsSound DEF FileIsUpgraded, HasColumnsUpTo
  <2>3. StacksAreRetired /\ ExtrasAreMade
    <3>1. /\ Stacks \in schema => version <= 28
          /\ version >= 51 => LinkIndex \in schema
          /\ version >= 52 => Rules \in schema
      BY <2>1, ReleaseIsSound
    <3>2. ExtrasAreMade
      BY <1>1, <3>1 DEF ExtrasAreMade
    <3> QED BY <1>1, <1>3, <3>1, <3>2 DEF StacksAreRetired
  <2>4. MigrationIsOfFile /\ RegistryIsFilled /\ StartsAgain
    BY <1>1, <1>3 DEF SchemaInit, MigrationIsOfFile, RegistryIsFilled, StartsAgain
  <2> QED BY <1>1, <2>2, <2>3, <2>4 DEF SchemaInv, Programs
<1> QED BY <1>2, <1>3

\* A table that bootstrap makes has all columns, those that exist keep theirs.
LEMMA BootstrapKeepsColumns ==
    ASSUME NEW T, T \subseteq AllTables, NEW n, NEW e, HasColumnsUpTo(schema, n, e),
           schema \subseteq Complete \cup {Stacks}
    PROVE  /\ HasColumnsUpTo(WithTables(T), n, e)
           /\ schema \subseteq WithTables(T)
           /\ WithTables(T) \subseteq Complete \cup {Stacks}
           /\ \A t \in T : Table(t) \in WithTables(T)
           /\ Stacks \in WithTables(T) => Stacks \in schema
<1> DEFINE new == {t \in T : Table(t) \notin schema}
<1>1. WithTables(T) = schema \cup TablesMade(new) \cup ColumnsAt(new, 54)
  BY DEF WithTables, SCHEMA_VERSION
<1>2. \A o : o \in ColumnsAt(new, 54) <=> \E w \in Versions : \E t \in Altered(w) \cap new : o = Columns(t, w)
  BY ColumnsOfTables DEF Versions, SCHEMA_VERSION
<1>3. \A o : o \in TablesMade(new) <=> \E t \in new : o = Table(t)
  BY DEF TablesMade
<1>4. \A o : o \in WithTables(T) <=>
            \/ o \in schema
            \/ \E t \in new : o = Table(t)
            \/ \E w \in Versions : \E t \in Altered(w) \cap new : o = Columns(t, w)
  BY <1>1, <1>2, <1>3
<1>5. ASSUME NEW w \in Versions, NEW t \in Altered(w), w <= n, Table(t) \in WithTables(T)
      PROVE  Columns(t, w) \in WithTables(T) \/ (e /\ w = 51 /\ t = "container_snapshots")
  <2>1. CASE Table(t) \in schema
    BY <1>4, <1>5, <2>1 DEF HasColumnsUpTo
  <2>2. CASE Table(t) \notin schema
    <3>1. \A u \in Versions : \A x \in Altered(u) : Table(t) # Columns(x, u)
      BY ObjectsDiffer
    <3>2. t \in new
      BY <1>4, <1>5, <2>2, <3>1, ObjectsDiffer
    <3> QED BY <1>4, <3>2
  <2> QED BY <2>1, <2>2
<1>6. HasColumnsUpTo(WithTables(T), n, e)
  BY <1>5 DEF HasColumnsUpTo
<1>7. WithTables(T) \subseteq Complete \cup {Stacks}
  BY <1>4, CompleteSchema
<1>8. \A t \in T : Table(t) \in WithTables(T)
  BY <1>4
<1>9. Stacks \in WithTables(T) => Stacks \in schema
  <2>1. \A t \in new : Stacks # Table(t)
    BY ObjectsDiffer
  <2>2. \A w \in Versions : \A t : Stacks # Columns(t, w)
    BY ObjectsDiffer
  <2> QED BY <1>4, <2>1, <2>2
<1> QED BY <1>4, <1>6, <1>7, <1>8, <1>9

\* A block adds what is known, and of its version all that the program adds.
LEMMA BlockIsSound ==
    ASSUME program \in Programs, step \in 1 .. 54
    PROVE  /\ Block \subseteq Complete
           /\ Stacks \notin Block
           /\ \A t \in Altered(step) :
                Columns(t, step) \in Block
                    \/ (step = 51 /\ t = "container_snapshots" /\ program = "standalone")
           /\ step = 51 => LinkIndex \in Block
           /\ step = 52 => Rules \in Block
<1>1. step \in Versions
  BY DEF Versions, SCHEMA_VERSION
<1> DEFINE altered == IF program = "hub" THEN Altered(step) ELSE StandaloneAltered(step)
<1>2. altered \subseteq Altered(step)
  BY <1>1, BlocksDifferOnce
<1>3. Block = {Columns(t, step) : t \in altered}
                \cup (IF step = 51 THEN {LinkIndex} ELSE {}) \cup (IF step = 52 THEN {Rules} ELSE {})
  BY DEF Block
<1>4. \A t \in Altered(step) : t \in altered
                \/ (step = 51 /\ t = "container_snapshots" /\ program = "standalone")
  BY <1>1, BlocksDifferOnce DEF Programs
<1> HIDE DEF altered
<1>5. \A o \in Block : (\E t \in altered : o = Columns(t, step)) \/ o = LinkIndex \/ o = Rules
  BY <1>3
<1>6. Block \subseteq Complete
  BY <1>1, <1>2, <1>5, CompleteSchema
<1>7. Stacks \notin Block
  BY <1>6, CompleteSchema
<1> QED BY <1>3, <1>4, <1>6, <1>7

\* What the file lacks it lacks in a larger one, too.
LEMMA MoreColumns ==
    ASSUME NEW S, NEW R, NEW n, NEW e, HasColumnsUpTo(S, n, e), S \subseteq R,
           \A t \in AllTables : Table(t) \in R => Table(t) \in S
    PROVE  HasColumnsUpTo(R, n, e)
BY BlocksAlterTables DEF HasColumnsUpTo

LEMMA BootstrapKeepsInv == SchemaInv /\ Bootstrap => SchemaInv'
<1> SUFFICES ASSUME SchemaInv, Bootstrap PROVE SchemaInv'
  OBVIOUS
<1> USE DEF SchemaInv
<1>1. /\ hub = "down" /\ program' \in Programs
      /\ UNCHANGED <<version, snapshots, registry, step, from, cuts, freshCut, refilled, born, halfLinked>>
  BY DEF Bootstrap, historyVars
<1>2. PICK T : /\ T \subseteq AllTables /\ schema' = WithTables(T)
               /\ \/ LacksHostId /\ hub' = "refused"
                  \/ hub' = "bootstrapped" /\ T = AllTables
  <2>1. CASE LacksHostId
    <3>1. First(program', 3) \subseteq AllTables
      BY <1>1, AllTablesAreTables
    <3> QED BY <2>1, <3>1 DEF Bootstrap
  <2>2. CASE ~LacksHostId
    BY <1>1, <2>2, AllTablesAreTables DEF Bootstrap
  <2> QED BY <2>1, <2>2
<1>3. FileIsUpgraded'
  <2>1. Reached' = Reached
    BY <1>1 DEF Reached
  <2>2. HasColumnsUpTo(WithTables(T), Reached, halfLinked)
        /\ WithTables(T) \subseteq Complete \cup {Stacks}
        /\ \A t \in T : Table(t) \in WithTables(T)
    BY <1>2, BootstrapKeepsColumns DEF FileIsUpgraded
  <2>3. HasColumnsUpTo(schema', Reached', halfLinked')
    BY <1>1, <1>2, <2>1, <2>2
  <2> QED BY <1>2, <2>2, <2>3 DEF FileIsUpgraded
<1>4. schema \subseteq schema' /\ (Stacks \in schema' => Stacks \in schema)
  BY <1>2, BootstrapKeepsColumns DEF FileIsUpgraded
<1>5. StacksAreRetired' /\ ExtrasAreMade' /\ MigrationIsOfFile' /\ RegistryIsFilled'
  BY <1>1, <1>2, <1>4 DEF StacksAreRetired, ExtrasAreMade, MigrationIsOfFile, RegistryIsFilled
<1>6. StartsAgain'
  <2>1. CASE LacksHostId
    <3>1. "container_snapshots" \in Altered(3) /\ 3 \in Versions /\ 3 # 51
      BY BlocksDifferOnce DEF Versions, SCHEMA_VERSION
    <3>2. ~(3 <= Reached)
      BY <2>1, <3>1 DEF LacksHostId, FileIsUpgraded, HasColumnsUpTo
    <3>3. version \in {1, 2}
      BY <3>2 DEF Reached, SCHEMA_VERSION
    <3> QED BY <1>1, <3>3 DEF StartsAgain
  <2>2. CASE ~LacksHostId
    BY <1>2, <2>2 DEF StartsAgain
  <2> QED BY <2>1, <2>2
<1> QED BY <1>1, <1>2, <1>3, <1>5, <1>6

LEMMA CutBootstrapKeepsInv == SchemaInv /\ CutBootstrap => SchemaInv'
<1> SUFFICES ASSUME SchemaInv, CutBootstrap PROVE SchemaInv'
  OBVIOUS
<1> USE DEF SchemaInv
<1>1. /\ hub = "down" /\ hub' = "down"
      /\ UNCHANGED <<version, snapshots, registry, program, step, from, freshCut, refilled, born, halfLinked>>
  BY DEF CutBootstrap, historyVars
<1>2. PICK T : T \subseteq AllTables /\ schema' = WithTables(T)
  BY AllTablesAreTables DEF CutBootstrap
<1>3. FileIsUpgraded'
  <2>1. Reached' = Reached
    BY <1>1 DEF Reached
  <2>2. HasColumnsUpTo(WithTables(T), Reached, halfLinked)
        /\ WithTables(T) \subseteq Complete \cup {Stacks}
    BY <1>2, BootstrapKeepsColumns DEF FileIsUpgraded
  <2>3. HasColumnsUpTo(schema', Reached', halfLinked')
    BY <1>1, <1>2, <2>1, <2>2
  <2> QED BY <1>1, <1>2, <2>2, <2>3 DEF FileIsUpgraded
<1>4. schema \subseteq schema' /\ (Stacks \in schema' => Stacks \in schema)
  BY <1>2, BootstrapKeepsColumns DEF FileIsUpgraded
<1>5. StacksAreRetired' /\ ExtrasAreMade' /\ MigrationIsOfFile' /\ RegistryIsFilled' /\ StartsAgain'
  BY <1>1, <1>4 DEF StacksAreRetired, ExtrasAreMade, MigrationIsOfFile, RegistryIsFilled, StartsAgain
<1> QED BY <1>1, <1>3, <1>5

LEMMA ReadVersionKeepsInv == SchemaInv /\ ReadVersion => SchemaInv'
<1> SUFFICES ASSUME SchemaInv, ReadVersion PROVE SchemaInv'
  OBVIOUS
<1> USE DEF SchemaInv
<1>1. /\ hub = "bootstrapped" /\ program' = program
      /\ UNCHANGED <<schema, snapshots, registry, freshCut, refilled, halfLinked>>
      /\ version' = (IF version = 0 THEN 54 ELSE version)
      /\ born' = (IF version = 0 THEN program ELSE born)
  BY DEF ReadVersion, StampedFirst, SCHEMA_VERSION
<1>2. \/ /\ version < 54 /\ (program = "hub" \/ version > 0)
         /\ hub' = "migrating" /\ from' = version /\ step' = version + 1
      \/ /\ ~(version < 54 /\ (program = "hub" \/ version > 0))
         /\ hub' = "up" /\ from' = from /\ step' = step
  BY DEF ReadVersion, NeedsMigration, SCHEMA_VERSION
<1>3. Reached' = Reached /\ Reached = version'
  BY <1>1 DEF Reached, SCHEMA_VERSION
<1>4. FileIsUpgraded'
  <2>1. HasColumnsUpTo(schema', Reached', halfLinked')
    BY <1>1, <1>3 DEF FileIsUpgraded
  <2>2. hub' = "migrating" => HasColumnsUpTo(schema', step' - 1, (halfLinked \/ Halving)')
    BY <1>1, <1>2, <1>3, <2>1 DEF HasColumnsUpTo, Versions
  <2> QED BY <1>1, <2>1, <2>2 DEF FileIsUpgraded
<1>5. StacksAreRetired' /\ MigrationIsOfFile' /\ RegistryIsFilled' /\ StartsAgain'
  BY <1>1, <1>2 DEF StacksAreRetired, MigrationIsOfFile, RegistryIsFilled, StartsAgain, Programs
<1>6. ExtrasAreMade'
  BY <1>1, <1>2 DEF ExtrasAreMade, MigrationIsOfFile, Programs
<1>7. version' \in 0 .. 54 /\ from' \in 0 .. 54 /\ step' \in 1 .. 55
  BY <1>1, <1>2
<1> QED BY <1>1, <1>2, <1>4, <1>5, <1>6, <1>7

LEMMA MigrateBlockKeepsInv == SchemaInv /\ MigrateBlock => SchemaInv'
<1> SUFFICES ASSUME SchemaInv, MigrateBlock PROVE SchemaInv'
  OBVIOUS
<1> USE DEF SchemaInv
<1>1. /\ hub = "migrating" /\ step \in 1 .. 54
      /\ UNCHANGED <<version, snapshots, program, from, freshCut, refilled, born, halfLinked>>
  BY DEF MigrateBlock, historyVars, SCHEMA_VERSION
<1>2. Reached' = Reached /\ Halving' = Halving
  BY <1>1 DEF Reached, Halving
<1>3. CASE Fails
  <2>1. hub' = "refused" /\ UNCHANGED <<schema, registry, step>>
    BY <1>3 DEF MigrateBlock
  <2>2. version \in 1 .. 26 /\ registry
    BY <1>1, <1>3 DEF Fails, MigrationIsOfFile
  <2>3. StartsAgain'
    BY <1>1, <1>3, <2>2 DEF Fails, RegistryIsFilled, StartsAgain
  <2>4. FileIsUpgraded'
    BY <1>1, <1>2, <2>1 DEF FileIsUpgraded, HasColumnsUpTo
  <2>5. StacksAreRetired' /\ ExtrasAreMade' /\ MigrationIsOfFile'
    BY <1>1, <2>1, <2>2 DEF StacksAreRetired, ExtrasAreMade, MigrationIsOfFile
  <2>6. RegistryIsFilled'
    BY <1>1, <1>3, <2>1, <2>2 DEF Fails, RegistryIsFilled
  <2> QED BY <1>1, <2>1, <2>3, <2>4, <2>5, <2>6
<1>4. CASE ~Fails
  <2>1. /\ schema' = (schema \cup Block) \ Dropped /\ step' = step + 1 /\ hub' = hub
        /\ registry' = (registry \/ (step = 27 /\ snapshots))
    BY <1>4 DEF MigrateBlock
  <2>2. Dropped \subseteq {Stacks} /\ (step = 29 => Stacks \notin schema')
    BY <2>1 DEF Dropped
  <2>3. schema \ {Stacks} \subseteq schema' /\ Block \subseteq schema' /\ schema' \subseteq schema \cup Block
    BY <1>1, <2>1, <2>2, BlockIsSound
  <2>4. /\ schema' \subseteq Complete \cup {Stacks}
        /\ Stacks \in schema' => Stacks \in schema /\ step # 29
    BY <1>1, <2>2, <2>3, BlockIsSound DEF FileIsUpgraded
  <2>5. \A t \in AllTables : Table(t) \in schema /\ Table(t) \in schema'
    BY <1>1, <2>3, ObjectsDiffer DEF FileIsUpgraded
  <2>6. HasColumnsUpTo(schema', Reached', halfLinked')
    <3>1. \A w \in Versions : \A t : Columns(t, w) \in schema => Columns(t, w) \in schema'
      BY <2>3, ObjectsDiffer
    <3> QED BY <1>1, <1>2, <2>5, <3>1, BlocksAlterTables DEF FileIsUpgraded, HasColumnsUpTo
  <2>7. HasColumnsUpTo(schema', step' - 1, (halfLinked \/ Halving)')
    <3>1. ASSUME NEW w \in Versions, NEW t \in Altered(w), w <= step, Table(t) \in schema'
          PROVE  Columns(t, w) \in schema'
                    \/ ((halfLinked \/ Halving) /\ w = 51 /\ t = "container_snapshots")
      <4>1. CASE w = step
        <5>1. \/ Columns(t, step) \in Block
              \/ step = 51 /\ t = "container_snapshots" /\ program = "standalone"
          BY <1>1, <4>1, BlockIsSound
        <5>2. CASE Columns(t, step) \in Block
          BY <2>3, <4>1, <5>2
        <5>3. CASE step = 51 /\ t = "container_snapshots" /\ program = "standalone"
          <6>1. from < 51
            BY <1>1, <5>3 DEF MigrationIsOfFile
          <6> QED BY <4>1, <5>3, <6>1 DEF Halving
        <5> QED BY <5>1, <5>2, <5>3
      <4>2. CASE w # step
        <5>1. w <= step - 1 /\ Table(t) \in schema
          BY <1>1, <2>5, <3>1, <4>2, BlocksAlterTables DEF Versions, SCHEMA_VERSION
        <5>2. Columns(t, w) \in schema
                \/ ((halfLinked \/ Halving) /\ w = 51 /\ t = "container_snapshots")
          BY <1>1, <5>1 DEF FileIsUpgraded, HasColumnsUpTo
        <5> QED BY <2>3, <5>2, ObjectsDiffer
      <4> QED BY <4>1, <4>2
    <3>2. step' - 1 = step /\ (halfLinked \/ Halving)' = (halfLinked \/ Halving)
      BY <1>1, <1>2, <2>1
    <3>3. HasColumnsUpTo(schema', step, halfLinked \/ Halving)
      BY <3>1 DEF HasColumnsUpTo
    <3> QED BY <3>2, <3>3
  <2>8. FileIsUpgraded'
    BY <2>4, <2>5, <2>6, <2>7 DEF FileIsUpgraded
  <2>9. StacksAreRetired'
    BY <1>1, <2>1, <2>4 DEF StacksAreRetired
  <2>10. ExtrasAreMade'
    <3>1. (step = 51 => LinkIndex \in schema') /\ (step = 52 => Rules \in schema')
      BY <1>1, <2>3, BlockIsSound
    <3>2. (LinkIndex \in schema => LinkIndex \in schema') /\ (Rules \in schema => Rules \in schema')
      BY <2>3, ObjectsDiffer
    <3> QED BY <1>1, <2>1, <3>1, <3>2 DEF ExtrasAreMade
  <2>11. MigrationIsOfFile' /\ StartsAgain'
    BY <1>1, <2>1 DEF MigrationIsOfFile, StartsAgain
  <2>12. RegistryIsFilled'
    <3>1. CASE registry
      BY <1>1, <2>1, <3>1 DEF RegistryIsFilled
    <3>2. CASE step = 27 /\ snapshots
      BY <1>1, <2>1, <3>2 DEF RegistryIsFilled
    <3>3. registry' => registry \/ (step = 27 /\ snapshots)
      BY <2>1
    <3> QED BY <3>1, <3>2, <3>3 DEF RegistryIsFilled
  <2> QED BY <1>1, <2>1, <2>8, <2>9, <2>10, <2>11, <2>12
<1> QED BY <1>3, <1>4

LEMMA CutMigrationKeepsInv == SchemaInv /\ CutMigration => SchemaInv'
<1> SUFFICES ASSUME SchemaInv, CutMigration PROVE SchemaInv'
  OBVIOUS
<1> USE DEF SchemaInv
<1>1. /\ hub = "migrating" /\ hub' = "down" /\ step' = 1 /\ from' = 0
      /\ freshCut' = (freshCut \/ from = 0)
      /\ refilled' = (refilled \/ (from \in 1 .. 26 /\ registry))
      /\ UNCHANGED <<version, snapshots, registry, program, born, halfLinked>>
  BY DEF CutMigration
<1>2. PICK S \in SUBSET (IF step <= 54 THEN Block ELSE {}) : schema' = schema \cup S
  BY DEF CutMigration, SCHEMA_VERSION
<1>3. S \subseteq Complete
  BY BlockIsSound, <1>2
<1>4. Reached' = Reached
  BY <1>1 DEF Reached
<1>5. FileIsUpgraded'
  <2>1. HasColumnsUpTo(schema', Reached, halfLinked)
    BY <1>1, <1>2, MoreColumns DEF FileIsUpgraded
  <2>2. HasColumnsUpTo(schema', Reached', halfLinked')
    BY <1>1, <1>4, <2>1
  <2> QED BY <1>1, <1>2, <1>3, <2>2 DEF FileIsUpgraded
<1>6. StacksAreRetired'
  BY <1>1, <1>2, <1>3, CompleteSchema DEF StacksAreRetired
<1>7. ExtrasAreMade'
  BY <1>1, <1>2 DEF ExtrasAreMade
<1>8. MigrationIsOfFile' /\ StartsAgain'
  <2>1. freshCut' => version = 54
    <3>1. freshCut' => freshCut \/ from = 0
      BY <1>1
    <3>2. from = 0 => version = 54
      BY <1>1 DEF MigrationIsOfFile
    <3> QED BY <3>1, <3>2 DEF MigrationIsOfFile
  <2> QED BY <1>1, <2>1 DEF MigrationIsOfFile, StartsAgain
<1>9. RegistryIsFilled'
  <2>1. ASSUME registry, ~(version >= 27) PROVE refilled'
    <3>1. refilled \/ from \in 1 .. 26
      BY <1>1, <2>1 DEF RegistryIsFilled, MigrationIsOfFile
    <3>2. from \in 1 .. 26 => refilled'
      BY <1>1, <2>1
    <3>3. refilled => refilled'
      BY <1>1
    <3> QED BY <3>1, <3>2, <3>3
  <2> QED BY <1>1, <2>1 DEF RegistryIsFilled
<1> QED BY <1>1, <1>5, <1>6, <1>7, <1>8, <1>9

LEMMA StampKeepsInv == SchemaInv /\ Stamp => SchemaInv'
<1> SUFFICES ASSUME SchemaInv, Stamp PROVE SchemaInv'
  OBVIOUS
<1> USE DEF SchemaInv
<1>1. /\ hub = "migrating" /\ step = 55 /\ version' = 54
      /\ hub' = "up" /\ step' = 1 /\ from' = 0
      /\ halfLinked' = (halfLinked \/ (program = "standalone" /\ from < 51))
      /\ UNCHANGED <<schema, snapshots, registry, program, freshCut, refilled, born>>
  BY DEF Stamp, SCHEMA_VERSION
<1>2. HasColumnsUpTo(schema', Reached', halfLinked')
  <2>1. Reached' = step - 1 /\ halfLinked' = (halfLinked \/ Halving)
    BY <1>1 DEF Reached, SCHEMA_VERSION, Halving
  <2> QED BY <1>1, <2>1 DEF FileIsUpgraded
<1>3. FileIsUpgraded'
  BY <1>1, <1>2 DEF FileIsUpgraded
<1>4. StacksAreRetired' /\ ExtrasAreMade' /\ MigrationIsOfFile' /\ RegistryIsFilled' /\ StartsAgain'
  BY <1>1 DEF StacksAreRetired, ExtrasAreMade, MigrationIsOfFile, RegistryIsFilled, StartsAgain
<1> QED BY <1>1, <1>3, <1>4

\* The program serves, or ends; nothing is taken from the file.
LEMMA ServingKeepsInv ==
    SchemaInv /\ (StoreContainers \/ ReseedRules \/ HubEnds \/ UNCHANGED schemaVars) => SchemaInv'
<1> SUFFICES ASSUME SchemaInv, StoreContainers \/ ReseedRules \/ HubEnds \/ UNCHANGED schemaVars
             PROVE  SchemaInv'
  OBVIOUS
<1> USE DEF SchemaInv
<1>1. CASE StoreContainers
  <2>1. /\ hub = "up" /\ snapshots' = TRUE /\ registry' = TRUE
        /\ UNCHANGED <<schema, version, program, hub, step, from, freshCut, refilled, born, halfLinked>>
    BY <1>1 DEF StoreContainers, historyVars
  <2>2. Reached' = Reached
    BY <2>1 DEF Reached
  <2>3. FileIsUpgraded'
    BY <2>1, <2>2 DEF FileIsUpgraded
  <2> QED BY <2>1, <2>3 DEF StacksAreRetired, ExtrasAreMade, MigrationIsOfFile, RegistryIsFilled, StartsAgain
<1>2. CASE ReseedRules
  <2>1. /\ hub = "up" /\ schema' = schema \cup {Rules}
        /\ UNCHANGED <<version, snapshots, registry, program, hub, step, from, freshCut, refilled, born, halfLinked>>
    BY <1>2 DEF ReseedRules, historyVars
  <2>2. Reached' = Reached
    BY <2>1 DEF Reached
  <2>3. HasColumnsUpTo(schema', Reached', halfLinked')
    <3>1. \A t \in AllTables : Table(t) \in schema' => Table(t) \in schema
      BY <2>1, ObjectsDiffer
    <3>2. HasColumnsUpTo(schema', Reached, halfLinked)
      BY <2>1, <3>1, MoreColumns DEF FileIsUpgraded
    <3> QED BY <2>1, <2>2, <3>2
  <2>4. FileIsUpgraded'
    BY <2>1, <2>3, CompleteSchema DEF FileIsUpgraded
  <2>5. StacksAreRetired'
    BY <2>1, ObjectsDiffer DEF StacksAreRetired
  <2> QED BY <2>1, <2>4, <2>5 DEF ExtrasAreMade, MigrationIsOfFile, RegistryIsFilled, StartsAgain
<1>3. CASE HubEnds
  <2>1. /\ hub \in {"up", "refused", "bootstrapped"} /\ hub' = "down" /\ step' = 1 /\ from' = 0
        /\ UNCHANGED <<schema, version, snapshots, registry, program, freshCut, refilled, born, halfLinked>>
    BY <1>3 DEF HubEnds, historyVars
  <2>2. Reached' = Reached
    BY <2>1 DEF Reached
  <2>3. FileIsUpgraded'
    BY <2>1, <2>2 DEF FileIsUpgraded
  <2> QED BY <2>1, <2>3 DEF StacksAreRetired, ExtrasAreMade, MigrationIsOfFile, RegistryIsFilled, StartsAgain
<1>4. CASE UNCHANGED schemaVars
  <2>1. UNCHANGED <<schema, version, snapshots, registry, program, hub, step, from, freshCut, refilled, born, halfLinked>>
    BY <1>4 DEF schemaVars, historyVars
  <2>2. Reached' = Reached /\ Halving' = Halving
    BY <2>1 DEF Reached, Halving
  <2>3. FileIsUpgraded'
    BY <2>1, <2>2 DEF FileIsUpgraded
  <2> QED BY <2>1, <2>3 DEF StacksAreRetired, ExtrasAreMade, MigrationIsOfFile, RegistryIsFilled, StartsAgain
<1> QED BY <1>1, <1>2, <1>3, <1>4

LEMMA SchemaInvNext == SchemaInv /\ [SchemaNext]_schemaVars => SchemaInv'
BY BootstrapKeepsInv, CutBootstrapKeepsInv, ReadVersionKeepsInv, MigrateBlockKeepsInv,
   CutMigrationKeepsInv, StampKeepsInv, ServingKeepsInv DEF SchemaNext

LEMMA SchemaInvServes == SchemaInv => StartsServe
<1> SUFFICES ASSUME SchemaInv, hub = "up"
             PROVE  schema \subseteq Complete /\ Complete \ LeftOut \subseteq schema
  BY DEF StartsServe, ServesCompleteSchema, SchemaInv
<1>1. version = 54 /\ Reached = 54
  BY DEF SchemaInv, MigrationIsOfFile, Reached
<1>2. schema \subseteq Complete
  BY <1>1 DEF SchemaInv, StacksAreRetired, FileIsUpgraded
<1>3. ASSUME NEW o \in Complete, o \notin LeftOut PROVE o \in schema
  <2>1. CASE \E t \in AllTables : o = Table(t)
    BY <2>1 DEF SchemaInv, FileIsUpgraded
  <2>2. CASE \E w \in Versions : \E t \in Altered(w) : o = Columns(t, w)
    <3>0. PICK w \in Versions : \E t \in Altered(w) : o = Columns(t, w)
      BY <2>2
    <3>1. PICK t \in Altered(w) : o = Columns(t, w)
      BY <3>0
    <3>2. w <= 54 /\ Table(t) \in schema
      BY BlocksAlterTables DEF Versions, SCHEMA_VERSION, SchemaInv, FileIsUpgraded
    <3>3. \/ Columns(t, w) \in schema
          \/ halfLinked /\ o = Columns("container_snapshots", 51)
      BY <1>1, <3>1, <3>2 DEF SchemaInv, FileIsUpgraded, HasColumnsUpTo
    <3> QED BY <1>3, <3>1, <3>3 DEF LeftOut
  <2>3. CASE o \in {LinkIndex, Rules}
    <3>1. ~freshCut /\ born # "standalone"
      BY <1>3, <2>3 DEF LeftOut
    <3> QED BY <1>1, <2>3, <3>1 DEF SchemaInv, ExtrasAreMade
  <2> QED BY <1>3, <2>1, <2>2, <2>3, CompleteSchema
<1> QED BY <1>2, <1>3

\* schema.ts of both programs: whatever release a file is of, however often and wherever the
\* starts on it were cut off, and whichever program made them, a program that serves has the
\* whole schema, and a start is refused for the two known causes alone.
THEOREM EveryStartServes == SchemaSpec => []StartsServe
<1>1. SchemaInit => SchemaInv
  BY SchemaInvInit
<1>2. SchemaInv /\ [SchemaNext]_schemaVars => SchemaInv'
  BY SchemaInvNext
<1>3. SchemaInv => StartsServe
  BY SchemaInvServes
<1> QED BY <1>1, <1>2, <1>3, PTL DEF SchemaSpec

\* What the file remembers of its past, and the cuts.
HistoryIsTyped ==
    /\ born \in Programs \cup {"nobody"}
    /\ snapshots \in BOOLEAN /\ registry \in BOOLEAN
    /\ freshCut \in BOOLEAN /\ refilled \in BOOLEAN /\ halfLinked \in BOOLEAN
    /\ cuts \in 0 .. MaxCuts

SchemaTypes == SchemaInv /\ HistoryIsTyped

LEMMA SchemaTypesInit == SchemaInit => SchemaTypes
<1> SUFFICES ASSUME SchemaInit PROVE HistoryIsTyped
  BY SchemaInvInit DEF SchemaTypes
<1>1. snapshots \in BOOLEAN /\ registry \in BOOLEAN
  BY DEF SchemaInit
<1>2. born \in Programs \cup {"nobody"}
  BY DEF SchemaInit, Programs
<1>3. cuts \in 0 .. MaxCuts
  BY SchemaAssumption DEF SchemaInit
<1>4. freshCut \in BOOLEAN /\ refilled \in BOOLEAN /\ halfLinked \in BOOLEAN
  BY DEF SchemaInit
<1> QED BY <1>1, <1>2, <1>3, <1>4 DEF HistoryIsTyped

LEMMA SchemaTypesNext == SchemaTypes /\ [SchemaNext]_schemaVars => SchemaTypes'
<1> SUFFICES ASSUME SchemaTypes, [SchemaNext]_schemaVars PROVE HistoryIsTyped'
  BY SchemaInvNext DEF SchemaTypes
<1>1. cuts' \in 0 .. MaxCuts
  <2>1. cuts' = cuts \/ (cuts < MaxCuts /\ cuts' = cuts + 1)
    BY DEF SchemaNext, schemaVars, Bootstrap, CutBootstrap, ReadVersion, MigrateBlock,
       CutMigration, Stamp, StoreContainers, ReseedRules, HubEnds
  <2> QED BY <2>1, SchemaAssumption DEF SchemaTypes, HistoryIsTyped
<1>2. born' = born \/ born' = program
  BY DEF SchemaNext, schemaVars, historyVars, Bootstrap, CutBootstrap, ReadVersion, MigrateBlock,
     CutMigration, Stamp, StoreContainers, ReseedRules, HubEnds
<1>3. snapshots' = snapshots \/ snapshots' = TRUE
  BY DEF SchemaNext, schemaVars, Bootstrap, CutBootstrap, ReadVersion, MigrateBlock,
     CutMigration, Stamp, StoreContainers, ReseedRules, HubEnds
<1>4. registry' \in BOOLEAN
  <2>1. registry' = registry \/ registry' = TRUE \/ registry' = (registry \/ (step = 27 /\ snapshots))
    BY Zenon DEF SchemaNext, schemaVars, Bootstrap, CutBootstrap, ReadVersion, MigrateBlock,
       CutMigration, Stamp, StoreContainers, ReseedRules, HubEnds
  <2>2. registry \in BOOLEAN /\ (registry \/ (step = 27 /\ snapshots)) \in BOOLEAN
    BY DEF SchemaTypes, HistoryIsTyped
  <2> QED BY <2>1, <2>2
<1>5. freshCut' \in BOOLEAN /\ refilled' \in BOOLEAN
  <2>1. CASE CutMigration
    BY <2>1 DEF CutMigration
  <2>2. CASE UNCHANGED <<freshCut, refilled>>
    BY <2>2 DEF SchemaTypes, HistoryIsTyped
  <2> QED BY <2>1, <2>2 DEF SchemaNext, schemaVars, historyVars, Bootstrap, CutBootstrap,
          ReadVersion, MigrateBlock, Stamp, StoreContainers, ReseedRules, HubEnds
<1>6. halfLinked' \in BOOLEAN
  <2>1. CASE Stamp
    BY <2>1 DEF Stamp
  <2>2. CASE UNCHANGED halfLinked
    BY <2>2 DEF SchemaTypes, HistoryIsTyped
  <2> QED BY <2>1, <2>2 DEF SchemaNext, schemaVars, historyVars, Bootstrap, CutBootstrap,
          ReadVersion, MigrateBlock, CutMigration, StoreContainers, ReseedRules, HubEnds
<1>7. born' \in Programs \cup {"nobody"}
  BY <1>2 DEF SchemaTypes, HistoryIsTyped, SchemaInv
<1>8. snapshots' \in BOOLEAN
  BY <1>3 DEF SchemaTypes, HistoryIsTyped
<1> QED BY <1>1, <1>4, <1>5, <1>6, <1>7, <1>8 DEF HistoryIsTyped

LEMMA SchemaTypesHold == SchemaTypes => SchemaTypeOK
<1> SUFFICES ASSUME SchemaTypes PROVE SchemaTypeOK
  OBVIOUS
<1>1. schema \subseteq Objects
  BY DEF SchemaTypes, SchemaInv, FileIsUpgraded, Objects
<1>2. {snapshots, registry, freshCut, refilled, halfLinked} \subseteq BOOLEAN
  BY Zenon DEF SchemaTypes, HistoryIsTyped
<1> QED BY <1>1, <1>2 DEF SchemaTypes, SchemaInv, HistoryIsTyped, SchemaTypeOK, SCHEMA_VERSION

\* The objects of the file, its version and the steps of a start have their types, of
\* whatever release the file is and however many starts are cut off.
THEOREM SchemaTypeCorrect == SchemaSpec => []SchemaTypeOK
BY SchemaTypesInit, SchemaTypesNext, SchemaTypesHold, PTL DEF SchemaSpec

(***************************************************************************)
(* The checks that raise and resolve alerts.                               *)
(***************************************************************************)

\* A report is of its alert type.
RowsAreReports ==
    \A i \in DOMAIN stored : stored[i].at \in 0 .. time /\ stored[i].says \in Reports(kind)

RowsAreOrdered == \A i \in DOMAIN stored : \A j \in 1 .. i : stored[j].at <= stored[i].at

\* The registry and the newest batch agree: a container that is listed is in the newest
\* batch of its host, one that is not has only older rows.
ListedInNewest ==
    kind \in ContainerTypes \ {"respawn_loop"} =>
        /\ \A i \in DOMAIN stored : stored[i].at <= newest
        /\ HasRow => (listed <=> Latest.at = newest)

ChecksInv ==
    /\ kind \in AlertKinds
    /\ \E S : stored \in Seq(S)
    /\ Len(stored) <= MaxStored
    /\ RowsAreReports
    /\ RowsAreOrdered
    /\ kind \in Upserted => Len(stored) <= 1
    /\ time \in Nat /\ newest \in 0 .. time /\ heard \in 0 .. time /\ threshold \in {0, 2}
    /\ {listed, splits, alerted} \subseteq BOOLEAN
    /\ ListedInNewest

LEMMA ChecksInvTypes == ChecksInv => ChecksTypeOK
BY DEF ChecksInv, ChecksTypeOK, RowsAreReports, RowsAreOrdered

LEMMA ChecksInvInit == ChecksInit => ChecksInv
<1> SUFFICES ASSUME ChecksInit PROVE ChecksInv
  OBVIOUS
<1>1. stored = << >> /\ stored \in Seq({}) /\ Len(stored) = 0 /\ DOMAIN stored = {}
  BY DEF ChecksInit
<1>2. RowsAreReports /\ RowsAreOrdered /\ ListedInNewest
  BY <1>1 DEF RowsAreReports, RowsAreOrdered, ListedInNewest, HasRow
<1>3. (\E S : stored \in Seq(S)) /\ Len(stored) <= MaxStored /\ Len(stored) <= 1
  BY <1>1, ChecksAssumption
<1>4. /\ time = 1 /\ newest = 0 /\ heard = 0 /\ threshold = 2 /\ kind \in AlertKinds
      /\ {listed, splits, alerted} \subseteq BOOLEAN
  BY DEF ChecksInit
<1> QED BY <1>2, <1>3, <1>4 DEF ChecksInv

\* What a report may say stays sayable.
LEMMA ReportsStay ==
    ASSUME NEW t \in AlertKinds, time \in Nat, time' \in Nat, time <= time'
    PROVE  Reports(t) \subseteq Reports(t)'
<1>1. CASE t = "pve_backup_overdue"
  <2>1. Reports(t) = [last : {-1}, status : {"NEVER"}] \cup [last : 0 .. time, status : {"OK", "FAILED"}]
    BY <1>1 DEF Reports, ContainerLevels, HealthTypes, HostLevels, Conditions, NodeConditions,
       PveConditions, WorkloadTypes
  <2>2. Reports(t)' = [last : {-1}, status : {"NEVER"}] \cup [last : 0 .. time', status : {"OK", "FAILED"}]
    BY <1>1 DEF Reports, ContainerLevels, HealthTypes, HostLevels, Conditions, NodeConditions,
       PveConditions, WorkloadTypes
  <2>3. 0 .. time \subseteq 0 .. time'
    OBVIOUS
  <2>4. [last : 0 .. time, status : {"OK", "FAILED"}] \subseteq [last : 0 .. time', status : {"OK", "FAILED"}]
    BY <2>3
  <2> QED BY <2>1, <2>2, <2>4
<1>2. CASE t # "pve_backup_overdue"
  BY <1>2 DEF Reports, AlertKinds, ContainerTypes, Upserted, ContainerLevels, HealthTypes, HostLevels,
     Conditions, NodeConditions, PveConditions, WorkloadTypes
<1> QED BY <1>1, <1>2

LEMMA KindsDiffer ==
    /\ ContainerTypes \cap Upserted = {} /\ "disk_full" \notin ContainerTypes \cup Upserted
    /\ "respawn_loop" \notin Upserted
BY DEF ContainerTypes, Upserted, ContainerLevels, HealthTypes, Conditions, NodeConditions,
   PveConditions, WorkloadTypes

\* A row that is added, or takes the place of the one there was.
LEMMA StoredKeepsRows ==
    ASSUME ChecksInv, NEW report \in Reports(kind), stored' = Stored(report),
           UNCHANGED <<kind, time>>
    PROVE  /\ \E S : stored' \in Seq(S)
           /\ RowsAreReports' /\ RowsAreOrdered'
           /\ kind \in Upserted => Len(stored') <= 1
           /\ kind \notin Upserted =>
                /\ stored' # << >> /\ stored'[Len(stored')].at = time
                /\ \A i \in DOMAIN stored' : stored'[i].at <= time
<1> DEFINE row == [at |-> time, says |-> report]
<1>1. Reports(kind)' = Reports(kind)
  BY DEF Reports
<1>2. time \in Nat /\ kind \in AlertKinds
  BY DEF ChecksInv
<1>3. CASE kind \in Upserted
  <2>1. PICK upserted : /\ stored' = <<upserted>>
                        /\ upserted = [at |-> IF HasRow THEN Latest.at ELSE time, says |-> report]
    BY <1>3 DEF Stored
  <2>2. upserted.at \in 0 .. time /\ upserted.says = report
    <3>1. HasRow => Latest.at \in 0 .. time
      BY DEF ChecksInv, RowsAreReports, HasRow, Latest
    <3> QED BY <1>2, <2>1, <3>1
  <2>3. /\ Len(stored') = 1 /\ Len(stored') <= 1
        /\ DOMAIN stored' = {1} /\ stored'[1] = upserted /\ stored' \in Seq({upserted})
    BY <2>1
  <2>4. RowsAreReports'
    BY <1>1, <2>2, <2>3 DEF RowsAreReports
  <2>5. RowsAreOrdered'
    BY <2>2, <2>3 DEF RowsAreOrdered
  <2> QED BY <1>3, <2>3, <2>4, <2>5
<1>4. CASE kind \notin Upserted
  <2>1. stored' = Append(stored, row)
    BY <1>4 DEF Stored
  <2>2. PICK S : stored \in Seq(S)
    BY DEF ChecksInv
  <2>3. row.at = time /\ row.says = report
    OBVIOUS
  <2> HIDE DEF row
  <2>4. stored \in Seq(S \cup {row}) /\ Len(stored) \in Nat /\ DOMAIN stored = 1 .. Len(stored)
    BY <2>2
  <2>5. /\ stored' \in Seq(S \cup {row})
        /\ Len(stored') = Len(stored) + 1 /\ DOMAIN stored' = 1 .. Len(stored) + 1
        /\ stored'[Len(stored) + 1] = row
        /\ \A i \in 1 .. Len(stored) : stored'[i] = stored[i]
    BY <2>1, <2>4
  <2>6. \A i \in DOMAIN stored' : stored'[i].at \in 0 .. time /\ stored'[i].says \in Reports(kind)
    BY <1>2, <2>3, <2>4, <2>5 DEF ChecksInv, RowsAreReports
  <2>7. RowsAreReports'
    BY <1>1, <2>6 DEF RowsAreReports
  <2>8. RowsAreOrdered'
    <3>1. ASSUME NEW i \in DOMAIN stored', NEW j \in 1 .. i PROVE stored'[j].at <= stored'[i].at
      <4>1. CASE i = Len(stored) + 1
        BY <2>3, <2>5, <2>6, <4>1
      <4>2. CASE i # Len(stored) + 1
        BY <2>4, <2>5, <4>2 DEF ChecksInv, RowsAreOrdered
      <4> QED BY <4>1, <4>2
    <3> QED BY <3>1 DEF RowsAreOrdered
  <2>9. stored' # << >>
    BY <2>4, <2>5
  <2> QED BY <1>2, <1>4, <2>3, <2>5, <2>6, <2>7, <2>8, <2>9
<1> QED BY <1>3, <1>4

\* The rows are as they were, and no other column that they are read with goes back.
LEMMA SameRows ==
    ASSUME ChecksInv, UNCHANGED <<kind, stored>>, time' \in Nat, time <= time'
    PROVE  /\ \E S : stored' \in Seq(S)
           /\ Len(stored') <= MaxStored
           /\ RowsAreReports' /\ RowsAreOrdered'
           /\ kind' \in Upserted => Len(stored') <= 1
<1>1. Reports(kind) \subseteq Reports(kind)'
  BY ReportsStay DEF ChecksInv
<1>2. RowsAreReports'
  BY <1>1 DEF ChecksInv, RowsAreReports
<1> QED BY <1>2 DEF ChecksInv, RowsAreOrdered

LEMMA ReportsKeepChecksInv ==
    ASSUME ChecksInv, Report \/ ReportSpawn
    PROVE  ChecksInv'
<1>1. CASE Report
  <2>1. PICK report \in Reports(kind) : stored' = Stored(report)
    BY <1>1 DEF Report
  <2>2. /\ Len(stored') <= MaxStored
        /\ listed' = TRUE /\ newest' = time /\ heard' = time
        /\ UNCHANGED <<kind, threshold, splits, alerted, time>>
    BY <1>1 DEF Report
  <2>3. ListedInNewest'
    BY <2>1, <2>2, StoredKeepsRows, KindsDiffer DEF ListedInNewest, HasRow, Latest
  <2>4. {listed', splits', alerted'} \subseteq BOOLEAN /\ newest' \in 0 .. time' /\ heard' \in 0 .. time'
    BY <2>2 DEF ChecksInv
  <2>5. kind' \in Upserted => Len(stored') <= 1
    BY <2>1, <2>2, StoredKeepsRows
  <2>6. (\E S : stored' \in Seq(S)) /\ RowsAreReports' /\ RowsAreOrdered'
    BY <2>1, <2>2, StoredKeepsRows
  <2> QED BY <2>2, <2>3, <2>4, <2>5, <2>6 DEF ChecksInv
<1>2. CASE ReportSpawn
  <2>1. PICK report \in Reports(kind) : stored' = Stored(report)
    BY <1>2 DEF ReportSpawn
  <2>2. /\ kind = "respawn_loop" /\ Len(stored) < MaxStored
        /\ UNCHANGED <<kind, listed, newest, heard, threshold, splits, alerted, time>>
    BY <1>2 DEF ReportSpawn
  <2>3. Len(stored') <= MaxStored
    <3>1. PICK S : stored \in Seq(S)
      BY DEF ChecksInv
    <3>2. stored' = Append(stored, [at |-> time, says |-> report])
      BY <2>1, <2>2, KindsDiffer DEF Stored
    <3>3. stored \in Seq(S \cup {[at |-> time, says |-> report]})
      BY <3>1
    <3>4. Len(stored') = Len(stored) + 1 /\ Len(stored) \in Nat
      BY <3>2, <3>3
    <3> QED BY <2>2, <3>4, ChecksAssumption
  <2>4. ListedInNewest'
    BY <2>2 DEF ListedInNewest
  <2> QED BY <2>1, <2>2, <2>3, <2>4, StoredKeepsRows, KindsDiffer DEF ChecksInv
<1> QED BY <1>1, <1>2

LEMMA OmitKeepsChecksInv ==
    ASSUME ChecksInv, OmitTarget
    PROVE  ChecksInv'
<1>1. /\ newest < time /\ listed' = FALSE /\ heard' = time
      /\ stored' = (IF kind \in Upserted THEN << >> ELSE stored)
      /\ newest' = (IF kind \in ContainerTypes \cup {"disk_full"} THEN time ELSE newest)
      /\ UNCHANGED <<kind, threshold, splits, alerted, time>>
  BY DEF OmitTarget, NextBatch
<1>2. time \in Nat /\ newest \in 0 .. time
  BY DEF ChecksInv
<1>3. CASE kind \in Upserted
  <2>1. stored' = << >> /\ stored' \in Seq({}) /\ Len(stored') = 0 /\ DOMAIN stored' = {}
    BY <1>1, <1>3
  <2>2. RowsAreReports' /\ RowsAreOrdered' /\ ListedInNewest'
    BY <1>1, <1>3, <2>1, KindsDiffer DEF RowsAreReports, RowsAreOrdered, ListedInNewest
  <2>3. Len(stored') <= MaxStored
    BY <2>1, ChecksAssumption
  <2>4. {listed', splits', alerted'} \subseteq BOOLEAN /\ newest' \in 0 .. time' /\ heard' \in 0 .. time'
    <3>1. newest' \in {time, newest} /\ heard' = time /\ time' = time
      BY <1>1
    <3>2. {listed', splits', alerted'} \subseteq BOOLEAN
      BY <1>1 DEF ChecksInv
    <3> QED BY <1>2, <3>1, <3>2
  <2> QED BY <1>1, <2>1, <2>2, <2>3, <2>4 DEF ChecksInv
<1>4. CASE kind \notin Upserted
  <2>1. UNCHANGED stored
    BY <1>1, <1>4
  <2>2. ListedInNewest'
    <3>1. ASSUME kind \in ContainerTypes \ {"respawn_loop"}
          PROVE  /\ \A i \in DOMAIN stored : stored[i].at < newest'
                 /\ HasRow => Latest.at # newest'
      <4>1. \A i \in DOMAIN stored : stored[i].at <= newest /\ stored[i].at \in Int
        BY <3>1 DEF ChecksInv, ListedInNewest, RowsAreReports
      <4>2. \A i \in DOMAIN stored : stored[i].at < newest'
        BY <1>1, <1>2, <3>1, <4>1
      <4>3. HasRow => Len(stored) \in DOMAIN stored
        BY DEF ChecksInv, HasRow
      <4> QED BY <1>2, <4>1, <4>2, <4>3 DEF Latest
    <3>2. ASSUME NEW i \in DOMAIN stored, kind \in ContainerTypes \ {"respawn_loop"}
          PROVE  stored[i].at <= newest'
      BY <3>1, <3>2, <1>1, <1>2 DEF ChecksInv, RowsAreReports
    <3> QED BY <1>1, <2>1, <3>1, <3>2 DEF ListedInNewest, HasRow, Latest
  <2>3. {listed', splits', alerted'} \subseteq BOOLEAN /\ newest' \in 0 .. time' /\ heard' \in 0 .. time'
    <3>1. newest' \in {time, newest} /\ heard' = time /\ time' = time
      BY <1>1
    <3>2. {listed', splits', alerted'} \subseteq BOOLEAN
      BY <1>1 DEF ChecksInv
    <3> QED BY <1>2, <3>1, <3>2
  <2>4. /\ \E S : stored' \in Seq(S)
        /\ Len(stored') <= MaxStored /\ (kind' \in Upserted => Len(stored') <= 1)
        /\ RowsAreReports' /\ RowsAreOrdered'
    BY <1>1, <1>2, <2>1, SameRows
  <2> QED BY <1>1, <2>2, <2>3, <2>4 DEF ChecksInv
<1> QED BY <1>3, <1>4

LEMMA PruneKeepsChecksInv ==
    ASSUME ChecksInv, PruneStored
    PROVE  ChecksInv'
<1>1. /\ kind \notin Upserted /\ stored # << >> /\ stored' = Tail(stored)
      /\ UNCHANGED <<kind, listed, newest, heard, threshold, splits, alerted, time>>
  BY DEF PruneStored, HasRow
<1>2. PICK S : stored \in Seq(S)
  BY DEF ChecksInv
<1>3. /\ stored' \in Seq(S) /\ Len(stored) \in Nat \ {0} /\ Len(stored') = Len(stored) - 1
      /\ DOMAIN stored' = 1 .. Len(stored) - 1
      /\ \A i \in 1 .. Len(stored) - 1 : i + 1 \in DOMAIN stored /\ stored'[i] = stored[i + 1]
  BY <1>1, <1>2
<1>4. Reports(kind)' = Reports(kind)
  BY <1>1 DEF Reports
<1>5. RowsAreReports'
  BY <1>1, <1>3, <1>4 DEF ChecksInv, RowsAreReports
<1>6. RowsAreOrdered'
  <2>1. ASSUME NEW i \in DOMAIN stored', NEW j \in 1 .. i PROVE stored'[j].at <= stored'[i].at
    <3>1. j + 1 \in 1 .. i + 1 /\ j \in 1 .. Len(stored) - 1
      BY <1>3
    <3> QED BY <1>3, <3>1 DEF ChecksInv, RowsAreOrdered
  <2> QED BY <2>1 DEF RowsAreOrdered
<1>7. ListedInNewest'
  <2>1. stored' # << >> => stored'[Len(stored')] = stored[Len(stored)]
    BY <1>3
  <2> QED BY <1>1, <1>3, <2>1 DEF ChecksInv, ListedInNewest, HasRow, Latest
<1> QED BY <1>1, <1>3, <1>5, <1>6, <1>7, ChecksAssumption DEF ChecksInv

LEMMA ChecksInvNext == ChecksInv /\ [ChecksNext]_checkVars => ChecksInv'
<1> SUFFICES ASSUME ChecksInv, [ChecksNext]_checkVars PROVE ChecksInv'
  OBVIOUS
<1>1. time \in Nat
  BY DEF ChecksInv
<1>2. CASE ListTarget
  <2>1. /\ kind = "respawn_loop" /\ listed' = TRUE /\ newest' = time /\ heard' = time
        /\ UNCHANGED <<kind, stored, threshold, splits, alerted, time>>
    BY <1>2 DEF ListTarget
  <2>2. ListedInNewest'
    BY <2>1 DEF ListedInNewest
  <2> QED BY <1>1, <2>1, <2>2, SameRows DEF ChecksInv
<1>3. CASE OmitLast
  BY <1>1, <1>3, SameRows DEF OmitLast, ChecksInv, ListedInNewest, HasRow, Latest
<1>4. CASE OtherHostReports
  <2>1. /\ kind = "disk_full" /\ newest' = time
        /\ UNCHANGED <<kind, stored, listed, heard, threshold, splits, alerted, time>>
    BY <1>4 DEF OtherHostReports
  <2>2. ListedInNewest'
    BY <2>1, KindsDiffer DEF ListedInNewest
  <2> QED BY <1>1, <2>1, <2>2, SameRows DEF ChecksInv
<1>5. CASE ChangeSettings
  <2>1. /\ UNCHANGED <<kind, stored, listed, newest, heard, alerted, time>>
        /\ threshold' \in {0, 2} /\ splits' \in BOOLEAN
    <3>1. threshold' \in {threshold, 2 - threshold} /\ splits' \in {splits, ~splits}
      BY <1>5 DEF ChangeSettings
    <3>2. threshold' \in {0, 2}
      BY <3>1 DEF ChecksInv
    <3> QED BY <1>5, <3>1, <3>2 DEF ChangeSettings, ChecksInv
  <2> QED BY <1>1, <2>1, SameRows DEF ChecksInv, ListedInNewest, HasRow, Latest
<1>6. CASE EvaluateOne
  <2>1. UNCHANGED <<kind, stored, listed, newest, heard, threshold, splits, time>>
    BY <1>6 DEF EvaluateOne
  <2>2. alerted' \in BOOLEAN
    <3>1. alerted' = (IF alerted THEN ~Resolves ELSE Triggers)
      BY <1>6 DEF EvaluateOne
    <3>2. CASE alerted
      BY <3>1, <3>2, Zenon
    <3>3. CASE ~alerted
      BY <3>1, <3>3 DEF Triggers
    <3> QED BY <3>2, <3>3
  <2> QED BY <1>1, <2>1, <2>2, SameRows DEF ChecksInv, ListedInNewest, HasRow, Latest
<1>7. CASE Passes
  <2>1. time' = time + 1 /\ UNCHANGED <<kind, stored, listed, newest, heard, threshold, splits, alerted>>
    BY <1>7 DEF Passes
  <2> QED BY <1>1, <2>1, SameRows DEF ChecksInv, ListedInNewest, HasRow, Latest
<1>8. CASE UNCHANGED checkVars
  BY <1>1, <1>8, SameRows DEF checkVars, ChecksInv, ListedInNewest, HasRow, Latest
<1> QED BY <1>2, <1>3, <1>4, <1>5, <1>6, <1>7, <1>8, ReportsKeepChecksInv, OmitKeepsChecksInv,
        PruneKeepsChecksInv DEF ChecksNext

-----------------------------------------------------------------------------
(* Each type has one check in each list, and what it looks at.             *)

LEMMA LatestIsReport ==
    ASSUME ChecksInv, HasRow
    PROVE  /\ Len(stored) \in Nat /\ Len(stored) \in DOMAIN stored
           /\ DOMAIN stored = 1 .. Len(stored)
           /\ Latest.at \in 0 .. time /\ Latest.says \in Reports(kind)
BY DEF ChecksInv, RowsAreReports, HasRow, Latest

LEMMA TriggersOfKind ==
    /\ kind \in ContainerLevels => (Triggers <=> threshold > 0 /\ ContainerLevelTriggers)
    /\ kind \in HealthTypes => (Triggers <=> threshold > 0 /\ (ImagePullTriggers \/ UnhealthyTriggers))
    /\ kind = "container_down" => (Triggers <=> threshold > 0 /\ DownTriggers)
    /\ kind = "restart_loop" => (Triggers <=> threshold > 0 /\ RestartTriggers)
    /\ kind = "respawn_loop" => (Triggers <=> threshold > 0 /\ RespawnTriggers)
    /\ kind \in HostLevels => (Triggers <=> threshold > 0 /\ HostLevelTriggers)
    /\ kind = "disk_full" => (Triggers <=> threshold > 0 /\ DiskTriggers)
    /\ kind = "pve_storage_saturation" => (Triggers <=> threshold > 0 /\ StorageTriggers)
    /\ kind \in Conditions => (Triggers <=> NodeConditionTriggers \/ PveConditionTriggers)
    /\ kind = "pod_pending" => (Triggers <=> PendingTriggers)
    /\ kind \in WorkloadTypes => (Triggers <=> WorkloadTriggers)
    /\ kind = "pve_backup_overdue" => (Triggers <=> threshold > 0 /\ BackupTriggers)
<1>1. /\ DownTriggers => kind = "container_down"
      /\ RestartTriggers => kind = "restart_loop"
      /\ RespawnTriggers => kind = "respawn_loop"
      /\ ContainerLevelTriggers => kind \in ContainerLevels
      /\ ImagePullTriggers => kind = "image_pull_failure"
      /\ UnhealthyTriggers => kind = "container_unhealthy"
      /\ HostLevelTriggers => kind \in HostLevels
      /\ DiskTriggers => kind = "disk_full"
      /\ StorageTriggers => kind = "pve_storage_saturation"
      /\ NodeConditionTriggers => kind \in NodeConditions
      /\ PveConditionTriggers => kind \in PveConditions
      /\ PendingTriggers => kind = "pod_pending"
      /\ WorkloadTriggers => kind \in WorkloadTypes
      /\ BackupTriggers => kind = "pve_backup_overdue"
  BY DEF DownTriggers, RestartTriggers, RespawnTriggers, ContainerLevelTriggers, ImagePullTriggers,
     UnhealthyTriggers, HostLevelTriggers, DiskTriggers, StorageTriggers, NodeConditionTriggers,
     PveConditionTriggers, PendingTriggers, WorkloadTriggers, BackupTriggers
<1> QED BY <1>1 DEF Triggers, AlwaysOn, ContainerLevels, HealthTypes, HostLevels, Conditions,
           NodeConditions, PveConditions, WorkloadTypes

LEMMA ResolvesOfKind ==
    /\ kind \in ContainerLevels => (Resolves <=> IsRemoved \/ ContainerLevelResolves)
    /\ kind \in HealthTypes => (Resolves <=> IsRemoved \/ HealthResolves)
    /\ kind = "container_down" => (Resolves <=> IsRemoved \/ DownResolves)
    /\ kind = "restart_loop" => (Resolves <=> IsRemoved \/ RestartResolves)
    /\ kind = "respawn_loop" => (Resolves <=> IsRemoved \/ RespawnResolves)
    /\ kind \in HostLevels => (Resolves <=> HostLevelResolves)
    /\ kind = "disk_full" => (Resolves <=> DiskResolves)
    /\ kind = "pve_storage_saturation" => (Resolves <=> StorageResolves)
    /\ kind \in Conditions => (Resolves <=> NodeConditionResolves \/ PveConditionResolves)
    /\ kind = "pod_pending" => (Resolves <=> PendingResolves)
    /\ kind \in WorkloadTypes => (Resolves <=> WorkloadResolves)
    /\ kind = "pve_backup_overdue" => (Resolves <=> BackupResolves)
<1>1. /\ IsRemoved => kind \in ContainerTypes
      /\ DownResolves => kind = "container_down"
      /\ RestartResolves => kind = "restart_loop"
      /\ RespawnResolves => kind = "respawn_loop"
      /\ ContainerLevelResolves => kind \in ContainerLevels
      /\ HealthResolves => kind \in HealthTypes
      /\ HostLevelResolves => kind \in HostLevels
      /\ DiskResolves => kind = "disk_full"
      /\ StorageResolves => kind = "pve_storage_saturation"
      /\ NodeConditionResolves => kind \in NodeConditions
      /\ PveConditionResolves => kind \in PveConditions
      /\ PendingResolves => kind = "pod_pending"
      /\ WorkloadResolves => kind \in WorkloadTypes
      /\ BackupResolves => kind = "pve_backup_overdue"
  BY DEF IsRemoved, DownResolves, RestartResolves, RespawnResolves, ContainerLevelResolves,
     HealthResolves, HealthTypes, HostLevelResolves, DiskResolves, StorageResolves,
     NodeConditionResolves, PveConditionResolves, PendingResolves, WorkloadResolves, WorkloadTypes,
     BackupResolves
<1> QED BY <1>1 DEF Resolves, ContainerTypes, ContainerLevels, HealthTypes, HostLevels, Conditions,
           NodeConditions, PveConditions, WorkloadTypes

\* The newest row with a value is a row with a value, and the newest row if that has one.
LEMMA LatestValueIsValue ==
    ASSUME ChecksInv, \A i \in DOMAIN stored : stored[i].says.value \in Levels \cup {Null},
           Valued # {}
    PROVE  /\ LatestValue \in Levels
           /\ Latest.says.value # Null => LatestValue = Latest.says.value
<1>1. HasRow
  BY DEF ChecksInv, Valued, HasRow
<1>2. Len(stored) \in Nat /\ Len(stored) \in DOMAIN stored /\ DOMAIN stored = 1 .. Len(stored)
  BY <1>1, LatestIsReport
<1>3. Valued \subseteq 1 .. Len(stored) /\ Valued \subseteq 0 .. Len(stored)
  BY <1>2 DEF Valued
<1>4. Max(Valued) \in Valued /\ \A x \in Valued : x <= Max(Valued)
  BY <1>2, <1>3, MaxIsGreatest
<1>5. LatestValue \in Levels
  BY <1>4 DEF Valued, LatestValue
<1>6. ASSUME Latest.says.value # Null PROVE Max(Valued) = Len(stored)
  <2>1. Len(stored) \in Valued
    BY <1>2, <1>6 DEF Valued, Latest
  <2>2. Len(stored) <= Max(Valued) /\ Max(Valued) \in 1 .. Len(stored)
    BY <1>3, <1>4, <2>1
  <2> QED BY <1>2, <2>2
<1> QED BY <1>5, <1>6 DEF LatestValue, Latest

\* A removed container's last row is not in the newest batch of its host, a listed one's is.
LEMMA RemovedOrNewest ==
    ASSUME ChecksInv, kind \in ContainerTypes \ {"respawn_loop"}, HasRow
    PROVE  /\ ~(IsRemoved /\ InNewestBatch)
           /\ IsHostReporting => IsRemoved \/ InNewestBatch
BY DEF ChecksInv, ListedInNewest, IsRemoved, InNewestBatch

\* What the reports of each type say.
LEMMA ReportsOfKind ==
    ASSUME ChecksInv, NEW i \in DOMAIN stored
    PROVE  LET says == stored[i].says
           IN  /\ kind \in ContainerLevels =>
                    /\ says.running \in BOOLEAN /\ says.value \in Levels \cup {Null}
                    /\ ~says.running => says.value = Null
               /\ kind \in HealthTypes => says.health \in {"healthy", "unhealthy", "unhealthy: image pull"}
               /\ kind = "container_down" => says.status \in {"running", "exited", "completed", "dead"}
               /\ kind = "restart_loop" => says.restarts \in 0 .. 2
               /\ kind \in HostLevels => says.value \in Levels \cup {Null}
               /\ kind = "disk_full" => says.value \in Levels
               /\ kind = "pve_storage_saturation" =>
                    says.active \in BOOLEAN /\ says.value \in Levels \cup {Null}
               /\ kind \in Conditions => says.bad \in BOOLEAN
               /\ kind \in WorkloadTypes =>
                    says.ready \in 0 .. Desired /\ says.updated \in 0 .. Desired /\ says.exceeded \in BOOLEAN
               /\ kind = "pve_backup_overdue" =>
                    \/ says.last = -1 /\ says.status = "NEVER"
                    \/ says.last \in 0 .. time /\ says.status \in {"OK", "FAILED"}
<1> DEFINE says == stored[i].says
<1>1. says \in Reports(kind)
  BY DEF ChecksInv, RowsAreReports
<1> HIDE DEF says
<1>2. CASE kind \in ContainerLevels
  BY <1>1, <1>2 DEF Reports, ContainerLevels, HealthTypes, HostLevels, Conditions, NodeConditions,
     PveConditions, WorkloadTypes, says
<1>3. CASE kind \in HealthTypes \cup {"container_down", "restart_loop", "respawn_loop"}
  BY <1>1, <1>3 DEF Reports, ContainerLevels, HealthTypes, HostLevels, Conditions, NodeConditions,
     PveConditions, WorkloadTypes, says
<1>4. CASE kind \in HostLevels \cup {"disk_full", "pve_storage_saturation", "pod_pending"}
  BY <1>1, <1>4 DEF Reports, ContainerLevels, HealthTypes, HostLevels, Conditions, NodeConditions,
     PveConditions, WorkloadTypes, says
<1>5. CASE kind \in Conditions \cup WorkloadTypes
  BY <1>1, <1>5 DEF Reports, ContainerLevels, HealthTypes, HostLevels, Conditions, NodeConditions,
     PveConditions, WorkloadTypes, says
<1>6. CASE kind = "pve_backup_overdue"
  BY <1>1, <1>6 DEF Reports, ContainerLevels, HealthTypes, HostLevels, Conditions, NodeConditions,
     PveConditions, WorkloadTypes, says
<1> QED BY <1>2, <1>3, <1>4, <1>5, <1>6 DEF ChecksInv, AlertKinds, ContainerTypes, Upserted, Conditions, says

LEMMA ContainerLevelsPartition ==
    ASSUME ChecksInv, kind \in ContainerLevels
    PROVE  ChecksPartition
<1>1. kind \in ContainerTypes \ {"respawn_loop"} /\ kind \notin OutlivesTarget \cup AlwaysOn
  BY DEF ContainerTypes, ContainerLevels, OutlivesTarget, AlwaysOn, Conditions, NodeConditions,
     PveConditions, WorkloadTypes
<1>2. \A i \in DOMAIN stored : stored[i].says.value \in Levels \cup {Null}
  BY ReportsOfKind
<1>3. /\ Triggers <=> threshold > 0 /\ ContainerLevelTriggers
      /\ Resolves <=> IsRemoved \/ ContainerLevelResolves
  BY TriggersOfKind, ResolvesOfKind
<1>4. threshold \in {0, 2}
  BY DEF ChecksInv
<1>5. CASE ~HasRow
  BY <1>1, <1>3, <1>5 DEF ChecksPartition, ChecksAgree, ChecksCover, LeftAsIs, ContainerLevelTriggers,
     InNewestBatch
<1>6. CASE HasRow
  <2>1. /\ Latest.says.running \in BOOLEAN /\ Latest.says.value \in Levels \cup {Null}
        /\ ~Latest.says.running => Latest.says.value = Null
    BY <1>6, LatestIsReport, ReportsOfKind DEF Latest
  <2>2. Latest.says.value # Null => Valued # {} /\ LatestValue = Latest.says.value
    <3>1. ASSUME Latest.says.value # Null PROVE Valued # {}
      BY <1>6, <3>1, LatestIsReport DEF Valued, Latest
    <3> QED BY <1>2, <3>1, LatestValueIsValue
  <2>3. ~(IsRemoved /\ InNewestBatch) /\ (IsHostReporting => IsRemoved \/ InNewestBatch)
    BY <1>1, <1>6, RemovedOrNewest
  <2>4. ChecksAgree
    <3>1. ASSUME threshold > 0, ContainerLevelTriggers PROVE ~IsRemoved /\ ~ContainerLevelResolves
      BY <1>4, <2>1, <2>2, <2>3, <3>1 DEF ContainerLevelTriggers, ContainerLevelResolves,
         LevelResolves, Levels, Null
    <3> QED BY <1>3, <3>1 DEF ChecksAgree
  <2>5. ChecksCover
    <3>1. ASSUME threshold > 0, IsHostReporting, Latest.says.value # Null, ~IsRemoved
          PROVE  ContainerLevelTriggers \/ ContainerLevelResolves
      BY <1>4, <1>6, <2>1, <2>2, <2>3, <3>1 DEF ContainerLevelTriggers, ContainerLevelResolves,
         LevelResolves, Levels, Null
    <3>2. (~IsHostReporting \/ Latest.says.value = Null) => LeftAsIs
      BY <1>1 DEF LeftAsIs
    <3> QED BY <1>1, <1>3, <3>1, <3>2 DEF ChecksCover
  <2> QED BY <2>4, <2>5 DEF ChecksPartition
<1> QED BY <1>5, <1>6

LEMMA HealthPartition ==
    ASSUME ChecksInv, kind \in HealthTypes
    PROVE  ChecksPartition
<1>1. kind \in ContainerTypes \ {"respawn_loop"} /\ kind \notin OutlivesTarget \cup AlwaysOn
  BY DEF ContainerTypes, HealthTypes, OutlivesTarget, AlwaysOn, Conditions, NodeConditions,
     PveConditions, WorkloadTypes
<1>2. /\ Triggers <=> threshold > 0 /\ (ImagePullTriggers \/ UnhealthyTriggers)
      /\ Resolves <=> IsRemoved \/ HealthResolves
  BY TriggersOfKind, ResolvesOfKind
<1>3. CASE ~HasRow
  BY <1>1, <1>2, <1>3 DEF ChecksPartition, ChecksAgree, ChecksCover, LeftAsIs, ImagePullTriggers,
     UnhealthyTriggers, InNewestBatch
<1>4. CASE HasRow
  <2>1. Latest.says.health \in {"healthy", "unhealthy", "unhealthy: image pull"}
    BY <1>4, LatestIsReport, ReportsOfKind DEF Latest
  <2>2. ~(IsRemoved /\ InNewestBatch) /\ (IsHostReporting => IsRemoved \/ InNewestBatch)
    BY <1>1, <1>4, RemovedOrNewest
  <2>3. ~((ImagePullTriggers \/ UnhealthyTriggers) /\ (IsRemoved \/ HealthResolves))
    BY <1>4, <2>2 DEF ImagePullTriggers, UnhealthyTriggers, HealthResolves
  <2>4. IsHostReporting /\ ~IsRemoved => ImagePullTriggers \/ UnhealthyTriggers \/ HealthResolves \/ LeftAsIs
    BY <1>1, <1>4, <2>1, <2>2 DEF ImagePullTriggers, UnhealthyTriggers, HealthResolves, HealthTypes, LeftAsIs
  <2>5. ~IsHostReporting => LeftAsIs
    BY <1>1 DEF LeftAsIs
  <2> QED BY <1>1, <1>2, <2>3, <2>4, <2>5 DEF ChecksPartition, ChecksAgree, ChecksCover
<1> QED BY <1>3, <1>4

\* The types that outlive their target are only to be covered.
LEMMA OutliversPartition ==
    ASSUME ChecksInv, kind \in OutlivesTarget
    PROVE  ChecksPartition
<1>1. kind \in ContainerTypes /\ kind \notin AlwaysOn
  BY DEF ContainerTypes, OutlivesTarget, AlwaysOn, Conditions, NodeConditions, PveConditions, WorkloadTypes
<1>2. CASE kind = "container_down"
  <2>1. IsHostReporting /\ HasRow /\ Latest.says.status = "running" => DownResolves
    BY <1>2 DEF DownResolves
  <2> QED BY <1>1, <1>2, <2>1, ResolvesOfKind DEF ChecksPartition, ChecksAgree, ChecksCover, LeftAsIs
<1>3. CASE kind = "restart_loop"
  <2>1. ASSUME HasRow, Older # {} PROVE Restarts \in Int
    <3>1. Len(stored) \in Nat /\ Len(stored) \in DOMAIN stored /\ DOMAIN stored = 1 .. Len(stored)
      BY <2>1, LatestIsReport
    <3>2. Older \subseteq 1 .. Len(stored) /\ Older \subseteq 0 .. Len(stored)
      BY <3>1 DEF Older
    <3>3. Max(Older) \in DOMAIN stored
      BY <2>1, <3>1, <3>2, MaxIsGreatest
    <3>4. \A i \in DOMAIN stored : stored[i].says.restarts \in 0 .. 2
      BY <1>3, ReportsOfKind
    <3> QED BY <3>1, <3>3, <3>4 DEF Restarts, Latest
  <2>2. HasRow /\ Older # {} => RestartTriggers \/ RestartResolves
    BY <1>3, <2>1 DEF RestartTriggers, RestartResolves, ChecksInv
  <2> QED BY <1>1, <1>3, <2>2, TriggersOfKind, ResolvesOfKind DEF ChecksPartition, ChecksAgree,
          ChecksCover, LeftAsIs
<1>4. CASE kind = "respawn_loop"
  BY <1>1, <1>4, TriggersOfKind, ResolvesOfKind DEF ChecksPartition, ChecksAgree, ChecksCover,
     RespawnTriggers, RespawnResolves
<1> QED BY <1>2, <1>3, <1>4 DEF OutlivesTarget

LEMMA HostLevelsPartition ==
    ASSUME ChecksInv, kind \in HostLevels
    PROVE  ChecksPartition
<1>1. kind \notin AlwaysOn
  BY DEF HostLevels, AlwaysOn, Conditions, NodeConditions, PveConditions, WorkloadTypes
<1>2. /\ Triggers <=> threshold > 0 /\ HostLevelTriggers
      /\ Resolves <=> HostLevelResolves
  BY TriggersOfKind, ResolvesOfKind
<1>3. Valued # {} => LatestValue \in Int
  <2>1. \A i \in DOMAIN stored : stored[i].says.value \in Levels \cup {Null}
    BY ReportsOfKind
  <2> QED BY <2>1, LatestValueIsValue DEF Levels
<1>4. threshold \in {0, 2}
  BY DEF ChecksInv
<1>5. ~(HostLevelTriggers /\ HostLevelResolves)
  BY <1>3, <1>4 DEF HostLevelTriggers, HostLevelResolves, LevelResolves
<1>6. Valued # {} => HostLevelTriggers \/ HostLevelResolves
  BY <1>3, <1>4 DEF HostLevelTriggers, HostLevelResolves, LevelResolves
<1>7. Valued = {} => LeftAsIs
  BY DEF LeftAsIs
<1> QED BY <1>1, <1>2, <1>5, <1>6, <1>7 DEF ChecksPartition, ChecksAgree, ChecksCover

LEMMA StoragesPartition ==
    ASSUME ChecksInv, kind \in {"disk_full", "pve_storage_saturation"}
    PROVE  ChecksPartition
<1>1. kind \notin AlwaysOn
  BY DEF AlwaysOn, Conditions, NodeConditions, PveConditions, WorkloadTypes
<1>2. HasRow => Latest.says.value \in 0 .. 3
  <2>1. \A i \in DOMAIN stored : stored[i].says.value \in Levels \cup {Null}
    BY ReportsOfKind
  <2> QED BY <2>1, LatestIsReport DEF Latest, Levels, Null
<1>3. threshold \in {0, 2}
  BY DEF ChecksInv
<1>4. CASE kind = "disk_full"
  <2>1. ~(DiskTriggers /\ DiskResolves)
    BY <1>2, <1>3 DEF DiskTriggers, DiskResolves, InNewestBatch, LevelResolves
  <2>2. DiskTriggers \/ DiskResolves \/ LeftAsIs
    BY <1>2, <1>3, <1>4 DEF DiskTriggers, DiskResolves, InNewestBatch, LevelResolves, LeftAsIs
  <2> QED BY <1>1, <1>4, <2>1, <2>2, TriggersOfKind, ResolvesOfKind DEF ChecksPartition, ChecksAgree,
          ChecksCover
<1>5. CASE kind = "pve_storage_saturation"
  <2>1. ~(StorageTriggers /\ StorageResolves)
    BY <1>2, <1>3 DEF StorageTriggers, StorageResolves, LevelResolves
  <2>2. StorageTriggers \/ StorageResolves \/ LeftAsIs
    BY <1>2, <1>3, <1>5 DEF StorageTriggers, StorageResolves, LevelResolves, LeftAsIs
  <2> QED BY <1>1, <1>5, <2>1, <2>2, TriggersOfKind, ResolvesOfKind DEF ChecksPartition, ChecksAgree,
          ChecksCover
<1> QED BY <1>4, <1>5

LEMMA ClusterPartition ==
    ASSUME ChecksInv, kind \in Conditions \cup WorkloadTypes \cup {"pod_pending"}
    PROVE  ChecksPartition
<1>1. CASE kind \in Conditions
  <2>1. ~((NodeConditionTriggers \/ PveConditionTriggers) /\ (NodeConditionResolves \/ PveConditionResolves))
    BY DEF NodeConditionTriggers, PveConditionTriggers, NodeConditionResolves, PveConditionResolves
  <2>2. \/ NodeConditionTriggers \/ PveConditionTriggers
        \/ NodeConditionResolves \/ PveConditionResolves
    BY <1>1 DEF NodeConditionTriggers, PveConditionTriggers, NodeConditionResolves,
       PveConditionResolves, Conditions
  <2> QED BY <1>1, <2>1, <2>2, TriggersOfKind, ResolvesOfKind DEF ChecksPartition, ChecksAgree, ChecksCover
<1>2. CASE kind = "pod_pending"
  <2>1. ~(PendingTriggers /\ PendingResolves) /\ (PendingTriggers \/ PendingResolves \/ LeftAsIs)
    BY <1>2 DEF PendingTriggers, PendingResolves, LeftAsIs
  <2> QED BY <1>2, <2>1, TriggersOfKind, ResolvesOfKind DEF ChecksPartition, ChecksAgree, ChecksCover
<1>3. CASE kind \in WorkloadTypes
  <2>1. CASE ~HasRow
    BY <1>3, <2>1, TriggersOfKind, ResolvesOfKind DEF ChecksPartition, ChecksAgree, ChecksCover,
       WorkloadTriggers, WorkloadResolves
  <2>2. CASE HasRow
    <3>1. Latest.says.ready \in 0 .. 2 /\ Latest.says.updated \in 0 .. 2 /\ Latest.says.exceeded \in BOOLEAN
      BY <1>3, <2>2, LatestIsReport, ReportsOfKind DEF Latest, Desired
    <3>2. ~(WorkloadTriggers /\ WorkloadResolves)
      BY <2>2, <3>1 DEF WorkloadTriggers, WorkloadResolves, Desired
    <3>3. WorkloadTriggers \/ WorkloadResolves \/ LeftAsIs
      <4>1. ~IsOld \/ (kind = "workload_rollout_stuck" /\ Latest.says.ready = 0) => LeftAsIs
        BY <1>3 DEF LeftAsIs
      <4>2. ASSUME IsOld, ~(kind = "workload_rollout_stuck" /\ Latest.says.ready = 0)
            PROVE  WorkloadTriggers \/ WorkloadResolves
        BY <1>3, <2>2, <3>1, <4>2 DEF WorkloadTriggers, WorkloadResolves, WorkloadTypes, Desired
      <4> QED BY <4>1, <4>2
    <3> QED BY <1>3, <3>2, <3>3, TriggersOfKind, ResolvesOfKind DEF ChecksPartition, ChecksAgree, ChecksCover
  <2> QED BY <2>1, <2>2
<1> QED BY <1>1, <1>2, <1>3

LEMMA BackupPartition ==
    ASSUME ChecksInv, kind = "pve_backup_overdue"
    PROVE  ChecksPartition
<1> DEFINE backup == Latest.says
<1>1. kind \notin AlwaysOn
  BY DEF AlwaysOn, Conditions, NodeConditions, PveConditions, WorkloadTypes
<1>2. /\ Triggers <=> threshold > 0 /\ BackupTriggers
      /\ Resolves <=> BackupResolves
  BY TriggersOfKind, ResolvesOfKind
<1>3. CASE ~HasRow
  BY <1>2, <1>3 DEF BackupTriggers, BackupResolves, ChecksPartition, ChecksAgree, ChecksCover
<1>4. CASE HasRow
  <2>1. \/ backup.last = -1 /\ backup.status = "NEVER"
        \/ backup.last \in 0 .. time /\ backup.status \in {"OK", "FAILED"}
    BY <1>4, LatestIsReport, ReportsOfKind DEF Latest
  <2>2. time \in Nat /\ backup.last \in Int
    BY <2>1 DEF ChecksInv
  <2> HIDE DEF backup
  <2>3. IsoBefore(backup.last, time - AgeLimit) => backup.last < time - AgeLimit
    BY <2>2 DEF IsoBefore, DayLength, AgeLimit
  <2>4. /\ ~IsoBefore(backup.last, time - AgeLimit)
        /\ backup.last \div DayLength # (time - AgeLimit) \div DayLength
        => backup.last >= time - AgeLimit
    BY <2>2 DEF IsoBefore, DayLength, AgeLimit
  <2>5. time - AgeLimit \in Int
    BY <2>2 DEF AgeLimit
  <2>6. ASSUME threshold > 0 PROVE ~(BackupTriggers /\ BackupResolves)
    <3>1. BackupResolves => backup.status = "NEVER" \/ backup.last >= time - AgeLimit
      BY <1>4, <2>6 DEF BackupResolves, backup
    <3>2. BackupTriggers => backup.last # -1 /\ IsoBefore(backup.last, time - AgeLimit)
      BY DEF BackupTriggers, backup
    <3> QED BY <2>1, <2>2, <2>3, <2>5, <3>1, <3>2
  <2>7. ASSUME threshold > 0 PROVE BackupTriggers \/ BackupResolves \/ LeftAsIs
    <3>1. backup.last # -1 /\ IsoBefore(backup.last, time - AgeLimit) => BackupTriggers
      BY <1>4 DEF BackupTriggers, backup
    <3>2. backup.status = "NEVER" \/ (backup.status = "OK" /\ backup.last >= time - AgeLimit) => BackupResolves
      BY <2>7 DEF BackupResolves, backup
    <3>3. \/ backup.status = "FAILED"
          \/ backup.last \div DayLength = (time - AgeLimit) \div DayLength
          => LeftAsIs
      BY DEF LeftAsIs, backup
    <3> QED BY <2>1, <2>4, <3>1, <3>2, <3>3
  <2> QED BY <1>1, <1>2, <2>6, <2>7 DEF ChecksPartition, ChecksAgree, ChecksCover
<1> QED BY <1>3, <1>4

LEMMA ChecksInvShares == ChecksInv => ChecksPartition
BY ContainerLevelsPartition, HealthPartition, OutliversPartition, HostLevelsPartition,
   StoragesPartition, ClusterPartition, BackupPartition
   DEF ChecksInv, AlertKinds, ContainerTypes, Upserted, OutlivesTarget

\* ChecksPartition holds for every length of history: in the types whose target is not gone with
\* its host's listing, the two lists of evaluator.ts never hold the same open alert, and between
\* them they decide every state but those of LeftAsIs.
THEOREM ChecksShareOut == ChecksSpec => []ChecksPartition
<1>1. ChecksInit => ChecksInv
  BY ChecksInvInit
<1>2. ChecksInv /\ [ChecksNext]_checkVars => ChecksInv'
  BY ChecksInvNext
<1>3. ChecksInv => ChecksPartition
  BY ChecksInvShares
<1> QED BY <1>1, <1>2, <1>3, PTL DEF ChecksSpec

(***************************************************************************)
(* Requests to an agent, for any number of them and any limits of time.    *)
(***************************************************************************)

RequestsShape ==
    /\ clock \in Nat /\ faults \in Nat /\ online \in BOOLEAN
    /\ \E n \in 0 .. MaxRequests : Ids = 1 .. n
    /\ request \in [Ids -> Request]
    /\ arrived \in [Ids -> Nat]

MessagesShape ==
    /\ outbox \subseteq Ids /\ toAgent \subseteq Ids /\ carried \subseteq Ids
    /\ outbox \cap toAgent = {}
    /\ tasks \subseteq Task /\ toHub \subseteq Answer
    /\ (\A t \in tasks : t.id \in Ids) /\ (\A m \in toHub : m.id \in Ids)
    /\ fetching \subseteq Container /\ cached \subseteq Container

\* Who says "ok" has carried the request out.
OkIsCarried ==
    /\ \A t \in tasks : t.finished = "ok" => t.id \in carried
    /\ \A m \in toHub : m.says = "ok" => m.id \in carried

\* The hub gave up on a request when its time was over, and it stays over.
TimeoutsAreDue == \A r \in Ids : request[r].outcome = "timed out" => TimerDue(r)

RequestsInv ==
    RequestsShape /\ MessagesShape /\ OkIsCarried /\ AnswerIsOwn /\ TimeoutsAreDue

LEMMA RequestsInvTypes == RequestsInv => RequestsTypeOK
<1> SUFFICES ASSUME RequestsInv PROVE RequestsTypeOK
  OBVIOUS
<1>1. Ids \subseteq 1 .. MaxRequests
  BY RequestsAssumption DEF RequestsInv, RequestsShape
<1>2. \A r \in Ids : request[r] \in Request
  BY DEF RequestsInv, RequestsShape
<1>3. DOMAIN arrived = Ids /\ \A r \in Ids : arrived[r] \in Nat
  BY DEF RequestsInv, RequestsShape
<1> QED
  BY <1>1, <1>2, <1>3 DEF RequestsInv, RequestsShape, MessagesShape, RequestsTypeOK

LEMMA RequestsInvInit == RequestsInit => RequestsInv
<1> SUFFICES ASSUME RequestsInit PROVE RequestsInv
  OBVIOUS
<1>1. Ids = {} /\ {} = 1 .. 0 /\ 0 \in 0 .. MaxRequests
  BY RequestsAssumption DEF RequestsInit, Ids
<1>2. RequestsShape
  BY <1>1 DEF RequestsInit, RequestsShape
<1>3. MessagesShape /\ OkIsCarried
  BY <1>1 DEF RequestsInit, MessagesShape, OkIsCarried
<1>4. AnswerIsOwn /\ TimeoutsAreDue
  BY <1>1 DEF AnswerIsOwn, TimeoutsAreDue
<1> QED BY <1>2, <1>3, <1>4 DEF RequestsInv

LEMMA WithOutcome ==
    ASSUME NEW q \in Request, NEW outcome \in Outcome
    PROVE  LET p == [q EXCEPT !.outcome = outcome]
           IN  p \in Request /\ p.outcome = outcome /\ p.kind = q.kind /\ p.at = q.at
BY DEF Request

\* Ids are counted, so the next one is new.
LEMMA NextIdIsNew ==
    ASSUME RequestsShape
    PROVE  /\ NextId \notin Ids
           /\ NextId <= MaxRequests => \E n \in 0 .. MaxRequests : Ids \cup {NextId} = 1 .. n
<1>1. PICK n \in 0 .. MaxRequests : Ids = 1 .. n
  BY DEF RequestsShape
<1>2. Cardinality(1 .. n) = n
  <2>1. Cardinality(1 .. n) = IF 1 > n THEN 0 ELSE n - 1 + 1
    BY <1>1, FS_Interval
  <2> QED BY <1>1, <2>1, RequestsAssumption
<1>3. NextId = n + 1
  BY <1>1, <1>2 DEF NextId
<1>4. Ids \cup {NextId} = 1 .. n + 1
  BY <1>1, <1>3, RequestsAssumption
<1> QED BY <1>1, <1>3, <1>4, RequestsAssumption

\* A request that is new leaves the others alone, and claims nothing.
LEMMA MadeKeepsRequests ==
    ASSUME RequestsInv, NEW command \in Kinds, NEW by \in {"page", "fetch"}, NEW c \in Container,
           NEW outcome \in Outcome, outcome = "ok" => command = "check", outcome # "timed out",
           Made(command, by, c, outcome)
    PROVE  /\ Ids' = Ids \cup {NextId}
           /\ RequestsShape' /\ AnswerIsOwn' /\ TimeoutsAreDue'
<1> DEFINE new == [kind |-> command, by |-> by, about |-> c, at |-> clock, outcome |-> outcome]
<1>1. new \in Request
  BY DEF Request, RequestsInv, RequestsShape
<1>2. /\ request' = [r \in Ids \cup {NextId} |-> IF r = NextId THEN new ELSE request[r]]
      /\ arrived' = [r \in Ids \cup {NextId} |-> IF r = NextId THEN 0 ELSE arrived[r]]
      /\ NextId <= MaxRequests
      /\ UNCHANGED <<clock, online, carried, faults>>
  BY DEF Made
<1>3. Ids' = Ids \cup {NextId}
  BY <1>2 DEF Ids
<1>4. NextId \notin Ids /\ \E n \in 0 .. MaxRequests : Ids \cup {NextId} = 1 .. n
  BY <1>2, NextIdIsNew DEF RequestsInv
<1>5. /\ request'[NextId] = new
      /\ \A r \in Ids : request'[r] = request[r]
  BY <1>2, <1>4
<1>6. request' \in [Ids' -> Request]
  <2> HIDE DEF new
  <2> QED BY <1>1, <1>2, <1>3, <1>4 DEF RequestsInv, RequestsShape
<1>7. arrived' \in [Ids' -> Nat]
  BY <1>2, <1>3, <1>4 DEF RequestsInv, RequestsShape
<1>8. RequestsShape'
  BY <1>2, <1>3, <1>4, <1>6, <1>7 DEF RequestsInv, RequestsShape
<1>9. AnswerIsOwn'
  BY <1>2, <1>3, <1>5 DEF RequestsInv, AnswerIsOwn
<1>10. TimeoutsAreDue'
  BY <1>2, <1>3, <1>5 DEF RequestsInv, TimeoutsAreDue, TimerDue
<1> QED BY <1>3, <1>8, <1>9, <1>10

\* A request that settles does so with "ok" when it was carried out, with "timed out"
\* when its time is over.
LEMMA SettleKeepsRequests ==
    ASSUME RequestsInv, NEW r \in Ids, NEW outcome \in Outcome,
           outcome = "ok" => r \in carried, outcome = "timed out" => TimerDue(r),
           Settle(r, outcome), UNCHANGED <<clock, online, arrived, carried>>, faults' \in Nat
    PROVE  /\ Ids' = Ids
           /\ RequestsShape' /\ AnswerIsOwn' /\ TimeoutsAreDue'
           /\ fetching' \subseteq Container /\ cached' \subseteq Container
<1>1. request' = [request EXCEPT ![r].outcome = outcome] /\ request \in [Ids -> Request]
  BY DEF Settle, RequestsInv, RequestsShape
<1>2. Ids' = Ids
  BY <1>1 DEF Ids
<1>3. /\ \A q \in Ids \ {r} : request'[q] = request[q]
      /\ request'[r] = [request[r] EXCEPT !.outcome = outcome]
  BY <1>1
<1>4. /\ request'[r] \in Request
      /\ request'[r].outcome = outcome
      /\ request'[r].at = request[r].at /\ request'[r].kind = request[r].kind
  BY <1>1, <1>3, WithOutcome
<1>5. request' \in [Ids -> Request]
  BY <1>1, <1>3, <1>4
<1>6. RequestsShape'
  BY <1>2, <1>5 DEF RequestsInv, RequestsShape
<1>7. AnswerIsOwn'
  BY <1>2, <1>3, <1>4 DEF RequestsInv, AnswerIsOwn
<1>8. TimeoutsAreDue'
  BY <1>2, <1>3, <1>4 DEF RequestsInv, TimeoutsAreDue, TimerDue
<1>9. request[r].about \in Container
  BY <1>1 DEF Request
<1>10. fetching' \subseteq Container /\ cached' \subseteq Container
  BY <1>9 DEF Settle, Released, RequestsInv, MessagesShape
<1> QED BY <1>2, <1>6, <1>7, <1>8, <1>10

\* Time does not go back.
LEMMA TimersStayDue ==
    ASSUME RequestsShape, UNCHANGED request, clock' \in Nat, clock' >= clock,
           NEW r \in Ids, TimerDue(r)
    PROVE  TimerDue(r)'
<1>1. request[r].at \in Nat /\ request[r].kind \in Kinds
  BY DEF RequestsShape, Request
<1>2. Timeout[request[r].kind] \in Nat
  BY <1>1, RequestsAssumption
<1>3. clock - request[r].at >= Timeout[request[r].kind] /\ clock \in Nat
  BY DEF TimerDue, RequestsShape
<1>4. clock' - request[r].at >= Timeout[request[r].kind]
  BY <1>1, <1>2, <1>3
<1> QED BY <1>4 DEF TimerDue

\* No request changes.
LEMMA UnsettledKeepsRequests ==
    ASSUME RequestsInv, UNCHANGED <<request, online>>, clock' \in Nat, clock' >= clock,
           arrived' \in [Ids -> Nat], faults' \in Nat, carried \subseteq carried'
    PROVE  /\ Ids' = Ids
           /\ RequestsShape' /\ AnswerIsOwn' /\ TimeoutsAreDue'
<1>1. Ids' = Ids
  BY DEF Ids
<1>2. RequestsShape'
  BY <1>1 DEF RequestsInv, RequestsShape
<1>3. AnswerIsOwn'
  BY <1>1 DEF RequestsInv, AnswerIsOwn
<1>4. TimeoutsAreDue'
  BY <1>1, TimersStayDue DEF RequestsInv, TimeoutsAreDue
<1> QED BY <1>1, <1>2, <1>3, <1>4

-----------------------------------------------------------------------------
(* The steps.                                                              *)

LEMMA AskingKeepsInv ==
    ASSUME RequestsInv, NEW c \in Container,
           \/ RequestLogs(c, "page") \/ FetchLogs(c) \/ RequestUpdateCheck(c)
           \/ \E command \in {"action", "update"} : RequestCommand(command, c)
    PROVE  RequestsInv'
<1>1. PICK command \in Kinds, by \in {"page", "fetch"}, outcome \in Outcome :
        /\ Made(command, by, c, outcome)
        /\ outcome = "ok" => command = "check"
        /\ outcome # "timed out"
        /\ outbox' \in {outbox, outbox \cup {NextId}}
        /\ toAgent' \in {toAgent, toAgent \cup {NextId}}
        /\ outbox' = outbox \/ toAgent' = toAgent
        /\ fetching' \subseteq fetching \cup {c}
  <2>1. CASE RequestLogs(c, "page")
    BY <2>1 DEF RequestLogs, Kinds, Outcome, Answers
  <2>2. CASE FetchLogs(c)
    BY <2>2 DEF FetchLogs, RequestLogs, Kinds, Outcome, Answers
  <2>3. CASE RequestUpdateCheck(c)
    BY <2>3 DEF RequestUpdateCheck, Kinds, Outcome, Answers
  <2>4. CASE \E command \in {"action", "update"} : RequestCommand(command, c)
    BY <2>4 DEF RequestCommand, Kinds, Outcome, Answers
  <2> QED BY <2>1, <2>2, <2>3, <2>4
<1>2. /\ Ids' = Ids \cup {NextId}
      /\ RequestsShape' /\ AnswerIsOwn' /\ TimeoutsAreDue'
  BY <1>1, MadeKeepsRequests
<1>3. NextId \notin Ids
  BY NextIdIsNew DEF RequestsInv
<1>4. UNCHANGED <<tasks, carried, toHub, cached>>
  BY <1>1 DEF Made
<1>5. MessagesShape'
  BY <1>1, <1>2, <1>3, <1>4 DEF RequestsInv, MessagesShape
<1>6. OkIsCarried'
  BY <1>4 DEF RequestsInv, OkIsCarried
<1> QED BY <1>2, <1>5, <1>6 DEF RequestsInv

LEMMA TimeOutKeepsInv ==
    ASSUME RequestsInv, NEW r \in Ids, TimeOut(r)
    PROVE  RequestsInv'
<1>1. /\ Settle(r, "timed out") /\ TimerDue(r)
      /\ UNCHANGED <<clock, online, outbox, toAgent, arrived, tasks, carried, toHub, faults>>
  BY DEF TimeOut
<1>2. "timed out" \in Outcome /\ faults' \in Nat
  BY <1>1 DEF Outcome, RequestsInv, RequestsShape
<1>3. /\ Ids' = Ids
      /\ RequestsShape' /\ AnswerIsOwn' /\ TimeoutsAreDue'
      /\ fetching' \subseteq Container /\ cached' \subseteq Container
  BY <1>1, <1>2, SettleKeepsRequests
<1>4. MessagesShape' /\ OkIsCarried'
  BY <1>1, <1>3 DEF RequestsInv, MessagesShape, OkIsCarried
<1> QED BY <1>3, <1>4 DEF RequestsInv

LEMMA PublishFailsKeepsInv ==
    ASSUME RequestsInv, NEW r \in Ids, PublishFails(r)
    PROVE  RequestsInv'
<1>1. /\ outbox' = outbox \ {r}
      /\ UNCHANGED <<clock, online, toAgent, arrived, tasks, carried, toHub, faults>>
  BY DEF PublishFails
<1>2. /\ Ids' = Ids
      /\ RequestsShape' /\ AnswerIsOwn' /\ TimeoutsAreDue'
      /\ fetching' \subseteq Container /\ cached' \subseteq Container
  <2>1. CASE Settle(r, "not sent")
    <3>1. "not sent" \in Outcome /\ faults' \in Nat
      BY <1>1 DEF Outcome, RequestsInv, RequestsShape
    <3> QED BY <1>1, <2>1, <3>1, SettleKeepsRequests
  <2>2. CASE Unsettled
    <3>1. /\ UNCHANGED <<request, online, fetching, cached>> /\ clock' \in Nat /\ clock' >= clock
          /\ arrived' \in [Ids -> Nat] /\ faults' \in Nat /\ carried \subseteq carried'
      BY <1>1, <2>2 DEF Unsettled, RequestsInv, RequestsShape
    <3> QED BY <3>1, UnsettledKeepsRequests DEF RequestsInv, MessagesShape
  <2> QED BY <2>1, <2>2 DEF PublishFails
<1>3. MessagesShape' /\ OkIsCarried'
  BY <1>1, <1>2 DEF RequestsInv, MessagesShape, OkIsCarried
<1> QED BY <1>2, <1>3 DEF RequestsInv

LEMMA HandleResponseKeepsInv ==
    ASSUME RequestsInv, NEW m \in toHub, HandleResponse(m)
    PROVE  RequestsInv'
<1>1. /\ UNCHANGED <<clock, online, outbox, toAgent, arrived, tasks, carried>>
      /\ toHub' \subseteq toHub /\ faults' \in Nat
  BY DEF HandleResponse, Delivered, Fault, RequestsInv, RequestsShape
<1>2. /\ Ids' = Ids
      /\ RequestsShape' /\ AnswerIsOwn' /\ TimeoutsAreDue'
      /\ fetching' \subseteq Container /\ cached' \subseteq Container
  <2>1. CASE \E r \in Addressees(m) : Settle(r, m.says)
    <3>1. PICK r \in Ids : r = m.id /\ Settle(r, m.says)
      BY <2>1 DEF Addressees
    <3>2. m.says \in Outcome /\ m.says # "timed out"
      BY DEF Outcome, Answers, Answer, RequestsInv, MessagesShape
    <3>3. m.says = "ok" => r \in carried
      BY <3>1 DEF RequestsInv, OkIsCarried
    <3> QED BY <1>1, <3>1, <3>2, <3>3, SettleKeepsRequests
  <2>2. CASE Unsettled
    <3>1. /\ UNCHANGED <<request, online, fetching, cached>> /\ clock' \in Nat /\ clock' >= clock
          /\ arrived' \in [Ids -> Nat] /\ carried \subseteq carried'
      BY <1>1, <2>2 DEF Unsettled, RequestsInv, RequestsShape
    <3> QED BY <1>1, <3>1, UnsettledKeepsRequests DEF RequestsInv, MessagesShape
  <2> QED BY <2>1, <2>2 DEF HandleResponse
<1>3. MessagesShape' /\ OkIsCarried'
  BY <1>1, <1>2 DEF RequestsInv, MessagesShape, OkIsCarried
<1> QED BY <1>2, <1>3 DEF RequestsInv

\* What the agent, the broker and the clock do to the requests: nothing.
LEMMA ReceiveKeepsInv ==
    ASSUME RequestsInv, NEW r \in Ids, Receive(r)
    PROVE  RequestsInv'
<1>1. /\ UNCHANGED <<clock, online, request, outbox, carried, toHub, fetching, cached>>
      /\ arrived' = [arrived EXCEPT ![r] = @ + 1]
      /\ toAgent' \subseteq toAgent /\ faults' \in Nat
      /\ tasks' \subseteq tasks \cup {Begins(r)}
  BY DEF Receive, Delivered, Fault, RequestsInv, RequestsShape
<1>2. arrived' \in [Ids -> Nat] /\ clock' \in Nat /\ clock' >= clock
  BY <1>1 DEF RequestsInv, RequestsShape
<1>3. Ids' = Ids /\ RequestsShape' /\ AnswerIsOwn' /\ TimeoutsAreDue'
  BY <1>1, <1>2, UnsettledKeepsRequests
<1>4. Begins(r) \in Task /\ Begins(r).id = r /\ Begins(r).finished = "no"
  <2>1. r \in Nat /\ arrived[r] + 1 \in Nat
    BY RequestsAssumption DEF RequestsInv, RequestsShape
  <2> QED BY <2>1 DEF Begins, Task
<1>5. MessagesShape'
  BY <1>1, <1>3, <1>4 DEF RequestsInv, MessagesShape
<1>6. OkIsCarried'
  BY <1>1, <1>4 DEF RequestsInv, OkIsCarried
<1> QED BY <1>3, <1>5, <1>6 DEF RequestsInv

LEMMA CarryKeepsInv ==
    ASSUME RequestsInv, NEW t \in tasks, NEW says \in Answers, Carry(t, says)
    PROVE  RequestsInv'
<1> DEFINE u == [t EXCEPT !.finished = says]
<1>1. /\ UNCHANGED <<clock, online, request, outbox, toAgent, arrived, toHub, fetching, cached, faults>>
      /\ tasks' = (tasks \ {t}) \cup {u}
      /\ carried' = IF says = "ok" THEN carried \cup {t.id} ELSE carried
  BY DEF Carry
<1>2. t \in Task /\ t.id \in Ids
  BY DEF RequestsInv, MessagesShape
<1>3. u \in Task /\ u.id = t.id /\ u.finished = says
  BY <1>2 DEF Task
<1> HIDE DEF u
<1>4. /\ clock' \in Nat /\ clock' >= clock /\ faults' \in Nat
      /\ arrived' \in [Ids -> Nat] /\ carried \subseteq carried'
  BY <1>1 DEF RequestsInv, RequestsShape
<1>5. Ids' = Ids /\ RequestsShape' /\ AnswerIsOwn' /\ TimeoutsAreDue'
  BY <1>1, <1>4, UnsettledKeepsRequests
<1>6. MessagesShape'
  BY <1>1, <1>2, <1>3, <1>5 DEF RequestsInv, MessagesShape
<1>7. OkIsCarried'
  BY <1>1, <1>3 DEF RequestsInv, OkIsCarried
<1> QED BY <1>5, <1>6, <1>7 DEF RequestsInv

LEMMA RespondKeepsInv ==
    ASSUME RequestsInv, NEW t \in tasks, Respond(t)
    PROVE  RequestsInv'
<1> DEFINE m == [id |-> t.id, kind |-> request[t.id].kind, says |-> t.finished]
<1>1. /\ UNCHANGED <<clock, online, request, outbox, toAgent, arrived, carried, fetching, cached, faults>>
      /\ tasks' = tasks \ {t} /\ t.finished # "no"
      /\ toHub' \subseteq toHub \cup {m}
  BY DEF Respond
<1>2. t \in Task /\ t.id \in Ids /\ request[t.id] \in Request
  BY DEF RequestsInv, MessagesShape, RequestsShape
<1>3. m \in Answer /\ m.id = t.id /\ m.says = t.finished
  BY <1>1, <1>2 DEF Task, Request, Answer
<1> HIDE DEF m
<1>4. /\ clock' \in Nat /\ clock' >= clock /\ faults' \in Nat
      /\ arrived' \in [Ids -> Nat] /\ carried \subseteq carried'
  BY <1>1 DEF RequestsInv, RequestsShape
<1>5. Ids' = Ids /\ RequestsShape' /\ AnswerIsOwn' /\ TimeoutsAreDue'
  BY <1>1, <1>4, UnsettledKeepsRequests
<1>6. MessagesShape'
  BY <1>1, <1>2, <1>3, <1>5 DEF RequestsInv, MessagesShape
<1>7. OkIsCarried'
  BY <1>1, <1>3 DEF RequestsInv, OkIsCarried
<1> QED BY <1>5, <1>6, <1>7 DEF RequestsInv

LEMMA HubRestartsKeepsInv ==
    ASSUME RequestsInv, HubRestarts
    PROVE  RequestsInv'
<1>1. /\ outbox' = {} /\ fetching' = {} /\ cached' = {} /\ online' = FALSE
      /\ UNCHANGED <<clock, toAgent, arrived, tasks, carried, toHub>> /\ faults' \in Nat
  BY DEF HubRestarts, Fault, RequestsInv, RequestsShape
<1>2. Ids' = Ids
  BY DEF HubRestarts, Ids
<1>3. \A r \in Ids :
        /\ request'[r] \in Request
        /\ request'[r].kind = request[r].kind /\ request'[r].at = request[r].at
        /\ request'[r].outcome \in {request[r].outcome, "disconnecting", "lost"}
  <2> SUFFICES ASSUME NEW r \in Ids
               PROVE  /\ request'[r] \in Request
                      /\ request'[r].kind = request[r].kind /\ request'[r].at = request[r].at
                      /\ request'[r].outcome \in {request[r].outcome, "disconnecting", "lost"}
    OBVIOUS
  <2>1. request[r] \in Request
    BY DEF RequestsInv, RequestsShape
  <2>2. \/ request'[r] = request[r]
        \/ \E outcome \in {"disconnecting", "lost"} :
              request'[r] = [request[r] EXCEPT !.outcome = outcome]
    BY DEF HubRestarts
  <2>3. "disconnecting" \in Outcome /\ "lost" \in Outcome
    BY DEF Outcome
  <2>4. CASE request'[r] = request[r]
    BY <2>1, <2>4
  <2>5. ASSUME NEW outcome \in {"disconnecting", "lost"},
               request'[r] = [request[r] EXCEPT !.outcome = outcome]
        PROVE  /\ request'[r] \in Request
               /\ request'[r].kind = request[r].kind /\ request'[r].at = request[r].at
               /\ request'[r].outcome = outcome
    BY <2>1, <2>3, <2>5, WithOutcome
  <2> QED BY <2>2, <2>4, <2>5
<1>4. request' \in [Ids -> Request]
  BY <1>3 DEF HubRestarts
<1>5. RequestsShape'
  BY <1>1, <1>2, <1>4 DEF RequestsInv, RequestsShape
<1>6. AnswerIsOwn'
  BY <1>1, <1>2, <1>3 DEF RequestsInv, AnswerIsOwn
<1>7. TimeoutsAreDue'
  BY <1>1, <1>2, <1>3 DEF RequestsInv, TimeoutsAreDue, TimerDue
<1>8. MessagesShape' /\ OkIsCarried'
  BY <1>1, <1>2 DEF RequestsInv, MessagesShape, OkIsCarried
<1> QED BY <1>5, <1>6, <1>7, <1>8 DEF RequestsInv

LEMMA ConnectionKeepsInv ==
    ASSUME RequestsInv, Tick \/ GoOffline \/ Reconnect \/ AgentRestarts \/ UNCHANGED requestVars
    PROVE  RequestsInv'
<1>0. clock \in Nat /\ clock + 1 \in Nat /\ faults \in Nat /\ faults + 1 \in Nat
  BY DEF RequestsInv, RequestsShape
<1>1. /\ UNCHANGED <<request, arrived, carried, fetching, cached>>
      /\ clock' \in Nat /\ clock' >= clock /\ faults' \in Nat
      /\ online' = online \/ online' = TRUE \/ online' = FALSE
      /\ tasks' \subseteq tasks /\ toHub' \subseteq toHub
      /\ \/ outbox' = outbox /\ toAgent' = toAgent
         \/ outbox' = {} /\ toAgent' = toAgent \cup outbox
  <2>1. CASE Tick
    BY <1>0, <2>1 DEF Tick
  <2>2. CASE GoOffline
    <3>1. /\ UNCHANGED <<clock, request, outbox, toAgent, arrived, tasks, carried, toHub,
                         fetching, cached>>
          /\ faults' = faults + 1 /\ online' = FALSE
      BY <2>2 DEF GoOffline, Fault
    <3> QED BY <1>0, <3>1
  <2>3. CASE Reconnect
    BY <1>0, <2>3 DEF Reconnect
  <2>4. CASE AgentRestarts
    BY <1>0, <2>4 DEF AgentRestarts, Fault
  <2>5. CASE UNCHANGED requestVars
    BY <1>0, <2>5 DEF requestVars
  <2> QED BY <2>1, <2>2, <2>3, <2>4, <2>5
<1>2. Ids' = Ids
  BY <1>1 DEF Ids
<1>3. RequestsShape'
  BY <1>1, <1>2 DEF RequestsInv, RequestsShape
<1>4. AnswerIsOwn'
  BY <1>1, <1>2 DEF RequestsInv, AnswerIsOwn
<1>5. TimeoutsAreDue'
  <2> SUFFICES ASSUME NEW r \in Ids, request[r].outcome = "timed out" PROVE TimerDue(r)'
    BY <1>1, <1>2 DEF TimeoutsAreDue
  <2>1. TimerDue(r)
    BY DEF RequestsInv, TimeoutsAreDue
  <2> QED BY <1>1, <2>1, TimersStayDue DEF RequestsInv
<1>6. MessagesShape' /\ OkIsCarried'
  BY <1>1, <1>2 DEF RequestsInv, MessagesShape, OkIsCarried
<1> QED BY <1>3, <1>4, <1>5, <1>6 DEF RequestsInv

LEMMA RequestsInvNext ==
    ASSUME RequestsInv, [RequestsNext]_requestVars
    PROVE  RequestsInv'
<1>1. CASE \E c \in Container :
        \/ RequestLogs(c, "page") \/ FetchLogs(c) \/ RequestUpdateCheck(c)
        \/ \E command \in {"action", "update"} : RequestCommand(command, c)
  BY <1>1, AskingKeepsInv
<1>2. CASE \E r \in Ids : TimeOut(r) \/ PublishFails(r) \/ Receive(r)
  BY <1>2, TimeOutKeepsInv, PublishFailsKeepsInv, ReceiveKeepsInv
<1>3. CASE \E m \in toHub : HandleResponse(m)
  BY <1>3, HandleResponseKeepsInv
<1>4. CASE \E t \in tasks : Respond(t) \/ \E says \in Answers : Carry(t, says)
  BY <1>4, RespondKeepsInv, CarryKeepsInv
<1>5. CASE HubRestarts
  BY <1>5, HubRestartsKeepsInv
<1>6. CASE Tick \/ GoOffline \/ Reconnect \/ AgentRestarts \/ UNCHANGED requestVars
  BY <1>6, ConnectionKeepsInv
<1> QED BY <1>1, <1>2, <1>3, <1>4, <1>5, <1>6 DEF RequestsNext

\* The state part of "a request settles with what became of it" (mqtt.ts of both): nobody
\* is told "ok" of a request that was not carried out, whatever is late, lost, delivered
\* twice or cut off by a restart.
THEOREM AnswersAreOwn == RequestsSpec => [](RequestsTypeOK /\ AnswerIsOwn)
<1>1. RequestsInit => RequestsInv
  BY RequestsInvInit
<1>2. RequestsInv /\ [RequestsNext]_requestVars => RequestsInv'
  BY RequestsInvNext
<1>3. RequestsInv => RequestsTypeOK /\ AnswerIsOwn
  BY RequestsInvTypes DEF RequestsInv
<1> QED BY <1>1, <1>2, <1>3, PTL DEF RequestsSpec

\* An update that is fresh enough for the agent is not given up by the hub.
LEMMA FreshUpdatesAreAwaited ==
    ASSUME RequestsInv, NEW r \in Ids, request[r].kind = "update", ~IsStale(r)
    PROVE  request[r].outcome # "timed out"
<1>1. request[r].at \in Nat /\ clock \in Nat
  BY DEF RequestsInv, RequestsShape, Request
<1>2. Timeout["update"] \in Nat
  BY RequestsAssumption DEF Kinds
<1>3. clock + AgentClock - request[r].at <= StaleAfter
  BY <1>1, RequestsAssumption DEF IsStale
<1>4. ~(clock - request[r].at >= Timeout["update"])
  BY <1>1, <1>2, <1>3, RequestsAssumption
<1> QED BY <1>4 DEF RequestsInv, TimeoutsAreDue, TimerDue

\* An update begins only when it is received, and fresh.
LEMMA UpdatesBeginInTime ==
    RequestsInv /\ [RequestsNext]_requestVars =>
            [\A t \in tasks' \ tasks : t.finished = "no" /\ request[t.id].kind = "update"
                => request[t.id].outcome # "timed out"]_requestVars
<1>1. ASSUME RequestsInv, [RequestsNext]_requestVars,
             NEW t \in tasks' \ tasks, t.finished = "no", request[t.id].kind = "update"
      PROVE  request[t.id].outcome # "timed out"
  <2>1. CASE \E r \in Ids : Receive(r)
    <3>1. PICK r \in Ids : Receive(r)
      BY <2>1
    <3>2. t = Begins(r) /\ ~IsStale(r)
      BY <1>1, <3>1 DEF Receive
    <3>3. t.id = r
      BY <3>2 DEF Begins
    <3> QED BY <1>1, <3>2, <3>3, FreshUpdatesAreAwaited
  <2>2. CASE \E u \in tasks : \E says \in Answers : Carry(u, says)
    <3>1. PICK u \in tasks, says \in Answers : Carry(u, says)
      BY <2>2
    <3>2. u \in Task /\ t = [u EXCEPT !.finished = says]
      BY <1>1, <3>1 DEF Carry, RequestsInv, MessagesShape
    <3>3. t.finished = says
      BY <3>2 DEF Task
    <3> QED BY <1>1, <3>3 DEF Answers
  <2>3. CASE tasks' \subseteq tasks
    BY <2>3
  <2>4. ASSUME NEW c \in Container, NEW command, NEW by
        PROVE  RequestLogs(c, by) \/ RequestUpdateCheck(c) \/ RequestCommand(command, c)
                    => tasks' = tasks
    BY DEF RequestLogs, RequestUpdateCheck, RequestCommand, Made
  <2>5. \/ tasks' \subseteq tasks
        \/ \E r \in Ids : Receive(r)
        \/ \E u \in tasks : \E says \in Answers : Carry(u, says)
    BY <1>1, <2>4 DEF RequestsNext, FetchLogs, TimeOut, PublishFails, HandleResponse, Respond,
       Tick, GoOffline, Reconnect, HubRestarts, AgentRestarts, requestVars
  <2> QED BY <2>1, <2>2, <2>3, <2>5
<1> QED BY <1>1

\* The action property of the agent's limit of age against the hub's timer (mqtt.ts of the
\* agent "stale"): an update nobody waits for any more is not begun, for any two limits
\* and any difference of the clocks that RequestsAssumption allows.
THEOREM NoLateUpdates == RequestsSpec => NoUpdateAfterTimeout
BY RequestsInvInit, RequestsInvNext, UpdatesBeginInTime, PTL DEF RequestsSpec, NoUpdateAfterTimeout

(***************************************************************************)
(* Links of hosts, for any nodes, guests and identities.                   *)
(***************************************************************************)

LinkShape ==
    /\ listing \in [Node -> SUBSET SUBSET Guest]
    /\ override \in [Host -> SUBSET Place]
    /\ link \in [Host -> SUBSET Place]
    /\ IsFiniteSet(guestRows)

OverridesAreSet == \A h \in Host : override[h] # {} => h \in everSet

LinkInv == LinkShape /\ LinkTypeOK /\ OverridesAreSet /\ NotLinkedToAnother

LEMMA OptionOfOne ==
    ASSUME NEW T, NEW x \in T
    PROVE  IsOption({x}, T) /\ IsOption({}, T)
<1>1. Cardinality({x}) = 1 /\ Cardinality({}) = 0
  BY FS_Singleton, FS_EmptySet
<1> QED BY <1>1 DEF IsOption

LEMMA SingleIsOption ==
    ASSUME NEW S, NEW T, S \subseteq T
    PROVE  IsOption(Single(S), T) /\ Single(S) \subseteq S
<1>1. Cardinality({}) = 0
  BY FS_EmptySet
<1> QED BY <1>1 DEF IsOption, Single

\* A single candidate is the one that is known to be a candidate.
LEMMA SingleIsIt ==
    ASSUME NEW S, IsFiniteSet(S), NEW own \in S, NEW spot \in Single(S)
    PROVE  spot = own
<1>1. Cardinality(S) = 1 /\ spot \in S
  BY DEF Single
<1>2. \E x : S = {x}
  BY <1>1, FS_Singleton
<1> QED BY <1>1, <1>2

LEMMA MatchIsOption ==
    ASSUME NEW rows, rows \subseteq Place, NEW hint
    PROVE  IsOption(Match(rows, hint), Place)
<1> DEFINE S == Candidates(rows, hint)
           B == {spot \in S : SameName(spot, hint) /\ SameMac(spot, hint)}
<1>1. S \subseteq Place /\ B \subseteq Place
  BY DEF Candidates
<1>2. IsOption(Single(S), Place) /\ IsOption(Single(B), Place)
  BY <1>1, SingleIsOption
<1>3. Match(rows, hint) = Single(S) \/ Match(rows, hint) = Single(B)
  BY DEF Match
<1> QED BY <1>2, <1>3

\* A guest whose own row is there is matched with it or not at all: the row has its uuid,
\* its name and its mac.
LEMMA MatchIsOwn ==
    ASSUME NEW rows, IsFiniteSet(rows), NEW h \in Host, NEW n,
           <<n, Inside[h]>> \in rows, NEW spot \in Match(rows, HintOf(h))
    PROVE  spot[2] = Inside[h]
<1> DEFINE hint == HintOf(h)
           own == <<n, Inside[h]>>
           S == Candidates(rows, hint)
           B == {p \in S : SameName(p, hint) /\ SameMac(p, hint)}
<1>1. own[2] = Inside[h] /\ own \in rows
  OBVIOUS
<1>2. identity[own[2]] = hint
  BY <1>1 DEF HintOf
<1>3. own \in S /\ own \in B
  BY <1>1, <1>2 DEF Candidates, SameName, SameMac
<1>4. IsFiniteSet(S) /\ IsFiniteSet(B)
  <2>1. S \subseteq rows /\ B \subseteq rows
    BY DEF Candidates
  <2> QED BY <2>1, FS_Subset
<1>5. spot \in Single(S) \/ spot \in Single(B)
  BY DEF Match
<1>6. spot = own
  <2> HIDE DEF own, S, B
  <2> QED BY <1>3, <1>4, <1>5, SingleIsIt
<1> QED BY <1>1, <1>6

LEMMA LinkInvInit == LinkInit => LinkInv
<1> SUFFICES ASSUME LinkInit PROVE LinkInv
  OBVIOUS
<1>1. IsFiniteSet({}) /\ Cardinality({}) = 0
  BY FS_EmptySet
<1>2. LinkShape
  BY <1>1 DEF LinkInit, LinkShape
<1>3. LinkTypeOK
  BY <1>1, IdentityAssumption DEF LinkInit, LinkTypeOK, IsOption
<1>4. OverridesAreSet /\ NotLinkedToAnother
  BY DEF LinkInit, OverridesAreSet, NotLinkedToAnother
<1> QED BY <1>2, <1>3, <1>4 DEF LinkInv

\* What hosts are matched again keeps its type, and of those matched none is linked to
\* another guest.
LEMMA MatchedLinks ==
    ASSUME LinkInv, NEW H, NEW rows \in SUBSET Place, IsFiniteSet(rows)
    PROVE  LET new == Matched(H, rows) IN
           /\ new \in [Host -> SUBSET Place]
           /\ \A h \in Host : IsOption(new[h], Place)
           /\ \A h \in Host \ knownHosts : new[h] = {}
           /\ \A h \in Host \ H : new[h] = link[h]
           /\ \A h \in Host \cap H : \A spot \in new[h] :
                (\E n \in Node : <<n, Inside[h]>> \in rows) => spot[2] = Inside[h]
<1> DEFINE new == Matched(H, rows)
<1>1. ASSUME NEW h \in Host
      PROVE  new[h] = IF h \in H \cap knownHosts THEN Match(rows, HintOf(h)) ELSE link[h]
  BY DEF Matched
<1>2. ASSUME NEW h \in Host
      PROVE  IsOption(new[h], Place) /\ (h \notin knownHosts => new[h] = {})
  <2>1. IsOption(Match(rows, HintOf(h)), Place)
    BY MatchIsOption
  <2>2. IsOption(link[h], Place) /\ (h \notin knownHosts => link[h] = {})
    BY DEF LinkInv, LinkTypeOK
  <2> QED BY <1>1, <2>1, <2>2
<1>3. new \in [Host -> SUBSET Place]
  <2>1. \A h \in Host : new[h] \in SUBSET Place
    BY <1>2 DEF IsOption
  <2> QED BY <2>1 DEF Matched
<1>4. ASSUME NEW h \in Host \cap H, NEW spot \in new[h], NEW n \in Node,
             <<n, Inside[h]>> \in rows
      PROVE  spot[2] = Inside[h]
  <2>1. h \in knownHosts
    BY <1>2, <1>4
  <2>2. spot \in Match(rows, HintOf(h))
    BY <1>1, <1>4, <2>1
  <2> QED BY <1>4, <2>2, MatchIsOwn
<1> HIDE DEF new
<1> QED BY <1>1, <1>2, <1>3, <1>4 DEF new

LEMMA HandleHintKeepsInv ==
    ASSUME LinkInv, NEW h \in Host, HandleHint(h)
    PROVE  LinkInv'
<1>1. /\ h \in onWay /\ onWay' = onWay \ {h} /\ pendingHints' = pendingHints \cup {h}
      /\ link' = Matched({h}, guestRows)
      /\ UNCHANGED <<identity, at, listing, guestRows, retained, knownHosts, override, everSet, upsets>>
  BY DEF HandleHint, RememberIdentityHint
<1>2. guestRows \in SUBSET Place /\ IsFiniteSet(guestRows)
  BY DEF LinkInv, LinkShape, LinkTypeOK
<1>3. /\ link' \in [Host -> SUBSET Place]
      /\ \A g \in Host : IsOption(link'[g], Place)
      /\ \A g \in Host \ knownHosts : link'[g] = {}
      /\ \A g \in Host \ {h} : link'[g] = link[g]
      /\ \A spot \in link'[h] :
            (\E n \in Node : <<n, Inside[h]>> \in guestRows) => spot[2] = Inside[h]
  BY <1>1, <1>2, MatchedLinks
<1>4. LinkShape' /\ OverridesAreSet'
  BY <1>1, <1>3 DEF LinkInv, LinkShape, OverridesAreSet
<1>5. LinkTypeOK'
  BY <1>1, <1>3 DEF LinkInv, LinkTypeOK
<1>6. pendingHints \subseteq Host
  BY DEF LinkInv, LinkTypeOK
<1>7. NotLinkedToAnother'
  BY <1>1, <1>3, <1>6 DEF LinkInv, NotLinkedToAnother
<1> QED BY <1>4, <1>5, <1>7 DEF LinkInv

\* An inventory brings rows, and all hints are matched with them.
LEMMA HandleGuestsKeepsInv ==
    ASSUME LinkInv, NEW n \in Node, HandleGuests(n)
    PROVE  LinkInv'
<1>1. PICK guests \in listing[n] :
        /\ listing' = [listing EXCEPT ![n] = {}]
        /\ guestRows' = guestRows \cup ({n} \X guests)
        /\ link' = RematchAllPendingHints(guests, guestRows \cup ({n} \X guests))
        /\ UNCHANGED <<identity, at, onWay, retained, pendingHints, knownHosts, override, everSet, upsets>>
  BY DEF HandleGuests
<1>2. guests \subseteq Guest /\ guestRows' \in SUBSET Place
  BY <1>1 DEF LinkInv, LinkShape, LinkTypeOK, Place
<1>3. IsFiniteSet(guestRows')
  <2>1. IsFiniteSet(guests) /\ IsFiniteSet({n})
    BY <1>2, IdentityAssumption, FS_Subset, FS_Singleton
  <2>2. IsFiniteSet({n} \X guests)
    BY <2>1, FS_Product
  <2> QED BY <1>1, <2>2, FS_Union DEF LinkInv, LinkShape
<1>4. listing' \in [Node -> SUBSET SUBSET Guest] /\ \A m \in Node : IsOption(listing'[m], SUBSET Guest)
  <2>1. IsOption({}, SUBSET Guest)
    BY OptionOfOne
  <2> QED BY <1>1, <2>1 DEF LinkInv, LinkShape, LinkTypeOK
<1>5. /\ link' \in [Host -> SUBSET Place]
      /\ \A h \in Host : IsOption(link'[h], Place)
      /\ \A h \in Host \ knownHosts : link'[h] = {}
      /\ \A h \in pendingHints \ everSet : \A spot \in link'[h] :
            (\E m \in Node : <<m, Inside[h]>> \in guestRows') => spot[2] = Inside[h]
  <2>1. pendingHints \subseteq Host
    BY DEF LinkInv, LinkTypeOK
  <2>2. CASE guests = {}
    <3>1. link' = link /\ guestRows' = guestRows
      BY <1>1, <2>2 DEF RematchAllPendingHints
    <3> QED BY <3>1 DEF LinkInv, LinkShape, LinkTypeOK, NotLinkedToAnother
  <2>3. CASE guests # {}
    <3>1. link' = Matched(pendingHints, guestRows')
      BY <1>1, <2>3 DEF RematchAllPendingHints
    <3> QED BY <1>2, <1>3, <2>1, <3>1, MatchedLinks
  <2> QED BY <2>2, <2>3
<1>6. LinkShape' /\ OverridesAreSet'
  BY <1>1, <1>3, <1>4, <1>5 DEF LinkInv, LinkShape, OverridesAreSet
<1>7. LinkTypeOK'
  BY <1>1, <1>2, <1>4, <1>5 DEF LinkInv, LinkTypeOK
<1>8. NotLinkedToAnother'
  BY <1>1, <1>5 DEF NotLinkedToAnother
<1> QED BY <1>6, <1>7, <1>8 DEF LinkInv

LEMMA HandleHostKeepsInv ==
    ASSUME LinkInv, NEW h \in Host, HandleHost(h)
    PROVE  LinkInv'
<1>1. /\ knownHosts' = knownHosts \cup {h}
      /\ link' = IF override[h] = {} THEN link ELSE [link EXCEPT ![h] = override[h]]
      /\ UNCHANGED <<identity, at, listing, guestRows, onWay, retained, pendingHints, override, everSet, upsets>>
  BY DEF HandleHost
<1>2. link \in [Host -> SUBSET Place] /\ override \in [Host -> SUBSET Place]
  BY DEF LinkInv, LinkShape
<1>3. /\ \A g \in Host \ {h} : link'[g] = link[g]
      /\ link'[h] = link[h] \/ (link'[h] = override[h] /\ h \in everSet)
      /\ link' \in [Host -> SUBSET Place]
  BY <1>1, <1>2 DEF LinkInv, OverridesAreSet
<1>4. LinkShape' /\ OverridesAreSet'
  BY <1>1, <1>3 DEF LinkInv, LinkShape, OverridesAreSet
<1>5. LinkTypeOK'
  BY <1>1, <1>3 DEF LinkInv, LinkTypeOK
<1>6. pendingHints \subseteq Host
  BY DEF LinkInv, LinkTypeOK
<1>7. NotLinkedToAnother'
  BY <1>1, <1>3, <1>6 DEF LinkInv, NotLinkedToAnother
<1> QED BY <1>4, <1>5, <1>7 DEF LinkInv

LEMMA ConfigureKeepsInv ==
    ASSUME LinkInv, NEW h \in Host, Configure(h)
    PROVE  LinkInv'
<1> DEFINE own == <<at[Inside[h]], Inside[h]>>
<1>1. /\ override' = [override EXCEPT ![h] = IF override[h] = {} THEN {own} ELSE {}]
      /\ everSet' = everSet \cup {h} /\ upsets' = upsets + 1
      /\ UNCHANGED <<identity, at, listing, guestRows, onWay, retained, pendingHints, knownHosts, link>>
  BY DEF Configure, Upset
<1>2. own \in Place
  BY IdentityAssumption DEF LinkInv, LinkTypeOK, Place
<1>3. override'[h] = {own} \/ override'[h] = {}
  BY <1>1 DEF LinkInv, LinkShape
<1>4. IsOption(override'[h], Place) /\ override'[h] \subseteq Place
  BY <1>2, <1>3, OptionOfOne
<1>5. override' \in [Host -> SUBSET Place] /\ \A g \in Host \ {h} : override'[g] = override[g]
  BY <1>1, <1>4 DEF LinkInv, LinkShape
<1>6. LinkShape' /\ OverridesAreSet'
  BY <1>1, <1>5 DEF LinkInv, LinkShape, OverridesAreSet
<1>7. LinkTypeOK'
  <2>1. LinkTypeOK
    BY DEF LinkInv
  <2>2. upsets' \in Nat /\ everSet' \subseteq Host
    BY <1>1, <2>1 DEF LinkTypeOK
  <2>3. \A g \in Host : IsOption(override'[g], Place) /\ IsOption(link'[g], Place)
    BY <1>1, <1>4, <1>5, <2>1 DEF LinkTypeOK
  <2> QED BY <1>1, <2>1, <2>2, <2>3 DEF LinkTypeOK
<1>8. NotLinkedToAnother'
  BY <1>1 DEF LinkInv, NotLinkedToAnother
<1> QED BY <1>6, <1>7, <1>8 DEF LinkInv

LEMMA DeleteHostRowKeepsInv ==
    ASSUME LinkInv, NEW h \in Host, DeleteHostRow(h)
    PROVE  LinkInv'
<1>1. /\ knownHosts' = knownHosts \ {h} /\ link' = [link EXCEPT ![h] = {}] /\ upsets' = upsets + 1
      /\ UNCHANGED <<identity, at, listing, guestRows, onWay, retained, pendingHints, override, everSet>>
  BY DEF DeleteHostRow, Upset
<1>2. /\ link' \in [Host -> SUBSET Place] /\ link'[h] = {}
      /\ \A g \in Host \ {h} : link'[g] = link[g]
  BY <1>1 DEF LinkInv, LinkShape
<1>3. IsOption(link'[h], Place)
  <2>1. Cardinality({}) = 0
    BY FS_EmptySet
  <2> QED BY <1>2, <2>1 DEF IsOption
<1>4. LinkShape' /\ OverridesAreSet'
  BY <1>1, <1>2 DEF LinkInv, LinkShape, OverridesAreSet
<1>5. LinkTypeOK'
  <2>1. LinkTypeOK
    BY DEF LinkInv
  <2>2. upsets' \in Nat
    BY <1>1, <2>1 DEF LinkTypeOK
  <2>3. \A g \in Host : IsOption(override'[g], Place) /\ IsOption(link'[g], Place)
    BY <1>1, <1>2, <1>3, <2>1 DEF LinkTypeOK
  <2>4. knownHosts' \subseteq Host /\ \A g \in Host \ knownHosts' : link'[g] = {}
    BY <1>1, <1>2, <2>1 DEF LinkTypeOK
  <2> QED BY <1>1, <2>1, <2>2, <2>3, <2>4 DEF LinkTypeOK
<1>6. pendingHints \subseteq Host
  BY DEF LinkInv, LinkTypeOK
<1>7. NotLinkedToAnother'
  BY <1>1, <1>2, <1>6 DEF LinkInv, NotLinkedToAnother
<1> QED BY <1>4, <1>5, <1>7 DEF LinkInv

\* Nothing else writes a link or a row.
LEMMA OthersKeepLinks ==
    ASSUME LinkInv,
           \/ \E h \in Host : PublishHint(h)
           \/ \E n \in Node : ListGuests(n)
           \/ \E g \in Guest, n \in Node : Migrate(g, n) \/ PruneGuest(n, g)
           \/ HubRestartsHere \/ UNCHANGED linkVars
    PROVE  LinkInv'
<1>1. /\ UNCHANGED <<identity, knownHosts, override, everSet, link>>
      /\ pendingHints' = pendingHints \/ pendingHints' = {}
      /\ guestRows' \subseteq guestRows
      /\ upsets' = upsets \/ upsets' = upsets + 1
  BY DEF PublishHint, ListGuests, Migrate, PruneGuest, HubRestartsHere, Upset, linkVars
<1>2. /\ onWay' \subseteq retained' /\ retained' \subseteq Host /\ pendingHints' \subseteq retained'
      /\ at' \in [Guest -> Node]
  <2>1. CASE \E h \in Host : PublishHint(h)
    BY <2>1 DEF PublishHint, LinkInv, LinkTypeOK
  <2>2. CASE \E n \in Node : ListGuests(n)
    BY <2>2 DEF ListGuests, LinkInv, LinkTypeOK
  <2>3. CASE \E g \in Guest, n \in Node : Migrate(g, n) \/ PruneGuest(n, g)
    BY <2>3 DEF Migrate, PruneGuest, LinkInv, LinkTypeOK
  <2>4. CASE HubRestartsHere \/ UNCHANGED linkVars
    BY <2>4 DEF HubRestartsHere, linkVars, LinkInv, LinkTypeOK
  <2> QED BY <2>1, <2>2, <2>3, <2>4
<1>3. listing' \in [Node -> SUBSET SUBSET Guest] /\ \A n \in Node : IsOption(listing'[n], SUBSET Guest)
  <2>1. CASE \E n \in Node : ListGuests(n)
    <3>1. PICK n \in Node : ListGuests(n)
      BY <2>1
    <3>2. PICK guests \in SUBSET Guest : guests = {g \in Guest : at[g] = n}
      OBVIOUS
    <3>3. listing' = [listing EXCEPT ![n] = {guests}]
      BY <3>1, <3>2 DEF ListGuests
    <3>4. IsOption({guests}, SUBSET Guest)
      BY OptionOfOne
    <3> QED BY <3>3, <3>4 DEF LinkInv, LinkShape, LinkTypeOK
  <2>2. CASE UNCHANGED listing
    BY <2>2 DEF LinkInv, LinkShape, LinkTypeOK
  <2> QED
    BY <2>1, <2>2 DEF PublishHint, Migrate, PruneGuest, HubRestartsHere, linkVars
<1>4. IsFiniteSet(guestRows')
  BY <1>1, FS_Subset DEF LinkInv, LinkShape
<1>5. LinkShape' /\ OverridesAreSet'
  BY <1>1, <1>3, <1>4 DEF LinkInv, LinkShape, OverridesAreSet
<1>6. LinkTypeOK'
  <2>1. LinkTypeOK
    BY DEF LinkInv
  <2>2. upsets' \in Nat
    BY <1>1, <2>1 DEF LinkTypeOK
  <2>3. guestRows' \subseteq Place
    BY <1>1, <2>1 DEF LinkTypeOK
  <2>4. /\ \A h \in Host : IsOption(override'[h], Place) /\ IsOption(link'[h], Place)
        /\ \A h \in Host \ knownHosts' : link'[h] = {}
    BY <1>1, <2>1 DEF LinkTypeOK
  <2> QED BY <1>1, <1>2, <1>3, <2>1, <2>2, <2>3, <2>4 DEF LinkTypeOK
<1>7. NotLinkedToAnother'
  BY <1>1 DEF LinkInv, NotLinkedToAnother
<1> QED BY <1>5, <1>6, <1>7 DEF LinkInv

LEMMA LinkInvNext == LinkInv /\ [LinkNext]_linkVars => LinkInv'
BY HandleHintKeepsInv, HandleGuestsKeepsInv, HandleHostKeepsInv, ConfigureKeepsInv,
   DeleteHostRowKeepsInv, OthersKeepLinks DEF LinkNext

\* The state part of "a host ends up linked to its own guest" (matcher.ts, mqtt.ts): while
\* the hub has a row of a host's own guest and remembers its hint, it does not take another
\* guest of the same name for it, in whatever order hints, inventories, deletions,
\* migrations and restarts come.
THEOREM LinksAreNotAnothers == LinkSpec => [](LinkTypeOK /\ NotLinkedToAnother)
<1>1. LinkInit => LinkInv
  BY LinkInvInit
<1>2. LinkInv /\ [LinkNext]_linkVars => LinkInv'
  BY LinkInvNext
<1>3. LinkInv => LinkTypeOK /\ NotLinkedToAnother
  BY DEF LinkInv
<1> QED BY <1>1, <1>2, <1>3, PTL DEF LinkSpec

(***************************************************************************)
(* Listings of a cluster, for any nodes, objects, changes and troubles.    *)
(***************************************************************************)

\* Listings of which no failed read and no batch in two seconds takes away a row.
IsFaithful == topic \notin ShownByBatch \cup GuestListings \cup {"pve_zfs"}

\* What the agents say of such a listing is what they saw.
Sent == IF IsFaithful THEN {m \in Message : m.items = m.seen} ELSE Message

AgeOrGone == Age \cup {Gone}

ListingsInv ==
    /\ ListingsTypeOK
    /\ reads \in [ClusterNode -> Seq(Sent)]
    /\ mail \in [ClusterNode -> Seq(Sent)]

LEMMA OwnersAreOwners == \A n \in ClusterNode : OwnerOf(n) \in Owner
BY DEF OwnerOf, Owner

LEMMA AgesAreInts == AgeOrGone = {-2, -1, 0, 1}
BY DEF AgeOrGone, Age, Gone, Removed, Retained

LEMMA AgedRows ==
    ASSUME NEW rows \in [Object -> AgeOrGone]
    PROVE  Aged(rows) \in [Object -> AgeOrGone]
<1>1. ASSUME NEW o \in Object PROVE Aged(rows)[o] \in AgeOrGone
  BY AgesAreInts DEF Aged, Gone, Retained
<1> QED BY <1>1 DEF Aged

\* However a listing is written, its rows are typed and what is listed is there.
LEMMA IngestedRows ==
    ASSUME topic \in Listings, NEW rows \in [Object -> AgeOrGone], NEW items
    PROVE  /\ IngestListing(rows, items) \in [Object -> AgeOrGone]
           /\ \A o \in Object \cap items : IngestListing(rows, items)[o] = 0
<1>1. \/ IngestListing(rows, items) = Written(rows, items)
      \/ IngestListing(rows, items) = Pruned(rows, items)
      \/ IngestListing(rows, items) = Stamped(rows, items)
      \/ IngestListing(rows, items) = Rewritten(rows, items)
  BY DEF IngestListing, Listings, LeaderListings, PveListings, GuestListings, CollectionParts,
     IngestPvs, IngestPvcs, IngestEvents, IngestIngresses, IngestServices, IngestPendingPods,
     IngestPodVolumes, IngestWorkloadRollouts, IngestVolumes, IngestNodeConditions,
     IngestPveStorage, IngestPveZfs, IngestPveCluster, IngestPveGuestSnapshots, IngestPveBackups
<1>2. 0 \in AgeOrGone /\ Gone \in AgeOrGone /\ Removed \in AgeOrGone
  BY AgesAreInts DEF Gone, Removed
<1>3. /\ Written(rows, items) \in [Object -> AgeOrGone]
      /\ \A o \in Object \cap items : Written(rows, items)[o] = 0
  BY <1>2 DEF Written
<1>4. /\ Pruned(rows, items) \in [Object -> AgeOrGone]
      /\ \A o \in Object \cap items : Pruned(rows, items)[o] = 0
  BY <1>2, <1>3 DEF Pruned
<1>5. /\ Stamped(rows, items) \in [Object -> AgeOrGone]
      /\ \A o \in Object \cap items : Stamped(rows, items)[o] = 0
  BY <1>2, <1>3 DEF Stamped
<1>6. /\ Rewritten(rows, items) \in [Object -> AgeOrGone]
      /\ \A o \in Object \cap items : Rewritten(rows, items)[o] = 0
  BY <1>2 DEF Rewritten
<1> QED BY <1>1, <1>3, <1>4, <1>5, <1>6

LEMMA SentAreMessages ==
    ASSUME NEW s \in Seq(Sent)
    PROVE  s \in Seq(Message)
BY DEF Sent

LEMMA ListingsInvInit == ListingsInit => ListingsInv
<1> SUFFICES ASSUME ListingsInit PROVE ListingsInv
  OBVIOUS
<1>1. reads \in [ClusterNode -> Seq(Sent)] /\ mail \in [ClusterNode -> Seq(Sent)]
  BY DEF ListingsInit
<1>2. \A n \in ClusterNode : reads[n] \in Seq(Message) /\ mail[n] \in Seq(Message)
  BY DEF ListingsInit
<1>3. table \in [Owner -> [Object -> AgeOrGone]]
  BY AgesAreInts DEF ListingsInit, Gone
<1>4. changes \in 0 .. MaxChanges /\ troubles \in 0 .. MaxTroubles
  BY ListingsAssumption DEF ListingsInit
<1>5. ListingsTypeOK
  BY <1>2, <1>3, <1>4 DEF ListingsInit, ListingsTypeOK, AgeOrGone
<1> QED BY <1>1, <1>5 DEF ListingsInv

\* What stays typed when the queues and the table do.
LEMMA TypesOfQueues ==
    ASSUME ListingsInv, topic' = topic, grouped' = grouped,
           place' \in [Object -> ClusterNode \cup {Nowhere}], publisher' \in ClusterNode,
           reads' \in [ClusterNode -> Seq(Sent)], mail' \in [ClusterNode -> Seq(Sent)],
           table' \in [Owner -> [Object -> AgeOrGone]],
           changes' = changes \/ Change, troubles' = troubles \/ Trouble
    PROVE  ListingsInv'
<1>1. Sent' = Sent
  BY DEF Sent, IsFaithful
<1>2. \A n \in ClusterNode : reads'[n] \in Seq(Message) /\ mail'[n] \in Seq(Message)
  <2>1. \A n \in ClusterNode : reads'[n] \in Seq(Sent) /\ mail'[n] \in Seq(Sent)
    OBVIOUS
  <2>2. Seq(Sent) \subseteq Seq(Message)
    BY SentAreMessages
  <2> QED BY ONLY <2>1, <2>2
<1>3. changes' \in 0 .. MaxChanges /\ troubles' \in 0 .. MaxTroubles
  BY ListingsAssumption DEF ListingsInv, ListingsTypeOK, Change, Trouble
<1>4. topic' \in Listings /\ grouped' \in BOOLEAN
  BY DEF ListingsInv, ListingsTypeOK
<1>5. ListingsTypeOK'
  BY <1>2, <1>3, <1>4 DEF ListingsTypeOK, AgeOrGone
<1> QED BY <1>1, <1>5 DEF ListingsInv

LEMMA ListedObjects ==
    ASSUME NEW n
    PROVE  Listed(n) \subseteq Object
BY DEF Listed

\* A cycle reads, or fails to.
LEMMA ReadingKeepsInv ==
    ASSUME ListingsInv, NEW n \in ClusterNode, ReadListing(n) \/ FailToRead(n)
    PROVE  ListingsInv'
<1>1. PICK items \in SUBSET Object :
        Takes(n, items) /\ (IsFaithful => items = Listed(n))
  <2>1. CASE ReadListing(n)
    BY <2>1, ListedObjects DEF ReadListing
  <2>2. CASE FailToRead(n)
    <3>1. PICK items \in FailedRead(Listed(n)) : Takes(n, items)
      BY <2>2 DEF FailToRead
    <3>2. items \subseteq Object /\ ~IsFaithful
      <4>1. CASE topic = "pve_zfs"
        BY <3>1, <4>1 DEF FailedRead, FailedPools, IsFaithful, GuestListings
      <4>2. CASE topic \in GuestListings
        BY <3>1, <4>2, ListedObjects DEF FailedRead, FailedGuests, IsFaithful, GuestListings
      <4>3. CASE topic = "volumes"
        BY <3>1, <4>3 DEF FailedRead, IsFaithful, ShownByBatch, GuestListings
      <4>4. CASE topic \notin {"pve_zfs", "volumes"} \cup GuestListings
        BY <3>1, <4>4 DEF FailedRead
      <4> QED BY <4>1, <4>2, <4>3, <4>4
    <3> QED BY <3>1, <3>2
  <2> QED BY <2>1, <2>2
<1> DEFINE m == [items |-> items, seen |-> Listed(n)]
<1>2. m \in Sent
  BY <1>1, ListedObjects DEF Sent, Message
<1> HIDE DEF m
<1>3. reads' = [reads EXCEPT ![n] = Append(reads[n], m)]
  BY <1>1 DEF Takes, m
<1>4. Append(reads[n], m) \in Seq(Sent)
  BY <1>2 DEF ListingsInv
<1>5. reads' \in [ClusterNode -> Seq(Sent)]
  BY <1>3, <1>4 DEF ListingsInv
<1>6. /\ UNCHANGED <<topic, grouped, place, publisher, mail, table, changes>>
      /\ troubles' = troubles \/ Trouble
  BY DEF ReadListing, FailToRead
<1> QED BY <1>5, <1>6, TypesOfQueues DEF ListingsInv, ListingsTypeOK, AgeOrGone

LEMMA TakenOut ==
    ASSUME NEW S, NEW s \in Seq(S), NEW i \in 1 .. Len(s)
    PROVE  RemoveAt(s, i) \in Seq(S)
<1>1. i \in Int /\ Len(s) \in Int /\ \A j \in 1 .. Len(s) : s[j] \in S
  BY ElementOfSeq
<1>2. SubSeq(s, 1, i - 1) \in Seq(S)
  <2>1. \A j \in 1 .. i - 1 : s[j] \in S
    BY <1>1
  <2> QED BY <1>1, <2>1, SubSeqProperties
<1>3. SubSeq(s, i + 1, Len(s)) \in Seq(S)
  <2>1. \A j \in i + 1 .. Len(s) : s[j] \in S
    BY <1>1
  <2> QED BY <1>1, <2>1, SubSeqProperties
<1> QED BY <1>2, <1>3, ConcatProperties DEF RemoveAt

\* It publishes what it has read.
LEMMA PublishListingKeepsInv ==
    ASSUME ListingsInv, NEW n \in ClusterNode, PublishListing(n)
    PROVE  ListingsInv'
<1>1. PICK i \in DOMAIN reads[n] :
        /\ mail' = [mail EXCEPT ![n] = Append(mail[n], reads[n][i])] \/ mail' = mail
        /\ reads' = [reads EXCEPT ![n] = RemoveAt(reads[n], i)]
  BY DEF PublishListing
<1>2. reads[n] \in Seq(Sent) /\ mail[n] \in Seq(Sent)
  BY DEF ListingsInv
<1>3. i \in 1 .. Len(reads[n]) /\ reads[n][i] \in Sent
  BY <1>2
<1>4. RemoveAt(reads[n], i) \in Seq(Sent)
  BY <1>2, <1>3, TakenOut
<1>5. Append(mail[n], reads[n][i]) \in Seq(Sent)
  BY <1>2, <1>3
<1>6. reads' \in [ClusterNode -> Seq(Sent)] /\ mail' \in [ClusterNode -> Seq(Sent)]
  BY <1>1, <1>4, <1>5 DEF ListingsInv
<1>7. UNCHANGED <<topic, grouped, place, publisher, table, changes, troubles>>
  BY DEF PublishListing
<1> QED BY <1>6, <1>7, TypesOfQueues DEF ListingsInv, ListingsTypeOK, AgeOrGone

\* What a message does to the table of its owner.
LEMMA HandlingWrites ==
    ASSUME ListingsInv, NEW n \in ClusterNode,
           HandleListing(n) \/ HandleAtOnce(n) \/ HandleAcrossSeconds(n) \/ HandleTwice(n)
    PROVE  /\ mail[n] # << >>
           /\ \E rows \in [Object -> AgeOrGone] :
                /\ table' = [table EXCEPT ![OwnerOf(n)] = rows]
                /\ IsFaithful => \A o \in Object \cap Head(mail[n]).items : rows[o] = 0
<1> DEFINE old == table[OwnerOf(n)]
           items == Head(mail[n]).items
<1>1. old \in [Object -> AgeOrGone] /\ topic \in Listings
  BY OwnersAreOwners DEF ListingsInv, ListingsTypeOK, AgeOrGone
<1>2. Aged(old) \in [Object -> AgeOrGone]
  BY <1>1, AgedRows
<1> HIDE DEF old, items
<1>3. CASE HandleListing(n) \/ HandleTwice(n)
  <2>1. mail[n] # << >> /\ table' = [table EXCEPT ![OwnerOf(n)] = IngestListing(Aged(old), items)]
    BY <1>3 DEF HandleListing, HandleTwice, old, items
  <2> DEFINE rows == IngestListing(Aged(old), items)
  <2>2. rows \in [Object -> AgeOrGone] /\ \A o \in Object \cap items : rows[o] = 0
    BY <1>1, <1>2, IngestedRows
  <2>3. table' = [table EXCEPT ![OwnerOf(n)] = rows]
    BY <2>1
  <2> HIDE DEF rows
  <2> QED BY <2>1, <2>2, <2>3 DEF items
<1>4. CASE HandleAtOnce(n)
  <2>1. mail[n] # << >> /\ table' = [table EXCEPT ![OwnerOf(n)] = IngestListing(old, items)]
    BY <1>4 DEF HandleAtOnce, old, items
  <2> DEFINE rows == IngestListing(old, items)
  <2>2. rows \in [Object -> AgeOrGone] /\ \A o \in Object \cap items : rows[o] = 0
    BY <1>1, IngestedRows
  <2>3. table' = [table EXCEPT ![OwnerOf(n)] = rows]
    BY <2>1
  <2> HIDE DEF rows
  <2> QED BY <2>1, <2>2, <2>3 DEF items
<1>5. CASE HandleAcrossSeconds(n)
  <2>1. PICK early \in SUBSET items :
            table' = [table EXCEPT ![OwnerOf(n)] =
                IngestListing(Aged(IngestListing(Aged(old), early)), items \ early)]
    BY <1>5 DEF HandleAcrossSeconds, old, items
  <2>2. mail[n] # << >> /\ ~IsFaithful
    BY <1>5 DEF HandleAcrossSeconds, IsFaithful
  <2>3. IngestListing(Aged(old), early) \in [Object -> AgeOrGone]
    BY <1>1, <1>2, IngestedRows
  <2>4. Aged(IngestListing(Aged(old), early)) \in [Object -> AgeOrGone]
    BY <2>3, AgedRows
  <2>5. IngestListing(Aged(IngestListing(Aged(old), early)), items \ early) \in [Object -> AgeOrGone]
    BY <1>1, <2>4, IngestedRows
  <2> QED BY <2>1, <2>2, <2>5
<1> QED BY <1>3, <1>4, <1>5

LEMMA HandlingKeepsInv ==
    ASSUME ListingsInv, NEW n \in ClusterNode,
           HandleListing(n) \/ HandleAtOnce(n) \/ HandleAcrossSeconds(n) \/ HandleTwice(n)
    PROVE  ListingsInv'
<1>1. mail[n] # << >> /\ mail[n] \in Seq(Sent)
  BY HandlingWrites DEF ListingsInv
<1>2. Tail(mail[n]) \in Seq(Sent)
  BY <1>1
<1>3. mail' \in [ClusterNode -> Seq(Sent)]
  BY <1>2 DEF HandleListing, HandleAtOnce, HandleAcrossSeconds, HandleTwice, ListingsInv
<1>4. table' \in [Owner -> [Object -> AgeOrGone]]
  BY HandlingWrites, OwnersAreOwners DEF ListingsInv, ListingsTypeOK, AgeOrGone
<1>5. /\ UNCHANGED <<topic, grouped, place, publisher, reads, changes>>
      /\ troubles' = troubles \/ Trouble
  BY DEF HandleListing, HandleAtOnce, HandleAcrossSeconds, HandleTwice
<1> QED BY <1>3, <1>4, <1>5, TypesOfQueues DEF ListingsInv, ListingsTypeOK

LEMMA OthersKeepListings ==
    ASSUME ListingsInv,
           \/ \E n \in ClusterNode : LoseListing(n)
           \/ ObjectChanges \/ LeaderChanges \/ UNCHANGED listingVars
    PROVE  ListingsInv'
<1>1. reads' \in [ClusterNode -> Seq(Sent)] /\ mail' \in [ClusterNode -> Seq(Sent)]
  <2>1. << >> \in Seq(Sent)
    OBVIOUS
  <2> QED BY <2>1 DEF LoseListing, ObjectChanges, LeaderChanges, listingVars, ListingsInv
<1>2. place' \in [Object -> ClusterNode \cup {Nowhere}] /\ publisher' \in ClusterNode
  BY DEF LoseListing, ObjectChanges, LeaderChanges, listingVars, ListingsInv, ListingsTypeOK
<1>3. /\ UNCHANGED <<topic, grouped, table>>
      /\ (changes' = changes \/ Change) /\ (troubles' = troubles \/ Trouble)
  BY DEF LoseListing, ObjectChanges, LeaderChanges, listingVars
<1> QED BY <1>1, <1>2, <1>3, TypesOfQueues DEF ListingsInv, ListingsTypeOK, AgeOrGone

LEMMA ListingsInvNext ==
    ASSUME ListingsInv, [ListingsNext]_listingVars
    PROVE  ListingsInv'
BY ReadingKeepsInv, PublishListingKeepsInv, HandlingKeepsInv, OthersKeepListings DEF ListingsNext

\* Only the handlers write the table.
LEMMA OthersKeepTable ==
    ASSUME [ListingsNext]_listingVars,
           ~ \E n \in ClusterNode : \/ HandleListing(n) \/ HandleAtOnce(n)
                                    \/ HandleAcrossSeconds(n) \/ HandleTwice(n)
    PROVE  table' = table /\ topic' = topic
BY DEF ListingsNext, ReadListing, FailToRead, PublishListing, LoseListing, ObjectChanges,
       LeaderChanges, listingVars

\* The types of the listings, the agents' queues and the hub's tables.
THEOREM ListingsTypeCorrect == ListingsSpec => []ListingsTypeOK
<1>1. ListingsInv => ListingsTypeOK
  BY DEF ListingsInv
<1> QED BY <1>1, ListingsInvInit, ListingsInvNext, PTL DEF ListingsSpec

\* What a handler takes away, the listing it handles was read without.
LEMMA RowsGoWithTheirObjects ==
    ListingsInv /\ [ListingsNext]_listingVars =>
            [topic \notin ShownByBatch \cup GuestListings \cup {"pve_zfs"} =>
                \A w \in Owner : \A o \in Shown(w) \ Shown(w)' :
                    \E n \in ClusterNode : OwnerOf(n) = w /\ mail[n] # << >> /\ o \notin Head(mail[n]).seen]_listingVars
<1>1. ASSUME ListingsInv, [ListingsNext]_listingVars, IsFaithful,
             NEW w \in Owner, NEW o \in Shown(w) \ Shown(w)'
      PROVE  \E n \in ClusterNode :
                OwnerOf(n) = w /\ mail[n] # << >> /\ o \notin Head(mail[n]).seen
  <2>1. topic' = topic
    BY <1>1 DEF ListingsNext, ReadListing, FailToRead, PublishListing, HandleListing, HandleAtOnce,
       HandleAcrossSeconds, HandleTwice, LoseListing, ObjectChanges, LeaderChanges, listingVars
  <2>2. Shown(w) = Rows(w) /\ Shown(w)' = Rows(w)'
    BY <1>1, <2>1 DEF Shown, IsFaithful
  <2>3. o \in Object /\ table[w][o] >= 0 /\ ~(table'[w][o] >= 0)
    BY <1>1, <2>2 DEF Rows
  <2>4. PICK n \in ClusterNode :
            HandleListing(n) \/ HandleAtOnce(n) \/ HandleAcrossSeconds(n) \/ HandleTwice(n)
    BY <1>1, <2>3, OthersKeepTable
  <2>5. PICK rows \in [Object -> AgeOrGone] :
            /\ table' = [table EXCEPT ![OwnerOf(n)] = rows]
            /\ \A x \in Object \cap Head(mail[n]).items : rows[x] = 0
    BY <1>1, <2>4, HandlingWrites
  <2>6. mail[n] # << >> /\ mail[n] \in Seq(Sent)
    BY <1>1, <2>4, HandlingWrites DEF ListingsInv
  <2>7. Head(mail[n]) \in Sent
    BY <2>6
  <2>8. Head(mail[n]).items = Head(mail[n]).seen
    BY <1>1, <2>7 DEF Sent
  <2>9. OwnerOf(n) = w /\ table'[w] = rows
    BY <1>1, <2>3, <2>5 DEF ListingsInv, ListingsTypeOK
  <2>10. o \notin Head(mail[n]).items
    BY <2>3, <2>5, <2>9
  <2> QED BY <2>6, <2>8, <2>9, <2>10
<1> QED BY <1>1 DEF IsFaithful

\* The action part of "what is shown goes when it is gone, and only then" (ingest.ts, the
\* collectors): whatever is lost, late, sent twice, read by overlapping cycles or listed by
\* two leaders, a row leaves what is shown only by a listing read when its object was gone.
THEOREM RemovalsAreReal == ListingsSpec => RemovalIsReal
BY ListingsInvInit, ListingsInvNext, RowsGoWithTheirObjects, PTL DEF ListingsSpec, RemovalIsReal

(***************************************************************************)
(* Types of the rounds of checks, whatever they overlap with: only settled *)
(* rounds are written down.                                                *)
(***************************************************************************)

\* What a round has probed, of the two phases that probe.
Probed(S, found) == UNION {[B -> found] : B \in SUBSET S}

HttpRound == [phase : {"http"}, due : SUBSET Endpoint, probing : Probed(Endpoint, Found), late : BOOLEAN]

TlsRound == [phase : {"between", "tls"}, probing : Probed(Endpoint, FoundTls), late : BOOLEAN]

LEMMA RoundsAreOfTwoPhases == Round = HttpRound \cup TlsRound
BY DEF Round, HttpRound, TlsRound, Probed

LEMMA ProbedOfNone ==
    ASSUME NEW S, NEW found, NEW B \in SUBSET S, NEW word \in found
    PROVE  [e \in B |-> word] \in Probed(S, found)
<1>1. [e \in B |-> word] \in [B -> found]
  OBVIOUS
<1> QED BY <1>1 DEF Probed

LEMMA ProbedOfOneMore ==
    ASSUME NEW S, NEW found, NEW p \in Probed(S, found), NEW e \in DOMAIN p, NEW word \in found
    PROVE  [p EXCEPT ![e] = word] \in Probed(S, found)
<1>1. PICK B \in SUBSET S : p \in [B -> found]
  BY DEF Probed
<1>2. [p EXCEPT ![e] = word] \in [B -> found]
  BY <1>1
<1> QED BY <1>1, <1>2 DEF Probed

LEMMA ProbedAreFound ==
    ASSUME NEW S, NEW found, NEW p \in Probed(S, found)
    PROVE  DOMAIN p \subseteq S /\ \A e \in DOMAIN p : p[e] \in found
BY DEF Probed

LEMMA BetweenIsRound == Between \in Round
<1>1. [e \in {} |-> "nothing yet"] \in Probed(Endpoint, FoundTls)
  BY ProbedOfNone DEF FoundTls
<1>2. << >> = [e \in {} |-> "nothing yet"]
  OBVIOUS
<1>3. Between \in TlsRound
  BY <1>1, <1>2 DEF Between, TlsRound
<1> QED BY <1>3, RoundsAreOfTwoPhases

LEMMA NextBatchIsRound ==
    ASSUME NEW due \in SUBSET Endpoint
    PROVE  NextBatchOf(due) \in Round
<1>1. Batch(due) \in HttpRound
  <2>1. PICK batch \in SUBSET due : Batch(due) =
            [phase |-> "http", due |-> due \ batch,
             probing |-> [e \in batch |-> "nothing yet"], late |-> FALSE]
    BY DEF Batch
  <2>2. [e \in batch |-> "nothing yet"] \in Probed(Endpoint, Found)
    BY ProbedOfNone DEF Found
  <2>3. due \ batch \in SUBSET Endpoint
    OBVIOUS
  <2>4. [phase |-> "http", due |-> due \ batch,
         probing |-> [e \in batch |-> "nothing yet"], late |-> FALSE] \in HttpRound
    BY <2>2, <2>3 DEF HttpRound
  <2> QED BY <2>1, <2>4
<1> QED BY <1>1, BetweenIsRound, RoundsAreOfTwoPhases DEF NextBatchOf

LEMMA LateIsRound ==
    ASSUME NEW r \in Round
    PROVE  [r EXCEPT !.late = TRUE] \in Round
<1>1. r \in HttpRound => [r EXCEPT !.late = TRUE] \in HttpRound
  BY DEF HttpRound
<1>2. r \in TlsRound => [r EXCEPT !.late = TRUE] \in TlsRound
  BY DEF TlsRound
<1> QED BY <1>1, <1>2, RoundsAreOfTwoPhases

LEMMA PhasesOfRounds ==
    ASSUME NEW r \in Round
    PROVE  /\ r.phase = "http" => r \in HttpRound
           /\ r.phase \in {"between", "tls"} => r \in TlsRound
           /\ DOMAIN r.probing \subseteq Endpoint
<1>1. r \in HttpRound => r.phase = "http" /\ r.probing \in Probed(Endpoint, Found)
  BY DEF HttpRound
<1>2. r \in TlsRound => r.phase \in {"between", "tls"} /\ r.probing \in Probed(Endpoint, FoundTls)
  BY DEF TlsRound
<1>3. DOMAIN r.probing \subseteq Endpoint
  BY <1>1, <1>2, RoundsAreOfTwoPhases, ProbedAreFound
<1> QED BY <1>1, <1>2, <1>3, RoundsAreOfTwoPhases

\* probing of a round, with one more answer.
LEMMA ProbingIsRound ==
    ASSUME NEW r \in Round, NEW e \in DOMAIN r.probing, NEW word,
           r.phase = "http" => word \in Found,
           r.phase = "tls" => word \in FoundTls,
           r.phase \in {"http", "tls"}
    PROVE  [r EXCEPT !.probing[e] = word] \in Round
<1> DEFINE p == [r.probing EXCEPT ![e] = word]
<1>1. CASE r.phase = "http"
  <2>1. r \in HttpRound /\ r.probing \in Probed(Endpoint, Found)
    BY <1>1, PhasesOfRounds DEF HttpRound
  <2>2. p \in Probed(Endpoint, Found)
    BY <1>1, <2>1, ProbedOfOneMore
  <2>3. [r EXCEPT !.probing = p] \in HttpRound
    <3> HIDE DEF p
    <3> QED BY <2>1, <2>2 DEF HttpRound
  <2>4. [r EXCEPT !.probing[e] = word] = [r EXCEPT !.probing = p]
    OBVIOUS
  <2> QED BY <2>3, <2>4, RoundsAreOfTwoPhases
<1>2. CASE r.phase = "tls"
  <2>1. r \in TlsRound /\ r.probing \in Probed(Endpoint, FoundTls)
    BY <1>2, PhasesOfRounds DEF TlsRound
  <2>2. p \in Probed(Endpoint, FoundTls)
    BY <1>2, <2>1, ProbedOfOneMore
  <2>3. [r EXCEPT !.probing = p] \in TlsRound
    <3> HIDE DEF p
    <3> QED BY <2>1, <2>2 DEF TlsRound
  <2>4. [r EXCEPT !.probing[e] = word] = [r EXCEPT !.probing = p]
    OBVIOUS
  <2> QED BY <2>3, <2>4, RoundsAreOfTwoPhases
<1> QED BY <1>1, <1>2

LEMMA RoundsButOne ==
    ASSUME NEW s \in Seq(Round), NEW i \in DOMAIN s
    PROVE  /\ RemoveAt(s, i) \in Seq(Round) /\ Len(RemoveAt(s, i)) <= Len(s)
           /\ \A r \in Round : [s EXCEPT ![i] = r] \in Seq(Round) /\ Len([s EXCEPT ![i] = r]) = Len(s)
<1>1. i \in 1 .. Len(s) /\ Len(s) \in Nat
  BY LenProperties
<1>2. SubSeq(s, 1, i - 1) \in Seq(Round) /\ Len(SubSeq(s, 1, i - 1)) = i - 1
  <2>1. \A j \in 1 .. i - 1 : s[j] \in Round
    BY <1>1, ElementOfSeq
  <2>2. 1 \in Int /\ i - 1 \in Int /\ i - 1 >= 0
    BY <1>1
  <2>3. SubSeq(s, 1, i - 1) \in Seq(Round)
    BY <1>1, <2>1, SubSeqProperties
  <2>4. Len(SubSeq(s, 1, i - 1)) = IF 1 <= i - 1 THEN i - 1 - 1 + 1 ELSE 0
    BY <1>1, SubSeqProperties
  <2> QED BY <1>1, <2>3, <2>4
<1>3. SubSeq(s, i + 1, Len(s)) \in Seq(Round) /\ Len(SubSeq(s, i + 1, Len(s))) = Len(s) - i
  <2>1. \A j \in i + 1 .. Len(s) : s[j] \in Round
    BY <1>1, ElementOfSeq
  <2>2. SubSeq(s, i + 1, Len(s)) \in Seq(Round)
    BY <1>1, <2>1, SubSeqProperties
  <2>3. Len(SubSeq(s, i + 1, Len(s))) = IF i + 1 <= Len(s) THEN Len(s) - (i + 1) + 1 ELSE 0
    BY <1>1, SubSeqProperties
  <2> QED BY <1>1, <2>2, <2>3
<1>4. RemoveAt(s, i) \in Seq(Round) /\ Len(RemoveAt(s, i)) = (i - 1) + (Len(s) - i)
  BY <1>2, <1>3, ConcatProperties DEF RemoveAt
<1>5. ASSUME NEW r \in Round
      PROVE  [s EXCEPT ![i] = r] \in Seq(Round) /\ Len([s EXCEPT ![i] = r]) = Len(s)
  BY ExceptSeq
<1> QED BY <1>1, <1>4, <1>5

\* The tables of the hub, which the rounds and the edits write.
TablesTyped ==
    /\ failures \in [Endpoint -> -1 .. Threshold] /\ age \in [Endpoint -> 0 .. 2]
    /\ tlsInfo \in [Endpoint -> {"none", "valid", "expired", "transient"}]
    /\ tlsStale \subseteq Endpoint

RoundsTyped == rounds \in Seq(Round) /\ Len(rounds) <= MaxRounds

LEMMA MonitorTypesInit == MonitorInit => MonitorTypeOK
<1> SUFFICES ASSUME MonitorInit PROVE MonitorTypeOK
  OBVIOUS
<1>1. rounds \in Seq(Round) /\ Len(rounds) <= MaxRounds
  BY MonitorAssumption, EmptySeq DEF MonitorInit
<1>2. failures \in [Endpoint -> -1 .. Threshold]
  BY MonitorAssumption DEF MonitorInit
<1>3. site \in [Endpoint -> [up : BOOLEAN, expired : BOOLEAN]]
  <2>1. PICK well \in BOOLEAN : site = [e \in Endpoint |-> [up |-> well, expired |-> FALSE]]
    BY DEF MonitorInit
  <2>2. [up |-> well, expired |-> FALSE] \in [up : BOOLEAN, expired : BOOLEAN]
    OBVIOUS
  <2> QED BY <2>1, <2>2
<1>4. endpoint \in [Endpoint -> [there : BOOLEAN, enabled : BOOLEAN, https : BOOLEAN]]
  BY DEF MonitorInit
<1>5. open \subseteq {"endpoint_down", "cert_expired"} \X Endpoint /\ edits \in 0 .. MaxEdits
  BY MonitorAssumption DEF MonitorInit
<1> QED BY <1>1, <1>2, <1>3, <1>4, <1>5 DEF MonitorInit, MonitorTypeOK

LEMMA MinuteTypes ==
    ASSUME MonitorTypeOK, Minute
    PROVE  RoundsTyped' /\ TablesTyped'
<1>1. PICK slow \in [Endpoint -> BOOLEAN] :
        rounds' = Append([i \in DOMAIN rounds |-> [rounds[i] EXCEPT !.late = TRUE]],
                         NextBatchOf({e \in Endpoint : IsDue(e, slow[e])}))
  BY DEF Minute
<1> DEFINE older == [i \in DOMAIN rounds |-> [rounds[i] EXCEPT !.late = TRUE]]
           due == {e \in Endpoint : IsDue(e, slow[e])}
<1>2. rounds \in Seq(Round) /\ Len(rounds) \in Nat /\ DOMAIN rounds = 1 .. Len(rounds)
  BY LenProperties DEF MonitorTypeOK
<1>3. \A i \in 1 .. Len(rounds) : older[i] \in Round
  BY <1>2, ElementOfSeq, LateIsRound
<1>4. older = [i \in 1 .. Len(rounds) |-> older[i]]
  BY <1>2
<1>5. older \in Seq(Round) /\ Len(older) = Len(rounds)
  <2> HIDE DEF older
  <2> QED BY <1>2, <1>3, <1>4, IsASeq
<1>6. NextBatchOf(due) \in Round
  BY NextBatchIsRound
<1>7. rounds' \in Seq(Round) /\ Len(rounds') = Len(rounds) + 1
  <2>1. rounds' = Append(older, NextBatchOf(due))
    BY <1>1
  <2> HIDE DEF older, due
  <2> QED BY <2>1, <1>5, <1>6, AppendProperties
<1>8. RoundsTyped'
  BY <1>2, <1>7, MonitorAssumption DEF Minute, RoundsTyped
<1>9. age' \in [Endpoint -> 0 .. 2]
  <2>1. \A e \in Endpoint : age[e] \in 0 .. 2
    BY DEF MonitorTypeOK
  <2>2. \A e \in Endpoint : (IF age[e] < 2 THEN age[e] + 1 ELSE 2) \in 0 .. 2
    BY <2>1
  <2> QED BY <2>2 DEF Minute
<1> QED BY <1>8, <1>9 DEF Minute, MonitorTypeOK, TablesTyped

LEMMA CountIsCount ==
    ASSUME NEW n \in -1 .. Threshold, NEW found,
           NEW e \in Endpoint, failures[e] = n
    PROVE  Count(e, found) \in -1 .. Threshold
BY MonitorAssumption DEF Count

LEMMA RecordChecksTypes ==
    ASSUME MonitorTypeOK, NEW i \in DOMAIN rounds, RecordChecks(i)
    PROVE  RoundsTyped' /\ TablesTyped'
<1>1. rounds \in Seq(Round) /\ rounds[i] \in Round
  BY ElementOfSeq DEF MonitorTypeOK
<1>2. rounds[i].due \in SUBSET Endpoint
  BY <1>1, PhasesOfRounds DEF RecordChecks, HttpRound
<1>3. PICK r \in Round : rounds' = [rounds EXCEPT ![i] = r]
  BY <1>2, NextBatchIsRound, BetweenIsRound DEF RecordChecks
<1>4. RoundsTyped'
  <2>1. rounds' \in Seq(Round) /\ Len(rounds') = Len(rounds)
    BY <1>1, <1>3, RoundsButOne
  <2> QED BY <2>1 DEF RoundsTyped, MonitorTypeOK
<1>5. failures' \in [Endpoint -> -1 .. Threshold]
  <2>1. \A e \in Endpoint : failures[e] \in -1 .. Threshold
    BY DEF MonitorTypeOK
  <2>2. \A e \in Endpoint : Count(e, rounds[i].probing[e]) \in -1 .. Threshold
    BY <2>1, CountIsCount
  <2> QED BY <2>1, <2>2 DEF RecordChecks
<1>6. age' \in [Endpoint -> 0 .. 2]
  <2>1. \A e \in Endpoint : age[e] \in 0 .. 2
    BY DEF MonitorTypeOK
  <2> QED BY <2>1 DEF RecordChecks
<1> QED BY <1>4, <1>5, <1>6 DEF RecordChecks, MonitorTypeOK, TablesTyped

LEMMA BeginTlsTypes ==
    ASSUME MonitorTypeOK, NEW i \in DOMAIN rounds, BeginTls(i)
    PROVE  RoundsTyped' /\ TablesTyped'
<1>1. rounds \in Seq(Round) /\ Len(rounds) \in Nat
  BY LenProperties DEF MonitorTypeOK
<1> DEFINE round == [phase |-> "tls", probing |-> [e \in TlsDue |-> "nothing yet"], late |-> FALSE]
<1>2. round \in Round
  <2>1. [e \in TlsDue |-> "nothing yet"] \in Probed(Endpoint, FoundTls)
    BY ProbedOfNone DEF TlsDue, FoundTls
  <2>2. round \in TlsRound
    BY <2>1 DEF TlsRound
  <2> QED BY <2>2, RoundsAreOfTwoPhases
<1>3. rounds' = RemoveAt(rounds, i) \/ rounds' = [rounds EXCEPT ![i] = round]
  BY DEF BeginTls
<1>4. RoundsTyped'
  <2> HIDE DEF round
  <2>1. RemoveAt(rounds, i) \in Seq(Round) /\ Len(RemoveAt(rounds, i)) <= Len(rounds)
    BY <1>1, RoundsButOne
  <2>2. [rounds EXCEPT ![i] = round] \in Seq(Round) /\ Len([rounds EXCEPT ![i] = round]) = Len(rounds)
    BY <1>1, <1>2, RoundsButOne
  <2>3. rounds' \in Seq(Round) /\ Len(rounds') <= Len(rounds)
    BY <1>1, <1>3, <2>1, <2>2
  <2>4. Len(rounds') \in Nat
    BY <2>3, LenProperties
  <2> QED BY <1>1, <2>3, <2>4, MonitorAssumption DEF RoundsTyped, MonitorTypeOK
<1>5. tlsInfo' \in [Endpoint -> {"none", "valid", "expired", "transient"}]
  BY DEF BeginTls, MonitorTypeOK
<1> QED BY <1>4, <1>5 DEF BeginTls, MonitorTypeOK, TablesTyped

LEMMA RecordTlsTypes ==
    ASSUME MonitorTypeOK, NEW i \in DOMAIN rounds, RecordTls(i)
    PROVE  RoundsTyped' /\ TablesTyped'
<1>1. rounds \in Seq(Round) /\ rounds[i] \in Round /\ Len(rounds) \in Nat
  BY ElementOfSeq, LenProperties DEF MonitorTypeOK
<1>2. RoundsTyped'
  <2>1. RemoveAt(rounds, i) \in Seq(Round) /\ Len(RemoveAt(rounds, i)) <= Len(rounds)
    BY <1>1, RoundsButOne
  <2>2. rounds' \in Seq(Round) /\ Len(rounds') <= Len(rounds) /\ Len(rounds') \in Nat
    BY <2>1, LenProperties DEF RecordTls
  <2> QED BY <1>1, <2>2, MonitorAssumption DEF RoundsTyped, MonitorTypeOK
<1>3. \A e \in DOMAIN rounds[i].probing : rounds[i].probing[e] \in {"valid", "expired", "transient"}
  <2>1. rounds[i].probing \in Probed(Endpoint, FoundTls)
    BY <1>1, PhasesOfRounds DEF RecordTls, TlsRound
  <2>2. \A e \in DOMAIN rounds[i].probing : rounds[i].probing[e] \in FoundTls
    BY <2>1, ProbedAreFound
  <2> QED BY <2>2 DEF FoundTls, RecordTls, Settled
<1>4. tlsInfo' \in [Endpoint -> {"none", "valid", "expired", "transient"}]
  BY <1>3 DEF RecordTls, MonitorTypeOK
<1>5. tlsStale' \subseteq Endpoint
  BY DEF RecordTls, MonitorTypeOK
<1> QED BY <1>2, <1>4, <1>5 DEF RecordTls, MonitorTypeOK, TablesTyped

\* One more answer of a probe.
LEMMA ProbesTypes ==
    ASSUME MonitorTypeOK, NEW i \in DOMAIN rounds, NEW e \in Endpoint, Probe(i, e) \/ ProbeTls(i, e)
    PROVE  RoundsTyped' /\ TablesTyped'
<1>1. rounds \in Seq(Round) /\ rounds[i] \in Round
  BY ElementOfSeq DEF MonitorTypeOK
<1>2. PICK word \in Found \cup FoundTls :
        /\ rounds' = [rounds EXCEPT ![i].probing[e] = word]
        /\ rounds[i].phase = "http" => word \in Found
        /\ rounds[i].phase = "tls" => word \in FoundTls
        /\ rounds[i].phase \in {"http", "tls"} /\ e \in DOMAIN rounds[i].probing
  <2>1. CASE Probe(i, e)
    BY <2>1 DEF Probe, Found
  <2>2. CASE ProbeTls(i, e)
    BY <2>2 DEF ProbeTls, FoundTls
  <2> QED BY <2>1, <2>2
<1> DEFINE r == [rounds[i] EXCEPT !.probing[e] = word]
<1>3. r \in Round
  BY <1>1, <1>2, ProbingIsRound
<1>4. rounds' = [rounds EXCEPT ![i] = r]
  BY <1>2
<1>5. RoundsTyped'
  <2> HIDE DEF r
  <2>1. rounds' \in Seq(Round) /\ Len(rounds') = Len(rounds)
    BY <1>1, <1>3, <1>4, RoundsButOne
  <2> QED BY <2>1 DEF RoundsTyped, MonitorTypeOK
<1> QED BY <1>5 DEF Probe, ProbeTls, MonitorTypeOK, TablesTyped

LEMMA EvaluateMonitorsTypes ==
    ASSUME MonitorTypeOK, EvaluateMonitors
    PROVE  open' \subseteq {"endpoint_down", "cert_expired"} \X Endpoint
<1>1. PICK down, expired \in SUBSET Endpoint :
        open' = {<<"endpoint_down", e>> : e \in down} \cup {<<"cert_expired", e>> : e \in expired}
  BY Zenon DEF EvaluateMonitors
<1> QED BY <1>1

LEMMA EditsTypes ==
    ASSUME MonitorTypeOK, NEW e \in Endpoint, EditEndpoint(e) \/ SiteChanges(e)
    PROVE  /\ endpoint' \in [Endpoint -> [there : BOOLEAN, enabled : BOOLEAN, https : BOOLEAN]]
           /\ site' \in [Endpoint -> [up : BOOLEAN, expired : BOOLEAN]]
           /\ TablesTyped'
<1>1. CASE EditEndpoint(e)
  <2>1. endpoint' \in [Endpoint -> [there : BOOLEAN, enabled : BOOLEAN, https : BOOLEAN]]
    <3>1. \/ endpoint' = [endpoint EXCEPT ![e].there = FALSE]
          \/ endpoint' = [endpoint EXCEPT ![e].enabled = ~@]
          \/ endpoint' = [endpoint EXCEPT ![e].https = ~@]
      BY <1>1 DEF EditEndpoint
    <3>2. PICK row \in [there : BOOLEAN, enabled : BOOLEAN, https : BOOLEAN] : row = endpoint[e]
      BY DEF MonitorTypeOK
    <3>3. /\ [row EXCEPT !.there = FALSE] \in [there : BOOLEAN, enabled : BOOLEAN, https : BOOLEAN]
          /\ [row EXCEPT !.enabled = ~@] \in [there : BOOLEAN, enabled : BOOLEAN, https : BOOLEAN]
          /\ [row EXCEPT !.https = ~@] \in [there : BOOLEAN, enabled : BOOLEAN, https : BOOLEAN]
      OBVIOUS
    <3>4. \E other \in [there : BOOLEAN, enabled : BOOLEAN, https : BOOLEAN] :
            endpoint' = [endpoint EXCEPT ![e] = other]
      BY <3>1, <3>2, <3>3
    <3> QED BY <3>4 DEF MonitorTypeOK
  <2>2. failures' \in [Endpoint -> -1 .. Threshold]
    <3>1. failures' = [failures EXCEPT ![e] = -1] \/ failures' = failures
      BY <1>1 DEF EditEndpoint
    <3>2. -1 \in -1 .. Threshold
      BY MonitorAssumption
    <3> QED BY <3>1, <3>2 DEF MonitorTypeOK
  <2>3. /\ tlsInfo' \in [Endpoint -> {"none", "valid", "expired", "transient"}]
        /\ tlsStale' \subseteq Endpoint
    <3>1. tlsInfo' = [tlsInfo EXCEPT ![e] = "none"] \/ tlsInfo' = tlsInfo
      BY <1>1 DEF EditEndpoint
    <3>2. tlsStale' \subseteq tlsStale
      BY <1>1 DEF EditEndpoint
    <3> QED BY <3>1, <3>2 DEF MonitorTypeOK
  <2>4. age' = age /\ site' = site
    BY <1>1 DEF EditEndpoint
  <2> QED BY <2>1, <2>2, <2>3, <2>4 DEF MonitorTypeOK, TablesTyped
<1>2. CASE SiteChanges(e)
  <2>1. site' \in [Endpoint -> [up : BOOLEAN, expired : BOOLEAN]]
    <3>1. site' = [site EXCEPT ![e].up = ~@] \/ site' = [site EXCEPT ![e].expired = ~@]
      BY <1>2 DEF SiteChanges
    <3>2. PICK well \in [up : BOOLEAN, expired : BOOLEAN] : well = site[e]
      BY DEF MonitorTypeOK
    <3>3. /\ [well EXCEPT !.up = ~@] \in [up : BOOLEAN, expired : BOOLEAN]
          /\ [well EXCEPT !.expired = ~@] \in [up : BOOLEAN, expired : BOOLEAN]
      OBVIOUS
    <3>4. \E other \in [up : BOOLEAN, expired : BOOLEAN] : site' = [site EXCEPT ![e] = other]
      BY <3>1, <3>2, <3>3
    <3> QED BY <3>4 DEF MonitorTypeOK
  <2> QED BY <1>2, <2>1 DEF SiteChanges, MonitorTypeOK, TablesTyped
<1> QED BY <1>1, <1>2

LEMMA MonitorTypesNext == MonitorTypeOK /\ [MonitorNext]_monitorVars => MonitorTypeOK'
<1> SUFFICES ASSUME MonitorTypeOK, [MonitorNext]_monitorVars PROVE MonitorTypeOK'
  OBVIOUS
<1>1. edits' \in 0 .. MaxEdits
  <2>1. edits' = edits \/ Edit
    BY DEF MonitorNext, monitorVars, Minute, HoursPass, EvaluateMonitors, RecordChecks, BeginTls,
       RecordTls, Probe, ProbeTls, EditEndpoint, SiteChanges
  <2> QED BY <2>1, MonitorAssumption DEF Edit, MonitorTypeOK
<1>2. RoundsTyped /\ TablesTyped
  BY DEF MonitorTypeOK, RoundsTyped, TablesTyped
<1>3. CASE Minute
  BY <1>1, <1>3, MinuteTypes DEF Minute, MonitorTypeOK, RoundsTyped, TablesTyped
<1>4. CASE HoursPass
  BY <1>1, <1>4 DEF HoursPass, MonitorTypeOK
<1>5. CASE EvaluateMonitors
  BY <1>1, <1>5, EvaluateMonitorsTypes DEF EvaluateMonitors, MonitorTypeOK
<1>6. ASSUME NEW i \in DOMAIN rounds,
             \/ RecordChecks(i) \/ BeginTls(i) \/ RecordTls(i)
             \/ \E e \in Endpoint : Probe(i, e) \/ ProbeTls(i, e)
      PROVE  MonitorTypeOK'
  <2>1. RoundsTyped' /\ TablesTyped'
    BY <1>6, RecordChecksTypes, BeginTlsTypes, RecordTlsTypes, ProbesTypes
  <2>2. UNCHANGED <<endpoint, site, open>>
    BY <1>6 DEF RecordChecks, BeginTls, RecordTls, Probe, ProbeTls
  <2> QED BY <1>1, <2>1, <2>2 DEF MonitorTypeOK, RoundsTyped, TablesTyped
<1>7. ASSUME NEW e \in Endpoint, EditEndpoint(e) \/ SiteChanges(e)
      PROVE  MonitorTypeOK'
  <2>1. UNCHANGED <<rounds, open>>
    BY <1>7 DEF EditEndpoint, SiteChanges
  <2> QED BY <1>1, <1>7, <2>1, EditsTypes DEF MonitorTypeOK, TablesTyped
<1>8. CASE UNCHANGED monitorVars
  BY <1>8 DEF monitorVars, MonitorTypeOK
<1> QED BY <1>3, <1>4, <1>5, <1>6, <1>7, <1>8 DEF MonitorNext

\* The rounds, the two results of each endpoint and the alerts have their types, however
\* rounds overlap and whatever is edited under them: "nothing yet" is never stored.
THEOREM MonitorTypeCorrect == MonitorSpec => []MonitorTypeOK
BY MonitorTypesInit, MonitorTypesNext, PTL DEF MonitorSpec

(***************************************************************************)
(* The services together: the one that runs keeps to its types.            *)
(***************************************************************************)

ServicesInv ==
    /\ RequestsInv /\ LinkInv /\ ChecksInv /\ SchemaTypes /\ MonitorTypeOK /\ ListingsInv

LEMMA ServicesInvInit == ServicesInit => ServicesInv
BY RequestsInvInit, LinkInvInit, ChecksInvInit, SchemaTypesInit, MonitorTypesInit,
   ListingsInvInit DEF ServicesInit, ServicesInv

\* A step of the services is a step of one and leaves the others alone.
LEMMA StepsOfServices ==
    ASSUME [ServicesNext]_serviceVars
    PROVE  /\ [RequestsNext]_requestVars /\ [LinkNext]_linkVars /\ [ChecksNext]_checkVars
           /\ [SchemaNext]_schemaVars /\ [MonitorNext]_monitorVars /\ [ListingsNext]_listingVars
BY Zenon DEF ServicesNext, serviceVars

LEMMA ServicesInvNext == ServicesInv /\ [ServicesNext]_serviceVars => ServicesInv'
BY StepsOfServices, RequestsInvNext, LinkInvNext, ChecksInvNext, SchemaTypesNext,
   MonitorTypesNext, ListingsInvNext DEF ServicesInv

\* Whichever service runs keeps to its types, for any requests, guests, hosts, reports,
\* releases, endpoints, listings and bounds.
THEOREM ServicesTypeCorrect == ServicesSpec => []ServicesTypeOK
<1>1. ServicesInv => ServicesTypeOK
  BY RequestsInvTypes, ChecksInvTypes, SchemaTypesHold
     DEF ServicesInv, ServicesTypeOK, LinkInv, ListingsInv
<1> QED BY ServicesInvInit, ServicesInvNext, <1>1, PTL DEF ServicesSpec

\* What is promised of each service holds where they are put together.
THEOREM ServicesAreSafe == ServicesSpec =>
    /\ [](StartsServe /\ ChecksPartition /\ AnswerIsOwn /\ NotLinkedToAnother)
    /\ NoUpdateAfterTimeout /\ RemovalIsReal
<1>1. ServicesInv => StartsServe /\ ChecksPartition /\ AnswerIsOwn /\ NotLinkedToAnother
  BY SchemaInvServes, ChecksInvShares DEF ServicesInv, SchemaTypes, RequestsInv, LinkInv
<1>2. ServicesInv /\ [ServicesNext]_serviceVars =>
        [\A t \in tasks' \ tasks : t.finished = "no" /\ request[t.id].kind = "update"
            => request[t.id].outcome # "timed out"]_requestVars
  BY StepsOfServices, UpdatesBeginInTime DEF ServicesInv
<1>3. ServicesInv /\ [ServicesNext]_serviceVars =>
        [topic \notin ShownByBatch \cup GuestListings \cup {"pve_zfs"} =>
            \A w \in Owner : \A o \in Shown(w) \ Shown(w)' :
                \E n \in ClusterNode : OwnerOf(n) = w /\ mail[n] # << >> /\ o \notin Head(mail[n]).seen]_listingVars
  BY StepsOfServices, RowsGoWithTheirObjects DEF ServicesInv
<1> QED BY <1>1, <1>2, <1>3, ServicesInvInit, ServicesInvNext, PTL
        DEF ServicesSpec, NoUpdateAfterTimeout, RemovalIsReal
=============================================================================
