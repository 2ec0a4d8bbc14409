------------------------ MODULE AlertPipelineProofs ------------------------
(***************************************************************************)
(* From what the agents publish to the mails that go out: theorems about   *)
(* AlertPipeline, for every set of hosts and containers, every bound on    *)
(* what is in flight and every value of the engine's constants.            *)
(***************************************************************************)
EXTENDS AlertPipeline, AlertEngineProofs, SequenceTheorems

\* The keys are those of the pipeline, and their types tell them apart.
LEMMA KeyShapes ==
    /\ \A k \in Key : k.host \in Host
    /\ \A k \in LevelKeys : k.type \in {"container_unhealthy", "host_offline"}
    /\ \A k \in OfflineKeys : k \in LevelKeys /\ k = Offline(k.host) /\ k.type \notin ContainerAlertTypes
<1>1. ASSUME NEW k \in Key
      PROVE  /\ k.host \in Host
             /\ k.type \in {"container_down", "container_unhealthy", "host_offline"}
             /\ k.type = "host_offline" => k = Offline(k.host)
  <2>1. \/ \E h \in Host, c \in Container \ Excluded : k = Down(h, c)
        \/ \E h \in Host, c \in Container \ Excluded : k = Unhealthy(h, c)
        \/ \E h \in Host : k = Offline(h)
    BY PipelineAssumption DEF PipelineKeys
  <2>2. QED
    BY <2>1 DEF Down, Unhealthy, Offline
<1>2. QED
  BY <1>1 DEF LevelKeys, DownKeys, OfflineKeys, ContainerAlertTypes

\* Only a host the hub knows and has not heard from is reported offline.
LEMMA OfflineReports ==
    ASSUME NEW k \in OfflineKeys
    PROVE  k \in Triggered <=> IsOffline(k.host)
BY KeyShapes DEF Triggered, OfflineKeys

\* And it is reported recovered when the hub has heard from it.
LEMMA OfflineResolutions ==
    ASSUME NEW k \in OfflineKeys
    PROVE  k \in Resolved <=> ActiveIds(k) # {} /\ HasReportedWithin(k.host, HostOfflineMinutes)
BY KeyShapes DEF Resolved, IsStale, HasRecovered, OfflineKeys

-----------------------------------------------------------------------------
(* The engine inside the pipeline.                                         *)

\* Deleting the rows of a host or a container without an alert deletes nothing.
LEMMA DeletingNothing ==
    ASSUME TypeOK, NEW S, S \cap Ids = {}, Delete(S)
    PROVE  UNCHANGED vars
<1>1. alert_state' = alert_state
  BY DEF Delete, Removed, Ids, TypeOK, Table
<1>2. QED
  BY <1>1 DEF Delete, BetweenCycles, vars

\* So every handler of the pipeline is a handler of the engine, or changes none
\* of its state.
LEMMA RemovalIsEngineStep ==
    ASSUME TypeOK, NEW h, NEW c, DeleteHost(h) \/ DeleteContainer(h, c)
    PROVE  [Next]_vars
<1>1. \A i \in Ids : alert_state[i].key \in Key
  BY DEF TypeOK, Table, Ids, AlertRow
<1>2. CASE DeleteHost(h)
  <2>1. CASE \E k \in Key : k.host = h
    BY <1>2, <2>1 DEF Next, Handlers
  <2>2. CASE ~ \E k \in Key : k.host = h
    <3>1. {i \in Ids : alert_state[i].key.host = h} \cap Ids = {}
      BY <1>1, <2>2
    <3>2. QED
      BY <1>2, <3>1, DeletingNothing DEF DeleteHost
  <2>3. QED
    BY <2>1, <2>2
<1>3. CASE DeleteContainer(h, c)
  <2>1. CASE \E k \in Key : k.host = h /\ k.target = c
    BY <1>3, <2>1 DEF Next, Handlers
  <2>2. CASE ~ \E k \in Key : k.host = h /\ k.target = c
    <3>1. {i \in Ids : alert_state[i].key.host = h /\ alert_state[i].key.target = c} \cap Ids = {}
      BY <1>1, <2>2
    <3>2. QED
      BY <1>3, <3>1, DeletingNothing DEF DeleteContainer
  <2>3. QED
    BY <2>1, <2>2
<1>4. QED
  BY <1>2, <1>3

pipelineAll == <<vars, pipelineVars>>

\* The agents' and MQTT's steps, none of which an evaluation sees.
Ingestion == \E h \in Host :
    \/ \E b \in Batch : Publish(h, b)
    \/ AgentRestart(h) \/ Deliver(h) \/ DeliverUnacknowledged(h)

LEMMA IngestionIsQuiet ==
    ASSUME Ingestion
    PROVE  ~running /\ UNCHANGED vars /\ UNCHANGED <<outSince, wellSince>>
BY DEF Ingestion, Publish, AgentRestart, Deliver, DeliverUnacknowledged, HandleCollection,
       EngineUnchanged, HistoryUnchanged

\* Every step of the pipeline is one of the engine, with the lists it computes.
LEMMA StepIsEngineStep == TypeOK /\ [PipelineNext]_pipelineAll => [Next]_vars
<1> SUFFICES ASSUME TypeOK, [PipelineNext]_pipelineAll PROVE [Next]_vars
  OBVIOUS
<1>1. CASE Ingestion
  BY <1>1, IngestionIsQuiet
<1>2. CASE \E h \in Host : RemoveHost(h) \/ \E c \in Container : RemoveContainer(h, c)
  BY <1>2, RemovalIsEngineStep DEF RemoveHost, RemoveContainer
<1>3. CASE Evaluate
  <2>1. Triggered \in SUBSET Key /\ Resolved \in SUBSET Key /\ {} \in SUBSET Resolved
    BY DEF Triggered, Resolved
  <2>2. StartCycle(Triggered, Resolved, {})
    BY <1>3 DEF Evaluate
  <2>3. QED
    BY <2>1, <2>2 DEF Next
<1>4. CASE Tick \/ Process
  BY <1>4 DEF Next
<1>5. CASE UNCHANGED pipelineAll
  BY <1>5 DEF pipelineAll
<1>6. QED
  BY <1>1, <1>2, <1>3, <1>4, <1>5 DEF PipelineNext, Ingestion

-----------------------------------------------------------------------------
(* Types.                                                                  *)

\* The store has an entry for every host, which PipelineTypeOK leaves open.
StoreShape ==
    /\ snapshots \in [Host -> [Container -> Seq(Snapshot)]]
    /\ registry = [h \in Host |-> registry[h]]

\* The rows of a container: what snapshots[h][c] may hold.
LEMMA NewestRows ==
    ASSUME NEW s \in Seq(Snapshot), Len(s) <= 2, NEW row \in Snapshot
    PROVE  LET t == <<row>> \o SubSeq(s, 1, Lesser(1, Len(s)))
           IN  t \in Seq(Snapshot) /\ Len(t) <= 2
<1>1. Lesser(1, Len(s)) \in 0 .. 1 /\ Lesser(1, Len(s)) <= Len(s)
  BY DEF Lesser
<1>2. PICK u : u = SubSeq(s, 1, Lesser(1, Len(s)))
  OBVIOUS
<1>3. u \in Seq(Snapshot) /\ Len(u) <= 1
  <2> DEFINE k == Lesser(1, Len(s))
  <2>1. k \in Int /\ k <= 1 /\ 1 \in Int
    BY <1>1
  <2>2. \A i \in 1 .. k : s[i] \in Snapshot
    BY <1>1, ElementOfSeq
  <2>3. u = SubSeq(s, 1, k)
    BY <1>2
  <2> HIDE DEF k
  <2>4. u \in Seq(Snapshot) /\ Len(u) = IF 1 <= k THEN k - 1 + 1 ELSE 0
    BY <2>1, <2>2, <2>3, SubSeqProperties
  <2> QED BY <2>1, <2>4
<1>4. <<row>> \in Seq(Snapshot) /\ Len(<<row>>) = 1
  OBVIOUS
<1>5. QED
  BY <1>2, <1>3, <1>4

LEMMA BatchTypes ==
    ASSUME NEW b \in Batch
    PROVE  DOMAIN b \subseteq Container /\ \A c \in DOMAIN b : b[c] \in ContainerState
BY PipelineAssumption DEF Batch

\* What the hub stores of a batch.
LEMMA IngestionTypes ==
    ASSUME PipelineTypeOK, StoreShape, NEW h \in Host, NEW b \in Batch, HandleCollection(h, b)
    PROVE  /\ StoreShape'
           /\ \A g \in Host, c \in Container :
                /\ snapshots'[g][c] \in Seq(Snapshot)
                /\ Len(snapshots'[g][c]) <= 2
                /\ c \in DOMAIN registry'[g] => registry'[g][c] \in RegistryRow
           /\ lastSeen' \in [Host -> Maybe(Nat)]
<1> USE DEF PipelineTypeOK, StoreShape
<1>1. now \in Nat
  BY DEF TypeOK
<1>2. lastSeen' \in [Host -> Maybe(Nat)]
  BY <1>1 DEF HandleCollection, Maybe
<1>3. CASE IngestContainers(h, b)
  <2> DEFINE rows == [c \in Container |->
                        IF c \in DOMAIN b
                        THEN <<[state |-> b[c], at |-> now]>> \o SubSeq(snapshots[h][c], 1, Lesser(1, Len(snapshots[h][c])))
                        ELSE snapshots[h][c]]
             regs == [c \in DOMAIN registry[h] \cup DOMAIN b |->
                        IF c \in DOMAIN b THEN [last_seen |-> now, removed |-> FALSE]
                        ELSE IF registry[h][c].last_seen < now THEN [registry[h][c] EXCEPT !.removed = TRUE]
                        ELSE registry[h][c]]
  <2>1. snapshots' = [snapshots EXCEPT ![h] = rows] /\ registry' = [registry EXCEPT ![h] = regs]
    BY <1>3 DEF IngestContainers
  <2>2. ASSUME NEW c \in Container
        PROVE  rows[c] \in Seq(Snapshot) /\ Len(rows[c]) <= 2
    <3>1. CASE c \in DOMAIN b
      <4>1. [state |-> b[c], at |-> now] \in Snapshot
        BY <1>1, <3>1, BatchTypes DEF Snapshot
      <4>2. rows[c] = <<[state |-> b[c], at |-> now]>> \o SubSeq(snapshots[h][c], 1, Lesser(1, Len(snapshots[h][c])))
        BY <3>1
      <4>3. snapshots[h][c] \in Seq(Snapshot) /\ Len(snapshots[h][c]) <= 2
        OBVIOUS
      <4> HIDE DEF rows
      <4>4. QED
        BY <4>1, <4>2, <4>3, NewestRows
    <3>2. CASE c \notin DOMAIN b
      BY <3>2
    <3>3. QED
      BY <3>1, <3>2
  <2>3. ASSUME NEW c \in Container, c \in DOMAIN regs
        PROVE  regs[c] \in RegistryRow
    BY <1>1, <2>3 DEF RegistryRow
  <2> HIDE DEF rows, regs
  <2>4. rows \in [Container -> Seq(Snapshot)]
    BY <2>2 DEF rows
  <2>5. /\ snapshots'[h] = rows /\ registry'[h] = regs
        /\ \A g \in Host \ {h} : snapshots'[g] = snapshots[g] /\ registry'[g] = registry[g]
        /\ snapshots' \in [Host -> [Container -> Seq(Snapshot)]]
        /\ registry' = [g \in Host |-> registry'[g]]
    BY <2>1, <2>4
  <2>6. QED
    BY <1>2, <2>2, <2>3, <2>5
<1>4. CASE UNCHANGED <<snapshots, registry>>
  BY <1>2, <1>4
<1>5. QED
  BY <1>3, <1>4 DEF HandleCollection

\* Batches come and go at the two ends of a host's queue.
LEMMA InFlightTypes ==
    ASSUME PipelineTypeOK, Ingestion
    PROVE  inFlight' \in [Host -> Seq(Batch)]
<1> USE DEF PipelineTypeOK
<1>1. ASSUME NEW h \in Host, NEW q \in Seq(Batch), inFlight' = [inFlight EXCEPT ![h] = q]
      PROVE  inFlight' \in [Host -> Seq(Batch)]
  BY <1>1
<1>2. ASSUME NEW h \in Host, NEW b \in Batch, Publish(h, b)
      PROVE  inFlight' \in [Host -> Seq(Batch)]
  <2>1. Append(inFlight[h], b) \in Seq(Batch)
    BY <1>2
  <2>2. QED
    BY <1>1, <1>2, <2>1 DEF Publish
<1>3. ASSUME NEW h \in Host, AgentRestart(h)
      PROVE  inFlight' \in [Host -> Seq(Batch)]
  <2>1. PICK n \in 0 .. Len(inFlight[h]) - 1 : inFlight' = [inFlight EXCEPT ![h] = SubSeq(inFlight[h], 1, n)]
    BY <1>3 DEF AgentRestart
  <2>2. inFlight[h] \in Seq(Batch)
    OBVIOUS
  <2>3. SubSeq(inFlight[h], 1, n) \in Seq(Batch)
    BY <2>1, <2>2
  <2>4. QED
    BY <1>1, <2>1, <2>3
<1>4. ASSUME NEW h \in Host, Deliver(h)
      PROVE  inFlight' \in [Host -> Seq(Batch)]
  <2>1. Tail(inFlight[h]) \in Seq(Batch)
    BY <1>4 DEF Deliver
  <2>2. QED
    BY <1>1, <1>4, <2>1 DEF Deliver
<1>5. ASSUME NEW h \in Host, DeliverUnacknowledged(h)
      PROVE  inFlight' \in [Host -> Seq(Batch)]
  BY <1>5 DEF DeliverUnacknowledged
<1>6. QED
  BY <1>2, <1>3, <1>4, <1>5 DEF Ingestion

\* A delivery is the handling of the batch at the head of the queue.
LEMMA DeliveredBatches ==
    ASSUME PipelineTypeOK, NEW h \in Host, Deliver(h) \/ DeliverUnacknowledged(h)
    PROVE  \E b \in Batch : HandleCollection(h, b)
<1>1. inFlight[h] \in Seq(Batch) /\ inFlight[h] # << >>
  BY DEF PipelineTypeOK, Deliver, DeliverUnacknowledged
<1>2. Head(inFlight[h]) \in Batch
  BY <1>1
<1>3. QED
  BY <1>2 DEF Deliver, DeliverUnacknowledged

LEMMA PipelineTypesInit == PipelineInit => PipelineTypeOK /\ StoreShape
<1> SUFFICES ASSUME PipelineInit PROVE PipelineTypeOK /\ StoreShape
  OBVIOUS
<1>1. TypeOK
  BY TypeOKInit DEF PipelineInit
<1>2. << >> \in Seq(Snapshot) /\ << >> \in Seq(Batch) /\ Len(<< >>) = 0
  OBVIOUS
<1>3. QED
  BY <1>1, <1>2 DEF PipelineInit, PipelineTypeOK, StoreShape, Maybe, Never

LEMMA PipelineTypesStep ==
    PipelineTypeOK /\ StoreShape /\ [PipelineNext]_pipelineAll => PipelineTypeOK' /\ StoreShape'
<1> SUFFICES ASSUME PipelineTypeOK, StoreShape, [PipelineNext]_pipelineAll
             PROVE  PipelineTypeOK' /\ StoreShape'
  OBVIOUS
<1>1. TypeOK /\ TypeOK' /\ now \in Nat
  BY EngineAssumption, StepIsEngineStep, TypeOKStep DEF PipelineTypeOK, TypeOK
<1>2. CASE Ingestion
  <2>1. inFlight' \in [Host -> Seq(Batch)] /\ UNCHANGED <<outSince, wellSince>>
    BY <1>2, InFlightTypes, IngestionIsQuiet
  <2>2. CASE \E h \in Host, b \in Batch : HandleCollection(h, b)
    BY <1>1, <2>1, <2>2, IngestionTypes DEF PipelineTypeOK
  <2>3. CASE UNCHANGED <<snapshots, registry, lastSeen>>
    BY <1>1, <2>1, <2>3 DEF PipelineTypeOK, StoreShape
  <2>4. QED
    BY <1>2, <2>2, <2>3, DeliveredBatches DEF Ingestion, Publish, AgentRestart
<1>3. ASSUME NEW K, Forgotten(K)
      PROVE  outSince' \in [Key -> Maybe(Nat)] /\ wellSince' \in [Key -> Maybe(Nat)]
  BY <1>3 DEF Forgotten, PipelineTypeOK, Maybe, Never
<1>4. ASSUME NEW h \in Host, RemoveHost(h)
      PROVE  PipelineTypeOK' /\ StoreShape'
  <2>1. outSince' \in [Key -> Maybe(Nat)] /\ wellSince' \in [Key -> Maybe(Nat)]
    BY <1>3, <1>4 DEF RemoveHost
  <2>2. << >> \in Seq(Snapshot) /\ Len(<< >>) = 0
    OBVIOUS
  <2>3. lastSeen' \in [Host -> Maybe(Nat)] /\ UNCHANGED <<inFlight, registry>>
    BY <1>4 DEF RemoveHost, PipelineTypeOK, Maybe
  <2>4. snapshots' = [snapshots EXCEPT ![h] = [c \in Container |-> << >>]]
    BY <1>4 DEF RemoveHost
  <2>5. QED
    BY <1>1, <2>1, <2>2, <2>3, <2>4 DEF PipelineTypeOK, StoreShape
<1>5. ASSUME NEW h \in Host, NEW c \in Container, RemoveContainer(h, c)
      PROVE  PipelineTypeOK' /\ StoreShape'
  <2>1. outSince' \in [Key -> Maybe(Nat)] /\ wellSince' \in [Key -> Maybe(Nat)]
    BY <1>3, <1>5 DEF RemoveContainer
  <2>2. << >> \in Seq(Snapshot) /\ Len(<< >>) = 0
    OBVIOUS
  <2>3. UNCHANGED <<inFlight, registry, lastSeen>>
    BY <1>5 DEF RemoveContainer
  <2>4. snapshots' = [snapshots EXCEPT ![h] = [snapshots[h] EXCEPT ![c] = << >>]]
    BY <1>5 DEF RemoveContainer
  <2>5. QED
    BY <1>1, <2>1, <2>2, <2>3, <2>4 DEF PipelineTypeOK, StoreShape
<1>6. CASE Evaluate
  <2>1. \A t \in Maybe(Nat) : Started(t) \in Maybe(Nat)
    BY <1>1 DEF Started, Maybe
  <2>2. outSince' \in [Key -> Maybe(Nat)] /\ wellSince' \in [Key -> Maybe(Nat)]
    BY <1>6, <2>1 DEF Evaluate, PipelineTypeOK, Maybe, Never
  <2>3. UNCHANGED <<inFlight, snapshots, registry, lastSeen>>
    BY <1>6 DEF Evaluate, storeVars
  <2>4. QED
    BY <1>1, <2>2, <2>3 DEF PipelineTypeOK, StoreShape
<1>7. CASE UNCHANGED pipelineVars
  BY <1>1, <1>7 DEF pipelineVars, storeVars, PipelineTypeOK, StoreShape
<1>8. QED
  BY <1>2, <1>4, <1>5, <1>6, <1>7 DEF PipelineNext, Ingestion, pipelineAll

-----------------------------------------------------------------------------
(* The inductive invariant: what the table says of an outage and of a      *)
(* recovery is at least as old as what the evaluations saw.                *)

\* Nobody silences here, and no row is older than its sighting.
OnsetsAreSound == \A i \in Ids :
    /\ alert_state[i].silenced_until = NULL
    /\ alert_state[i].pending_since <= now

\* A silence is only reported of a host the hub knows.
OfflineHostsAreKnown ==
    /\ \A i \in Ids : alert_state[i].key \in OfflineKeys => lastSeen[alert_state[i].key.host] # NULL
    /\ \A k \in OfflineKeys \cap todoT : lastSeen[k.host] # NULL

\* An outage every evaluation has seen has a row as old as itself.
OutagesHaveRows == \A k \in LevelKeys : outSince[k] # Never =>
    /\ outSince[k] <= now
    /\ running => k \in trig \ res
    /\ \A i \in ActiveIds(k) : alert_state[i].pending_since <= outSince[k]
    /\ ActiveIds(k) # {} \/ (k \in todoT /\ outSince[k] = now)

\* A row waits for no recovery that an evaluation has seen relapse.
RecoveriesAreSeen == \A k \in LevelKeys :
    /\ wellSince[k] <= now
    /\ k \in res => wellSince[k] # Never
    /\ \A i \in ActiveIds(k) : alert_state[i].resolved_pending_since # NULL =>
         \/ k \in todoT
         \/ wellSince[k] # Never /\ wellSince[k] <= alert_state[i].resolved_pending_since

\* The row of a host that is back has waited since it came back.
OfflineRecoveriesWait == \A k \in OfflineKeys : wellSince[k] # Never =>
    /\ k \notin trig
    /\ running /\ k \notin res => ActiveIds(k) = {}
    /\ \/ k \in todoR /\ wellSince[k] = now
       \/ \A i \in ActiveIds(k) :
            /\ alert_state[i].resolved_pending_since # NULL
            /\ alert_state[i].resolved_pending_since <= wellSince[k]

HistoryInv ==
    /\ OnsetsAreSound
    /\ OfflineHostsAreKnown
    /\ OutagesHaveRows
    /\ RecoveriesAreSeen
    /\ OfflineRecoveriesWait

PipelineInv == PipelineTypeOK /\ StoreShape /\ CoverageInv /\ HistoryInv

\* What PipelineInv says of the numbers and the lists.
LEMMA PipelineFacts ==
    ASSUME PipelineInv
    PROVE  /\ TypeOK /\ UniqueActive /\ RecoveriesFollowMails
           /\ now \in Nat
           /\ outSince \in [Key -> Nat \cup {NULL}] /\ wellSince \in [Key -> Nat \cup {NULL}]
           /\ todoT \subseteq trig /\ todoR \subseteq res
           /\ ~running => trig = {} /\ res = {}
           /\ \A i \in Ids : /\ alert_state[i].pending_since \in Nat
                             /\ alert_state[i].resolved_pending_since \in Nat \cup {NULL}
                             /\ alert_state[i].key \in Key
BY DEF PipelineInv, PipelineTypeOK, CoverageInv, SafetyInv, LoopOrder, TypeOK, Table, Ids, AlertRow, Maybe

-----------------------------------------------------------------------------
(* An evaluation begins.                                                   *)

LEMMA EvaluateKeepsHistory == PipelineInv /\ Evaluate => HistoryInv'
<1> SUFFICES ASSUME PipelineInv, Evaluate PROVE HistoryInv'
  OBVIOUS
<1> USE PipelineFacts DEF Never, NULL
<1>1. /\ ~running /\ running' /\ trig' = Triggered /\ todoT' = Triggered /\ res' = Resolved /\ todoR' = Resolved
      /\ UNCHANGED <<now, alert_state, lastSeen>>
      /\ trig = {} /\ res = {} /\ todoT = {} /\ todoR = {}
  BY DEF Evaluate, StartCycle, storeVars
<1>2. /\ Ids' = Ids /\ \A k : ActiveIds(k)' = ActiveIds(k)
  BY <1>1 DEF Ids, ActiveIds, IsActive
<1>3. ASSUME NEW k \in LevelKeys
      PROVE  /\ StillBad(k) <=> k \in Triggered
             /\ outSince'[k] = IF k \in Resolved \/ k \notin Triggered THEN Never ELSE Started(outSince[k])
             /\ wellSince'[k] = IF k \in Resolved THEN Started(wellSince[k])
                                ELSE IF k \in Triggered THEN Never ELSE wellSince[k]
  BY KeyShapes DEF Evaluate, StillBad, LevelKeys
<1>4. OnsetsAreSound'
  BY <1>1, <1>2 DEF OnsetsAreSound, PipelineInv, HistoryInv
<1>5. OfflineHostsAreKnown'
  <2>1. \A k \in OfflineKeys \cap todoT' : lastSeen'[k.host] # NULL
    BY <1>1, OfflineReports DEF IsOffline
  <2>2. QED
    BY <1>1, <1>2, <2>1 DEF OfflineHostsAreKnown, PipelineInv, HistoryInv
<1>6. OutagesHaveRows'
  <2> SUFFICES ASSUME NEW k \in LevelKeys, outSince'[k] # Never
               PROVE  /\ outSince'[k] <= now
                      /\ k \in Triggered \ Resolved
                      /\ \A i \in ActiveIds(k) : alert_state[i].pending_since <= outSince'[k]
                      /\ ActiveIds(k) # {} \/ (k \in Triggered /\ outSince'[k] = now)
    BY <1>1, <1>2 DEF OutagesHaveRows
  <2>1. k \in Triggered \ Resolved /\ outSince'[k] = Started(outSince[k])
    BY <1>3
  <2>2. CASE outSince[k] = Never
    BY <2>1, <2>2 DEF Started, PipelineInv, HistoryInv, OnsetsAreSound, ActiveIds
  <2>3. CASE outSince[k] # Never
    BY <1>1, <2>1, <2>3 DEF Started, PipelineInv, HistoryInv, OutagesHaveRows
  <2>4. QED
    BY <2>2, <2>3
<1>7. RecoveriesAreSeen'
  <2> SUFFICES ASSUME NEW k \in LevelKeys
               PROVE  /\ wellSince'[k] <= now
                      /\ k \in Resolved => wellSince'[k] # Never
                      /\ \A i \in ActiveIds(k) : alert_state[i].resolved_pending_since # NULL =>
                           \/ k \in Triggered
                           \/ wellSince'[k] # Never /\ wellSince'[k] <= alert_state[i].resolved_pending_since
    BY <1>1, <1>2 DEF RecoveriesAreSeen
  <2>1. /\ wellSince[k] <= now /\ wellSince[k] \in Nat \cup {NULL}
        /\ \A i \in ActiveIds(k) : alert_state[i].resolved_pending_since # NULL =>
             wellSince[k] # Never /\ wellSince[k] <= alert_state[i].resolved_pending_since
    BY <1>1 DEF PipelineInv, HistoryInv, RecoveriesAreSeen, LevelKeys
  <2>2. QED
    BY <1>3, <2>1 DEF Started
<1>8. OfflineRecoveriesWait'
  <2> SUFFICES ASSUME NEW k \in OfflineKeys, wellSince'[k] # Never
               PROVE  /\ k \notin Triggered
                      /\ k \notin Resolved => ActiveIds(k) = {}
                      /\ \/ k \in Resolved /\ wellSince'[k] = now
                         \/ \A i \in ActiveIds(k) :
                              /\ alert_state[i].resolved_pending_since # NULL
                              /\ alert_state[i].resolved_pending_since <= wellSince'[k]
    BY <1>1, <1>2 DEF OfflineRecoveriesWait
  <2>1. k \in LevelKeys
    BY KeyShapes
  <2>2. k \in Resolved => k \notin Triggered
    BY OfflineResolutions, OfflineReports DEF IsOffline
  <2>3. k \notin Triggered
    BY <1>3, <2>1, <2>2
  <2>4. k \notin Resolved => ActiveIds(k) = {}
    <3>1. ActiveIds(k) # {} => lastSeen[k.host] # NULL
      BY DEF PipelineInv, HistoryInv, OfflineHostsAreKnown, ActiveIds
    <3>2. QED
      BY <2>3, <3>1, OfflineReports, OfflineResolutions DEF IsOffline
  <2>5. CASE k \in Resolved /\ wellSince[k] = Never
    BY <1>3, <2>1, <2>3, <2>5 DEF Started
  <2>6. CASE wellSince[k] # Never
    <3>1. wellSince'[k] = wellSince[k]
      BY <1>3, <2>1, <2>3, <2>6 DEF Started
    <3>2. QED
      BY <1>1, <2>3, <2>4, <2>6, <3>1 DEF PipelineInv, HistoryInv, OfflineRecoveriesWait
  <2>7. QED
    BY <1>3, <2>1, <2>3, <2>4, <2>5, <2>6
<1>9. QED
  BY <1>4, <1>5, <1>6, <1>7, <1>8 DEF HistoryInv

-----------------------------------------------------------------------------
(* An evaluation visits an item.                                           *)

\* What a visit to an item of the triggered list does to the rows of its key.
TriggeredVisit(k) ==
    /\ k \in todoT /\ running /\ running'
    /\ now' = now /\ trig' = trig /\ res' = res /\ todoR' = todoR
    /\ todoT \ {k} \subseteq todoT' /\ todoT' \subseteq todoT
    /\ VisitEffect(k) /\ KeepsOpen(k)
    /\ \A i \in ActiveIds(k)' :
         \/ alert_state'[i].resolved_pending_since = NULL
         \/ /\ k \in todoT'
            /\ i \in ActiveIds(k)
            /\ alert_state'[i].resolved_pending_since = alert_state[i].resolved_pending_since
    /\ k \notin todoT' => ActiveIds(k)' # {}

\* And of the resolved list.
ResolvedVisit(k) ==
    /\ k \in todoR /\ todoT = {} /\ running /\ running'
    /\ now' = now /\ trig' = trig /\ res' = res /\ todoT' = todoT /\ todoR' = todoR \ {k}
    /\ VisitEffect(k)
    /\ \A i \in ActiveIds(k)' :
         /\ i \in ActiveIds(k)
         /\ alert_state'[i].resolved_pending_since = IF alert_state[i].resolved_pending_since = NULL THEN now
                                                     ELSE alert_state[i].resolved_pending_since

LEMMA TriggeredVisits ==
    ASSUME PipelineInv, TypeOK', NEW k \in Key, StampChildren(k) \/ ProcessTriggered(k)
    PROVE  TriggeredVisit(k)
<1> USE EngineAssumption, PipelineFacts
<1>1. CASE StampChildren(k)
  <2>1. /\ k \in todoT /\ running /\ running' /\ UNCHANGED <<now, trig, res, todoT, todoR>>
    BY <1>1 DEF StampChildren, HeadsTriggered
  <2>2. QED
    BY <1>1, <2>1, StampEffect DEF TriggeredVisit
<1>2. CASE ProcessTriggered(k)
  <2>1. Visits(k)
    BY <1>2 DEF ProcessTriggered, FirstSighting, Hold, HoldForParent, Announce, Remind
  <2>2. /\ k \in todoT /\ running /\ running' /\ UNCHANGED <<now, trig, res, todoR>> /\ todoT' = todoT \ {k}
    BY <2>1 DEF Visits, HeadsTriggered
  <2>3. /\ VisitEffect(k) /\ KeepsOpen(k) /\ ActiveIds(k)' # {}
        /\ \A i \in ActiveIds(k)' : alert_state'[i].resolved_pending_since = NULL
    BY <1>2, FirstSightingEffect, OpenRowEffect DEF ProcessTriggered
  <2>4. QED
    BY <2>2, <2>3 DEF TriggeredVisit
<1>3. QED
  BY <1>1, <1>2

LEMMA ResolvedVisits ==
    ASSUME PipelineInv, NEW k \in Key, ProcessResolved(k)
    PROVE  ResolvedVisit(k)
<1>1. /\ k \in todoR /\ todoT = {} /\ running /\ running'
      /\ now' = now /\ trig' = trig /\ res' = res /\ todoT' = todoT /\ todoR' = todoR \ {k}
  BY DEF ProcessResolved, DropUnsent, ResolveSilently, Resolve, AwaitRecovery, VisitsResolved
<1>2. QED
  BY <1>1, EngineAssumption, PipelineFacts, ResolvedEffect DEF ResolvedVisit

\* A visit leaves the rows as old as their sightings, of hosts the hub knows.
LEMMA VisitKeepsOnsets ==
    ASSUME PipelineInv, NEW k \in Key, VisitEffect(k), now' = now, lastSeen' = lastSeen, todoT' \subseteq todoT,
           k \in todoT \/ ActiveIds(k) # {}
    PROVE  OnsetsAreSound' /\ OfflineHostsAreKnown'
<1> USE PipelineFacts
<1>1. OnsetsAreSound /\ OfflineHostsAreKnown
  BY DEF PipelineInv, HistoryInv
<1>2. OnsetsAreSound'
  BY <1>1 DEF OnsetsAreSound, VisitEffect, SameButPointer, KeepsOnset
<1>3. k \in OfflineKeys => lastSeen[k.host] # NULL
  BY <1>1 DEF OfflineHostsAreKnown, ActiveIds
<1>4. OfflineHostsAreKnown'
  BY <1>1, <1>3 DEF OfflineHostsAreKnown, VisitEffect, SameButPointer
<1>5. QED
  BY <1>2, <1>4

\* The open rows a visit of the triggered loop leaves: those it found, or one
\* that begins now.
LEMMA VisitKeepsAge ==
    ASSUME PipelineInv, UniqueActive', NEW k \in Key, TriggeredVisit(k), NEW i \in ActiveIds(k)'
    PROVE  IF ActiveIds(k) = {} THEN alert_state'[i].pending_since = now
           ELSE i \in ActiveIds(k) /\ alert_state'[i].pending_since = alert_state[i].pending_since
<1>1. i \in Ids' /\ alert_state'[i].key = k /\ alert_state'[i].resolved_at = NULL
  BY DEF ActiveIds, IsActive
<1>2. VisitEffect(k) /\ KeepsOpen(k)
  BY DEF TriggeredVisit
<1>3. i \in Ids \ ActiveIds(k) => SameButPointer(alert_state'[i], alert_state[i])
  BY <1>2 DEF VisitEffect
<1>4. i \in Ids => i \in ActiveIds(k)
  BY <1>1, <1>3 DEF SameButPointer, ActiveIds, IsActive
<1>5. \/ i \in Ids /\ alert_state'[i].pending_since = alert_state[i].pending_since
      \/ i \notin Ids /\ alert_state'[i].pending_since = now
  BY <1>1, <1>2 DEF VisitEffect, SameButPointer, KeepsOnset
<1>6. CASE ActiveIds(k) = {}
  BY <1>4, <1>5, <1>6
<1>7. CASE ActiveIds(k) # {}
  <2>1. PICK j \in ActiveIds(k) : j \in ActiveIds(k)'
    BY <1>2, <1>7 DEF KeepsOpen
  <2>2. j = i
    BY <1>1, <2>1 DEF UniqueActive, ActiveIds, IsActive
  <2>3. QED
    BY <1>5, <1>7, <2>1, <2>2 DEF ActiveIds
<1>8. QED
  BY <1>6, <1>7

\* A visit to j leaves what the invariant says of another key alone.
LEMMA OtherHistoriesKept ==
    ASSUME PipelineInv, NEW j, TriggeredVisit(j) \/ ResolvedVisit(j), NEW k, k # j
    PROVE  /\ ActiveIds(k)' = ActiveIds(k)
           /\ \A i \in ActiveIds(k) : SameButPointer(alert_state'[i], alert_state[i])
           /\ now' = now /\ running' = running /\ trig' = trig /\ res' = res
           /\ k \in todoT' <=> k \in todoT
           /\ k \in todoR' <=> k \in todoR
BY OthersKept DEF TriggeredVisit, ResolvedVisit

LEMMA TriggeredKeepsHistory ==
    ASSUME PipelineInv, UniqueActive', NEW k \in Key, TriggeredVisit(k), UNCHANGED pipelineVars
    PROVE  HistoryInv'
<1> USE PipelineFacts DEF PipelineInv, HistoryInv, pipelineVars, storeVars
<1>1. /\ k \in todoT /\ k \in trig /\ running /\ running' /\ VisitEffect(k)
      /\ now' = now /\ trig' = trig /\ res' = res /\ todoR' = todoR /\ todoT' \subseteq todoT
      /\ k \notin todoT' => ActiveIds(k)' # {}
  BY DEF TriggeredVisit
<1>2. OnsetsAreSound' /\ OfflineHostsAreKnown'
  BY <1>1, VisitKeepsOnsets
<1>3. OutagesHaveRows'
  <2> SUFFICES ASSUME NEW j \in LevelKeys, outSince[j] # Never
               PROVE  /\ outSince[j] <= now
                      /\ j \in trig \ res
                      /\ \A i \in ActiveIds(j)' : alert_state'[i].pending_since <= outSince[j]
                      /\ ActiveIds(j)' # {} \/ (j \in todoT' /\ outSince[j] = now)
    BY <1>1 DEF OutagesHaveRows
  <2>1. /\ outSince[j] <= now
        /\ j \in trig \ res
        /\ \A i \in ActiveIds(j) : alert_state[i].pending_since <= outSince[j]
        /\ ActiveIds(j) # {} \/ (j \in todoT /\ outSince[j] = now)
    BY <1>1 DEF OutagesHaveRows
  <2>2. CASE j # k
    BY <2>1, <2>2, OtherHistoriesKept DEF SameButPointer
  <2>3. CASE j = k
    <3>1. \A i \in ActiveIds(k)' : alert_state'[i].pending_since <= outSince[k]
      <4>1. CASE ActiveIds(k) = {}
        BY <2>1, <2>3, <4>1, VisitKeepsAge
      <4>2. CASE ActiveIds(k) # {}
        BY <2>1, <2>3, <4>2, VisitKeepsAge
      <4>3. QED
        BY <4>1, <4>2
    <3>2. ActiveIds(k)' # {} \/ (k \in todoT' /\ outSince[k] = now)
      BY <1>1, <2>1, <2>3 DEF TriggeredVisit, KeepsOpen
    <3>3. QED
      BY <2>1, <2>3, <3>1, <3>2
  <2>4. QED
    BY <2>2, <2>3
<1>4. RecoveriesAreSeen'
  <2> SUFFICES ASSUME NEW j \in LevelKeys
               PROVE  /\ wellSince[j] <= now
                      /\ j \in res => wellSince[j] # Never
                      /\ \A i \in ActiveIds(j)' : alert_state'[i].resolved_pending_since # NULL =>
                           \/ j \in todoT'
                           \/ wellSince[j] # Never /\ wellSince[j] <= alert_state'[i].resolved_pending_since
    BY <1>1 DEF RecoveriesAreSeen
  <2>1. /\ wellSince[j] <= now
        /\ j \in res => wellSince[j] # Never
        /\ \A i \in ActiveIds(j) : alert_state[i].resolved_pending_since # NULL =>
             \/ j \in todoT
             \/ wellSince[j] # Never /\ wellSince[j] <= alert_state[i].resolved_pending_since
    BY DEF RecoveriesAreSeen
  <2>2. CASE j # k
    BY <2>1, <2>2, OtherHistoriesKept DEF SameButPointer
  <2>3. CASE j = k
    BY <2>1, <2>3 DEF TriggeredVisit
  <2>4. QED
    BY <2>2, <2>3
<1>5. OfflineRecoveriesWait'
  <2> SUFFICES ASSUME NEW j \in OfflineKeys, wellSince[j] # Never
               PROVE  /\ j \notin trig
                      /\ j \notin res => ActiveIds(j)' = {}
                      /\ \/ j \in todoR' /\ wellSince[j] = now
                         \/ \A i \in ActiveIds(j)' :
                              /\ alert_state'[i].resolved_pending_since # NULL
                              /\ alert_state'[i].resolved_pending_since <= wellSince[j]
    BY <1>1 DEF OfflineRecoveriesWait
  <2>1. /\ j \notin trig
        /\ j \notin res => ActiveIds(j) = {}
        /\ \/ j \in todoR /\ wellSince[j] = now
           \/ \A i \in ActiveIds(j) :
                /\ alert_state[i].resolved_pending_since # NULL
                /\ alert_state[i].resolved_pending_since <= wellSince[j]
    BY <1>1 DEF OfflineRecoveriesWait
  <2>2. j # k
    BY <1>1, <2>1
  <2>3. QED
    BY <2>1, <2>2, OtherHistoriesKept DEF SameButPointer
<1>6. QED
  BY <1>2, <1>3, <1>4, <1>5

LEMMA ResolvedKeepsHistory ==
    ASSUME PipelineInv, RecoveriesFollowMails', NEW k \in Key, ProcessResolved(k), UNCHANGED pipelineVars
    PROVE  HistoryInv'
<1> USE PipelineFacts DEF PipelineInv, HistoryInv, pipelineVars, storeVars
<1>1. ResolvedVisit(k)
  BY ResolvedVisits
<1>2. /\ k \in todoR /\ k \in res /\ todoT = {} /\ running /\ running' /\ VisitEffect(k)
      /\ now' = now /\ trig' = trig /\ res' = res /\ todoT' = {} /\ todoR' = todoR \ {k}
      /\ \A i \in ActiveIds(k)' :
           /\ i \in ActiveIds(k)
           /\ alert_state'[i].resolved_pending_since = IF alert_state[i].resolved_pending_since = NULL THEN now
                                                       ELSE alert_state[i].resolved_pending_since
  BY <1>1 DEF ResolvedVisit
<1>3. OnsetsAreSound' /\ OfflineHostsAreKnown'
  <2>1. ActiveIds(k) # {}
    BY DEF ProcessResolved, DropUnsent, ResolveSilently, Resolve, AwaitRecovery
  <2>2. QED
    BY <1>2, <2>1, VisitKeepsOnsets
<1>4. OutagesHaveRows'
  <2> SUFFICES ASSUME NEW j \in LevelKeys, outSince[j] # Never
               PROVE  /\ outSince[j] <= now
                      /\ j \in trig \ res
                      /\ \A i \in ActiveIds(j)' : alert_state'[i].pending_since <= outSince[j]
                      /\ ActiveIds(j)' # {}
    BY <1>2 DEF OutagesHaveRows
  <2>1. /\ outSince[j] <= now
        /\ j \in trig \ res
        /\ \A i \in ActiveIds(j) : alert_state[i].pending_since <= outSince[j]
        /\ ActiveIds(j) # {}
    BY <1>2 DEF OutagesHaveRows
  <2>2. j # k
    BY <1>2, <2>1
  <2>3. QED
    BY <1>1, <2>1, <2>2, OtherHistoriesKept DEF SameButPointer
<1>5. RecoveriesAreSeen'
  <2> SUFFICES ASSUME NEW j \in LevelKeys
               PROVE  /\ wellSince[j] <= now
                      /\ j \in res => wellSince[j] # Never
                      /\ \A i \in ActiveIds(j)' : alert_state'[i].resolved_pending_since # NULL =>
                           wellSince[j] # Never /\ wellSince[j] <= alert_state'[i].resolved_pending_since
    BY <1>2 DEF RecoveriesAreSeen
  <2>1. /\ wellSince[j] <= now
        /\ j \in res => wellSince[j] # Never
        /\ \A i \in ActiveIds(j) : alert_state[i].resolved_pending_since # NULL =>
             wellSince[j] # Never /\ wellSince[j] <= alert_state[i].resolved_pending_since
    BY <1>2 DEF RecoveriesAreSeen
  <2>2. CASE j # k
    BY <1>1, <2>1, <2>2, OtherHistoriesKept DEF SameButPointer
  <2>3. CASE j = k
    BY <1>2, <2>1, <2>3
  <2>4. QED
    BY <2>2, <2>3
<1>6. OfflineRecoveriesWait'
  <2> SUFFICES ASSUME NEW j \in OfflineKeys, wellSince[j] # Never
               PROVE  /\ j \notin trig
                      /\ j \notin res => ActiveIds(j)' = {}
                      /\ \/ j \in todoR' /\ wellSince[j] = now
                         \/ \A i \in ActiveIds(j)' :
                              /\ alert_state'[i].resolved_pending_since # NULL
                              /\ alert_state'[i].resolved_pending_since <= wellSince[j]
    BY <1>2 DEF OfflineRecoveriesWait
  <2>1. /\ j \notin trig
        /\ j \notin res => ActiveIds(j) = {}
        /\ \/ j \in todoR /\ wellSince[j] = now
           \/ \A i \in ActiveIds(j) :
                /\ alert_state[i].resolved_pending_since # NULL
                /\ alert_state[i].resolved_pending_since <= wellSince[j]
    BY <1>2 DEF OfflineRecoveriesWait
  <2>2. CASE j # k
    BY <1>1, <2>1, <2>2, OtherHistoriesKept DEF SameButPointer
  <2>3. CASE j = k
    <3>1. ASSUME NEW i \in ActiveIds(k)'
          PROVE  /\ alert_state'[i].resolved_pending_since # NULL
                 /\ alert_state'[i].resolved_pending_since <= now
      <4>1. alert_state'[i].resolved_pending_since # NULL => alert_state'[i].resolved_pending_since <= now
        BY <1>2 DEF RecoveriesFollowMails, SoundWait, ActiveIds
      <4>2. alert_state'[i].resolved_pending_since # NULL
        BY <1>2 DEF NULL, ActiveIds
      <4>3. QED
        BY <4>1, <4>2
    <3>2. CASE wellSince[k] = now
      BY <1>2, <2>1, <2>3, <3>1, <3>2
    <3>3. CASE \A i \in ActiveIds(k) :
                 /\ alert_state[i].resolved_pending_since # NULL
                 /\ alert_state[i].resolved_pending_since <= wellSince[k]
      BY <1>2, <2>1, <2>3, <3>3
    <3>4. QED
      BY <2>1, <2>3, <3>2, <3>3
  <2>4. QED
    BY <2>2, <2>3
<1>7. QED
  BY <1>3, <1>4, <1>5, <1>6

-----------------------------------------------------------------------------
(* The other steps.                                                        *)

\* A collection makes its host known, and no other unknown.
LEMMA IngestionKeepsHistory == PipelineInv /\ Ingestion => HistoryInv'
<1> SUFFICES ASSUME PipelineInv, Ingestion PROVE HistoryInv'
  OBVIOUS
<1> USE PipelineFacts DEF PipelineInv, HistoryInv
<1>1. UNCHANGED vars /\ UNCHANGED <<outSince, wellSince>>
  BY IngestionIsQuiet
<1>2. UNCHANGED <<now, alert_state, running, trig, res, todoT, todoR, outSince, wellSince>>
  BY <1>1 DEF vars, cycleVars
<1>3. Ids' = Ids /\ \A k : ActiveIds(k)' = ActiveIds(k)
  BY <1>2 DEF Ids, ActiveIds, IsActive
<1>4. \A h \in Host : lastSeen[h] # NULL => lastSeen'[h] # NULL
  <2>1. CASE \E g \in Host, b \in Batch : HandleCollection(g, b)
    BY <2>1 DEF HandleCollection, NULL, PipelineTypeOK
  <2>2. CASE lastSeen' = lastSeen
    BY <2>2
  <2>3. QED
    BY <2>1, <2>2, DeliveredBatches DEF Ingestion, Publish, AgentRestart
<1>5. OfflineHostsAreKnown'
  BY <1>2, <1>3, <1>4, KeyShapes DEF OfflineHostsAreKnown, OfflineKeys
<1>6. OnsetsAreSound' /\ OutagesHaveRows' /\ RecoveriesAreSeen' /\ OfflineRecoveriesWait'
  BY <1>2, <1>3 DEF OnsetsAreSound, OutagesHaveRows, RecoveriesAreSeen, OfflineRecoveriesWait
<1>7. QED
  BY <1>5, <1>6

\* An operator deletes hosts and containers with what is known of them.
LEMMA RemovalKeepsHistory ==
    ASSUME PipelineInv, NEW K \in SUBSET Key, Delete({i \in Ids : alert_state[i].key \in K}), Forgotten(K),
           \A k \in OfflineKeys \ K : lastSeen'[k.host] = lastSeen[k.host]
    PROVE  HistoryInv'
<1> USE PipelineFacts DEF PipelineInv, HistoryInv
<1>1. /\ ~running /\ ~running' /\ UNCHANGED <<now, trig, res, todoT, todoR>>
      /\ trig = {} /\ res = {} /\ todoT = {} /\ todoR = {}
      /\ alert_state' = Removed({i \in Ids : alert_state[i].key \in K})
  BY DEF Delete, BetweenCycles, cycleVars
<1>2. /\ Ids' = {i \in Ids : alert_state[i].key \notin K}
      /\ \A i \in Ids' : alert_state'[i] = alert_state[i]
  BY <1>1 DEF Removed, Ids
<1>3. ASSUME NEW k \in Key
      PROVE  IF k \in K
             THEN outSince'[k] = Never /\ wellSince'[k] = Never /\ ActiveIds(k)' = {}
             ELSE /\ outSince'[k] = outSince[k] /\ wellSince'[k] = wellSince[k]
                  /\ ActiveIds(k)' = ActiveIds(k)
                  /\ \A i \in ActiveIds(k) : alert_state'[i] = alert_state[i]
  <2>1. IF k \in K THEN outSince'[k] = Never /\ wellSince'[k] = Never
        ELSE outSince'[k] = outSince[k] /\ wellSince'[k] = wellSince[k]
    BY DEF Forgotten
  <2>2. ActiveIds(k)' = {i \in ActiveIds(k) : alert_state[i].key \notin K}
    BY <1>2 DEF ActiveIds, IsActive
  <2>3. \A i \in ActiveIds(k) : i \in Ids /\ alert_state[i].key = k
    BY DEF ActiveIds
  <2>4. QED
    BY <1>2, <2>1, <2>2, <2>3
<1>4. OnsetsAreSound'
  BY <1>1, <1>2 DEF OnsetsAreSound
<1>5. OfflineHostsAreKnown'
  BY <1>1, <1>2 DEF OfflineHostsAreKnown
<1>6. OutagesHaveRows'
  BY <1>1, <1>3 DEF OutagesHaveRows, LevelKeys
<1>7. RecoveriesAreSeen'
  BY <1>1, <1>3 DEF RecoveriesAreSeen, LevelKeys, Never, NULL
<1>8. OfflineRecoveriesWait'
  BY <1>1, <1>3 DEF OfflineRecoveriesWait, OfflineKeys
<1>9. QED
  BY <1>4, <1>5, <1>6, <1>7, <1>8

\* A minute passes between two evaluations.
LEMMA TickKeepsHistory == PipelineInv /\ Tick /\ UNCHANGED pipelineVars => HistoryInv'
<1> SUFFICES ASSUME PipelineInv, Tick, UNCHANGED pipelineVars PROVE HistoryInv'
  OBVIOUS
<1> USE PipelineFacts DEF PipelineInv, HistoryInv
<1>1. /\ ~running /\ now' = now + 1 /\ UNCHANGED <<alert_state, running, trig, res, todoT, todoR>>
      /\ trig = {} /\ res = {} /\ todoT = {} /\ todoR = {}
      /\ UNCHANGED <<lastSeen, outSince, wellSince>>
  BY DEF Tick, cycleVars, pipelineVars, storeVars
<1>2. Ids' = Ids /\ \A k : ActiveIds(k)' = ActiveIds(k)
  BY <1>1 DEF Ids, ActiveIds, IsActive
<1>3. OnsetsAreSound' /\ OfflineHostsAreKnown'
  BY <1>1, <1>2 DEF OnsetsAreSound, OfflineHostsAreKnown
<1>4. OutagesHaveRows'
  BY <1>1, <1>2 DEF OutagesHaveRows, LevelKeys, Never, NULL
<1>5. RecoveriesAreSeen'
  BY <1>1, <1>2 DEF RecoveriesAreSeen, LevelKeys, Never, NULL
<1>6. OfflineRecoveriesWait'
  BY <1>1, <1>2 DEF OfflineRecoveriesWait
<1>7. QED
  BY <1>3, <1>4, <1>5, <1>6

\* An evaluation ends with every item visited.
LEMMA EndCycleKeepsHistory == PipelineInv /\ EndCycle /\ UNCHANGED pipelineVars => HistoryInv'
<1> SUFFICES ASSUME PipelineInv, EndCycle, UNCHANGED pipelineVars PROVE HistoryInv'
  OBVIOUS
<1> USE PipelineFacts DEF PipelineInv, HistoryInv
<1>1. /\ todoT = {} /\ todoR = {} /\ ~running' /\ UNCHANGED <<now, alert_state>>
      /\ trig' = {} /\ res' = {} /\ todoT' = {} /\ todoR' = {}
      /\ UNCHANGED <<lastSeen, outSince, wellSince>>
  BY DEF EndCycle, CycleForgotten, pipelineVars, storeVars
<1>2. Ids' = Ids /\ \A k : ActiveIds(k)' = ActiveIds(k)
  BY <1>1 DEF Ids, ActiveIds, IsActive
<1>3. OnsetsAreSound' /\ OfflineHostsAreKnown'
  BY <1>1, <1>2 DEF OnsetsAreSound, OfflineHostsAreKnown
<1>4. OutagesHaveRows'
  BY <1>1, <1>2 DEF OutagesHaveRows
<1>5. RecoveriesAreSeen'
  BY <1>1, <1>2 DEF RecoveriesAreSeen
<1>6. OfflineRecoveriesWait'
  BY <1>1, <1>2 DEF OfflineRecoveriesWait
<1>7. QED
  BY <1>3, <1>4, <1>5, <1>6

-----------------------------------------------------------------------------
(* The invariant holds.                                                    *)

LEMMA PipelineInvInit == PipelineInit => PipelineInv
<1> SUFFICES ASSUME PipelineInit PROVE PipelineInv
  OBVIOUS
<1>1. CoverageInv
  BY CoverageInvInit DEF PipelineInit
<1>2. Ids = {} /\ todoT = {} /\ res = {} /\ now = 0
  BY DEF PipelineInit, Init, Ids
<1>3. \A k \in Key : outSince[k] = Never /\ wellSince[k] = Never
  BY DEF PipelineInit
<1>4. OnsetsAreSound /\ OfflineHostsAreKnown
  BY <1>2 DEF OnsetsAreSound, OfflineHostsAreKnown
<1>5. OutagesHaveRows /\ RecoveriesAreSeen /\ OfflineRecoveriesWait
  BY <1>2, <1>3 DEF OutagesHaveRows, RecoveriesAreSeen, OfflineRecoveriesWait, LevelKeys, OfflineKeys,
                    ActiveIds, Never, NULL
<1>6. QED
  BY <1>1, <1>4, <1>5, PipelineTypesInit DEF PipelineInv, HistoryInv

LEMMA PipelineInvStep == PipelineInv /\ [PipelineNext]_pipelineAll => PipelineInv'
<1> SUFFICES ASSUME PipelineInv, [PipelineNext]_pipelineAll PROVE PipelineInv'
  OBVIOUS
<1>1. PipelineTypeOK' /\ StoreShape' /\ TypeOK'
  BY PipelineTypesStep DEF PipelineInv, PipelineTypeOK
<1>2. CoverageInv'
  BY EngineAssumption, StepIsEngineStep, CoverageInvStep DEF PipelineInv, PipelineTypeOK
<1>3. UniqueActive' /\ RecoveriesFollowMails'
  BY <1>2 DEF CoverageInv, SafetyInv
<1>4. HistoryInv'
  <2>1. CASE Ingestion
    BY <2>1, IngestionKeepsHistory
  <2>2. CASE Evaluate
    BY <2>2, EvaluateKeepsHistory
  <2>3. ASSUME NEW h \in Host, RemoveHost(h)
        PROVE  HistoryInv'
    <3> DEFINE K == {k \in Key : k.host = h}
    <3>1. {i \in Ids : alert_state[i].key.host = h} = {i \in Ids : alert_state[i].key \in K}
      BY PipelineFacts
    <3>2. Delete({i \in Ids : alert_state[i].key \in K}) /\ Forgotten(K)
      BY <2>3, <3>1 DEF RemoveHost, DeleteHost
    <3>3. \A k \in OfflineKeys \ K : lastSeen'[k.host] = lastSeen[k.host]
      BY <2>3, KeyShapes DEF RemoveHost, OfflineKeys, PipelineInv, PipelineTypeOK
    <3>4. K \in SUBSET Key
      OBVIOUS
    <3> HIDE DEF K
    <3>5. QED
      BY <3>2, <3>3, <3>4, RemovalKeepsHistory
  <2>4. ASSUME NEW h \in Host, NEW c \in Container, RemoveContainer(h, c)
        PROVE  HistoryInv'
    <3> DEFINE K == {k \in Key : k.host = h /\ k.target = c}
    <3>1. {i \in Ids : alert_state[i].key.host = h /\ alert_state[i].key.target = c}
            = {i \in Ids : alert_state[i].key \in K}
      BY PipelineFacts
    <3>2. Delete({i \in Ids : alert_state[i].key \in K}) /\ Forgotten(K) /\ lastSeen' = lastSeen
      BY <2>4, <3>1 DEF RemoveContainer, DeleteContainer
    <3>3. K \in SUBSET Key
      OBVIOUS
    <3> HIDE DEF K
    <3>4. QED
      BY <3>2, <3>3, RemovalKeepsHistory
  <2>5. CASE Tick /\ UNCHANGED pipelineVars
    BY <2>5, TickKeepsHistory
  <2>6. CASE Process /\ UNCHANGED pipelineVars
    <3>1. ASSUME NEW k \in Key, StampChildren(k) \/ ProcessTriggered(k)
          PROVE  HistoryInv'
      <4>1. TriggeredVisit(k)
        BY <1>1, <3>1, TriggeredVisits
      <4>2. QED
        BY <1>3, <2>6, <4>1, TriggeredKeepsHistory
    <3>2. ASSUME NEW k \in Key, ProcessResolved(k)
          PROVE  HistoryInv'
      BY <1>3, <2>6, <3>2, ResolvedKeepsHistory
    <3>3. CASE EndCycle
      BY <2>6, <3>3, EndCycleKeepsHistory
    <3>4. QED
      BY <2>6, <3>1, <3>2, <3>3 DEF Process
  <2>7. CASE UNCHANGED pipelineAll
    <3>1. UNCHANGED <<now, alert_state, running, trig, res, todoT, todoR, lastSeen, outSince, wellSince>>
      BY <2>7 DEF pipelineAll, vars, cycleVars, pipelineVars, storeVars
    <3>2. Ids' = Ids /\ \A k : ActiveIds(k)' = ActiveIds(k)
      BY <3>1 DEF Ids, ActiveIds, IsActive
    <3>3. QED
      BY <3>1, <3>2 DEF PipelineInv, HistoryInv, OnsetsAreSound, OfflineHostsAreKnown, OutagesHaveRows,
                        RecoveriesAreSeen, OfflineRecoveriesWait
  <2>8. QED
    BY <2>1, <2>2, <2>3, <2>4, <2>5, <2>6, <2>7 DEF PipelineNext, Ingestion
<1>5. QED
  BY <1>1, <1>2, <1>4 DEF PipelineInv

LEMMA PipelineInvariant == PipelineSpec => []PipelineInv
<1>1. PipelineInv /\ [PipelineNext]_<<vars, pipelineVars>> => PipelineInv'
  BY PipelineInvStep DEF pipelineAll
<1>2. QED
  BY <1>1, PipelineInvInit, PTL DEF PipelineSpec

-----------------------------------------------------------------------------

\* The tables, the queues and the histories keep their types: no listing ever
\* leaves more than two rows of a container, whatever is delivered how often.
THEOREM PipelineTypeCorrect == PipelineSpec => []PipelineTypeOK
<1>1. PipelineInv => PipelineTypeOK
  BY DEF PipelineInv
<1>2. QED
  BY <1>1, PipelineInvariant, PTL

\* An unhealthy container and a silent host are mailed about once every
\* evaluation of the window has seen their condition, or a parent answers for
\* them: the engine accounts for the alert, and by now it is neither silenced
\* nor inside its window.
THEOREM LevelOutagesAreMailed == PipelineSpec => []LevelOutageIsMailed
<1>1. PipelineInv => LevelOutageIsMailed
  <2> SUFFICES ASSUME PipelineInv, CycleDone, NEW k \in LevelKeys, Lasted(outSince[k])
               PROVE  \E i \in ActiveIds(k) : alert_state[i].notify_count > 0 \/ HeldByParent(k)
    BY DEF LevelOutageIsMailed, OutageIsMailed
  <2>1. /\ k \in trig \ (todoT \cup res)
        /\ \A i \in ActiveIds(k) : alert_state[i].pending_since <= outSince[k]
    BY DEF PipelineInv, HistoryInv, OutagesHaveRows, Lasted, CycleDone
  <2>2. PICK i \in ActiveIds(k) : \/ alert_state[i].notify_count > 0
                                  \/ ~IsStabilized(i)
                                  \/ IsSilenced(i)
                                  \/ HeldByParent(k)
    BY <2>1 DEF PipelineInv, CoverageInv, TriggeredIsAccountedFor
  <2>3. ~IsSilenced(i)
    BY PipelineFacts DEF IsSilenced, PipelineInv, HistoryInv, OnsetsAreSound, ActiveIds, NULL
  <2>4. IsStabilized(i)
    <3>1. now \in Nat /\ outSince[k] \in Nat /\ alert_state[i].pending_since \in Nat
      BY PipelineFacts DEF Lasted, Never, ActiveIds, LevelKeys
    <3>2. QED
      BY <2>1, <3>1, EngineAssumption DEF IsStabilized, Lasted, EngineAssumption
  <2>5. QED
    BY <2>2, <2>3, <2>4
<1>2. QED
  BY <1>1, PipelineInvariant, PTL

\* A host that has been back for the window has no open alert: its row has
\* waited since the host came back, and the engine closes a row that has.
THEOREM HostRecoveriesClose == PipelineSpec => []HostRecoveryCloses
<1>1. PipelineInv => HostRecoveryCloses
  <2> SUFFICES ASSUME PipelineInv, CycleDone, NEW k \in OfflineKeys, Lasted(wellSince[k]),
                      NEW i \in ActiveIds(k)
               PROVE  FALSE
    BY DEF HostRecoveryCloses, RecoveryCloses
  <2>1. /\ k \in res \ todoR
        /\ alert_state[i].resolved_pending_since # NULL
        /\ alert_state[i].resolved_pending_since <= wellSince[k]
    BY DEF PipelineInv, HistoryInv, OfflineRecoveriesWait, Lasted, CycleDone
  <2>2. now - alert_state[i].resolved_pending_since < StabilizeMin
    BY <2>1 DEF PipelineInv, CoverageInv, ResolvedIsAccountedFor
  <2>3. now \in Nat /\ wellSince[k] \in Nat /\ alert_state[i].resolved_pending_since \in Nat
    BY <2>1, PipelineFacts DEF Lasted, Never, ActiveIds, OfflineKeys
  <2>4. QED
    BY <2>1, <2>2, <2>3, EngineAssumption DEF Lasted, EngineAssumption
<1>2. QED
  BY <1>1, PipelineInvariant, PTL

\* A resolution of a level alert is queued only when every evaluation of the
\* window saw the condition gone: a relapse resets the row's wait.
THEOREM ResolutionsMeanRecovery == PipelineSpec => ResolutionMeansRecovery
<1> DEFINE Told == \A k \in LevelKeys : k \in todoR /\ k \notin todoR' /\ toSend' # toSend
                     => Lasted(wellSince[k])
<1>1. PipelineInv /\ [PipelineNext]_pipelineAll => Told
  <2> SUFFICES ASSUME PipelineInv, [PipelineNext]_pipelineAll,
                      NEW k \in LevelKeys, k \in todoR, k \notin todoR', toSend' # toSend
               PROVE  Lasted(wellSince[k])
    OBVIOUS
  <2> USE PipelineFacts
  <2>1. running /\ ~UNCHANGED vars
    BY DEF vars, cycleVars
  <2>2. Process
    BY <2>1, IngestionIsQuiet
       DEF PipelineNext, Ingestion, Evaluate, StartCycle, RemoveHost, RemoveContainer, DeleteHost,
           DeleteContainer, Delete, BetweenCycles, Tick, pipelineAll
  <2>3. Resolve(k)
    <3>1. ~EndCycle
      BY DEF EndCycle
    <3>2. ASSUME NEW j \in Key, StampChildren(j) \/ ProcessTriggered(j)
          PROVE  FALSE
      BY <3>2 DEF StampChildren, ProcessTriggered, FirstSighting, Hold, HoldForParent, Announce, Remind, Visits
    <3>3. ASSUME NEW j \in Key, ProcessResolved(j)
          PROVE  Resolve(j) /\ j = k
      <4>1. todoR' = todoR \ {j}
        BY <3>3 DEF ProcessResolved, DropUnsent, ResolveSilently, Resolve, AwaitRecovery, VisitsResolved
      <4>2. Resolve(j)
        BY <3>3 DEF ProcessResolved, DropUnsent, ResolveSilently, AwaitRecovery, NoMail
      <4>3. QED
        BY <4>1, <4>2
    <3>4. QED
      BY <2>2, <3>1, <3>2, <3>3 DEF Process
  <2>4. PICK i \in ActiveIds(k) : RecoveryLasted(i)
    BY <2>3 DEF Resolve
  <2>5. todoT = {} /\ k \in res /\ now \in Nat /\ StabilizeMin \in Nat
    BY <2>3, EngineAssumption DEF Resolve, VisitsResolved, EngineAssumption
  <2>6. /\ wellSince[k] # Never /\ wellSince[k] <= now /\ wellSince[k] \in Nat
        /\ alert_state[i].resolved_pending_since # NULL => wellSince[k] <= alert_state[i].resolved_pending_since
    BY <2>5 DEF PipelineInv, HistoryInv, RecoveriesAreSeen, LevelKeys, Never
  <2>7. alert_state[i].resolved_pending_since \in Nat \cup {NULL}
    BY DEF ActiveIds
  <2>8. QED
    BY <2>4, <2>5, <2>6, <2>7 DEF RecoveryLasted, Lasted
<1>2. PipelineInv /\ [PipelineNext]_<<vars, pipelineVars>> => [Told]_<<vars, pipelineVars>>
  BY <1>1 DEF pipelineAll
<1>3. QED
  BY <1>2, PipelineInvariant, PTL DEF PipelineSpec, ResolutionMeansRecovery

-----------------------------------------------------------------------------
(* The pipeline implements the engine and, through it, the contract.       *)

\* With agents, messages and stored rows hidden, the pipeline is an engine whose lists
\* happen to come from them: what is a theorem about any lists, is one about these.
THEOREM PipelineImplementsEngine == PipelineSpec => Spec
<1>1. PipelineInit => Init
  BY DEF PipelineInit
<1>2. PipelineInv /\ [PipelineNext]_<<vars, pipelineVars>> => [Next]_vars
  BY StepIsEngineStep DEF PipelineInv, SafetyInv, CoverageInv, pipelineAll
<1>3. QED
  BY <1>1, <1>2, PipelineInvariant, PTL DEF PipelineSpec, Spec

\* From the collection on a host to the mails: whatever is delivered twice, late or never,
\* the mails about each alert keep their order and their distances (docs of AlertContract).
THEOREM PipelineImplementsContract == PipelineSpec => ImplementsContract
BY PipelineImplementsEngine, EngineImplementsContract, PTL
=============================================================================
