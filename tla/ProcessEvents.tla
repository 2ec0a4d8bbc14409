---------------------------- MODULE ProcessEvents ---------------------------
(***************************************************************************)
(* Process starts and exits, from the poller of an agent to the tables of  *)
(* the hub (agent/src/collectors/processes/, hub/src/ingest-process-       *)
(* events.ts, and the pruning of both tables in hub/src/db/schema.ts).     *)
(*                                                                         *)
(* Each cycle the agent compares what it observes with the cycle before    *)
(* and publishes the difference, the argv of a process only once a         *)
(* session; messages go through a bounded buffer and QoS 0.                *)
(*                                                                         *)
(* An operator named ...Mutant is the definition below it with a plausible *)
(* mistake; nothing refers to it, a run that swaps it in must fail.        *)
(***************************************************************************)
EXTENDS Integers, FiniteSets, SequencesExt

CONSTANTS
    Process,             \* processes of the host: a pid with its true start
    InContainer,         \* those that Docker or crictl attributes to a container
    Argv,                \* the argv of each
    BufferMaxCycles,     \* bufferMaxCycles
    MaxEventsPerMessage, \* MAX_EVENTS_PER_MESSAGE
    MaxLooks,            \* bound on the cycles that observe a container
    MaxWire,             \* bound on the messages on their way
    MaxLosses            \* bound on lost messages, connections and agents, and on bad looks

ASSUME ProcessAssumption ==
    /\ InContainer \subseteq Process
    /\ Argv \in [Process -> STRING]
    /\ BufferMaxCycles \in Nat \ {0} /\ MaxEventsPerMessage \in Nat
    /\ MaxLooks \in Nat /\ MaxWire \in Nat /\ MaxLosses \in Nat

VARIABLES
    alive, ended,  \* processes that run, and that have run
    looks,         \* cycles that have observed a container
    prevKeys,      \* prevKeyToProc
    shippedHashes, \* argvs published in this session
    buffer,        \* the publisher's
    mqttUp,        \* the agent's client is connected
    wire,          \* published, not ingested
    rows,          \* process_events
    exited,        \* those with an exited_at
    dictionary,    \* argv_dictionary
    undefined,     \* history: argvs whose definition was lost or pruned since
    unrecorded,    \* history: keys whose exit nobody will report, or that was lost
    overlooked,    \* history: processes that ran and that a look in /proc missed
    losses         \* how many there were

processVars == <<alive, ended, looks, prevKeys, shippedHashes, buffer, mqttUp, wire, rows, exited,
                 dictionary, undefined, unrecorded, overlooked, losses>>

\* makeKey: the pid, and startedAt.  0 is the start in /proc, another number the time of a look.
Keys == Process \X (0 .. MaxLooks)

Argvs == {Argv[p] : p \in Process}

Payload == [argv_defs : SUBSET Argvs, spawns : SUBSET Keys, exits : SUBSET Keys]

ProcessTypeOK ==
    /\ alive \cup ended \subseteq Process /\ alive \cap ended = {}
    /\ looks \in 0 .. MaxLooks
    /\ prevKeys \subseteq Keys
    /\ shippedHashes \subseteq Argvs
    /\ buffer \in Seq(Payload) /\ Len(buffer) <= BufferMaxCycles
    /\ wire \in Seq(Payload)
    /\ mqttUp \in BOOLEAN
    /\ exited \subseteq rows /\ rows \subseteq Keys
    /\ dictionary \subseteq Argvs /\ undefined \subseteq Argvs
    /\ unrecorded \subseteq Keys /\ overlooked \subseteq Process
    /\ losses \in Nat

ProcessInit ==
    /\ alive \in SUBSET Process /\ ended = {}
    /\ looks = 0
    /\ prevKeys = {} /\ shippedHashes = {}
    /\ buffer = << >> /\ mqttUp = TRUE /\ wire = << >>
    /\ rows = {} /\ exited = {} /\ dictionary = {}
    /\ undefined = {} /\ unrecorded = {} /\ overlooked = {} /\ losses = 0

Loss == losses < MaxLosses /\ losses' = losses + 1

\* What the messages said is gone.
Lost(messages) ==
    /\ undefined' = undefined \cup UNION {m.argv_defs : m \in messages}
    /\ unrecorded' = unrecorded \cup UNION {m.exits : m \in messages}

-----------------------------------------------------------------------------
(* The host.                                                               *)

ProcessStarts(p) ==
    /\ p \notin alive \cup ended
    /\ alive' = alive \cup {p}
    /\ UNCHANGED <<ended, looks, prevKeys, shippedHashes, buffer, mqttUp, wire, rows, exited,
                   dictionary, undefined, unrecorded, overlooked, losses>>

ProcessEnds(p) ==
    /\ p \in alive
    /\ alive' = alive \ {p} /\ ended' = ended \cup {p}
    /\ UNCHANGED <<looks, prevKeys, shippedHashes, buffer, mqttUp, wire, rows, exited,
                   dictionary, undefined, unrecorded, overlooked, losses>>

-----------------------------------------------------------------------------
(* The agent.                                                              *)

\* docker top and crictl do not tell when a process started: the time of the look.
StartedAt(p, attributed) == IF p \in attributed THEN looks + 1 ELSE 0

\* A process of a container that Docker or crictl does not name is found in /proc, as one of
\* the host.  What walkProc cannot read it skips, one process or all.
Observed(attributed, skipped) == {<<p, StartedAt(p, attributed)>> : p \in alive \ skipped}

Difference(current) ==
    LET spawns == current \ prevKeys
    IN  [argv_defs |-> {Argv[key[1]] : key \in spawns} \ shippedHashes,
         spawns |-> spawns,
         exits |-> prevKeys \ current]

\* The buffer may hold one more.
EvictedMutant(queue) == Len(queue) - BufferMaxCycles - 1

\* How many of the oldest the buffer drops.
Evicted(queue) == Len(queue) - BufferMaxCycles

\* publish: while the client is connected the buffer is flushed, and only then.
Publish(current) ==
    LET message == Difference(current)
        queue == Append(buffer, message)
        kept == IF Evicted(queue) > 0 THEN SubSeq(queue, Evicted(queue) + 1, Len(queue)) ELSE queue
    IN  /\ prevKeys' = current
        /\ shippedHashes' = shippedHashes \cup message.argv_defs
        /\ Lost({queue[i] : i \in 1 .. Len(queue) - Len(kept)})
        /\ IF mqttUp
           THEN /\ Len(wire) + Len(kept) <= MaxWire
                /\ wire' = wire \o kept /\ buffer' = << >>
           ELSE buffer' = kept /\ UNCHANGED wire

\* runPollCycle, with what it could attribute and what it could not read.
PollCycle ==
    \E attributed \in SUBSET (alive \cap InContainer) :
    \E skipped \in SUBSET (alive \ attributed) :
        /\ Publish(Observed(attributed, skipped))
        /\ overlooked' = overlooked \cup {p \in skipped : <<p, 0>> \in prevKeys}
        /\ attributed # {} => looks < MaxLooks
        /\ looks' = IF attributed # {} THEN looks + 1 ELSE looks
        /\ IF skipped = {} THEN UNCHANGED losses ELSE Loss
        /\ UNCHANGED <<alive, ended, mqttUp, rows, exited, dictionary>>

\* What it knew is gone; what runs is reported as started again.
AgentStartsAnew ==
    /\ Loss
    /\ prevKeys' = {} /\ shippedHashes' = {} /\ buffer' = << >>
    /\ undefined' = undefined \cup UNION {buffer[i].argv_defs : i \in DOMAIN buffer}
    /\ unrecorded' = unrecorded \cup prevKeys \cup UNION {buffer[i].exits : i \in DOMAIN buffer}
    /\ UNCHANGED <<alive, ended, looks, mqttUp, wire, rows, exited, dictionary, overlooked>>

MqttGoes ==
    /\ mqttUp /\ mqttUp' = FALSE
    /\ Loss
    /\ UNCHANGED <<alive, ended, looks, prevKeys, shippedHashes, buffer, wire, rows, exited,
                   dictionary, undefined, unrecorded, overlooked>>

MqttReturns ==
    /\ ~mqttUp /\ mqttUp' = TRUE
    /\ UNCHANGED <<alive, ended, looks, prevKeys, shippedHashes, buffer, wire, rows, exited,
                   dictionary, undefined, unrecorded, overlooked, losses>>

-----------------------------------------------------------------------------
(* The hub.                                                                *)

IsOversize(m) ==
    Cardinality(m.argv_defs) + Cardinality(m.spawns) + Cardinality(m.exits) > MaxEventsPerMessage

\* A message that tells of starts ends nothing.
ExitsMutant(m, R) == IF m.spawns = {} THEN R \cap m.exits ELSE {}

\* WHERE pid = ? AND started_at = ?
Exits(m, R) == R \cap m.exits

\* ingestProcessEvents: one transaction, INSERT OR IGNORE, then the exits.
Ingest ==
    /\ wire # << >> /\ wire' = Tail(wire)
    /\ LET m == Head(wire)
       IN  IF IsOversize(m)
           THEN Lost({m}) /\ UNCHANGED <<rows, exited, dictionary>>
           ELSE /\ dictionary' = dictionary \cup m.argv_defs
                /\ rows' = rows \cup m.spawns
                /\ exited' = exited \cup Exits(m, rows')
                /\ undefined' = undefined \ m.argv_defs
                /\ UNCHANGED unrecorded
    /\ UNCHANGED <<alive, ended, looks, prevKeys, shippedHashes, buffer, mqttUp, overlooked, losses>>

\* QoS 0.
Drop ==
    /\ wire # << >> /\ wire' = Tail(wire)
    /\ Loss
    /\ Lost({Head(wire)})
    /\ UNCHANGED <<alive, ended, looks, prevKeys, shippedHashes, buffer, mqttUp, rows, exited,
                   dictionary, overlooked>>

Referenced(R) == {Argv[key[1]] : key \in R}

\* pruneOldData: a row that started long ago, then the argvs without a row.
PruneRow(key) ==
    /\ key \in rows
    /\ Loss
    /\ rows' = rows \ {key} /\ exited' = exited \ {key}
    /\ dictionary' = dictionary \cap Referenced(rows')
    /\ undefined' = undefined \cup {a \in Argvs : \A k \in rows' : Argv[k[1]] # a}
    /\ UNCHANGED <<alive, ended, looks, prevKeys, shippedHashes, buffer, mqttUp, wire, unrecorded,
                   overlooked>>

ProcessNext ==
    \/ \E p \in Process : ProcessStarts(p) \/ ProcessEnds(p)
    \/ PollCycle \/ AgentStartsAnew \/ MqttGoes \/ MqttReturns
    \/ Ingest \/ Drop \/ \E key \in Keys : PruneRow(key)

\* The interval fires, mqtt.js reconnects, the hub handles what arrived.
ProcessFairness ==
    /\ WF_processVars(PollCycle) /\ WF_processVars(MqttReturns) /\ WF_processVars(Ingest)

ProcessSpec == ProcessInit /\ [][ProcessNext]_processVars /\ ProcessFairness

-----------------------------------------------------------------------------
(* Properties.                                                             *)

\* A process of the host is recorded as ended while it runs only when a look in /proc missed
\* it: not after a restart of the agent, an eviction, a message that is lost or late.
HostExitsAreReal ==
    \A key \in exited : key[1] \notin InContainer => key[1] \in ended \cup overlooked

\* No row without its argv, except where the one message that defined the argv was
\* evicted, lost or refused, or the argv was pruned: it is not published again.
ArgvIsKnown == \A key \in rows : Argv[key[1]] \in dictionary \cup undefined

\* A process that ended does not stay recorded as running, unless the agent stopped in
\* between or the message was lost.
EndIsRecorded == \A p \in Process : LET key == <<p, 0>> IN
    <>[](key \in rows /\ p \in ended => key \in exited \cup unrecorded)

\* What the hub tells of a host's processes: no end that was none unless a
\* look missed the process, none without its command, none that runs for ever (poller.ts,
\* index.ts, ingest-process-events.ts).
ProcessesAreTold == []HostExitsAreReal /\ []ArgvIsKnown /\ EndIsRecorded

\* A process is recorded as ended only when it has: its key is stable.  (Fails:
\* README, findings.)
ExitMeansEnded == \A key \in exited : key[1] \in ended

\* With nothing on its way, a process of the host that the agent sees is not recorded as
\* ended.  (Fails: README, findings.)
SeenIsNotEnded ==
    buffer = << >> /\ wire = << >> => \A key \in prevKeys \cap exited : key[1] \in InContainer
=============================================================================
