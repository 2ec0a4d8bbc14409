---------------------------- MODULE MqttRequests ----------------------------
(***************************************************************************)
(* Requests from the hub to one agent over MQTT (hub/src/mqtt.ts and       *)
(* agent/src/mqtt.ts): container logs, container actions, updates and the  *)
(* check for image updates, with the background log fetches of the         *)
(* diagnosis (hub/src/insights/diagnosis/logCache.ts) as one caller.       *)
(*                                                                         *)
(* The hub keeps one pending promise and one timer per request.  Both      *)
(* clients have persistent sessions and QoS 1, so a message may wait for   *)
(* long, arrive twice, and reach a process that no longer waits for it;    *)
(* the handlers are asynchronous and acknowledge before they are done.     *)
(*                                                                         *)
(* An operator named ...Mutant is the definition below it with a plausible *)
(* mistake; nothing refers to it, a run that swaps it in must fail.        *)
(***************************************************************************)
EXTENDS Integers, FiniteSets

CONSTANTS
    Container,     \* containers of the agent's host
    Timeout,       \* how long the hub waits for an answer, per kind
    StaleAfter,    \* the age after which the agent drops a request
    AgentClock,    \* how far the agent's clock is ahead of the hub's
    MaxRequests,   \* bound on the requests
    MaxFaults,     \* bound on lost connections, redeliveries and restarts
    Horizon        \* bound on the clock

\* "check" asks for the image update check; nothing answers it.
Kinds == {"logs", "action", "update", "check"}

ASSUME RequestsAssumption ==
    /\ Timeout \in [Kinds -> Nat]
    /\ StaleAfter \in Nat /\ AgentClock \in Int
    /\ MaxRequests \in Nat /\ MaxFaults \in Nat /\ Horizon \in Nat
    \* An agent's clock may be behind, but not by the difference of the two limits.
    /\ StaleAfter - AgentClock < Timeout["update"]

VARIABLES
    clock,    \* the hub's clock
    online,   \* the hub's client is connected to the broker
    request,  \* the requests made: id -> Request
    outbox,   \* published while offline, in the hub's memory
    toAgent,  \* at the broker, for the agent
    arrived,  \* how often each was delivered to the agent
    tasks,    \* handlers of the agent that have not returned
    carried,  \* history: the requests some handler carried out
    toHub,    \* answers on their way
    fetching, \* pendingFetches of the log cache
    cached,   \* containers with logs in the cache
    faults    \* how many there were

requestVars == <<clock, online, request, outbox, toAgent, arrived, tasks, carried, toHub,
                 fetching, cached, faults>>

Answers == {"ok", "failed", "unavailable"}

\* What the caller gets: an answer of the agent, or why there is none.
Outcome == Answers \cup {"pending", "timed out", "not sent", "disconnecting", "lost"}

Request == [kind : Kinds, by : {"page", "fetch"}, about : Container, at : Nat, outcome : Outcome]

Ids == DOMAIN request

\* One handler per delivery; finished: it did what was asked, or failed to, and has to answer.
Task == [id : Nat, delivery : Nat, finished : {"no"} \cup Answers]

Answer == [id : Nat, kind : Kinds, says : Answers]

RequestsTypeOK ==
    /\ clock \in Nat /\ faults \in Nat
    /\ online \in BOOLEAN
    /\ Ids \subseteq 1 .. MaxRequests
    /\ \A r \in Ids : request[r] \in Request
    /\ outbox \subseteq Ids /\ toAgent \subseteq Ids /\ carried \subseteq Ids
    /\ outbox \cap toAgent = {}
    /\ DOMAIN arrived = Ids /\ \A r \in Ids : arrived[r] \in Nat
    /\ tasks \subseteq Task /\ toHub \subseteq Answer
    /\ fetching \subseteq Container /\ cached \subseteq Container

RequestsInit ==
    /\ clock = 0 /\ faults = 0
    /\ online = TRUE
    /\ request = [r \in {} |-> 0] /\ arrived = [r \in {} |-> 0]
    /\ outbox = {} /\ toAgent = {} /\ tasks = {} /\ carried = {} /\ toHub = {}
    /\ fetching = {} /\ cached = {}

-----------------------------------------------------------------------------
Fault == faults < MaxFaults /\ faults' = faults + 1

\* The broker takes the message off its queue, or keeps it to deliver it again when
\* the acknowledgement is lost.
Delivered(queue, left, m) ==
    \/ left = queue \ {m} /\ UNCHANGED faults
    \/ left = queue /\ Fault

(* Asking.                                                                 *)

NextId == Cardinality(Ids) + 1

Made(kind, by, c, outcome) ==
    /\ NextId <= MaxRequests
    /\ clock + Timeout[kind] <= Horizon   \* bound: the timer can expire
    /\ request' = [r \in Ids \cup {NextId} |->
        IF r = NextId
        THEN [kind |-> kind, by |-> by, about |-> c, at |-> clock, outcome |-> outcome]
        ELSE request[r]]
    /\ arrived' = [r \in Ids \cup {NextId} |-> IF r = NextId THEN 0 ELSE arrived[r]]
    /\ UNCHANGED <<clock, online, tasks, carried, toHub, cached, faults>>

\* requestContainerLogs publishes whether or not the client is connected.
RequestLogs(c, by) ==
    /\ Made("logs", by, c, "pending")
    /\ IF online THEN toAgent' = toAgent \cup {NextId} /\ UNCHANGED outbox
                 ELSE outbox' = outbox \cup {NextId} /\ UNCHANGED toAgent
    /\ fetching' = IF by = "fetch" THEN fetching \cup {c} ELSE fetching

\* requestContainerAction and requestAgentUpdate refuse when it is not.
RequestCommand(kind, c) ==
    /\ \/ /\ online
          /\ Made(kind, "page", c, "pending")
          /\ toAgent' = toAgent \cup {NextId}
       \/ /\ ~online
          /\ Made(kind, "page", c, "not sent")
          /\ UNCHANGED toAgent
    /\ UNCHANGED <<outbox, fetching>>

\* requestUpdateCheck returns as soon as it has published.
RequestUpdateCheck(c) ==
    /\ online
    /\ Made("check", "page", c, "ok")
    /\ toAgent' = toAgent \cup {NextId}
    /\ UNCHANGED <<outbox, fetching>>

\* fetchLogsBackground: one fetch per container at a time.
FetchLogs(c) == c \notin fetching /\ RequestLogs(c, "fetch")

-----------------------------------------------------------------------------
(* Settling.                                                               *)

Pending(r) == r \in Ids /\ request[r].outcome = "pending"

\* The finally block of the background fetch.
Released(r, outcome) == IF request[r].by = "fetch" THEN {request[r].about} ELSE {}

\* An empty listing is cached too: "unavailable" resolves the promise with no lines.
Settle(r, outcome) ==
    /\ request' = [request EXCEPT ![r].outcome = outcome]
    /\ fetching' = fetching \ Released(r, outcome)
    /\ cached' = IF outcome \in {"ok", "unavailable"} /\ request[r].by = "fetch"
                 THEN cached \cup {request[r].about} ELSE cached

Unsettled == UNCHANGED <<request, fetching, cached>>

\* A background fetch has nobody to tell.
TimerDueMutant(r) ==
    request[r].by = "page" /\ clock - request[r].at >= Timeout[request[r].kind]

TimerDue(r) == clock - request[r].at >= Timeout[request[r].kind]

TimeOut(r) ==
    /\ Pending(r) /\ TimerDue(r)
    /\ Settle(r, "timed out")
    /\ UNCHANGED <<clock, online, outbox, toAgent, arrived, tasks, carried, toHub, faults>>

\* The publish callback reports an error: the request was not sent.
PublishFails(r) ==
    /\ r \in outbox
    /\ outbox' = outbox \ {r}
    /\ IF Pending(r) THEN Settle(r, "not sent") ELSE Unsettled
    /\ UNCHANGED <<clock, online, toAgent, arrived, tasks, carried, toHub, faults>>

\* pending...Requests.get(requestId)
Addressees(m) == {r \in Ids : Pending(r) /\ r = m.id}

\* handleLogResponse, handleActionResponse, handleUpdateResponse.  The broker may
\* deliver the answer again.
HandleResponse(m) ==
    /\ m \in toHub /\ online
    /\ \/ \E r \in Addressees(m) : Settle(r, m.says)
       \/ Addressees(m) = {} /\ Unsettled
    /\ Delivered(toHub, toHub', m)
    /\ UNCHANGED <<clock, online, outbox, toAgent, arrived, tasks, carried>>

-----------------------------------------------------------------------------
(* The agent.                                                              *)

\* Logs requests carry no timestamp.
IsStale(r) ==
    /\ request[r].kind # "logs"
    /\ clock + AgentClock - request[r].at > StaleAfter

Begins(r) == [id |-> r, delivery |-> arrived[r] + 1, finished |-> "no"]

\* The broker delivers a request, perhaps not for the last time; a stale one is dropped.
Receive(r) ==
    /\ r \in toAgent
    /\ arrived' = [arrived EXCEPT ![r] = @ + 1]
    /\ Delivered(toAgent, toAgent', r)
    /\ tasks' = IF IsStale(r) THEN tasks ELSE tasks \cup {Begins(r)}
    /\ UNCHANGED <<clock, online, request, outbox, carried, toHub, fetching, cached>>

\* The runtime does what the handler awaits, or throws.  Only logs can be unavailable.
Carry(t, says) ==
    /\ t \in tasks /\ t.finished = "no"
    /\ says = "unavailable" => request[t.id].kind = "logs"
    /\ tasks' = (tasks \ {t}) \cup {[t EXCEPT !.finished = says]}
    /\ carried' = IF says = "ok" THEN carried \cup {t.id} ELSE carried
    /\ UNCHANGED <<clock, online, request, outbox, toAgent, arrived, toHub, fetching, cached, faults>>

Respond(t) ==
    /\ t \in tasks /\ t.finished # "no"
    /\ tasks' = tasks \ {t}
    /\ toHub' = IF request[t.id].kind = "check" THEN toHub
                ELSE toHub \cup {[id |-> t.id, kind |-> request[t.id].kind, says |-> t.finished]}
    /\ UNCHANGED <<clock, online, request, outbox, toAgent, arrived, carried, fetching, cached, faults>>

-----------------------------------------------------------------------------
(* Time, connections and restarts.                                         *)

Tick ==
    /\ clock < Horizon
    /\ clock' = clock + 1
    /\ UNCHANGED <<online, request, outbox, toAgent, arrived, tasks, carried, toHub, fetching, cached, faults>>

GoOffline ==
    /\ online
    /\ Fault
    /\ online' = FALSE
    /\ UNCHANGED <<clock, request, outbox, toAgent, arrived, tasks, carried, toHub, fetching, cached>>

\* The client sends what it has queued.
Reconnect ==
    /\ ~online
    /\ online' = TRUE
    /\ toAgent' = toAgent \cup outbox
    /\ outbox' = {}
    /\ UNCHANGED <<clock, request, arrived, tasks, carried, toHub, fetching, cached, faults>>

\* disconnect() rejects logs and actions; the process exits with the rest.  The next
\* hub knows of none of them, and its log cache is empty.
HubRestarts ==
    /\ Fault
    /\ request' = [r \in Ids |->
        IF ~Pending(r) THEN request[r]
        ELSE [request[r] EXCEPT !.outcome =
                IF request[r].kind \in {"logs", "action"} THEN "disconnecting" ELSE "lost"]]
    /\ outbox' = {} /\ fetching' = {} /\ cached' = {}
    /\ online' = FALSE
    /\ UNCHANGED <<clock, toAgent, arrived, tasks, carried, toHub>>

\* Its handlers end with it, and answers the broker does not have yet.
AgentRestarts ==
    /\ Fault
    /\ tasks' = {}
    /\ toHub' \in SUBSET toHub
    /\ UNCHANGED <<clock, online, request, outbox, toAgent, arrived, carried, fetching, cached>>

RequestsNext ==
    \/ \E c \in Container :
        \/ RequestLogs(c, "page") \/ FetchLogs(c) \/ RequestUpdateCheck(c)
        \/ \E kind \in {"action", "update"} : RequestCommand(kind, c)
    \/ \E r \in Ids : TimeOut(r) \/ PublishFails(r) \/ Receive(r)
    \/ \E m \in toHub : HandleResponse(m)
    \/ \E t \in tasks : Respond(t) \/ \E says \in Answers : Carry(t, says)
    \/ Tick \/ GoOffline \/ Reconnect \/ HubRestarts \/ AgentRestarts

\* The event loop runs timers that are due, and time passes.  Nothing is assumed of
\* the agent, the broker or the connection.
RequestsFairness ==
    /\ WF_requestVars(Tick)
    /\ WF_requestVars(\E r \in Ids : TimeOut(r))

RequestsSpec == RequestsInit /\ [][RequestsNext]_requestVars /\ RequestsFairness

-----------------------------------------------------------------------------
(* Properties.                                                             *)

\* A caller is told "ok" only if its own request was carried out: no late, second or
\* foreign answer is taken for it.
AnswerIsOwn == \A r \in Ids :
    request[r].outcome = "ok" /\ request[r].kind # "check" => r \in carried

\* An update whose caller was told that nobody answered is not begun any more,
\* however late it is delivered.  (For an action the hub's wait is the shorter one.)
NoUpdateAfterTimeout ==
    [][\A t \in tasks' \ tasks : t.finished = "no" /\ request[t.id].kind = "update"
        => request[t.id].outcome # "timed out"]_requestVars

\* Every caller gets an outcome, whatever becomes of the agent and the broker.
EveryRequestSettles == \A r \in 1 .. MaxRequests : []<>~Pending(r)

\* What hub and agent promise the caller of a request, whatever is late, lost or delivered
\* twice: each settles, and with what became of it (mqtt.ts of both).
RequestsAreSound == []AnswerIsOwn /\ NoUpdateAfterTimeout /\ EveryRequestSettles
=============================================================================
