--------------------------- MODULE ContainerProofs ---------------------------
(***************************************************************************)
(* What is done with containers, each for every value of its constants:    *)
(* the agent replaces its own and the hub's (AgentUpdater), counts how     *)
(* often one was restarted (ContainerRestarts) and tells of processes that *)
(* begin and end (ProcessEvents), and the hub says what is wrong with a    *)
(* container (Diagnosis, HostInsights) and which lines of its log match    *)
(* (LogMining).  They share no state; last, they are put together.         *)
(***************************************************************************)
EXTENDS MCContainers, SetLemmas, FunctionTheorems, SequenceTheorems, TLAPS

(***************************************************************************)
(* Updates of the agent and the hub, for any number of containers,         *)
(* updates, failed calls and restarts.                                     *)
(***************************************************************************)

ContainersOf(role) == {c \in DOMAIN containers : containers[c].role = role}
MainAgents == {c \in Running("agent") : containers[c].olds = 0}

\* The calls of an update are about containers of its target.
IsOfTarget(u) ==
    /\ updates[u] \in Update
    /\ updates[u].of \in 1 .. created
    /\ updates[u].of \in DOMAIN containers => containers[updates[u].of].role = updates[u].target
    /\ updates[u].target = "agent" =>
         updates[u].of = updates[u].by /\ updates[u].next \notin {"stop", "remove"}
    /\ updates[u].next \in {"start", "remove"} =>
         /\ updates[u].replacement \in 1 .. created
         /\ updates[u].replacement \in DOMAIN containers =>
              containers[updates[u].replacement].role = updates[u].target

UpdatesAreOfTargets ==
    /\ created \in Nat /\ requested \in Nat
    /\ DOMAIN containers \subseteq 1 .. created
    /\ \A c \in DOMAIN containers : containers[c] \in DockerContainer
    /\ DOMAIN updates \subseteq 1 .. requested
    /\ \A u \in DOMAIN updates : IsOfTarget(u)

\* An agent that cleans up removes nothing that has its own name.
LeftoversAreOld ==
    \A a \in DOMAIN cleaning : \A c \in cleaning[a] :
        c \in 1 .. created /\ (c \in DOMAIN containers => containers[c].olds > 0)

\* While every stop has worked, no hub but the newest runs, and none between the stop of the
\* one and the start of the other.
IsApart(u) ==
    /\ updates[u].next \in {"pull", "stop"} =>
        Running("hub") \subseteq {updates[u].of} /\ \A d \in ContainersOf("hub") : d <= updates[u].of
    /\ updates[u].next \in {"rename", "create", "start"} => Running("hub") = {}
    /\ updates[u].next \in {"start", "remove"} => \A d \in ContainersOf("hub") : d <= updates[u].replacement
    /\ updates[u].next = "remove" => Running("hub") \subseteq {updates[u].replacement}

HubsAreApart ==
    ~twofold =>
        /\ \A u, v \in InFlight("hub") : u = v
        /\ InFlight("hub") = {} => \A c \in Running("hub"), d \in ContainersOf("hub") : d <= c
        /\ \A u \in InFlight("hub") : IsApart(u)

\* While nothing has gone wrong with an update of it, the hub is one container, or the one
\* that is replaced and its replacement.
KeepsHub(u) ==
    /\ updates[u].olds = 0
    /\ updates[u].next \in {"pull", "stop", "rename"} =>
        ContainersOf("hub") = {updates[u].of} /\ containers[updates[u].of].olds = 0
    /\ updates[u].next \in {"pull", "stop"} => containers[updates[u].of].running
    /\ updates[u].next \in {"create", "start", "remove"} =>
        (updates[u].of \in ContainersOf("hub") => containers[updates[u].of].olds = 1)
    /\ updates[u].next = "create" => ContainersOf("hub") \subseteq {updates[u].of}
    /\ updates[u].next \in {"start", "remove"} =>
        /\ ContainersOf("hub") \subseteq {updates[u].of, updates[u].replacement}
        /\ updates[u].replacement \in ContainersOf("hub")
        /\ containers[updates[u].replacement].olds = 0
    /\ updates[u].next = "remove" => containers[updates[u].replacement].running

OneHub == \E c \in Running("hub") : containers[c].olds = 0 /\ ContainersOf("hub") = {c}

HubIsKept ==
    "hub" \notin spoiled =>
        /\ \A u, v \in InFlight("hub") : u = v
        /\ InFlight("hub") = {} => OneHub
        /\ \A u \in InFlight("hub") : KeepsHub(u)

\* While nothing has gone wrong with an update of it, an agent runs under its own name, or the
\* one that runs under another is about to start one.
KeepsAgent(u) ==
    /\ updates[u].next \in {"pull", "rename"} =>
        /\ MainAgents # {} /\ updates[u].of \in Running("agent")
        /\ containers[updates[u].of].olds = updates[u].olds
    /\ updates[u].next = "create" =>
        MainAgents # {} \/ (updates[u].of \in Running("agent") /\ updates[u].olds = 0)
    /\ updates[u].next = "start" =>
        \/ MainAgents # {}
        \/ /\ updates[u].of \in Running("agent")
           /\ updates[u].replacement \in ContainersOf("agent")
           /\ containers[updates[u].replacement].olds = 0

IsStarting(c) ==
    \E u \in InFlight("agent") : updates[u].next = "start" /\ updates[u].replacement = c

AgentIsKept ==
    "agent" \notin spoiled =>
        /\ \A u, v \in InFlight("agent") : u = v
        /\ InFlight("agent") = {} => MainAgents # {}
        /\ \A u \in InFlight("agent") : KeepsAgent(u)
        /\ \A c \in ContainersOf("agent") : containers[c].olds = 0 => containers[c].running \/ IsStarting(c)

UpdaterInv ==
    UpdatesAreOfTargets /\ LeftoversAreOld /\ HubsAreApart /\ HubIsKept /\ AgentIsKept

LEMMA UpdaterInvInit == UpdaterInit => UpdaterInv
<1> SUFFICES ASSUME UpdaterInit PROVE UpdaterInv
  OBVIOUS
<1>1. /\ DOMAIN containers = {1, 2} /\ DOMAIN updates = {} /\ DOMAIN cleaning = {}
      /\ containers[1] = [role |-> "hub", olds |-> 0, running |-> TRUE]
      /\ containers[2] = [role |-> "agent", olds |-> 0, running |-> TRUE]
      /\ created = 2 /\ requested = 0
  BY DEF UpdaterInit
<1>2. /\ InFlight("hub") = {} /\ InFlight("agent") = {}
      /\ Running("hub") = {1} /\ ContainersOf("hub") = {1} /\ ContainersOf("agent") = {2} /\ 2 \in MainAgents
  BY <1>1 DEF InFlight, Running, ContainersOf, MainAgents
<1>3. UpdatesAreOfTargets
  <2>1. DOMAIN containers \subseteq 1 .. created
    BY <1>1
  <2>2. \A c \in DOMAIN containers : containers[c] \in DockerContainer
    <3>1. /\ [role |-> "hub", olds |-> 0, running |-> TRUE] \in DockerContainer
          /\ [role |-> "agent", olds |-> 0, running |-> TRUE] \in DockerContainer
      BY DEF DockerContainer, Targets
    <3> QED BY <1>1, <3>1
  <2> QED BY <1>1, <2>1, <2>2 DEF UpdatesAreOfTargets
<1> QED BY <1>1, <1>2, <1>3 DEF UpdaterInv, LeftoversAreOld, HubsAreApart, HubIsKept, AgentIsKept, OneHub

(* What an action does to the updates, and to those of the other target.   *)

LEMMA GoesOn ==
    ASSUME UpdaterInv, NEW u \in DOMAIN updates,
           NEW call \in {"pull", "stop", "rename", "create", "start", "remove"}, Goes(u, call)
    PROVE  /\ DOMAIN updates' = DOMAIN updates
           /\ \A v \in DOMAIN updates : v # u => updates'[v] = updates[v]
           /\ updates'[u] \in Update
           /\ updates'[u].next = call /\ updates'[u].by = updates[u].by
           /\ updates'[u].target = updates[u].target
           /\ updates'[u].of = updates[u].of /\ updates'[u].olds = updates[u].olds
           /\ updates'[u].replacement = updates[u].replacement
           /\ \A target \in Targets : InFlight(target)' = InFlight(target)
<1>1. /\ DOMAIN updates' = DOMAIN updates
      /\ \A v \in DOMAIN updates : v # u => updates'[v] = updates[v]
      /\ updates'[u] = [updates[u] EXCEPT !.next = call]
  BY DEF Goes
<1>2. updates[u] \in Update
  BY DEF UpdaterInv, UpdatesAreOfTargets, IsOfTarget
<1>3. /\ updates'[u] \in Update /\ updates'[u].next = call /\ updates'[u].by = updates[u].by
      /\ updates'[u].target = updates[u].target
      /\ updates'[u].of = updates[u].of /\ updates'[u].olds = updates[u].olds
      /\ updates'[u].replacement = updates[u].replacement
  <2>1. ASSUME NEW update \in Update
        PROVE  LET gone == [update EXCEPT !.next = call]
               IN  /\ gone \in Update /\ gone.next = call /\ gone.by = update.by
                   /\ gone.target = update.target /\ gone.of = update.of
                   /\ gone.olds = update.olds /\ gone.replacement = update.replacement
    <3>1. call \in {"pull", "stop", "rename", "create", "start", "remove"}
      OBVIOUS
    <3> QED BY ONLY <2>1, <3>1 DEF Update
  <2> QED BY <1>1, <1>2, <2>1
<1>4. \A v \in DOMAIN updates : updates'[v].target = updates[v].target
  BY ONLY <1>1, <1>3
<1>5. \A target \in Targets : InFlight(target)' = InFlight(target)
  BY ONLY <1>1, <1>4 DEF InFlight
<1> QED BY ONLY <1>1, <1>3, <1>5

LEMMA Ends ==
    ASSUME NEW U, EndUpdates(U)
    PROVE  /\ DOMAIN updates' = DOMAIN updates \ U
           /\ \A v \in DOMAIN updates' : updates'[v] = updates[v]
           /\ \A target \in Targets : InFlight(target)' = InFlight(target) \ U
BY DEF EndUpdates, InFlight

\* Ids are not given twice, and a container does not change its role.
RolesStay ==
    /\ created' \in Nat /\ created <= created' /\ DOMAIN containers' \subseteq 1 .. created'
    /\ \A c \in DOMAIN containers' : containers'[c] \in DockerContainer
    /\ \A c \in DOMAIN containers' : c \in 1 .. created =>
        c \in DOMAIN containers /\ containers'[c].role = containers[c].role

LEMMA TargetsStay ==
    ASSUME UpdatesAreOfTargets, RolesStay, NEW v \in DOMAIN updates, updates'[v] = updates[v]
    PROVE  IsOfTarget(v)'
BY DEF UpdatesAreOfTargets, RolesStay, IsOfTarget

LEMMA HubUntouched ==
    ASSUME UpdaterInv,
           ContainersOf("hub")' = ContainersOf("hub"),
           \A c \in ContainersOf("hub") : containers'[c] = containers[c],
           InFlight("hub")' = InFlight("hub"),
           \A v \in InFlight("hub") : updates'[v] = updates[v],
           spoiled \subseteq spoiled', twofold => twofold'
    PROVE  HubsAreApart' /\ HubIsKept'
<1>1. Running("hub")' = Running("hub") /\ Running("hub") \subseteq ContainersOf("hub")
  BY DEF ContainersOf, Running
<1>2. HubsAreApart'
  BY <1>1 DEF UpdaterInv, HubsAreApart, IsApart
<1>3. HubIsKept'
  <2>1. SUFFICES ASSUME "hub" \notin spoiled' PROVE HubIsKept'
    BY DEF HubIsKept
  <2>2. "hub" \notin spoiled
    BY <2>1
  <2>3. OneHub => OneHub'
    BY <1>1 DEF OneHub
  <2>4. ASSUME NEW u \in InFlight("hub") PROVE KeepsHub(u)'
    BY <1>1, <2>2, <2>4 DEF UpdaterInv, HubIsKept, KeepsHub
  <2> QED BY <2>2, <2>3, <2>4 DEF UpdaterInv, HubIsKept
<1> QED BY <1>2, <1>3

LEMMA AgentUntouched ==
    ASSUME UpdaterInv,
           ContainersOf("agent")' = ContainersOf("agent"),
           \A c \in ContainersOf("agent") : containers'[c] = containers[c],
           InFlight("agent")' = InFlight("agent"),
           \A v \in InFlight("agent") : updates'[v] = updates[v],
           spoiled \subseteq spoiled'
    PROVE  AgentIsKept'
<1>1. /\ Running("agent")' = Running("agent") /\ Running("agent") \subseteq ContainersOf("agent")
      /\ MainAgents' = MainAgents
  BY DEF ContainersOf, Running, MainAgents
<1>2. SUFFICES ASSUME "agent" \notin spoiled' PROVE AgentIsKept'
  BY DEF AgentIsKept
<1>3. "agent" \notin spoiled
  BY <1>2
<1>4. ASSUME NEW u \in InFlight("agent") PROVE KeepsAgent(u)'
  BY <1>1, <1>3, <1>4 DEF UpdaterInv, AgentIsKept, KeepsAgent
<1>5. \A c : IsStarting(c) => IsStarting(c)'
  BY DEF IsStarting
<1> QED BY <1>1, <1>3, <1>4, <1>5 DEF UpdaterInv, AgentIsKept

\* Updates end before they have done harm, or it is recorded.
LEMMA EndsKeepInv ==
    ASSUME UpdaterInv, NEW U, EndUpdates(U), UNCHANGED <<containers, created, requested, twofold>>,
           spoiled \subseteq spoiled', LeftoversAreOld',
           \A u \in U \cap InFlight("hub") : "hub" \in spoiled' \/ OneHub,
           \A u \in U \cap InFlight("agent") : \/ "agent" \in spoiled'
                                               \/ /\ MainAgents # {}
                                                  /\ updates[u].next = "start" =>
                                                       updates[u].replacement \notin DOMAIN containers
    PROVE  UpdaterInv'
<1> USE DEF UpdaterInv
<1>1. /\ DOMAIN updates' = DOMAIN updates \ U
      /\ \A v \in DOMAIN updates' : updates'[v] = updates[v]
      /\ InFlight("hub")' = InFlight("hub") \ U /\ InFlight("agent")' = InFlight("agent") \ U
  BY Ends DEF Targets
<1>2. /\ ContainersOf("hub")' = ContainersOf("hub") /\ Running("hub")' = Running("hub")
      /\ ContainersOf("agent")' = ContainersOf("agent") /\ Running("agent")' = Running("agent")
      /\ MainAgents' = MainAgents
      /\ OneHub' = OneHub
  BY DEF ContainersOf, Running, MainAgents, OneHub
<1>3. UpdatesAreOfTargets'
  BY <1>1 DEF UpdatesAreOfTargets, IsOfTarget
<1>4. HubsAreApart'
  <2>1. SUFFICES ASSUME ~twofold PROVE HubsAreApart'
    BY DEF HubsAreApart
  <2>2. ASSUME NEW u \in InFlight("hub")
        PROVE  \A c \in Running("hub"), d \in ContainersOf("hub") : d <= c
    <3>1. IsApart(u) /\ updates[u].next \in {"pull", "stop", "rename", "create", "start", "remove"}
      BY <2>1, <2>2 DEF HubsAreApart, UpdatesAreOfTargets, IsOfTarget, Update, InFlight
    <3> QED BY <3>1 DEF IsApart
  <2>3. \A v \in InFlight("hub")' : IsApart(v)'
    BY <1>1, <1>2, <2>1 DEF HubsAreApart, IsApart, InFlight
  <2> QED BY <1>1, <1>2, <2>1, <2>2, <2>3 DEF HubsAreApart
<1>5. HubIsKept'
  <2>1. SUFFICES ASSUME "hub" \notin spoiled' PROVE HubIsKept'
    BY DEF HubIsKept
  <2>2. "hub" \notin spoiled
    BY <2>1
  <2>3. \A v \in InFlight("hub")' : KeepsHub(v)'
    BY <1>1, <1>2, <2>2 DEF HubIsKept, KeepsHub, InFlight
  <2>4. InFlight("hub")' = {} => OneHub'
    BY <1>1, <1>2, <2>1, <2>2 DEF HubIsKept
  <2> QED BY <1>1, <2>2, <2>3, <2>4 DEF HubIsKept
<1>6. AgentIsKept'
  <2>1. SUFFICES ASSUME "agent" \notin spoiled' PROVE AgentIsKept'
    BY DEF AgentIsKept
  <2>2. "agent" \notin spoiled
    BY <2>1
  <2>3. \A v \in InFlight("agent")' : KeepsAgent(v)'
    BY <1>1, <1>2, <2>2 DEF AgentIsKept, KeepsAgent, InFlight
  <2>4. InFlight("agent")' = {} => MainAgents' # {}
    BY <1>1, <1>2, <2>1, <2>2 DEF AgentIsKept
  <2>5. \A c \in ContainersOf("agent") : IsStarting(c) => IsStarting(c)'
    BY <1>1, <2>1 DEF IsStarting, InFlight, ContainersOf
  <2> QED BY <1>1, <1>2, <2>2, <2>3, <2>4, <2>5 DEF AgentIsKept
<1> QED BY <1>3, <1>4, <1>5, <1>6

LEMMA BeginKeepsInv ==
    ASSUME UpdaterInv, NEW a \in DOMAIN containers, NEW target \in Targets, BeginUpdate(a, target)
    PROVE  UpdaterInv'
<1> USE DEF UpdaterInv
<1>1. /\ requested' = requested + 1
      /\ a \in Running("agent")
      /\ spoiled' = (IF InFlight(target) # {} THEN spoiled \cup {target} ELSE spoiled)
      /\ twofold' = (twofold \/ (target = "hub" /\ InFlight("hub") # {}))
      /\ UNCHANGED <<containers, created, booting, cleaning, mishaps>>
  BY DEF BeginUpdate
<1>2. /\ ContainersOf("hub")' = ContainersOf("hub") /\ Running("hub")' = Running("hub")
      /\ ContainersOf("agent")' = ContainersOf("agent") /\ Running("agent")' = Running("agent")
      /\ MainAgents' = MainAgents
  BY <1>1 DEF ContainersOf, Running, MainAgents
<1>3. LeftoversAreOld'
  BY <1>1 DEF LeftoversAreOld
<1>4. RolesStay /\ spoiled \subseteq spoiled'
  BY <1>1 DEF RolesStay, UpdatesAreOfTargets
<1>5. CASE UNCHANGED updates
  <2>1. InFlight("hub")' = InFlight("hub") /\ InFlight("agent")' = InFlight("agent")
    BY <1>5 DEF InFlight
  <2>2. UpdatesAreOfTargets'
    BY <1>1, <1>5 DEF UpdatesAreOfTargets, IsOfTarget
  <2>3. HubsAreApart' /\ HubIsKept'
    BY <1>1, <1>2, <1>4, <1>5, <2>1, HubUntouched
  <2>4. AgentIsKept'
    BY <1>1, <1>2, <1>4, <1>5, <2>1, AgentUntouched
  <2> QED BY <1>3, <2>2, <2>3, <2>4
<1>6. CASE ~UNCHANGED updates
  <2>1. PICK c \in Replaced(a, target) :
            updates' = With(updates, requested', [by |-> a, target |-> target, of |-> c,
                olds |-> containers[c].olds, replacement |-> 0, next |-> "pull"])
    BY <1>6 DEF BeginUpdate
  <2>0. PICK n \in Nat : n = requested'
    BY <1>1 DEF UpdatesAreOfTargets
  <2> DEFINE begun == [by |-> a, target |-> target, of |-> c,
                olds |-> containers[c].olds, replacement |-> 0, next |-> "pull"]
  <2>2. /\ n \notin DOMAIN updates /\ DOMAIN updates' = DOMAIN updates \cup {n}
        /\ updates'[n] = begun /\ \A v \in DOMAIN updates : updates'[v] = updates[v]
    <3>1. n \notin DOMAIN updates
      BY <1>1, <2>0 DEF UpdatesAreOfTargets
    <3> QED BY <2>0, <2>1, <3>1 DEF With
  <2>3. /\ c \in ContainersOf(target) /\ c \in 1 .. created /\ containers[c] \in DockerContainer
        /\ target = "agent" => c = a
        /\ target = "hub" => \A d \in ContainersOf("hub") : d <= c
    BY <1>1, <2>1 DEF Replaced, Newest, ContainersOf, Running, UpdatesAreOfTargets, Targets
  <2>4. /\ begun.by = a /\ begun.target = target /\ begun.of = c /\ begun.olds = containers[c].olds
        /\ begun.next = "pull" /\ begun \in Update
    BY <2>3 DEF UpdatesAreOfTargets, Update, DockerContainer
  <2> HIDE DEF begun
  <2>5. /\ InFlight(target)' = InFlight(target) \cup {n}
        /\ \A other \in Targets : other # target => InFlight(other)' = InFlight(other)
    BY <2>2, <2>4 DEF InFlight
  <2>6. UpdatesAreOfTargets'
    <3>1. IsOfTarget(n)'
      BY <1>1, <2>2, <2>3, <2>4 DEF IsOfTarget, ContainersOf
    <3>2. \A v \in DOMAIN updates : IsOfTarget(v)'
      BY <1>4, <2>2, TargetsStay
    <3>3. n \in 1 .. requested' /\ requested' \in Nat /\ 1 .. requested \subseteq 1 .. requested'
      BY <1>1, <2>0 DEF UpdatesAreOfTargets
    <3> QED BY <1>1, <2>2, <3>1, <3>2, <3>3 DEF UpdatesAreOfTargets
  <2>7. \A v \in DOMAIN updates : v \in DOMAIN updates' /\ updates'[v] = updates[v]
    BY <2>2
  <2>8. CASE target = "hub"
    <3>1. AgentIsKept'
      BY <1>1, <1>2, <1>4, <2>5, <2>7, <2>8, AgentUntouched DEF Targets, InFlight
    <3>2. HubsAreApart'
      <4>1. SUFFICES ASSUME ~twofold' PROVE HubsAreApart'
        BY DEF HubsAreApart
      <4>2. InFlight("hub") = {} /\ ~twofold /\ InFlight("hub")' = {n}
        BY <1>1, <2>5, <2>8, <4>1
      <4>3. Running("hub") \subseteq {c}
        <5>1. ASSUME NEW d \in Running("hub") PROVE d = c
          <6>1. c <= d /\ d <= c
            BY <2>3, <2>8, <4>2 DEF HubsAreApart, Running, ContainersOf
          <6>2. c \in Nat /\ d \in Nat
            BY <2>3 DEF Running, UpdatesAreOfTargets
          <6> QED BY <6>1, <6>2
        <5> QED BY <5>1
      <4>4. IsApart(n)'
        BY <1>2, <2>2, <2>3, <2>4, <2>8, <4>3 DEF IsApart
      <4> QED BY <4>2, <4>4 DEF HubsAreApart
    <3>3. HubIsKept'
      <4>1. SUFFICES ASSUME "hub" \notin spoiled' PROVE HubIsKept'
        BY DEF HubIsKept
      <4>2. InFlight("hub") = {} /\ "hub" \notin spoiled /\ InFlight("hub")' = {n}
        BY <1>1, <2>5, <2>8, <4>1
      <4>3. PICK m \in Running("hub") : containers[m].olds = 0 /\ ContainersOf("hub") = {m}
        BY <4>2 DEF HubIsKept, OneHub
      <4>4. c = m /\ containers[c].running
        BY <2>3, <2>8, <4>3 DEF Running
      <4>5. KeepsHub(n)'
        BY <1>1, <1>2, <2>2, <2>4, <4>3, <4>4 DEF KeepsHub
      <4> QED BY <4>2, <4>5 DEF HubIsKept
    <3> QED BY <1>3, <2>6, <3>1, <3>2, <3>3
  <2>9. CASE target = "agent"
    <3>1. HubsAreApart' /\ HubIsKept'
      BY <1>1, <1>2, <1>4, <2>5, <2>7, <2>9, HubUntouched DEF Targets, InFlight
    <3>2. AgentIsKept'
      <4>1. SUFFICES ASSUME "agent" \notin spoiled' PROVE AgentIsKept'
        BY DEF AgentIsKept
      <4>2. InFlight("agent") = {} /\ "agent" \notin spoiled /\ InFlight("agent")' = {n}
        BY <1>1, <2>5, <2>9, <4>1
      <4>3. MainAgents # {} /\ c \in Running("agent")
        BY <1>1, <2>3, <2>9, <4>2 DEF AgentIsKept
      <4>4. KeepsAgent(n)'
        BY <1>1, <1>2, <2>2, <2>4, <4>3 DEF KeepsAgent
      <4>5. \A d \in ContainersOf("agent") : containers[d].olds = 0 => containers[d].running
        BY <4>2 DEF AgentIsKept, IsStarting
      <4> QED BY <1>1, <1>2, <4>2, <4>3, <4>4, <4>5 DEF AgentIsKept
    <3> QED BY <1>3, <2>6, <3>1, <3>2
  <2> QED BY <2>8, <2>9 DEF Targets
<1> QED BY <1>5, <1>6

LEMMA PullKeepsInv ==
    ASSUME UpdaterInv, NEW u \in DOMAIN updates, Pull(u)
    PROVE  UpdaterInv'
<1> USE DEF UpdaterInv
<1>1. UNCHANGED <<containers, created, requested, booting, cleaning, spoiled, twofold>> /\ updates[u].next = "pull"
  BY DEF Pull, Calls
<1>2. /\ ContainersOf("hub")' = ContainersOf("hub") /\ Running("hub")' = Running("hub")
      /\ ContainersOf("agent")' = ContainersOf("agent") /\ Running("agent")' = Running("agent")
      /\ MainAgents' = MainAgents
  BY <1>1 DEF ContainersOf, Running, MainAgents
<1>3. LeftoversAreOld' /\ RolesStay
  BY <1>1 DEF LeftoversAreOld, RolesStay, UpdatesAreOfTargets
<1>4. CASE EndUpdates({u})
  <2>1. u \in InFlight("hub") => "hub" \in spoiled \/ OneHub
    <3>1. ASSUME u \in InFlight("hub"), "hub" \notin spoiled PROVE OneHub
      <4>1. /\ ContainersOf("hub") = {updates[u].of} /\ containers[updates[u].of].olds = 0
            /\ containers[updates[u].of].running
        BY <1>1, <3>1 DEF HubIsKept, KeepsHub
      <4> QED BY <4>1 DEF OneHub, ContainersOf, Running
    <3> QED BY <3>1
  <2>2. u \in InFlight("agent") => "agent" \in spoiled \/ MainAgents # {}
    BY <1>1 DEF AgentIsKept, KeepsAgent
  <2> QED BY <1>1, <1>3, <1>4, <2>1, <2>2, EndsKeepInv
<1>5. CASE Goes(u, IF updates[u].target = "hub" THEN "stop" ELSE "rename")
  <2>1. /\ DOMAIN updates' = DOMAIN updates
        /\ \A v \in DOMAIN updates : v # u => updates'[v] = updates[v]
        /\ updates'[u] \in Update
        /\ updates'[u].next = (IF updates[u].target = "hub" THEN "stop" ELSE "rename")
        /\ updates'[u].by = updates[u].by /\ updates'[u].target = updates[u].target
        /\ updates'[u].of = updates[u].of /\ updates'[u].olds = updates[u].olds
        /\ InFlight("hub")' = InFlight("hub") /\ InFlight("agent")' = InFlight("agent")
    BY <1>5, GoesOn DEF Targets
  <2>2. UpdatesAreOfTargets'
    <3>1. IsOfTarget(u)'
      BY <1>1, <2>1 DEF IsOfTarget, UpdatesAreOfTargets
    <3>2. \A v \in DOMAIN updates : v # u => IsOfTarget(v)'
      BY <1>3, <2>1, TargetsStay
    <3> QED BY <1>1, <2>1, <3>1, <3>2 DEF UpdatesAreOfTargets
  <2>3. CASE updates[u].target = "hub"
    <3>1. AgentIsKept'
      BY <1>1, <1>2, <2>1, <2>3, AgentUntouched DEF InFlight
    <3>2. HubsAreApart'
      BY <1>1, <1>2, <2>1, <2>3 DEF HubsAreApart, IsApart, InFlight
    <3>3. HubIsKept'
      BY <1>1, <1>2, <2>1, <2>3 DEF HubIsKept, KeepsHub, InFlight
    <3> QED BY <1>3, <2>2, <3>1, <3>2, <3>3
  <2>4. CASE updates[u].target = "agent"
    <3>1. HubsAreApart' /\ HubIsKept'
      BY <1>1, <1>2, <2>1, <2>4, HubUntouched DEF InFlight
    <3>2. AgentIsKept'
      <4>1. SUFFICES ASSUME "agent" \notin spoiled PROVE AgentIsKept'
        BY <1>1 DEF AgentIsKept
      <4>2. u \in InFlight("agent") /\ InFlight("agent") = {u}
        BY <2>4, <4>1 DEF AgentIsKept, InFlight
      <4>3. KeepsAgent(u)'
        BY <1>1, <1>2, <2>1, <2>4, <4>1, <4>2 DEF AgentIsKept, KeepsAgent
      <4>4. \A d \in ContainersOf("agent") : containers[d].olds = 0 => containers[d].running
        BY <1>1, <4>1, <4>2 DEF AgentIsKept, IsStarting
      <4> QED BY <1>1, <1>2, <2>1, <4>2, <4>3, <4>4 DEF AgentIsKept
    <3> QED BY <1>3, <2>2, <3>1, <3>2
  <2> QED BY <2>3, <2>4 DEF UpdatesAreOfTargets, IsOfTarget, Update, Targets
<1> QED BY <1>4, <1>5 DEF Pull

LEMMA StopKeepsInv ==
    ASSUME UpdaterInv, NEW u \in DOMAIN updates, Stop(u)
    PROVE  UpdaterInv'
<1> USE DEF UpdaterInv
<1> DEFINE of == updates[u].of
<1>1. /\ UNCHANGED <<created, requested, booting, cleaning, spoiled>>
      /\ updates[u].next = "stop" /\ Goes(u, "rename")
  BY DEF Stop, Calls
<1>2. /\ updates[u].target = "hub" /\ u \in InFlight("hub")
      /\ of \in DOMAIN containers => containers[of].role = "hub"
  BY <1>1 DEF UpdatesAreOfTargets, IsOfTarget, Update, Targets, InFlight
<1>3. /\ DOMAIN updates' = DOMAIN updates
      /\ \A v \in DOMAIN updates : v # u => updates'[v] = updates[v]
      /\ updates'[u] \in Update /\ updates'[u].next = "rename"
      /\ updates'[u].by = updates[u].by /\ updates'[u].target = updates[u].target
      /\ updates'[u].of = updates[u].of /\ updates'[u].olds = updates[u].olds
      /\ InFlight("hub")' = InFlight("hub") /\ InFlight("agent")' = InFlight("agent")
  BY <1>1, GoesOn DEF Targets
<1>4. /\ DOMAIN containers' = DOMAIN containers
      /\ \A c \in DOMAIN containers :
            /\ containers'[c] \in DockerContainer
            /\ containers'[c].role = containers[c].role /\ containers'[c].olds = containers[c].olds
            /\ c # of => containers'[c] = containers[c]
      /\ \/ twofold' = twofold /\ (of \in DOMAIN containers => ~containers'[of].running)
         \/ twofold'
  <2>1. \A c \in DOMAIN containers : containers[c] \in DockerContainer
    BY DEF UpdatesAreOfTargets
  <2>2. \/ /\ containers' = IF of \in DOMAIN containers THEN [containers EXCEPT ![of].running = FALSE]
                           ELSE containers
           /\ twofold' = twofold
        \/ twofold' = TRUE /\ UNCHANGED containers
    BY DEF Stop, Exists
  <2> HIDE DEF of
  <2>3. CASE /\ containers' = IF of \in DOMAIN containers THEN [containers EXCEPT ![of].running = FALSE]
                              ELSE containers
             /\ twofold' = twofold
    BY <2>1, <2>3 DEF DockerContainer
  <2>4. CASE twofold' = TRUE /\ UNCHANGED containers
    BY <2>1, <2>4
  <2> QED BY <2>2, <2>3, <2>4
<1>5. /\ ContainersOf("hub")' = ContainersOf("hub") /\ ContainersOf("agent")' = ContainersOf("agent")
  BY <1>4 DEF ContainersOf
<1>6. RolesStay /\ LeftoversAreOld'
  BY <1>1, <1>4 DEF RolesStay, LeftoversAreOld, UpdatesAreOfTargets
<1>7. UpdatesAreOfTargets'
  <2>1. IsOfTarget(u)'
    BY <1>1, <1>2, <1>3, <1>4 DEF IsOfTarget, UpdatesAreOfTargets
  <2>2. \A v \in DOMAIN updates : v # u => IsOfTarget(v)'
    BY <1>3, <1>6, TargetsStay
  <2> QED BY <1>1, <1>3, <1>6, <2>1, <2>2 DEF UpdatesAreOfTargets, RolesStay
<1>8. AgentIsKept'
  BY <1>1, <1>2, <1>3, <1>4, <1>5, AgentUntouched DEF InFlight, ContainersOf
<1>9. HubsAreApart'
  <2>1. SUFFICES ASSUME ~twofold' PROVE HubsAreApart'
    BY DEF HubsAreApart
  <2>2. ~twofold /\ (of \in DOMAIN containers => ~containers'[of].running)
    BY <1>4, <2>1 DEF Stop
  <2>3. Running("hub") \subseteq {of} /\ InFlight("hub") = {u}
    BY <1>1, <1>2, <2>2 DEF HubsAreApart, IsApart
  <2>4. Running("hub")' = {}
    BY <1>4, <2>2, <2>3 DEF Running
  <2> QED BY <1>3, <2>3, <2>4 DEF HubsAreApart, IsApart
<1>10. HubIsKept'
  <2>1. SUFFICES ASSUME "hub" \notin spoiled PROVE HubIsKept'
    BY <1>1 DEF HubIsKept
  <2>2. KeepsHub(u) /\ InFlight("hub") = {u}
    BY <1>2, <2>1 DEF HubIsKept
  <2>3. KeepsHub(u)'
    BY <1>1, <1>3, <1>4, <1>5, <2>2 DEF KeepsHub, ContainersOf
  <2> QED BY <1>3, <2>2, <2>3 DEF HubIsKept
<1> QED BY <1>6, <1>7, <1>8, <1>9, <1>10

LEMMA RenameKeepsInv ==
    ASSUME UpdaterInv, NEW u \in DOMAIN updates, Rename(u)
    PROVE  UpdaterInv'
<1> USE DEF UpdaterInv
<1> DEFINE of == updates[u].of
           olds == updates[u].olds + 1
           target == updates[u].target
<1>1. /\ UNCHANGED <<created, requested, booting, cleaning, twofold>>
      /\ updates[u].next = "rename" /\ Goes(u, "create") /\ spoiled \subseteq spoiled'
  BY DEF Rename, Calls
<1>2. /\ target \in Targets /\ u \in InFlight(target) /\ updates[u].olds \in Nat
      /\ of \in DOMAIN containers => containers[of].role = target
  BY <1>1 DEF UpdatesAreOfTargets, IsOfTarget, Update, InFlight
<1>3. /\ DOMAIN updates' = DOMAIN updates
      /\ \A v \in DOMAIN updates : v # u => updates'[v] = updates[v]
      /\ updates'[u] \in Update /\ updates'[u].next = "create"
      /\ updates'[u].by = updates[u].by /\ updates'[u].target = updates[u].target
      /\ updates'[u].of = updates[u].of /\ updates'[u].olds = updates[u].olds
      /\ InFlight("hub")' = InFlight("hub") /\ InFlight("agent")' = InFlight("agent")
  BY <1>1, GoesOn DEF Targets
<1>4. /\ DOMAIN containers' = DOMAIN containers
      /\ \A c \in DOMAIN containers :
            /\ containers'[c] \in DockerContainer
            /\ containers'[c].role = containers[c].role /\ containers'[c].running = containers[c].running
            /\ c # of => containers'[c] = containers[c]
      /\ of \in DOMAIN containers => containers'[of].olds \in {containers[of].olds, olds}
      /\ \/ "hub" \in spoiled' \/ target # "hub"
         \/ of \in DOMAIN containers /\ ~Taken(target, olds) => containers'[of].olds = olds
  <2>1. \A c \in DOMAIN containers : containers[c] \in DockerContainer
    BY DEF UpdatesAreOfTargets
  <2>2. olds \in Nat
    BY <1>2
  <2>3. \/ containers' = IF Exists(u) /\ ~Taken(target, olds)
                         THEN [containers EXCEPT ![of].olds = olds] ELSE containers
        \/ UNCHANGED containers /\ spoiled' = spoiled \cup ({target} \cap {"hub"})
    BY DEF Rename
  <2> HIDE DEF of, olds, target
  <2>4. CASE containers' = IF Exists(u) /\ ~Taken(target, olds)
                           THEN [containers EXCEPT ![of].olds = olds] ELSE containers
    <3>1. Exists(u) <=> of \in DOMAIN containers
      BY DEF Exists, of
    <3>2. CASE of \in DOMAIN containers /\ ~Taken(target, olds)
      <4>1. containers' = [containers EXCEPT ![of].olds = olds]
        BY <2>4, <3>1, <3>2
      <4> QED BY <2>1, <2>2, <3>2, <4>1 DEF DockerContainer
    <3>3. CASE ~(of \in DOMAIN containers /\ ~Taken(target, olds))
      BY <2>1, <2>4, <3>1, <3>3
    <3> QED BY <3>2, <3>3
  <2>5. CASE UNCHANGED containers /\ spoiled' = spoiled \cup ({target} \cap {"hub"})
    BY <2>1, <2>5
  <2> QED BY <2>3, <2>4, <2>5
<1>5. /\ ContainersOf("hub")' = ContainersOf("hub") /\ ContainersOf("agent")' = ContainersOf("agent")
      /\ Running("hub")' = Running("hub") /\ Running("agent")' = Running("agent")
  BY <1>4 DEF ContainersOf, Running
<1>6. RolesStay /\ LeftoversAreOld'
  <2>1. RolesStay
    BY <1>1, <1>4 DEF RolesStay, UpdatesAreOfTargets
  <2>2. \A c \in DOMAIN containers : containers[c].olds > 0 => containers'[c].olds > 0
    BY <1>2, <1>4
  <2> QED BY <1>1, <1>4, <2>1, <2>2 DEF LeftoversAreOld
<1>7. UpdatesAreOfTargets'
  <2>1. IsOfTarget(u)'
    BY <1>1, <1>2, <1>3, <1>4 DEF IsOfTarget, UpdatesAreOfTargets
  <2>2. \A v \in DOMAIN updates : v # u => IsOfTarget(v)'
    BY <1>3, <1>6, TargetsStay
  <2> QED BY <1>1, <1>3, <1>6, <2>1, <2>2 DEF UpdatesAreOfTargets, RolesStay
<1>8. CASE target = "hub"
  <2>1. AgentIsKept'
    BY <1>1, <1>2, <1>3, <1>4, <1>5, <1>8, AgentUntouched DEF InFlight, ContainersOf
  <2>2. HubsAreApart'
    BY <1>1, <1>2, <1>3, <1>5, <1>8 DEF HubsAreApart, IsApart
  <2>3. HubIsKept'
    <3>1. SUFFICES ASSUME "hub" \notin spoiled' PROVE HubIsKept'
      BY DEF HubIsKept
    <3>2. KeepsHub(u) /\ InFlight("hub") = {u}
      BY <1>1, <1>2, <1>8, <3>1 DEF HubIsKept
    <3>3. ContainersOf("hub") = {of} /\ containers[of].olds = 0 /\ updates[u].olds = 0
      BY <1>1, <3>2 DEF KeepsHub
    <3>4. ~Taken(target, olds)
      BY <1>8, <3>3 DEF Taken, NameOf, ContainersOf
    <3>5. containers'[of].olds = 1
      BY <1>4, <1>8, <3>1, <3>3, <3>4 DEF ContainersOf
    <3>6. KeepsHub(u)'
      BY <1>3, <1>5, <3>3, <3>5 DEF KeepsHub
    <3> QED BY <1>3, <3>2, <3>6 DEF HubIsKept
  <2> QED BY <1>6, <1>7, <2>1, <2>2, <2>3
<1>9. CASE target = "agent"
  <2>1. HubsAreApart' /\ HubIsKept'
    BY <1>1, <1>2, <1>3, <1>4, <1>5, <1>9, HubUntouched DEF InFlight, ContainersOf
  <2>2. AgentIsKept'
    <3>1. SUFFICES ASSUME "agent" \notin spoiled' PROVE AgentIsKept'
      BY DEF AgentIsKept
    <3>2. "agent" \notin spoiled /\ KeepsAgent(u) /\ InFlight("agent") = {u}
      BY <1>1, <1>2, <1>9, <3>1 DEF AgentIsKept
    <3>3. MainAgents # {} /\ of \in Running("agent") /\ containers[of].olds = updates[u].olds
      BY <1>1, <3>2 DEF KeepsAgent
    <3>4. updates[u].olds # 0 => MainAgents' # {}
      BY <1>4, <1>5, <3>3 DEF MainAgents, Running
    <3>5. KeepsAgent(u)'
      BY <1>3, <1>5, <3>3, <3>4 DEF KeepsAgent
    <3>6. \A d \in ContainersOf("agent") : containers[d].olds = 0 => containers[d].running
      BY <1>1, <3>2 DEF AgentIsKept, IsStarting
    <3>7. \A d \in ContainersOf("agent") : containers'[d].olds = 0 => containers'[d].running
      <4>1. \A d \in ContainersOf("agent") : containers'[d].olds = 0 => containers[d].olds = 0
        BY <1>2, <1>4 DEF ContainersOf
      <4> QED BY <1>4, <3>6, <4>1 DEF ContainersOf
    <3> QED BY <1>3, <1>5, <3>2, <3>5, <3>7 DEF AgentIsKept
  <2> QED BY <1>6, <1>7, <2>1, <2>2
<1> QED BY <1>2, <1>8, <1>9 DEF Targets

LEMMA CreateKeepsInv ==
    ASSUME UpdaterInv, NEW u \in DOMAIN updates, Create(u)
    PROVE  UpdaterInv'
<1> USE DEF UpdaterInv
<1>0. PICK target \in Targets : target = updates[u].target
  BY DEF UpdatesAreOfTargets, IsOfTarget, Update
<1>1. UNCHANGED <<requested, booting, cleaning, twofold>> /\ updates[u].next = "create"
  BY DEF Create, Calls
<1>2. target \in Targets /\ u \in InFlight(target) /\ updates[u].olds \in Nat /\ updates[u] \in Update
  BY <1>0 DEF UpdatesAreOfTargets, IsOfTarget, Update, InFlight
<1>3. CASE EndUpdates({u}) /\ UNCHANGED <<containers, created>> /\ spoiled' = spoiled \cup {target}
  <2>1. LeftoversAreOld'
    BY <1>1, <1>3 DEF LeftoversAreOld
  <2> QED BY <1>0, <1>1, <1>3, <2>1, EndsKeepInv DEF InFlight
<1>4. CASE EndUpdates({u}) /\ UNCHANGED <<containers, created, spoiled>> /\ Taken(target, updates[u].olds)
  <2>1. LeftoversAreOld'
    BY <1>1, <1>4 DEF LeftoversAreOld
  <2>2. PICK c \in ContainersOf(target) : containers[c].olds = updates[u].olds
    BY <1>4 DEF Taken, NameOf, ContainersOf
  <2>3. u \in InFlight("hub") => "hub" \in spoiled
    <3>1. ASSUME u \in InFlight("hub"), "hub" \notin spoiled PROVE FALSE
      <4>1. updates[u].olds = 0 /\ ContainersOf("hub") \subseteq {updates[u].of} /\ target = "hub"
            /\ (updates[u].of \in ContainersOf("hub") => containers[updates[u].of].olds = 1)
        BY <1>0, <1>1, <3>1 DEF HubIsKept, KeepsHub, InFlight
      <4> QED BY <2>2, <4>1
    <3> QED BY <3>1
  <2>4. u \in InFlight("agent") => "agent" \in spoiled \/ MainAgents # {}
    <3>1. ASSUME u \in InFlight("agent"), "agent" \notin spoiled PROVE MainAgents # {}
      <4>1. target = "agent" /\ KeepsAgent(u)
        BY <1>0, <3>1 DEF AgentIsKept, InFlight
      <4>2. \A d \in ContainersOf("agent") : containers[d].olds = 0 => containers[d].running
        BY <1>1, <3>1 DEF AgentIsKept, IsStarting
      <4>3. updates[u].olds = 0 => c \in MainAgents
        BY <2>2, <4>1, <4>2 DEF MainAgents, Running, ContainersOf
      <4> QED BY <1>1, <4>1, <4>3 DEF KeepsAgent
    <3> QED BY <3>1
  <2> QED BY <1>1, <1>4, <2>1, <2>3, <2>4, EndsKeepInv
<1>5. ASSUME ~Taken(target, updates[u].olds), created' = created + 1, UNCHANGED spoiled,
             containers' = With(containers, created',
                [role |-> target, olds |-> updates[u].olds, running |-> FALSE]),
             updates' = [updates EXCEPT ![u].next = "start", ![u].replacement = created']
      PROVE  UpdaterInv'
  <2>1. PICK n \in Nat : n = created + 1
    BY DEF UpdatesAreOfTargets
  <2> DEFINE new == [role |-> target, olds |-> updates[u].olds, running |-> FALSE]
  <2>2. n \notin DOMAIN containers /\ created' = n /\ created \in Nat
    BY <1>5, <2>1 DEF UpdatesAreOfTargets
  <2>3. /\ DOMAIN containers' = DOMAIN containers \cup {n} /\ containers'[n] = new
        /\ \A c \in DOMAIN containers : containers'[c] = containers[c]
    BY <1>5, <2>2 DEF With
  <2>4. new.role = target /\ new.olds = updates[u].olds /\ ~new.running /\ new \in DockerContainer
    BY <1>2 DEF DockerContainer
  <2> HIDE DEF new
  <2>5. /\ DOMAIN updates' = DOMAIN updates
        /\ \A v \in DOMAIN updates : v # u => updates'[v] = updates[v]
        /\ updates'[u] \in Update /\ updates'[u].next = "start" /\ updates'[u].replacement = n
        /\ updates'[u].by = updates[u].by /\ updates'[u].target = updates[u].target
        /\ updates'[u].of = updates[u].of /\ updates'[u].olds = updates[u].olds
    <3>1. /\ DOMAIN updates' = DOMAIN updates
          /\ \A v \in DOMAIN updates : v # u => updates'[v] = updates[v]
          /\ updates'[u] = [updates[u] EXCEPT !.next = "start", !.replacement = n]
      BY <1>5, <2>2
    <3> QED BY <1>2, <3>1 DEF Update
  <2>6. InFlight("hub")' = InFlight("hub") /\ InFlight("agent")' = InFlight("agent")
    BY <2>5 DEF InFlight
  <2>7. /\ ContainersOf(target)' = ContainersOf(target) \cup {n}
        /\ \A other \in Targets : other # target => ContainersOf(other)' = ContainersOf(other)
        /\ Running("hub")' = Running("hub") /\ Running("agent")' = Running("agent")
        /\ MainAgents' = MainAgents
    BY <2>2, <2>3, <2>4 DEF ContainersOf, Running, MainAgents
  <2>8. RolesStay /\ LeftoversAreOld'
    <3>1. /\ DOMAIN containers \subseteq 1 .. created /\ 1 .. created \subseteq 1 .. n /\ n \in 1 .. n
          /\ n \notin 1 .. created
      BY <2>1, <2>2 DEF UpdatesAreOfTargets
    <3>2. LeftoversAreOld'
      BY <1>1, <2>2, <2>3, <3>1 DEF LeftoversAreOld
    <3>3. RolesStay
      BY <2>1, <2>2, <2>3, <2>4, <3>1 DEF RolesStay, UpdatesAreOfTargets
    <3> QED BY <3>2, <3>3
  <2>9. UpdatesAreOfTargets'
    <3>1. IsOfTarget(u)'
      BY <1>0, <1>1, <1>2, <2>1, <2>2, <2>3, <2>4, <2>5 DEF IsOfTarget, UpdatesAreOfTargets
    <3>2. \A v \in DOMAIN updates : v # u => IsOfTarget(v)'
      BY <2>5, <2>8, TargetsStay
    <3> QED BY <1>1, <2>5, <2>8, <3>1, <3>2 DEF UpdatesAreOfTargets, RolesStay
  <2>10. CASE target = "hub"
    <3>1. AgentIsKept'
      BY <1>0, <1>1, <1>5, <2>3, <2>5, <2>6, <2>7, <2>10, AgentUntouched DEF InFlight, ContainersOf, Targets
    <3>2. HubsAreApart'
      <4>1. SUFFICES ASSUME ~twofold PROVE HubsAreApart'
        BY <1>1 DEF HubsAreApart
      <4>2. InFlight("hub") = {u} /\ IsApart(u)
        BY <1>2, <2>10, <4>1 DEF HubsAreApart
      <4>3. \A d \in ContainersOf("hub") \cup {n} : d <= n
        BY <2>1, <2>2 DEF ContainersOf, UpdatesAreOfTargets
      <4>4. IsApart(u)'
        BY <1>1, <2>5, <2>7, <2>10, <4>2, <4>3 DEF IsApart
      <4> QED BY <2>6, <4>2, <4>4 DEF HubsAreApart
    <3>3. HubIsKept'
      <4>1. SUFFICES ASSUME "hub" \notin spoiled PROVE HubIsKept'
        BY <1>5 DEF HubIsKept
      <4>2. InFlight("hub") = {u} /\ KeepsHub(u)
        BY <1>2, <2>10, <4>1 DEF HubIsKept
      <4>3. /\ updates[u].olds = 0 /\ ContainersOf("hub") \subseteq {updates[u].of}
            /\ (updates[u].of \in ContainersOf("hub") => containers[updates[u].of].olds = 1)
        BY <1>1, <4>2 DEF KeepsHub
      <4>4. updates[u].of # n
        BY <2>1 DEF UpdatesAreOfTargets, IsOfTarget
      <4>5. KeepsHub(u)'
        BY <2>3, <2>4, <2>5, <2>7, <2>10, <4>3, <4>4 DEF KeepsHub, ContainersOf
      <4> QED BY <2>6, <4>2, <4>5 DEF HubIsKept
    <3> QED BY <2>8, <2>9, <3>1, <3>2, <3>3
  <2>11. CASE target = "agent"
    <3>1. HubsAreApart' /\ HubIsKept'
      BY <1>0, <1>1, <1>5, <2>3, <2>5, <2>6, <2>7, <2>11, HubUntouched DEF InFlight, ContainersOf, Targets
    <3>2. AgentIsKept'
      <4>1. SUFFICES ASSUME "agent" \notin spoiled PROVE AgentIsKept'
        BY <1>5 DEF AgentIsKept
      <4>2. InFlight("agent") = {u} /\ KeepsAgent(u)
        BY <1>2, <2>11, <4>1 DEF AgentIsKept
      <4>3. MainAgents # {} \/ (updates[u].of \in Running("agent") /\ updates[u].olds = 0)
        BY <1>1, <4>2 DEF KeepsAgent
      <4>4. KeepsAgent(u)'
        BY <2>3, <2>4, <2>5, <2>7, <2>11, <4>3 DEF KeepsAgent
      <4>5. \A d \in ContainersOf("agent") : containers[d].olds = 0 => containers[d].running
        BY <1>1, <4>1, <4>2 DEF AgentIsKept, IsStarting
      <4>6. IsStarting(n)'
        BY <2>5, <2>6, <4>2 DEF IsStarting
      <4>7. \A d \in ContainersOf("agent") \cup {n} :
                containers'[d].olds = 0 => containers'[d].running \/ IsStarting(d)'
        BY <2>3, <4>5, <4>6 DEF ContainersOf
      <4> QED BY <2>6, <2>7, <2>11, <4>2, <4>4, <4>7 DEF AgentIsKept
    <3> QED BY <2>8, <2>9, <3>1, <3>2
  <2> QED BY <1>2, <2>10, <2>11 DEF Targets
<1> QED BY <1>0, <1>3, <1>4, <1>5 DEF Create

LEMMA StartKeepsInv ==
    ASSUME UpdaterInv, NEW u \in DOMAIN updates, Start(u)
    PROVE  UpdaterInv'
<1> USE DEF UpdaterInv
<1>0. PICK target \in Targets : target = updates[u].target
  BY DEF UpdatesAreOfTargets, IsOfTarget, Update
<1>1. /\ UNCHANGED <<created, requested, cleaning, twofold>> /\ updates[u].next = "start"
      /\ u \in InFlight(target)
  BY <1>0 DEF Start, Calls, InFlight
<1>2. PICK new \in 1 .. created :
        /\ new = updates[u].replacement
        /\ new \in DOMAIN containers => containers[new].role = target
  BY <1>0, <1>1 DEF UpdatesAreOfTargets, IsOfTarget
<1>3. CASE EndUpdates({u}) /\ UNCHANGED containers /\ spoiled' = spoiled \cup {target}
  <2>1. LeftoversAreOld'
    BY <1>1, <1>3 DEF LeftoversAreOld
  <2> QED BY <1>0, <1>1, <1>3, <2>1, EndsKeepInv DEF InFlight
<1>4. CASE EndUpdates({u}) /\ UNCHANGED <<containers, spoiled>> /\ new \notin DOMAIN containers
  <2>1. LeftoversAreOld'
    BY <1>1, <1>4 DEF LeftoversAreOld
  <2>2. u \in InFlight("hub") => "hub" \in spoiled
    BY <1>1, <1>2, <1>4 DEF HubIsKept, KeepsHub, ContainersOf
  <2>3. u \in InFlight("agent") => "agent" \in spoiled \/ MainAgents # {}
    BY <1>1, <1>2, <1>4 DEF AgentIsKept, KeepsAgent, ContainersOf
  <2> QED BY <1>1, <1>2, <1>4, <2>1, <2>2, <2>3, EndsKeepInv
<1>5. ASSUME new \in DOMAIN containers, UNCHANGED spoiled,
             containers' = [containers EXCEPT ![new].running = TRUE],
             IF target = "hub" THEN Goes(u, "remove") ELSE EndUpdates({u})
      PROVE  UpdaterInv'
  <2>1. /\ DOMAIN containers' = DOMAIN containers
        /\ \A c \in DOMAIN containers :
              /\ containers'[c] \in DockerContainer
              /\ containers'[c].role = containers[c].role /\ containers'[c].olds = containers[c].olds
              /\ c # new => containers'[c] = containers[c]
        /\ containers'[new].running
    <3>1. \A c \in DOMAIN containers : containers[c] \in DockerContainer
      BY DEF UpdatesAreOfTargets
    <3> QED BY <1>5, <3>1 DEF DockerContainer
  <2>2. /\ ContainersOf("hub")' = ContainersOf("hub") /\ ContainersOf("agent")' = ContainersOf("agent")
        /\ new \in ContainersOf(target)
        /\ Running(target)' = Running(target) \cup {new}
    BY <1>2, <1>5, <2>1 DEF ContainersOf, Running
  <2>3. RolesStay /\ LeftoversAreOld'
    BY <1>1, <2>1 DEF RolesStay, LeftoversAreOld, UpdatesAreOfTargets
  <2>4. CASE target = "hub"
    <3>1. /\ DOMAIN updates' = DOMAIN updates
          /\ \A v \in DOMAIN updates : v # u => updates'[v] = updates[v]
          /\ updates'[u] \in Update /\ updates'[u].next = "remove"
          /\ updates'[u].by = updates[u].by /\ updates'[u].target = updates[u].target
          /\ updates'[u].of = updates[u].of /\ updates'[u].olds = updates[u].olds
          /\ updates'[u].replacement = updates[u].replacement
          /\ InFlight("hub")' = InFlight("hub") /\ InFlight("agent")' = InFlight("agent")
      BY <1>5, <2>4, GoesOn DEF Targets
    <3>2. UpdatesAreOfTargets'
      <4>1. IsOfTarget(u)'
        <5>1. IsOfTarget(u) /\ updates'[u].target = "hub" /\ updates'[u].next = "remove"
          BY <1>0, <2>4, <3>1 DEF UpdatesAreOfTargets
        <5>2. updates'[u].replacement = new /\ containers'[new].role = "hub"
          BY <1>2, <1>5, <2>1, <2>4, <3>1
        <5> QED BY <1>1, <2>1, <3>1, <5>1, <5>2 DEF IsOfTarget
      <4>2. \A v \in DOMAIN updates : v # u => IsOfTarget(v)'
        BY <2>3, <3>1, TargetsStay
      <4> QED BY <1>1, <2>3, <3>1, <4>1, <4>2 DEF UpdatesAreOfTargets, RolesStay
    <3>3. AgentIsKept'
      BY <1>0, <1>1, <1>5, <2>1, <2>2, <2>4, <3>1, AgentUntouched DEF InFlight, ContainersOf
    <3>4. HubsAreApart'
      <4>1. SUFFICES ASSUME ~twofold PROVE HubsAreApart'
        BY <1>1 DEF HubsAreApart
      <4>2. InFlight("hub") = {u} /\ IsApart(u)
        BY <1>1, <2>4, <4>1 DEF HubsAreApart
      <4>3. Running("hub") = {} /\ \A d \in ContainersOf("hub") : d <= new
        BY <1>1, <1>2, <4>2 DEF IsApart
      <4>4. IsApart(u)'
        BY <1>2, <2>2, <2>4, <3>1, <4>3 DEF IsApart
      <4> QED BY <3>1, <4>2, <4>4 DEF HubsAreApart
    <3>5. HubIsKept'
      <4>1. SUFFICES ASSUME "hub" \notin spoiled PROVE HubIsKept'
        BY <1>5 DEF HubIsKept
      <4>2. InFlight("hub") = {u} /\ KeepsHub(u)
        BY <1>1, <2>4, <4>1 DEF HubIsKept
      <4>3. KeepsHub(u)'
        BY <1>1, <1>2, <2>1, <2>2, <3>1, <4>2 DEF KeepsHub, ContainersOf
      <4> QED BY <3>1, <4>2, <4>3 DEF HubIsKept
    <3> QED BY <2>3, <3>2, <3>3, <3>4, <3>5
  <2>5. CASE target = "agent"
    <3>1. /\ DOMAIN updates' = DOMAIN updates \ {u}
          /\ \A v \in DOMAIN updates' : updates'[v] = updates[v]
          /\ InFlight("hub")' = InFlight("hub") \ {u} /\ InFlight("agent")' = InFlight("agent") \ {u}
      BY <1>5, <2>5, Ends DEF Targets
    <3>2. UpdatesAreOfTargets'
      BY <1>1, <2>3, <3>1, TargetsStay DEF UpdatesAreOfTargets, RolesStay
    <3>3. HubsAreApart' /\ HubIsKept'
      <4>1. u \notin InFlight("hub") /\ InFlight("hub") \subseteq DOMAIN updates'
        BY <1>0, <2>5, <3>1 DEF InFlight
      <4> QED BY <1>1, <1>5, <2>1, <2>2, <2>5, <3>1, <4>1, HubUntouched DEF ContainersOf
    <3>4. AgentIsKept'
      <4>1. SUFFICES ASSUME "agent" \notin spoiled PROVE AgentIsKept'
        BY <1>5 DEF AgentIsKept
      <4>2. InFlight("agent") = {u} /\ KeepsAgent(u) /\ InFlight("agent")' = {}
        BY <1>1, <2>5, <3>1, <4>1 DEF AgentIsKept
      <4>3. MainAgents' # {}
        <5>1. MainAgents \subseteq MainAgents'
          BY <2>1, <2>2, <2>5 DEF MainAgents, Running
        <5>2. containers[new].olds = 0 => new \in MainAgents'
          BY <1>5, <2>1, <2>2, <2>5 DEF MainAgents
        <5> QED BY <1>1, <1>2, <4>2, <5>1, <5>2 DEF KeepsAgent
      <4>4. \A d \in ContainersOf("agent") : containers'[d].olds = 0 => containers'[d].running
        BY <1>2, <2>1, <4>1, <4>2 DEF AgentIsKept, IsStarting, ContainersOf
      <4> QED BY <2>2, <4>2, <4>3, <4>4 DEF AgentIsKept
    <3> QED BY <2>3, <3>2, <3>3, <3>4
  <2> QED BY <2>4, <2>5 DEF Targets
<1> QED BY <1>0, <1>2, <1>3, <1>4, <1>5 DEF Start

LEMMA RemoveHubKeepsInv ==
    ASSUME UpdaterInv, NEW u \in DOMAIN updates, RemoveHub(u)
    PROVE  UpdaterInv'
<1> USE DEF UpdaterInv
<1> DEFINE of == updates[u].of
<1>1. /\ UNCHANGED <<created, requested, booting, cleaning, twofold>>
      /\ updates[u].next = "remove" /\ EndUpdates({u})
  BY DEF RemoveHub, Calls
<1>2. /\ updates[u].target = "hub" /\ u \in InFlight("hub") /\ u \notin InFlight("agent")
      /\ of \in DOMAIN containers => of \in ContainersOf("hub")
  BY <1>1 DEF UpdatesAreOfTargets, IsOfTarget, Update, Targets, InFlight, ContainersOf
<1>3. CASE UNCHANGED containers /\ spoiled' = spoiled \cup {"hub"}
  <2>1. LeftoversAreOld'
    BY <1>1, <1>3 DEF LeftoversAreOld
  <2> QED BY <1>1, <1>2, <1>3, <2>1, EndsKeepInv
<1>4. CASE containers' = Without({of}) /\ UNCHANGED spoiled
  <2>1. /\ DOMAIN containers' = DOMAIN containers \ {of}
        /\ \A c \in DOMAIN containers' : containers'[c] = containers[c]
    BY <1>4 DEF Without
  <2>2. /\ DOMAIN updates' = DOMAIN updates \ {u}
        /\ \A v \in DOMAIN updates' : updates'[v] = updates[v]
        /\ InFlight("hub")' = InFlight("hub") \ {u} /\ InFlight("agent")' = InFlight("agent") \ {u}
    BY <1>1, Ends DEF Targets
  <2>3. /\ ContainersOf("hub")' = ContainersOf("hub") \ {of} /\ Running("hub")' = Running("hub") \ {of}
        /\ ContainersOf("agent")' = ContainersOf("agent")
    BY <1>2, <2>1 DEF ContainersOf, Running
  <2>4. RolesStay /\ LeftoversAreOld'
    BY <1>1, <2>1 DEF RolesStay, LeftoversAreOld, UpdatesAreOfTargets
  <2>5. UpdatesAreOfTargets'
    BY <1>1, <2>2, <2>4, TargetsStay DEF UpdatesAreOfTargets, RolesStay
  <2>6. AgentIsKept'
    <3>1. InFlight("agent") \subseteq DOMAIN updates' /\ ContainersOf("agent") \subseteq DOMAIN containers'
      BY <1>2, <2>1, <2>2, <2>3 DEF InFlight, ContainersOf
    <3> QED BY <1>1, <1>2, <1>4, <2>1, <2>2, <2>3, <3>1, AgentUntouched
  <2>7. HubsAreApart'
    <3>1. SUFFICES ASSUME ~twofold PROVE HubsAreApart'
      BY <1>1 DEF HubsAreApart
    <3>2. InFlight("hub") = {u} /\ IsApart(u)
      BY <1>2, <3>1 DEF HubsAreApart
    <3>3. \A c \in Running("hub"), d \in ContainersOf("hub") : d <= c
      BY <1>1, <3>2 DEF IsApart
    <3> QED BY <2>2, <2>3, <3>2, <3>3 DEF HubsAreApart
  <2>8. HubIsKept'
    <3>1. SUFFICES ASSUME "hub" \notin spoiled PROVE HubIsKept'
      BY <1>4 DEF HubIsKept
    <3>2. InFlight("hub") = {u} /\ KeepsHub(u)
      BY <1>2, <3>1 DEF HubIsKept
    <3> DEFINE new == updates[u].replacement
    <3>3. /\ ContainersOf("hub") \subseteq {of, new} /\ new \in ContainersOf("hub")
          /\ containers[new].olds = 0 /\ containers[new].running
          /\ of \in ContainersOf("hub") => containers[of].olds = 1
      BY <1>1, <3>2 DEF KeepsHub
    <3>4. new # of
      BY <3>3
    <3>5. PICK m : m = new
      OBVIOUS
    <3>6. ContainersOf("hub")' = {m} /\ m \in Running("hub")' /\ containers'[m].olds = 0
      BY <2>1, <2>3, <3>3, <3>4, <3>5 DEF ContainersOf, Running
    <3>7. OneHub'
      BY <3>6 DEF OneHub
    <3> QED BY <2>2, <3>2, <3>7 DEF HubIsKept
  <2> QED BY <2>4, <2>5, <2>6, <2>7, <2>8
<1> QED BY <1>3, <1>4 DEF RemoveHub

LEMMA BootKeepsInv ==
    ASSUME UpdaterInv, NEW a \in DOMAIN containers, Boot(a) \/ CleanedUp(a)
    PROVE  UpdaterInv'
<1> USE DEF UpdaterInv
<1>1. UNCHANGED <<containers, created, updates, requested, spoiled, twofold>>
  BY DEF Boot, CleanedUp
<1>2. LeftoversAreOld'
  <2>1. CASE Boot(a)
    <3>1. \A c \in DOMAIN containers : c \in 1 .. created
      BY DEF UpdatesAreOfTargets
    <3>2. /\ DOMAIN cleaning' = DOMAIN cleaning \cup {a}
          /\ cleaning'[a] = {c \in DOMAIN containers : containers[c].olds > 0}
          /\ \A b \in DOMAIN cleaning : b # a => cleaning'[b] = cleaning[b]
      BY <2>1 DEF Boot, With, IsLeftover
    <3> QED BY <1>1, <3>1, <3>2 DEF LeftoversAreOld
  <2>2. CASE CleanedUp(a)
    <3>1. /\ DOMAIN cleaning' = DOMAIN cleaning \ {a}
          /\ \A b \in DOMAIN cleaning' : cleaning'[b] = cleaning[b]
      BY <2>2 DEF CleanedUp
    <3> QED BY <1>1, <3>1 DEF LeftoversAreOld
  <2> QED BY <2>1, <2>2
<1>3. /\ ContainersOf("hub")' = ContainersOf("hub") /\ ContainersOf("agent")' = ContainersOf("agent")
      /\ InFlight("hub")' = InFlight("hub") /\ InFlight("agent")' = InFlight("agent")
  BY <1>1 DEF ContainersOf, InFlight
<1>4. UpdatesAreOfTargets'
  BY <1>1 DEF UpdatesAreOfTargets, IsOfTarget
<1>5. HubsAreApart' /\ HubIsKept'
  BY <1>1, <1>3, HubUntouched
<1>6. AgentIsKept'
  BY <1>1, <1>3, AgentUntouched
<1> QED BY <1>2, <1>4, <1>5, <1>6

\* What an agent that goes leaves undone is recorded, if it had begun to replace something.
LEMMA CutOffHas ==
    ASSUME UpdaterInv, NEW a, NEW u \in DOMAIN updates, updates[u].by = a
    PROVE  /\ u \in InFlight("hub") /\ "hub" \notin CutOff(a) => updates[u].next \in {"pull", "stop"}
           /\ u \in InFlight("agent") /\ "agent" \notin CutOff(a) => updates[u].next \in {"pull", "rename"}
<1>1. /\ updates[u].next \in {"pull", "stop", "rename", "create", "start", "remove"}
      /\ updates[u].target = "agent" => updates[u].next \notin {"stop", "remove"}
  BY DEF UpdaterInv, UpdatesAreOfTargets, IsOfTarget, Update
<1>2. CASE u \in InFlight("hub")
  <2>1. updates[u].next \in {"rename", "create", "start", "remove"} => "hub" \in CutOff(a)
    BY <1>2 DEF CutOff, InFlight
  <2> QED BY <1>1, <1>2, <2>1 DEF InFlight
<1>3. CASE u \in InFlight("agent")
  <2>1. updates[u].next \in {"create", "start"} => "agent" \in CutOff(a)
    BY <1>3 DEF CutOff, InFlight
  <2> QED BY <1>1, <1>3, <2>1 DEF InFlight
<1> QED BY <1>2, <1>3

LEMMA RestartKeepsInv ==
    ASSUME UpdaterInv, NEW a \in DOMAIN containers, RestartAgent(a)
    PROVE  UpdaterInv'
<1> USE DEF UpdaterInv
<1> DEFINE U == {u \in DOMAIN updates : updates[u].by = a}
<1>1. /\ EndUpdates(U) /\ spoiled' = spoiled \cup CutOff(a)
      /\ UNCHANGED <<containers, created, requested, twofold>>
      /\ cleaning' = [b \in DOMAIN cleaning \ {a} |-> cleaning[b]]
  BY DEF RestartAgent
<1>2. LeftoversAreOld'
  BY <1>1 DEF LeftoversAreOld
<1>3. ASSUME NEW u \in U \cap InFlight("hub") PROVE "hub" \in spoiled' \/ OneHub
  <2>1. ASSUME "hub" \notin spoiled' PROVE OneHub
    <3>1. updates[u].next \in {"pull", "stop"} /\ KeepsHub(u)
      BY <1>1, <2>1, CutOffHas DEF HubIsKept
    <3> QED BY <3>1 DEF KeepsHub, OneHub, ContainersOf, Running
  <2> QED BY <2>1
<1>4. ASSUME NEW u \in U \cap InFlight("agent")
      PROVE  "agent" \in spoiled' \/ (MainAgents # {} /\ updates[u].next # "start")
  <2>1. ASSUME "agent" \notin spoiled' PROVE MainAgents # {} /\ updates[u].next # "start"
    <3>1. updates[u].next \in {"pull", "rename"} /\ KeepsAgent(u)
      BY <1>1, <2>1, CutOffHas DEF AgentIsKept
    <3> QED BY <3>1 DEF KeepsAgent
  <2> QED BY <2>1
<1> HIDE DEF U
<1> QED BY <1>1, <1>2, <1>3, <1>4, EndsKeepInv

LEMMA RemoveLeftoverKeepsInv ==
    ASSUME UpdaterInv, NEW a \in DOMAIN containers, NEW c \in 1 .. created, RemoveLeftover(a, c)
    PROVE  UpdaterInv'
<1> USE DEF UpdaterInv
<1> DEFINE U == {u \in DOMAIN updates : updates[u].by = c}
<1>1. /\ a \in DOMAIN cleaning /\ c \in cleaning[a] /\ UNCHANGED <<created, requested, twofold>>
      /\ c \in DOMAIN containers => containers[c].olds > 0
  BY DEF RemoveLeftover, LeftoversAreOld
<1>2. CASE cleaning' = [cleaning EXCEPT ![a] = @ \ {c}] /\ UNCHANGED <<containers, updates, booting, spoiled>>
  <2>1. LeftoversAreOld'
    <3>1. /\ DOMAIN cleaning' = DOMAIN cleaning
          /\ \A b \in DOMAIN cleaning : cleaning'[b] \subseteq cleaning[b]
      BY <1>1, <1>2
    <3> QED BY <1>1, <1>2, <3>1 DEF LeftoversAreOld
  <2>2. /\ ContainersOf("hub")' = ContainersOf("hub") /\ ContainersOf("agent")' = ContainersOf("agent")
        /\ InFlight("hub")' = InFlight("hub") /\ InFlight("agent")' = InFlight("agent")
    BY <1>2 DEF ContainersOf, InFlight
  <2>3. UpdatesAreOfTargets'
    BY <1>1, <1>2 DEF UpdatesAreOfTargets, IsOfTarget
  <2>4. HubsAreApart' /\ HubIsKept'
    BY <1>1, <1>2, <2>2, HubUntouched
  <2>5. AgentIsKept'
    BY <1>1, <1>2, <2>2, AgentUntouched
  <2> QED BY <2>1, <2>3, <2>4, <2>5
<1>3. ASSUME containers' = Without({c}), EndUpdates(U), spoiled' = spoiled \cup CutOff(c),
             cleaning' = [b \in DOMAIN cleaning \ {c} |->
                IF b = a THEN cleaning[a] \ {c} ELSE cleaning[b]]
      PROVE  UpdaterInv'
  <2>1. /\ DOMAIN containers' = DOMAIN containers \ {c}
        /\ \A d \in DOMAIN containers' : containers'[d] = containers[d]
    BY <1>3 DEF Without
  <2>2. /\ DOMAIN updates' = DOMAIN updates \ U
        /\ \A v \in DOMAIN updates' : updates'[v] = updates[v]
        /\ InFlight("hub")' = InFlight("hub") \ U /\ InFlight("agent")' = InFlight("agent") \ U
    BY <1>3, Ends DEF Targets
  <2>3. /\ ContainersOf("hub")' = ContainersOf("hub") \ {c} /\ Running("hub")' = Running("hub") \ {c}
        /\ ContainersOf("agent")' = ContainersOf("agent") \ {c} /\ Running("agent")' = Running("agent") \ {c}
        /\ MainAgents' = MainAgents
    BY <1>1, <2>1 DEF ContainersOf, Running, MainAgents
  <2>4. RolesStay /\ LeftoversAreOld'
    <3>1. RolesStay
      BY <1>1, <2>1 DEF RolesStay, UpdatesAreOfTargets
    <3>2. /\ DOMAIN cleaning' \subseteq DOMAIN cleaning
          /\ \A b \in DOMAIN cleaning' : cleaning'[b] \subseteq cleaning[b]
      BY <1>3
    <3> QED BY <1>1, <2>1, <3>1, <3>2 DEF LeftoversAreOld
  <2>5. UpdatesAreOfTargets'
    BY <1>1, <2>2, <2>4, TargetsStay DEF UpdatesAreOfTargets, RolesStay
  <2>6. HubsAreApart'
    <3>1. SUFFICES ASSUME ~twofold PROVE HubsAreApart'
      BY <1>1 DEF HubsAreApart
    <3>2. ASSUME NEW u \in InFlight("hub")
          PROVE  \A r \in Running("hub"), d \in ContainersOf("hub") : d <= r
      <4>1. IsApart(u) /\ updates[u].next \in {"pull", "stop", "rename", "create", "start", "remove"}
        BY <3>1, <3>2 DEF HubsAreApart, UpdatesAreOfTargets, IsOfTarget, Update, InFlight
      <4> QED BY <4>1 DEF IsApart
    <3>3. \A v \in InFlight("hub")' : v \in InFlight("hub") /\ IsApart(v) /\ updates'[v] = updates[v]
      BY <2>2, <3>1 DEF HubsAreApart, InFlight
    <3>4. \A v \in InFlight("hub")' : IsApart(v)'
      BY <2>3, <3>3 DEF IsApart
    <3> QED BY <2>2, <2>3, <3>1, <3>2, <3>4 DEF HubsAreApart
  <2>7. HubIsKept'
    <3>1. SUFFICES ASSUME "hub" \notin spoiled' PROVE HubIsKept'
      BY DEF HubIsKept
    <3>2. "hub" \notin spoiled /\ "hub" \notin CutOff(c)
      BY <1>3, <3>1
    <3>3. ASSUME InFlight("hub")' = {} PROVE OneHub'
      <4>1. OneHub
        <5>1. ASSUME NEW u \in InFlight("hub") PROVE OneHub
          <6>1. u \in U
            BY <2>2, <3>3, <5>1
          <6>2. updates[u].next \in {"pull", "stop"} /\ KeepsHub(u)
            BY <3>2, <5>1, <6>1, CutOffHas DEF HubIsKept
          <6> QED BY <6>2 DEF KeepsHub, OneHub, ContainersOf, Running
        <5> QED BY <3>2, <5>1 DEF HubIsKept
      <4>2. PICK m \in Running("hub") : containers[m].olds = 0 /\ ContainersOf("hub") = {m}
        BY <4>1 DEF OneHub
      <4>3. m # c
        BY <1>1, <4>2 DEF Running
      <4> QED BY <2>1, <2>3, <4>2, <4>3 DEF OneHub, Running
    <3>4. ASSUME NEW u \in InFlight("hub")' PROVE KeepsHub(u)'
      <4>1. u \in InFlight("hub") /\ updates'[u] = updates[u] /\ KeepsHub(u)
        BY <2>2, <3>2, <3>4 DEF HubIsKept, InFlight
      <4>2. \A d \in ContainersOf("hub") : containers[d].olds = 0 => d # c
        BY <1>1 DEF ContainersOf
      <4>3. \A d \in ContainersOf("hub")' : containers'[d] = containers[d]
        BY <2>1 DEF ContainersOf
      <4>4. CASE updates[u].next \in {"pull", "stop", "rename"}
        <5>1. ContainersOf("hub")' = ContainersOf("hub") /\ updates[u].of \in ContainersOf("hub")'
          BY <2>3, <4>1, <4>2, <4>4 DEF KeepsHub
        <5> QED BY <4>1, <4>3, <4>4, <5>1 DEF KeepsHub
      <4>5. CASE updates[u].next = "create"
        BY <2>3, <4>1, <4>3, <4>5 DEF KeepsHub
      <4>6. CASE updates[u].next \in {"start", "remove"}
        <5>1. updates[u].replacement \in ContainersOf("hub")'
          BY <2>3, <4>1, <4>2, <4>6 DEF KeepsHub
        <5> QED BY <2>3, <4>1, <4>3, <4>6, <5>1 DEF KeepsHub
      <4> QED BY <4>1, <4>4, <4>5, <4>6 DEF UpdatesAreOfTargets, IsOfTarget, Update, InFlight
    <3> QED BY <2>2, <3>2, <3>3, <3>4 DEF HubIsKept
  <2>8. AgentIsKept'
    <3>1. SUFFICES ASSUME "agent" \notin spoiled' PROVE AgentIsKept'
      BY DEF AgentIsKept
    <3>2. "agent" \notin spoiled /\ "agent" \notin CutOff(c)
      BY <1>3, <3>1
    <3>3. \A u \in InFlight("agent") \cap U : updates[u].next \in {"pull", "rename"} /\ MainAgents # {}
      BY <3>2, CutOffHas DEF AgentIsKept, KeepsAgent
    <3>4. ASSUME NEW u \in InFlight("agent")' PROVE KeepsAgent(u)'
      <4>1. u \in InFlight("agent") /\ u \notin U /\ updates'[u] = updates[u] /\ KeepsAgent(u)
        BY <2>2, <3>2, <3>4 DEF AgentIsKept, InFlight
      <4>2. updates[u].of # c
        BY <4>1 DEF InFlight, UpdatesAreOfTargets, IsOfTarget
      <4>3. \A d \in ContainersOf("agent") : containers[d].olds = 0 => d # c
        BY <1>1 DEF ContainersOf
      <4>4. \A d \in ContainersOf("agent")' : containers'[d] = containers[d]
        BY <2>1 DEF ContainersOf
      <4>5. updates[u].of \in Running("agent") => updates[u].of \in ContainersOf("agent")'
        BY <2>3, <4>2 DEF Running, ContainersOf
      <4> QED BY <2>3, <4>1, <4>2, <4>3, <4>4, <4>5 DEF KeepsAgent
    <3>5. \A d : IsStarting(d) => IsStarting(d)'
      <4>1. \A u \in InFlight("agent") : updates[u].next = "start" =>
                u \in InFlight("agent")' /\ updates'[u] = updates[u]
        BY <2>2, <3>3 DEF InFlight
      <4> QED BY <4>1 DEF IsStarting
    <3>6. \A d \in ContainersOf("agent")' :
            containers'[d].olds = 0 => containers'[d].running \/ IsStarting(d)'
      BY <2>1, <2>3, <3>2, <3>5 DEF AgentIsKept, ContainersOf
    <3>7. InFlight("agent")' = {} => MainAgents' # {}
      BY <2>2, <2>3, <3>2, <3>3 DEF AgentIsKept
    <3> QED BY <2>2, <3>2, <3>4, <3>6, <3>7 DEF AgentIsKept
  <2> QED BY <2>4, <2>5, <2>6, <2>7, <2>8
<1> QED BY <1>2, <1>3 DEF RemoveLeftover

LEMMA UpdaterInvNext == UpdaterInv /\ [UpdaterNext]_updaterVars => UpdaterInv'
<1> SUFFICES ASSUME UpdaterInv, [UpdaterNext]_updaterVars PROVE UpdaterInv'
  OBVIOUS
<1>1. CASE UNCHANGED updaterVars
  <2>1. UNCHANGED <<containers, created, updates, requested, cleaning, spoiled, twofold>>
    BY <1>1 DEF updaterVars
  <2>2. LeftoversAreOld' /\ UpdatesAreOfTargets'
    BY <2>1 DEF UpdaterInv, LeftoversAreOld, UpdatesAreOfTargets, IsOfTarget
  <2>3. /\ ContainersOf("hub")' = ContainersOf("hub") /\ ContainersOf("agent")' = ContainersOf("agent")
        /\ InFlight("hub")' = InFlight("hub") /\ InFlight("agent")' = InFlight("agent")
    BY <2>1 DEF ContainersOf, InFlight
  <2> QED BY <2>1, <2>2, <2>3, HubUntouched, AgentUntouched DEF UpdaterInv
<1> QED BY <1>1, BeginKeepsInv, BootKeepsInv, RestartKeepsInv, RemoveLeftoverKeepsInv, PullKeepsInv,
        StopKeepsInv, RenameKeepsInv, CreateKeepsInv, StartKeepsInv, RemoveHubKeepsInv DEF UpdaterNext

LEMMA UpdaterInvLeavesOne == UpdaterInv => UpdatesLeaveOne
<1> SUFFICES ASSUME UpdaterInv PROVE UpdatesLeaveOne
  OBVIOUS
<1> USE DEF UpdaterInv
<1>1. ASSUME "agent" \notin spoiled PROVE Running("agent") # {}
  <2>1. \A u \in InFlight("agent") : updates[u].next \in {"pull", "rename", "create", "start"}
    BY DEF UpdatesAreOfTargets, IsOfTarget, Update, InFlight
  <2> QED BY <1>1, <2>1 DEF AgentIsKept, KeepsAgent, MainAgents
<1>2. ASSUME "hub" \notin spoiled, InFlight("hub") = {} PROVE \E c \in Running("hub") : containers[c].olds = 0
  BY <1>2 DEF HubIsKept, OneHub
<1>3. ASSUME ~twofold PROVE Cardinality(Running("hub")) <= 1
  <2>1. \A r, d \in Running("hub") : r = d
    <3>1. Running("hub") \subseteq ContainersOf("hub") /\ ContainersOf("hub") \subseteq Nat
      BY DEF Running, ContainersOf, UpdatesAreOfTargets
    <3>2. CASE InFlight("hub") = {}
      <4>1. \A r, d \in Running("hub") : d <= r
        BY <1>3, <3>1, <3>2 DEF HubsAreApart
      <4> QED BY <3>1, <4>1
    <3>3. CASE InFlight("hub") # {}
      <4>1. PICK u \in InFlight("hub") : IsApart(u)
        BY <1>3, <3>3 DEF HubsAreApart
      <4>2. updates[u].next \in {"pull", "stop", "rename", "create", "start", "remove"}
        BY DEF UpdatesAreOfTargets, IsOfTarget, Update, InFlight
      <4> QED BY <4>1, <4>2 DEF IsApart
    <3> QED BY <3>2, <3>3
  <2>2. CASE Running("hub") = {}
    <3>1. Cardinality({}) = 0
      BY FS_EmptySet
    <3> QED BY <2>2, <3>1
  <2>3. CASE Running("hub") # {}
    <3>1. PICK r : Running("hub") = {r}
      BY <2>1, <2>3
    <3>2. Cardinality({r}) = 1
      BY FS_Singleton
    <3> QED BY <3>1, <3>2
  <2> QED BY <2>2, <2>3
<1> QED BY <1>1, <1>2, <1>3 DEF UpdatesLeaveOne

\* UpdatesLeaveOne holds for any number of containers, updates, failed calls and restarts: whatever
\* order the calls of performUpdate and cleanupOldContainers (agent/updater.ts) come in, an agent
\* and a hub are left running but for the cases that it names, and never two hubs.
THEOREM OneIsLeft == UpdaterSpec => []UpdatesLeaveOne
<1>1. UpdaterInit => UpdaterInv
  BY UpdaterInvInit
<1>2. UpdaterInv /\ [UpdaterNext]_updaterVars => UpdaterInv'
  BY UpdaterInvNext
<1>3. UpdaterInv => UpdatesLeaveOne
  BY UpdaterInvLeavesOne
<1> QED BY <1>1, <1>2, <1>3, PTL DEF UpdaterSpec

(***************************************************************************)
(* Types of the updates.  What acts is an agent that is there, and no two  *)
(* containers have the same name.                                          *)
(***************************************************************************)

NamesAreUnique == \A c, d \in DOMAIN containers : NameOf(c) = NameOf(d) => c = d

AgentsAct ==
    /\ \A u \in DOMAIN updates : updates[u].by \in ContainersOf("agent")
    /\ booting \cup DOMAIN cleaning \subseteq ContainersOf("agent")

MishapsAreCounted == mishaps \in Nat /\ spoiled \subseteq Targets /\ twofold \in BOOLEAN

UpdaterTypes == UpdaterInv /\ NamesAreUnique /\ AgentsAct /\ MishapsAreCounted

LEMMA UpdaterTypesHold == UpdaterTypes => UpdaterTypeOK
<1> SUFFICES ASSUME UpdaterTypes PROVE UpdaterTypeOK
  OBVIOUS
<1>1. /\ created \in Nat /\ requested \in Nat /\ DOMAIN containers \subseteq 1 .. created
      /\ \A c \in DOMAIN containers : containers[c] \in DockerContainer
      /\ \A u \in DOMAIN updates : IsOfTarget(u)
  BY DEF UpdaterTypes, UpdaterInv, UpdatesAreOfTargets
<1>2. \A u \in DOMAIN updates :
        /\ updates[u] \in Update /\ updates[u].by \in DOMAIN containers
        /\ updates[u].of \in DOMAIN containers => containers[updates[u].of].role = updates[u].target
  BY <1>1 DEF IsOfTarget, UpdaterTypes, AgentsAct, ContainersOf
<1>3. \A a \in DOMAIN cleaning : cleaning[a] \subseteq 1 .. created
  BY DEF UpdaterTypes, UpdaterInv, LeftoversAreOld
<1>4. booting \cup DOMAIN cleaning \subseteq {c \in DOMAIN containers : containers[c].role = "agent"}
  BY DEF UpdaterTypes, AgentsAct, ContainersOf
<1> QED BY <1>1, <1>2, <1>3, <1>4 DEF UpdaterTypes, UpdaterTypeOK, NamesAreUnique, MishapsAreCounted

LEMMA UpdaterTypesInit == UpdaterInit => UpdaterTypes
<1> SUFFICES ASSUME UpdaterInit PROVE UpdaterTypes
  OBVIOUS
<1>1. /\ DOMAIN containers = {1, 2} /\ DOMAIN updates = {} /\ DOMAIN cleaning = {} /\ booting = {}
      /\ containers[1].role = "hub" /\ containers[2].role = "agent"
  BY DEF UpdaterInit
<1>2. NamesAreUnique
  BY <1>1 DEF NamesAreUnique, NameOf
<1> QED BY <1>1, <1>2, UpdaterInvInit DEF UpdaterInit, UpdaterTypes, AgentsAct, MishapsAreCounted

\* Names and roles stay, and some containers go.
LEMMA NamesStay ==
    ASSUME NamesAreUnique, DOMAIN containers' \subseteq DOMAIN containers,
           \A c \in DOMAIN containers' :
                containers'[c].role = containers[c].role /\ containers'[c].olds = containers[c].olds
    PROVE  NamesAreUnique'
BY DEF NamesAreUnique, NameOf

\* One container gets a name that none has.
LEMMA NameIsNew ==
    ASSUME NamesAreUnique, NEW x, NEW role, NEW olds, ~Taken(role, olds),
           DOMAIN containers' \subseteq DOMAIN containers \cup {x},
           \A c \in DOMAIN containers' \ {x} : containers'[c] = containers[c],
           containers'[x].role = role /\ containers'[x].olds = olds
    PROVE  NamesAreUnique'
<1>1. \A c \in DOMAIN containers' \ {x} : NameOf(c)' = NameOf(c) /\ NameOf(c) # <<role, olds>>
  BY DEF NameOf, Taken
<1>2. NameOf(x)' = <<role, olds>>
  BY DEF NameOf
<1>3. SUFFICES ASSUME NEW c \in DOMAIN containers', NEW d \in DOMAIN containers',
                      NameOf(c)' = NameOf(d)'
               PROVE  c = d
  BY DEF NamesAreUnique
<1>4. CASE c # x /\ d # x
  BY <1>1, <1>3, <1>4 DEF NamesAreUnique
<1>5. CASE c = x \/ d = x
  BY <1>1, <1>2, <1>3, <1>5
<1> QED BY <1>4, <1>5

\* Updates that end or go on, of the same agents, all of which stay.
LEMMA AgentsStay ==
    ASSUME AgentsAct, ContainersOf("agent") \subseteq ContainersOf("agent")',
           DOMAIN updates' \subseteq DOMAIN updates,
           \A u \in DOMAIN updates' : updates'[u].by = updates[u].by,
           booting' \subseteq ContainersOf("agent")', DOMAIN cleaning' \subseteq ContainersOf("agent")'
    PROVE  AgentsAct'
BY DEF AgentsAct

LEMMA GoingOnKeepsAgents ==
    ASSUME UpdaterTypes, NEW u \in DOMAIN updates,
           NEW call \in {"pull", "stop", "rename", "create", "start", "remove"},
           Goes(u, call) \/ EndUpdates({u})
    PROVE  /\ DOMAIN updates' \subseteq DOMAIN updates
           /\ \A v \in DOMAIN updates' : updates'[v].by = updates[v].by
<1>1. CASE Goes(u, call)
  BY <1>1, GoesOn DEF UpdaterTypes
<1>2. CASE EndUpdates({u})
  BY <1>2, Ends
<1> QED BY <1>1, <1>2

LEMMA MishapsAreTyped ==
    ASSUME MishapsAreCounted, Mishap \/ UNCHANGED mishaps, spoiled' \subseteq Targets, twofold' \in BOOLEAN
    PROVE  MishapsAreCounted'
BY DEF MishapsAreCounted, Mishap

\* What an update does, but for the creation.
LEMMA CallsAreTyped ==
    ASSUME UpdaterTypes, NEW u \in DOMAIN updates,
           Pull(u) \/ Stop(u) \/ Rename(u) \/ Start(u) \/ RemoveHub(u)
    PROVE  NamesAreUnique' /\ AgentsAct' /\ MishapsAreCounted'
<1> DEFINE up == updates[u]
<1>1. /\ up \in Update /\ up.target \in Targets /\ up.olds \in Nat /\ NamesAreUnique /\ AgentsAct /\ MishapsAreCounted
      /\ up.of \in DOMAIN containers => containers[up.of].role = up.target
      /\ up.target = "agent" => up.next # "remove"
      /\ up.replacement \in DOMAIN containers /\ up.next = "start" => containers[up.replacement].role = up.target
      /\ \A c \in DOMAIN containers : containers[c] \in DockerContainer
  BY DEF UpdaterTypes, UpdaterInv, UpdatesAreOfTargets, IsOfTarget, Update
<1> HIDE DEF up
<1>2. CASE Pull(u)
  <2>1. PICK call \in {"stop", "rename"} : Goes(u, call) \/ EndUpdates({u})
    BY <1>2 DEF Pull
  <2>2. UNCHANGED <<containers, booting, cleaning, spoiled, twofold>> /\ (Mishap \/ UNCHANGED mishaps)
    BY <1>2 DEF Pull
  <2>3. MishapsAreCounted'
    BY <1>1, <2>2, MishapsAreTyped DEF MishapsAreCounted
  <2>4. AgentsAct'
    <3>1. /\ DOMAIN updates' \subseteq DOMAIN updates
          /\ \A v \in DOMAIN updates' : updates'[v].by = updates[v].by
      BY <2>1, GoingOnKeepsAgents
    <3>2. /\ ContainersOf("agent") \subseteq ContainersOf("agent")'
          /\ booting' \subseteq ContainersOf("agent")' /\ DOMAIN cleaning' \subseteq ContainersOf("agent")'
      BY <1>1, <2>1, <2>2 DEF AgentsAct, ContainersOf
    <3> QED BY <1>1, <3>1, <3>2, AgentsStay
  <2> QED BY <1>1, <2>2, <2>3, <2>4 DEF NamesAreUnique, NameOf
<1>3. CASE Stop(u)
  <2>1. /\ Goes(u, "rename") /\ UNCHANGED <<booting, cleaning, spoiled>> /\ (Mishap \/ UNCHANGED mishaps)
        /\ twofold' \in {twofold, TRUE}
        /\ \/ UNCHANGED containers
           \/ up.of \in DOMAIN containers /\ containers' = [containers EXCEPT ![up.of].running = FALSE]
    BY <1>3 DEF Stop, Exists, up
  <2>2. DOMAIN containers' = DOMAIN containers
        /\ \A c \in DOMAIN containers' :
            containers'[c].role = containers[c].role /\ containers'[c].olds = containers[c].olds
    BY <1>1, <2>1 DEF DockerContainer
  <2>3. MishapsAreCounted'
    BY <1>1, <2>1, MishapsAreTyped DEF MishapsAreCounted
  <2>4. ContainersOf("agent")' = ContainersOf("agent")
    BY <2>2 DEF ContainersOf
  <2>5. AgentsAct'
    <3>1. /\ DOMAIN updates' \subseteq DOMAIN updates
          /\ \A v \in DOMAIN updates' : updates'[v].by = updates[v].by
      BY <2>1, GoingOnKeepsAgents
    <3>2. /\ ContainersOf("agent") \subseteq ContainersOf("agent")'
          /\ booting' \subseteq ContainersOf("agent")' /\ DOMAIN cleaning' \subseteq ContainersOf("agent")'
      BY <1>1, <2>1, <2>4 DEF AgentsAct, ContainersOf
    <3> QED BY <1>1, <3>1, <3>2, AgentsStay
  <2> QED BY <1>1, <2>2, <2>3, <2>5, NamesStay
<1>4. CASE Rename(u)
  <2>1. /\ Goes(u, "create") /\ UNCHANGED <<booting, cleaning, twofold>> /\ (Mishap \/ UNCHANGED mishaps)
        /\ spoiled' \subseteq spoiled \cup {up.target}
        /\ \/ UNCHANGED containers
           \/ /\ up.of \in DOMAIN containers /\ ~Taken(up.target, up.olds + 1)
              /\ containers' = [containers EXCEPT ![up.of].olds = up.olds + 1]
    BY <1>4 DEF Rename, Exists, up
  <2>2. DOMAIN containers' = DOMAIN containers
        /\ \A c \in DOMAIN containers' : containers'[c].role = containers[c].role
    BY <1>1, <2>1 DEF DockerContainer
  <2>3. MishapsAreCounted'
    BY <1>1, <2>1, MishapsAreTyped DEF MishapsAreCounted
  <2>4. AgentsAct'
    <3>1. /\ DOMAIN updates' \subseteq DOMAIN updates
          /\ \A v \in DOMAIN updates' : updates'[v].by = updates[v].by
      BY <2>1, GoingOnKeepsAgents
    <3>2. /\ ContainersOf("agent") \subseteq ContainersOf("agent")'
          /\ booting' \subseteq ContainersOf("agent")' /\ DOMAIN cleaning' \subseteq ContainersOf("agent")'
      BY <1>1, <2>1, <2>2 DEF AgentsAct, ContainersOf
    <3> QED BY <1>1, <3>1, <3>2, AgentsStay
  <2>5. NamesAreUnique'
    <3>1. CASE UNCHANGED containers
      BY <1>1, <3>1 DEF NamesAreUnique, NameOf
    <3>2. CASE ~UNCHANGED containers
      <4>1. /\ up.of \in DOMAIN containers /\ ~Taken(up.target, up.olds + 1)
            /\ containers' = [containers EXCEPT ![up.of].olds = up.olds + 1]
        BY <2>1, <3>2
      <4>2. /\ \A c \in DOMAIN containers' \ {up.of} : containers'[c] = containers[c]
            /\ containers'[up.of].role = up.target /\ containers'[up.of].olds = up.olds + 1
        BY <1>1, <4>1 DEF DockerContainer
      <4> QED BY <1>1, <2>2, <4>1, <4>2, NameIsNew
    <3> QED BY <3>1, <3>2
  <2> QED BY <2>3, <2>4, <2>5
<1>5. CASE Start(u)
  <2>1. /\ up.next = "start" /\ (Goes(u, "remove") \/ EndUpdates({u}))
        /\ UNCHANGED <<cleaning, twofold>> /\ (Mishap \/ UNCHANGED mishaps)
        /\ spoiled' \subseteq spoiled \cup {up.target}
        /\ \/ UNCHANGED <<containers, booting>>
           \/ /\ up.replacement \in DOMAIN containers
              /\ containers' = [containers EXCEPT ![up.replacement].running = TRUE]
              /\ booting' \subseteq IF up.target = "agent" THEN booting \cup {up.replacement} ELSE booting
    BY <1>5 DEF Start, Calls, up
  <2>2. DOMAIN containers' = DOMAIN containers
        /\ \A c \in DOMAIN containers' :
            containers'[c].role = containers[c].role /\ containers'[c].olds = containers[c].olds
    BY <1>1, <2>1 DEF DockerContainer
  <2>3. MishapsAreCounted'
    BY <1>1, <2>1, MishapsAreTyped DEF MishapsAreCounted
  <2>4. ContainersOf("agent")' = ContainersOf("agent")
    BY <2>2 DEF ContainersOf
  <2>5. booting' \subseteq ContainersOf("agent")'
    BY <1>1, <2>1, <2>4 DEF AgentsAct, ContainersOf
  <2>6. AgentsAct'
    <3>1. /\ DOMAIN updates' \subseteq DOMAIN updates
          /\ \A v \in DOMAIN updates' : updates'[v].by = updates[v].by
      BY <2>1, GoingOnKeepsAgents
    <3>2. /\ ContainersOf("agent") \subseteq ContainersOf("agent")'
          /\ booting' \subseteq ContainersOf("agent")' /\ DOMAIN cleaning' \subseteq ContainersOf("agent")'
      BY <1>1, <2>1, <2>4, <2>5 DEF AgentsAct, ContainersOf
    <3> QED BY <1>1, <3>1, <3>2, AgentsStay
  <2> QED BY <1>1, <2>2, <2>3, <2>6, NamesStay
<1>6. CASE RemoveHub(u)
  <2>1. /\ up.next = "remove" /\ EndUpdates({u})
        /\ UNCHANGED <<booting, cleaning, twofold>> /\ (Mishap \/ UNCHANGED mishaps)
        /\ spoiled' \subseteq spoiled \cup {"hub"}
        /\ UNCHANGED containers \/ containers' = Without({up.of})
    BY <1>6 DEF RemoveHub, Calls, up
  <2>2. DOMAIN containers' \subseteq DOMAIN containers
        /\ \A c \in DOMAIN containers' : containers'[c] = containers[c]
    BY <2>1 DEF Without
  <2>3. MishapsAreCounted'
    BY <1>1, <2>1, MishapsAreTyped DEF MishapsAreCounted, Targets
  <2>4. ContainersOf("agent") \subseteq ContainersOf("agent")'
    BY <1>1, <2>1 DEF ContainersOf, Without, Targets
  <2>5. AgentsAct'
    <3>1. /\ DOMAIN updates' \subseteq DOMAIN updates
          /\ \A v \in DOMAIN updates' : updates'[v].by = updates[v].by
      BY <2>1, GoingOnKeepsAgents
    <3>2. /\ ContainersOf("agent") \subseteq ContainersOf("agent")'
          /\ booting' \subseteq ContainersOf("agent")' /\ DOMAIN cleaning' \subseteq ContainersOf("agent")'
      BY <1>1, <2>1, <2>4 DEF AgentsAct, ContainersOf
    <3> QED BY <1>1, <3>1, <3>2, AgentsStay
  <2> QED BY <1>1, <2>2, <2>3, <2>5, NamesStay
<1> QED BY <1>2, <1>3, <1>4, <1>5, <1>6

LEMMA CreateIsTyped ==
    ASSUME UpdaterTypes, NEW u \in DOMAIN updates, Create(u)
    PROVE  NamesAreUnique' /\ AgentsAct' /\ MishapsAreCounted'
<1> DEFINE up == updates[u]
<1>1. /\ up \in Update /\ up.target \in Targets /\ NamesAreUnique /\ AgentsAct /\ MishapsAreCounted
      /\ created \in Nat /\ DOMAIN containers \subseteq 1 .. created
  BY DEF UpdaterTypes, UpdaterInv, UpdatesAreOfTargets, IsOfTarget, Update
<1> HIDE DEF up
<1>2. CASE EndUpdates({u}) /\ UNCHANGED containers
  <2>1. /\ UNCHANGED <<booting, cleaning, twofold>> /\ (Mishap \/ UNCHANGED mishaps)
        /\ spoiled' \subseteq spoiled \cup {up.target}
    BY DEF Create, up
  <2>2. MishapsAreCounted'
    BY <1>1, <2>1, MishapsAreTyped DEF MishapsAreCounted
  <2>3. AgentsAct'
    BY <1>1, <1>2, <2>1, Ends, AgentsStay DEF AgentsAct, ContainersOf
  <2> QED BY <1>1, <1>2, <2>2, <2>3 DEF NamesAreUnique, NameOf
<1>3. CASE ~(EndUpdates({u}) /\ UNCHANGED containers)
  <2>1. /\ ~Taken(up.target, up.olds) /\ created' = created + 1
        /\ containers' = With(containers, created',
                    [role |-> up.target, olds |-> up.olds, running |-> FALSE])
        /\ updates' = [updates EXCEPT ![u].next = "start", ![u].replacement = created']
        /\ UNCHANGED <<mishaps, spoiled, booting, cleaning, twofold>>
    BY <1>3 DEF Create, up
  <2>2. created' \notin DOMAIN containers
    BY <1>1, <2>1
  <2>3. /\ DOMAIN containers' = DOMAIN containers \cup {created'}
        /\ \A c \in DOMAIN containers : containers'[c] = containers[c]
        /\ containers'[created'].role = up.target /\ containers'[created'].olds = up.olds
    BY <2>1, <2>2 DEF With
  <2>4. NamesAreUnique'
    BY <1>1, <2>1, <2>3, NameIsNew
  <2>5. DOMAIN updates' = DOMAIN updates /\ \A v \in DOMAIN updates' : updates'[v].by = updates[v].by
    <3>1. updates'[u].by = updates[u].by
      BY <1>1, <2>1 DEF up, Update
    <3> QED BY <2>1, <3>1
  <2>6. ContainersOf("agent") \subseteq ContainersOf("agent")'
    BY <2>3 DEF ContainersOf
  <2>7. AgentsAct'
    BY <1>1, <2>1, <2>5, <2>6, AgentsStay DEF AgentsAct
  <2> QED BY <1>1, <2>1, <2>4, <2>7 DEF MishapsAreCounted
<1> QED BY <1>2, <1>3

\* What an agent begins.
LEMMA AgentIsTyped ==
    ASSUME UpdaterTypes, NEW a \in DOMAIN containers,
           (\E target \in Targets : BeginUpdate(a, target)) \/ Boot(a) \/ CleanedUp(a) \/ RestartAgent(a)
    PROVE  NamesAreUnique' /\ AgentsAct' /\ MishapsAreCounted'
<1>1. NamesAreUnique /\ AgentsAct /\ MishapsAreCounted /\ requested \in Nat /\ DOMAIN updates \subseteq 1 .. requested
  BY DEF UpdaterTypes, UpdaterInv, UpdatesAreOfTargets
<1>2. UNCHANGED containers
  BY DEF BeginUpdate, Boot, CleanedUp, RestartAgent
<1>3. NamesAreUnique' /\ ContainersOf("agent")' = ContainersOf("agent")
  BY <1>1, <1>2 DEF NamesAreUnique, NameOf, ContainersOf
<1>4. CASE \E target \in Targets : BeginUpdate(a, target)
  <2>1. PICK target \in Targets : BeginUpdate(a, target)
    BY <1>4
  <2>2. /\ a \in ContainersOf("agent") /\ UNCHANGED <<booting, cleaning, mishaps>>
        /\ spoiled' \subseteq spoiled \cup {target} /\ twofold' \in BOOLEAN
    BY <2>1 DEF BeginUpdate, Running, ContainersOf
  <2>3. MishapsAreCounted'
    BY <1>1, <2>2, MishapsAreTyped DEF MishapsAreCounted
  <2>4. \A v \in DOMAIN updates' : updates'[v].by = a \/ (v \in DOMAIN updates /\ updates'[v].by = updates[v].by)
    BY <2>1 DEF BeginUpdate, With
  <2>5. AgentsAct'
    BY <1>1, <1>3, <2>2, <2>4 DEF AgentsAct
  <2> QED BY <1>3, <2>3, <2>5
<1>5. CASE Boot(a) \/ CleanedUp(a)
  <2>1. /\ UNCHANGED <<updates, mishaps, spoiled, twofold>> /\ booting' \subseteq booting
        /\ DOMAIN cleaning' \subseteq DOMAIN cleaning \cup booting
    BY <1>5 DEF Boot, CleanedUp, With
  <2> QED BY <1>1, <1>3, <2>1 DEF AgentsAct, MishapsAreCounted
<1>6. CASE RestartAgent(a)
  <2>1. /\ a \in ContainersOf("agent") /\ Mishap /\ UNCHANGED twofold
        /\ booting' = booting \cup {a} /\ DOMAIN cleaning' \subseteq DOMAIN cleaning
        /\ EndUpdates({u \in DOMAIN updates : updates[u].by = a}) /\ spoiled' = spoiled \cup CutOff(a)
    BY <1>6 DEF RestartAgent, Running, ContainersOf
  <2>2. CutOff(a) \subseteq Targets
    BY DEF CutOff, UpdaterTypes, UpdaterInv, UpdatesAreOfTargets, IsOfTarget, Update
  <2>3. MishapsAreCounted'
    BY <1>1, <2>1, <2>2, MishapsAreTyped DEF MishapsAreCounted
  <2>4. AgentsAct'
    <3>1. DOMAIN updates' \subseteq DOMAIN updates /\ \A v \in DOMAIN updates' : updates'[v].by = updates[v].by
      BY <2>1 DEF EndUpdates
    <3>2. booting' \subseteq ContainersOf("agent")' /\ DOMAIN cleaning' \subseteq ContainersOf("agent")'
      BY <1>1, <1>3, <2>1 DEF AgentsAct
    <3> QED BY <1>1, <1>3, <3>1, <3>2, AgentsStay
  <2> QED BY <1>3, <2>3, <2>4
<1> QED BY <1>4, <1>5, <1>6

\* A container that is removed takes its updates and its cleaning with it.
LEMMA RemoveLeftoverIsTyped ==
    ASSUME UpdaterTypes, NEW a \in DOMAIN containers, NEW c \in 1 .. created, RemoveLeftover(a, c)
    PROVE  NamesAreUnique' /\ AgentsAct' /\ MishapsAreCounted'
<1>1. NamesAreUnique /\ AgentsAct /\ MishapsAreCounted
  BY DEF UpdaterTypes
<1>2. \/ /\ Mishap /\ UNCHANGED <<containers, updates, booting, spoiled, twofold>>
         /\ DOMAIN cleaning' = DOMAIN cleaning
      \/ /\ containers' = Without({c}) /\ UNCHANGED <<mishaps, twofold>>
         /\ EndUpdates({u \in DOMAIN updates : updates[u].by = c})
         /\ spoiled' = spoiled \cup CutOff(c) /\ booting' = booting \ {c}
         /\ DOMAIN cleaning' = DOMAIN cleaning \ {c}
  BY DEF RemoveLeftover
<1>3. CASE /\ Mishap /\ UNCHANGED <<containers, updates, booting, spoiled, twofold>>
           /\ DOMAIN cleaning' = DOMAIN cleaning
  <2>1. MishapsAreCounted'
    BY <1>1, <1>3, MishapsAreTyped DEF MishapsAreCounted
  <2> QED BY <1>1, <1>3, <2>1 DEF NamesAreUnique, NameOf, AgentsAct, ContainersOf
<1>4. CASE /\ containers' = Without({c}) /\ UNCHANGED <<mishaps, twofold>>
           /\ EndUpdates({u \in DOMAIN updates : updates[u].by = c})
           /\ spoiled' = spoiled \cup CutOff(c) /\ booting' = booting \ {c}
           /\ DOMAIN cleaning' = DOMAIN cleaning \ {c}
  <2>1. CutOff(c) \subseteq Targets
    BY DEF CutOff, UpdaterTypes, UpdaterInv, UpdatesAreOfTargets, IsOfTarget, Update
  <2>2. MishapsAreCounted'
    BY <1>1, <1>4, <2>1, MishapsAreTyped DEF MishapsAreCounted
  <2>3. /\ DOMAIN containers' = DOMAIN containers \ {c}
        /\ \A d \in DOMAIN containers' : containers'[d] = containers[d]
    BY <1>4 DEF Without
  <2>4. NamesAreUnique'
    BY <1>1, <2>3, NamesStay
  <2>5. ContainersOf("agent")' = ContainersOf("agent") \ {c}
    BY <2>3 DEF ContainersOf
  <2>6. \A v \in DOMAIN updates' : v \in DOMAIN updates /\ updates'[v].by = updates[v].by /\ updates[v].by # c
    BY <1>4 DEF EndUpdates
  <2>7. AgentsAct'
    BY <1>1, <1>4, <2>5, <2>6 DEF AgentsAct
  <2> QED BY <2>2, <2>4, <2>7
<1> QED BY <1>2, <1>3, <1>4

LEMMA UpdaterTypesNext == UpdaterTypes /\ [UpdaterNext]_updaterVars => UpdaterTypes'
<1> SUFFICES ASSUME UpdaterTypes, [UpdaterNext]_updaterVars PROVE UpdaterTypes'
  OBVIOUS
<1>1. UpdaterInv'
  BY UpdaterInvNext DEF UpdaterTypes
<1>2. NamesAreUnique' /\ AgentsAct' /\ MishapsAreCounted'
  <2>1. CASE UNCHANGED updaterVars
    BY <2>1 DEF updaterVars, UpdaterTypes, NamesAreUnique, NameOf, AgentsAct, ContainersOf, MishapsAreCounted
  <2>2. ASSUME NEW a \in DOMAIN containers,
               \/ \E target \in Targets : BeginUpdate(a, target)
               \/ Boot(a) \/ CleanedUp(a) \/ RestartAgent(a)
               \/ \E c \in 1 .. created : RemoveLeftover(a, c)
        PROVE  NamesAreUnique' /\ AgentsAct' /\ MishapsAreCounted'
    BY <2>2, AgentIsTyped, RemoveLeftoverIsTyped
  <2>3. ASSUME NEW u \in DOMAIN updates,
               Pull(u) \/ Stop(u) \/ Rename(u) \/ Create(u) \/ Start(u) \/ RemoveHub(u)
        PROVE  NamesAreUnique' /\ AgentsAct' /\ MishapsAreCounted'
    BY <2>3, CallsAreTyped, CreateIsTyped
  <2> QED BY <2>1, <2>2, <2>3 DEF UpdaterNext
<1> QED BY <1>1, <1>2 DEF UpdaterTypes

\* Docker gives no name twice, and only agents that are there update and clean up.
THEOREM UpdaterTypeCorrect == UpdaterSpec => []UpdaterTypeOK
BY UpdaterTypesInit, UpdaterTypesNext, UpdaterTypesHold, PTL DEF UpdaterSpec

(***************************************************************************)
(* Restarts of a container.  Every count is measured by how far it is      *)
(* behind the life it was taken in.  Docker's own count never gains on the *)
(* lives, and what the collector counts is between Docker's and what it    *)
(* counted before.                                                         *)
(***************************************************************************)

AnyRows == [count : Int, oom : Int, life : Int, found : Nat]
RestartStates == [restartCount : Nat, lastStartedAt : Nat, lastOomKilledAt : Nat]

DockerStates == [status : {"absent", "running", "restarting", "exited"}, RestartCount : Nat,
                 StartedAt : Nat \ {0}, oomKilled : BOOLEAN]

RestartTypes ==
    /\ container \in DockerStates
    /\ restartState \in {NoState} \cup RestartStates
    /\ newestRow \in AnyRows /\ olderRow \in AnyRows
    /\ found \in Nat /\ found <= container.StartedAt

\* The memory of the collector is of the life it counted last.
MemoryIsOfLife ==
    /\ found = restartState.lastStartedAt
    /\ restartState # NoState => newestRow.count = restartState.restartCount
    /\ found = 0 => restartState = NoState \/ restartState.restartCount = 0

\* A row that was counted is not behind Docker, nor behind what was counted later.
IsAhead(row) ==
    row.found # 0 =>
        /\ container.RestartCount - container.StartedAt <= row.count - row.found
        /\ found # 0 => restartState.restartCount - found <= row.count - row.found

CountsFallBehind ==
    /\ IsAhead(newestRow) /\ IsAhead(olderRow)
    /\ found # 0 => container.RestartCount - container.StartedAt <= restartState.restartCount - found

RestartsInv == RestartTypes /\ MemoryIsOfLife /\ CountsFallBehind /\ RestartsAreReal

LEMMA RestartsInvInit == RestartsInit => RestartsInv
BY DEF RestartsInit, RestartsInv, RestartTypes, DockerStates, MemoryIsOfLife, CountsFallBehind, IsAhead,
       RestartsAreReal, RestartsShown, NoState, NoRow, AnyRows, RestartStates

\* What Docker does takes its count no further than its lives.
LEMMA DockerFallsBehind ==
    ASSUME RestartsInv, ContainerEnds \/ PolicyRestarts \/ StartedByHand \/ ContainerRemoved
    PROVE  RestartsInv'
<1>1. /\ container' \in DockerStates
      /\ container'.StartedAt >= container.StartedAt
      /\ container'.RestartCount - container'.StartedAt <= container.RestartCount - container.StartedAt
      /\ CollectorUnchanged
  <2>1. CASE ContainerEnds
    <3>1. PICK s \in {"restarting", "exited"}, killed \in BOOLEAN :
            container' = [container EXCEPT !.status = s, !.oomKilled = killed]
      BY <2>1 DEF ContainerEnds
    <3>2. container' \in DockerStates
      BY <3>1 DEF RestartsInv, RestartTypes, DockerStates
    <3>3. container'.StartedAt = container.StartedAt /\ container'.RestartCount = container.RestartCount
      BY <3>1 DEF RestartsInv, RestartTypes, DockerStates
    <3>4. container.StartedAt \in Int /\ container.RestartCount \in Int
      BY DEF RestartsInv, RestartTypes, DockerStates
    <3>5. CollectorUnchanged
      BY <2>1 DEF ContainerEnds
    <3> QED BY <3>2, <3>3, <3>4, <3>5
  <2>2. CASE ContainerRemoved
    BY <2>2 DEF ContainerRemoved, RestartsInv, RestartTypes, DockerStates
  <2>3. CASE PolicyRestarts
    <3>1. PICK n, life : n = container.RestartCount + 1 /\ life = container.StartedAt + 1
      OBVIOUS
    <3>2. container' = [container EXCEPT !.status = "running", !.RestartCount = n,
                                         !.StartedAt = life, !.oomKilled = FALSE]
      BY <2>3, <3>1 DEF PolicyRestarts
    <3>3. n \in Nat /\ life \in Nat \ {0}
      BY <3>1 DEF RestartsInv, RestartTypes, DockerStates
    <3>4. container' \in DockerStates
      BY <3>2, <3>3 DEF RestartsInv, RestartTypes, DockerStates
    <3>5. container'.StartedAt = life /\ container'.RestartCount = n
      BY <3>2 DEF RestartsInv, RestartTypes, DockerStates
    <3> QED BY <2>3, <3>1, <3>4, <3>5 DEF PolicyRestarts, RestartsInv, RestartTypes, DockerStates
  <2>4. CASE StartedByHand
    BY <2>4 DEF StartedByHand, RestartsInv, RestartTypes, DockerStates
  <2> QED BY <2>1, <2>2, <2>3, <2>4
<1>2. RestartTypes'
  BY <1>1 DEF RestartsInv, RestartTypes, DockerStates, CollectorUnchanged
<1>3. MemoryIsOfLife'
  BY <1>1 DEF RestartsInv, MemoryIsOfLife, CollectorUnchanged
<1>4. CountsFallBehind'
  <2>1. ASSUME NEW row \in AnyRows, IsAhead(row)
        PROVE  row.found # 0 =>
                 /\ container'.RestartCount - container'.StartedAt <= row.count - row.found
                 /\ found # 0 => restartState.restartCount - found <= row.count - row.found
    <3>1. /\ row.count - row.found \in Int /\ container.RestartCount - container.StartedAt \in Int
          /\ container'.RestartCount - container'.StartedAt \in Int
      BY <1>1 DEF AnyRows, RestartsInv, RestartTypes, DockerStates
    <3> QED BY <1>1, <2>1, <3>1 DEF IsAhead
  <2>2. IsAhead(newestRow)' /\ IsAhead(olderRow)'
    BY <1>1, <2>1 DEF RestartsInv, RestartTypes, DockerStates, CountsFallBehind, IsAhead, CollectorUnchanged
  <2>3. found # 0 => restartState \in RestartStates
    BY DEF RestartsInv, RestartTypes, DockerStates, MemoryIsOfLife, NoState
  <2>4. found' # 0 => container'.RestartCount - container'.StartedAt <= restartState'.restartCount - found'
    BY <1>1, <2>3 DEF RestartsInv, RestartTypes, DockerStates, CountsFallBehind, CollectorUnchanged, RestartStates
  <2> QED BY <2>2, <2>4 DEF CountsFallBehind
<1>5. RestartsAreReal'
  BY <1>1 DEF RestartsInv, RestartsAreReal, RestartsShown, CollectorUnchanged
<1> QED BY <1>2, <1>3, <1>4, <1>5 DEF RestartsInv

\* What an inspection makes of the count: it goes up by at most one when Docker's did not
\* overtake it, and only in another life.
LEMMA CountIsOfLife ==
    ASSUME RestartsInv
    PROVE  /\ CountOf(container) \in Nat
           /\ CountOf(container) >= container.RestartCount
           /\ \/ CountOf(container) = container.RestartCount
              \/ /\ found # 0 /\ found # container.StartedAt
                 /\ CountOf(container) = restartState.restartCount + 1
              \/ found # 0 /\ CountOf(container) = restartState.restartCount
BY DEF RestartsInv, RestartTypes, DockerStates, MemoryIsOfLife, CountOf, Prev, NoState, RestartStates

\* An inspection that counts.
LEMMA InspectedIsOfLife ==
    ASSUME RestartsInv, Inspect, Counts
    PROVE  /\ restartState' \in RestartStates
           /\ restartState'.lastStartedAt = container.StartedAt
           /\ restartState'.restartCount >= container.RestartCount
           /\ \/ restartState'.restartCount = container.RestartCount
              \/ /\ found # 0
                 /\ restartState'.restartCount - container.StartedAt <= restartState.restartCount - found
<1>1. /\ OomOf(container) \in Nat
      /\ StickyOom(container) \in Int
  BY DEF RestartsInv, RestartTypes, DockerStates, OomOf, StickyOom, Prev, NoState, RestartStates
<1>2. StickyOom(container) \in Nat
  BY <1>1 DEF RestartsInv, RestartTypes, DockerStates, OomOf, StickyOom, Prev, NoState, RestartStates
<1>3. CASE collector = "agent"
  <2>1. restartState' = [restartCount |-> CountOf(container), lastStartedAt |-> container.StartedAt,
                         lastOomKilledAt |-> StickyOom(container)]
    BY <1>3 DEF Inspect, Inspected, AgentState, Counts
  <2> QED BY <1>2, <2>1, CountIsOfLife DEF RestartsInv, RestartTypes, DockerStates, RestartStates, NoState
<1>4. CASE collector # "agent"
  <2>1. PICK n : /\ n = CountOf(container) \/ (n = Prev.restartCount /\ Prev # NoState
                                               /\ ~(container.RestartCount > Prev.restartCount))
                 /\ restartState' = [restartCount |-> n, lastStartedAt |-> container.StartedAt,
                                     lastOomKilledAt |-> 0]
    BY <1>4 DEF Inspect, Inspected, StandaloneState
  <2>2. CASE n = CountOf(container)
    BY <2>1, <2>2, CountIsOfLife DEF RestartsInv, RestartTypes, DockerStates, RestartStates, NoState
  <2>3. CASE n # CountOf(container)
    <3>1. /\ n = restartState.restartCount /\ restartState \in RestartStates /\ restartState # NoState
          /\ ~(container.RestartCount > n)
      BY <2>1, <2>3 DEF Prev, RestartsInv, RestartTypes, DockerStates
    <3>2. found = 0 => n = container.RestartCount
      BY <3>1 DEF RestartsInv, RestartTypes, DockerStates, MemoryIsOfLife, RestartStates
    <3>3. n \in Nat /\ n >= container.RestartCount /\ found <= container.StartedAt
      BY <3>1 DEF RestartsInv, RestartTypes, DockerStates, RestartStates
    <3>4. n - container.StartedAt <= restartState.restartCount - found
      BY <3>1, <3>3 DEF RestartsInv, RestartTypes, DockerStates
    <3> QED BY <2>1, <3>2, <3>3, <3>4 DEF RestartsInv, RestartTypes, DockerStates, RestartStates
  <2> QED BY <2>2, <2>3
<1> QED BY <1>3, <1>4

LEMMA RowIsRow ==
    ASSUME NEW n \in Int, NEW time \in Int
    PROVE  /\ [NoRow EXCEPT !.count = n, !.oom = time] \in AnyRows
           /\ [NoRow EXCEPT !.count = n, !.oom = time].count = n
<1>1. NoRow \in AnyRows
  BY DEF NoRow, AnyRows
<1> QED BY <1>1 DEF AnyRows

LEMMA StoredRow ==
    ASSUME RestartTypes, NEW row \in AnyRows, StoreRow(row), found' \in Nat
    PROVE  /\ newestRow' \in AnyRows /\ newestRow'.count = row.count /\ newestRow'.found = found'
           /\ olderRow' \in {newestRow, olderRow} /\ olderRow' \in AnyRows
<1>1. container.StartedAt \in Int
  BY DEF RestartTypes, DockerStates
<1>2. newestRow' = [row EXCEPT !.life = container.StartedAt, !.found = found']
  BY DEF StoreRow
<1>3. newestRow' \in AnyRows /\ newestRow'.count = row.count /\ newestRow'.found = found'
  BY <1>1, <1>2 DEF AnyRows
<1>4. olderRow' \in {newestRow, olderRow} /\ olderRow' \in AnyRows
  BY DEF StoreRow, RestartTypes, DockerStates
<1> QED BY <1>3, <1>4

\* A row is stored with the count of the collector's memory.
LEMMA StoredRowIsReal ==
    ASSUME RestartsInv, RestartTypes', MemoryIsOfLife',
           NEW row \in AnyRows, StoreRow(row), UNCHANGED container,
           found' # 0 =>
               /\ row.count = restartState'.restartCount /\ restartState' \in RestartStates
               /\ container.RestartCount - container.StartedAt <= row.count - found'
               /\ \/ row.count - found' = container.RestartCount - container.StartedAt
                  \/ found # 0 /\ row.count - found' <= restartState.restartCount - found
    PROVE  CountsFallBehind' /\ RestartsAreReal'
<1>1. /\ newestRow' \in AnyRows /\ newestRow'.count = row.count /\ newestRow'.found = found'
  BY StoredRow DEF RestartsInv, RestartTypes
<1>2. \A r \in {newestRow, olderRow} : found' # 0 /\ r.found # 0 => row.count - found' <= r.count - r.found
  BY DEF RestartsInv, RestartTypes, DockerStates, CountsFallBehind, IsAhead, AnyRows, RestartStates, NoState
<1>3. \A r \in {newestRow, olderRow} : r.found # 0 =>
        container.RestartCount - container.StartedAt <= r.count - r.found
  BY DEF RestartsInv, CountsFallBehind, IsAhead
<1>4. olderRow' \in {newestRow, olderRow}
  BY DEF StoreRow
<1>5. IsAhead(olderRow)'
  BY <1>2, <1>3, <1>4 DEF IsAhead
<1>6. IsAhead(newestRow)'
  BY <1>1 DEF IsAhead, RestartTypes, DockerStates, AnyRows
<1>7. RestartsAreReal'
  BY <1>1, <1>2, <1>4 DEF RestartsAreReal, RestartsShown, RestartTypes, DockerStates, AnyRows
<1> QED BY <1>5, <1>6, <1>7 DEF CountsFallBehind

LEMMA InspectKeepsCount ==
    ASSUME RestartsInv, Inspect
    PROVE  RestartsInv'
<1> DEFINE row == [NoRow EXCEPT !.count = restartState'.restartCount, !.oom = restartState'.lastOomKilledAt]
<1>1. CASE Counts
  <2>1. found' = container.StartedAt /\ restartState' \in RestartStates
    BY <1>1, InspectedIsOfLife DEF Inspect
  <2>2. row \in AnyRows /\ row.count = restartState'.restartCount
    <3>1. restartState'.restartCount \in Int /\ restartState'.lastOomKilledAt \in Int
      BY <2>1 DEF RestartStates
    <3> QED BY <3>1, RowIsRow
  <2> HIDE DEF row
  <2>3. StoreRow(row) /\ UNCHANGED container
    BY DEF Inspect, row
  <2>4. found' \in Nat
    BY <2>1 DEF RestartsInv, RestartTypes, DockerStates
  <2>5. RestartTypes'
    BY <2>1, <2>2, <2>3, <2>4, StoredRow DEF RestartsInv, RestartTypes
  <2>6. /\ restartState'.lastStartedAt = container.StartedAt
        /\ restartState'.restartCount \in Nat
        /\ container.RestartCount \in Nat /\ container.StartedAt \in Nat \ {0}
    BY <1>1, <2>1, InspectedIsOfLife DEF RestartsInv, RestartTypes, DockerStates, RestartStates
  <2>7. MemoryIsOfLife'
    BY <2>1, <2>2, <2>3, <2>4, <2>6, StoredRow DEF RestartsInv, MemoryIsOfLife
  <2>8. CountsFallBehind' /\ RestartsAreReal'
    <3>1. container.RestartCount - container.StartedAt <= row.count - found'
      BY <1>1, <2>1, <2>2, <2>6, InspectedIsOfLife
    <3>2. \/ row.count - found' = container.RestartCount - container.StartedAt
          \/ found # 0 /\ row.count - found' <= restartState.restartCount - found
      BY <1>1, <2>1, <2>2, InspectedIsOfLife
    <3> QED BY <2>1, <2>2, <2>3, <2>5, <2>7, <3>1, <3>2, StoredRowIsReal
  <2> QED BY <2>5, <2>7, <2>8 DEF RestartsInv
<1>2. CASE ~Counts
  <2>1. PICK oom \in Nat : restartState' = [restartCount |-> IF Prev = NoState THEN 0 ELSE Prev.restartCount,
                          lastStartedAt |-> Prev.lastStartedAt, lastOomKilledAt |-> oom]
    BY <1>2 DEF Inspect, Counts, Inspected, AgentState, StickyOom, OomOf, Prev, RestartsInv,
                RestartTypes, DockerStates, RestartStates, NoState
  <2>2. found' = found /\ restartState' \in RestartStates
    BY <1>2, <2>1 DEF Inspect, Prev, RestartsInv, RestartTypes, DockerStates, RestartStates, NoState
  <2>3. row \in AnyRows /\ row.count = restartState'.restartCount
    <3>1. restartState'.restartCount \in Int /\ restartState'.lastOomKilledAt \in Int
      BY <2>2 DEF RestartStates
    <3> QED BY <3>1, RowIsRow
  <2> HIDE DEF row
  <2>4. StoreRow(row) /\ UNCHANGED container
    BY DEF Inspect, row
  <2>5. RestartTypes'
    BY <2>2, <2>3, <2>4, StoredRow DEF RestartsInv, RestartTypes
  <2>6. MemoryIsOfLife'
    BY <2>1, <2>2, <2>3, <2>4, StoredRow DEF Prev, NoState, RestartsInv, RestartTypes, MemoryIsOfLife
  <2>7. CountsFallBehind' /\ RestartsAreReal'
    <3>1. found # 0 => /\ restartState'.restartCount = restartState.restartCount
                       /\ container.RestartCount - container.StartedAt <= restartState.restartCount - found
      BY <2>1 DEF Prev, NoState, RestartsInv, MemoryIsOfLife, CountsFallBehind
    <3>2. restartState'.restartCount \in Int
      BY <2>2 DEF RestartStates
    <3> QED BY <2>2, <2>3, <2>4, <2>5, <2>6, <3>1, <3>2, StoredRowIsReal DEF RestartsInv, RestartTypes
  <2> QED BY <2>5, <2>6, <2>7 DEF RestartsInv
<1> QED BY <1>1, <1>2

LEMMA FailedInspectionKeepsCount ==
    ASSUME RestartsInv, InspectFails
    PROVE  RestartsInv'
<1> DEFINE row == [NoRow EXCEPT !.count = IF Prev = NoState THEN 0 ELSE Prev.restartCount,
                                !.oom = Prev.lastOomKilledAt]
<1>1. row \in AnyRows /\ row.count = IF restartState = NoState THEN 0 ELSE restartState.restartCount
  <2>1. /\ (IF Prev = NoState THEN 0 ELSE Prev.restartCount) \in Int
        /\ Prev.lastOomKilledAt \in Int
    BY DEF NoState, Prev, RestartsInv, RestartTypes, DockerStates, RestartStates
  <2> QED BY <2>1, RowIsRow DEF Prev
<1>2. /\ StoreRow(row) /\ UNCHANGED <<container, restartState, found>>
  BY DEF InspectFails
<1> HIDE DEF row
<1>3. RestartTypes'
  BY <1>1, <1>2, StoredRow DEF RestartsInv, RestartTypes
<1>4. MemoryIsOfLife'
  BY <1>1, <1>2, StoredRow DEF RestartsInv, RestartTypes, MemoryIsOfLife
<1>5. found # 0 => restartState \in RestartStates /\ row.count = restartState.restartCount
  BY <1>1 DEF RestartsInv, RestartTypes, DockerStates, MemoryIsOfLife, NoState
<1>6. CountsFallBehind' /\ RestartsAreReal'
  BY <1>1, <1>2, <1>3, <1>4, <1>5, StoredRowIsReal
  DEF RestartsInv, RestartTypes, CountsFallBehind, RestartStates
<1> QED BY <1>3, <1>4, <1>6 DEF RestartsInv

LEMMA RestartsInvStep == RestartsInv /\ [RestartsNext]_restartVars => RestartsInv'
<1> SUFFICES ASSUME RestartsInv, [RestartsNext]_restartVars
             PROVE  RestartsInv'
  OBVIOUS
<1>1. CASE ContainerEnds \/ PolicyRestarts \/ StartedByHand \/ ContainerRemoved
  BY <1>1, DockerFallsBehind
<1>2. CASE List \/ UNCHANGED restartVars
  BY <1>2 DEF List, restartVars, RestartsInv, RestartTypes, DockerStates, MemoryIsOfLife, CountsFallBehind,
              IsAhead, RestartsAreReal, RestartsShown
<1>3. CASE Inspect
  BY <1>3, InspectKeepsCount
<1>4. CASE InspectFails
  BY <1>4, FailedInspectionKeepsCount
<1>5. CASE ListedNoMore \/ CollectorRestarts
  <2>1. restartState' = NoState /\ found' = 0 /\ UNCHANGED <<container, newestRow, olderRow>>
    BY <1>5 DEF ListedNoMore, CollectorRestarts
  <2> QED BY <2>1 DEF RestartsInv, RestartTypes, DockerStates, MemoryIsOfLife, CountsFallBehind, IsAhead,
                      RestartsAreReal, RestartsShown, NoState
<1> QED BY <1>1, <1>2, <1>3, <1>4, <1>5 DEF RestartsNext

\* An agent that finds the container in another life than it counted last counts on.
LEMMA NextLifeIsSeen ==
    ASSUME RestartsInv, Inspect, collector = "agent", Counts, found \notin {0, container.StartedAt}
    PROVE  newestRow'.count > newestRow.count
<1>1. restartState # NoState /\ restartState \in RestartStates /\ newestRow.count = restartState.restartCount
  BY DEF RestartsInv, RestartTypes, DockerStates, MemoryIsOfLife, NoState
<1>2. CountOf(container) > restartState.restartCount
  BY <1>1 DEF CountOf, Prev, RestartsInv, RestartTypes, DockerStates, MemoryIsOfLife, RestartStates
<1>3. restartState'.restartCount = CountOf(container)
  BY DEF Inspect, Inspected, AgentState, Counts
<1>4. newestRow'.count = restartState'.restartCount
  BY DEF Inspect, StoreRow, NoRow
<1> QED BY <1>1, <1>2, <1>3, <1>4

\* Restarts told were restarts, and those there were are told.
THEOREM RestartsAreCounted == RestartsSpec => RestartsAreTold
<1>1. RestartsInv /\ [RestartsNext]_restartVars =>
        [Inspect /\ collector = "agent" /\ Counts /\ found \notin {0, container.StartedAt}
            => newestRow'.count > newestRow.count]_restartVars
  BY NextLifeIsSeen
<1>2. RestartsInv => RestartsAreReal
  BY DEF RestartsInv
<1> QED BY <1>1, <1>2, RestartsInvInit, RestartsInvStep, PTL DEF RestartsSpec, RestartsAreTold, RestartsAreSeen

(***************************************************************************)
(* Types of the restarts.  No count gets ahead of the lives of the         *)
(* container.                                                              *)
(***************************************************************************)

RestartsAreTyped ==
    /\ collector \in {"agent", "standalone"}
    /\ container \in [status : {"absent", "running", "restarting", "exited"},
                      RestartCount : Life, StartedAt : Life, oomKilled : BOOLEAN]
    /\ container.RestartCount < container.StartedAt
    /\ restartState \in {NoState} \cup
        [restartCount : Life, lastStartedAt : Life, lastOomKilledAt : Life]
    /\ restartState # NoState => restartState.restartCount <= restartState.lastStartedAt
    /\ restartState.lastStartedAt <= container.StartedAt
    /\ statusListed \in {"no", "absent", "running", "restarting", "exited"}
    /\ {newestRow, olderRow} \subseteq {NoRow} \cup [count : Life, oom : Life, life : Life, found : Life]
    /\ found \in Life
    /\ breaks \in 0 .. MaxBreaks

LEMMA RestartsTypesHold == RestartsAreTyped => RestartsTypeOK
<1>1. Life \subseteq RestartCounts
  BY RestartsAssumption DEF Life, RestartCounts
<1> QED BY <1>1 DEF RestartsAreTyped, RestartsTypeOK

LEMMA RestartsTypesInit == RestartsInit => RestartsAreTyped
<1> SUFFICES ASSUME RestartsInit PROVE RestartsAreTyped
  OBVIOUS
<1>1. 0 \in Life /\ 1 \in Life /\ 0 \in 0 .. MaxBreaks
  BY RestartsAssumption DEF Life
<1>2. NoState.lastStartedAt = 0
  BY DEF NoState
<1> QED BY <1>1, <1>2 DEF RestartsInit, RestartsAreTyped

LEMMA DockerIsTyped ==
    ASSUME RestartsAreTyped, ContainerEnds \/ PolicyRestarts \/ StartedByHand \/ ContainerRemoved
    PROVE  RestartsAreTyped'
<1>1. PICK status \in {"absent", "running", "restarting", "exited"}, n \in Life, life \in Life,
           killed \in BOOLEAN :
        container = [status |-> status, RestartCount |-> n, StartedAt |-> life, oomKilled |-> killed]
  BY DEF RestartsAreTyped
<1>2. n < life /\ restartState.lastStartedAt <= life
  BY <1>1 DEF RestartsAreTyped
<1>3. /\ container' \in [status : {"absent", "running", "restarting", "exited"},
                         RestartCount : Life, StartedAt : Life, oomKilled : BOOLEAN]
      /\ container'.RestartCount < container'.StartedAt /\ life <= container'.StartedAt
  <2>1. CASE ContainerEnds
    <3>1. PICK s \in {"restarting", "exited"}, k \in BOOLEAN :
            container' = [container EXCEPT !.status = s, !.oomKilled = k]
      BY <2>1 DEF ContainerEnds
    <3>2. container' = [status |-> s, RestartCount |-> n, StartedAt |-> life, oomKilled |-> k]
      BY <1>1, <3>1
    <3> QED BY <1>2, <3>2 DEF Life
  <2>2. CASE ContainerRemoved
    <3>1. container' = [status |-> "absent", RestartCount |-> n, StartedAt |-> life,
                        oomKilled |-> killed]
      BY <1>1, <2>2 DEF ContainerRemoved
    <3> QED BY <1>2, <3>1 DEF Life
  <2>3. CASE PolicyRestarts
    <3>1. life < MaxLives /\ n + 1 \in Life /\ life + 1 \in Life
      BY <1>1, <1>2, <2>3, RestartsAssumption DEF PolicyRestarts, Life
    <3>2. container' = [status |-> "running", RestartCount |-> n + 1, StartedAt |-> life + 1,
                        oomKilled |-> FALSE]
      BY <1>1, <2>3 DEF PolicyRestarts
    <3> QED BY <3>1, <3>2, <1>2 DEF Life
  <2>4. CASE StartedByHand
    <3>1. life < MaxLives /\ 0 \in Life /\ life + 1 \in Life
      BY <1>1, <1>2, <2>4, RestartsAssumption DEF StartedByHand, Life
    <3>2. container' = [status |-> "running", RestartCount |-> 0, StartedAt |-> life + 1,
                        oomKilled |-> FALSE]
      BY <1>1, <2>4 DEF StartedByHand
    <3> QED BY <3>1, <3>2, <1>2 DEF Life
  <2> QED BY <2>1, <2>2, <2>3, <2>4
<1>4. CollectorUnchanged
  BY DEF ContainerEnds, PolicyRestarts, StartedByHand, ContainerRemoved
<1>5. restartState.lastStartedAt \in Life
  BY RestartsAssumption DEF RestartsAreTyped, NoState, Life
<1>6. restartState.lastStartedAt <= container'.StartedAt
  BY <1>2, <1>3, <1>5 DEF Life
<1> QED BY <1>3, <1>4, <1>6 DEF RestartsAreTyped, CollectorUnchanged

\* What an inspection makes of the memory.
LEMMA CountsAreTyped ==
    ASSUME RestartsAreTyped
    PROVE  CountOf(container) \in Life /\ CountOf(container) <= container.StartedAt
<1>1. PICK n \in Life, life \in Life :
        n = container.RestartCount /\ life = container.StartedAt /\ n < life
  BY DEF RestartsAreTyped
<1>2. CASE Prev = NoState \/ n > Prev.restartCount
  BY <1>1, <1>2 DEF CountOf, Life
<1>3. CASE ~(Prev = NoState \/ n > Prev.restartCount)
  <2>1. PICK count \in Life, last \in Life :
            count = Prev.restartCount /\ last = Prev.lastStartedAt /\ count <= last /\ last <= life
    BY <1>1, <1>3 DEF RestartsAreTyped, Prev
  <2>2. CASE last # 0 /\ life # last
    <3>1. CountOf(container) = count + 1
      BY <1>1, <1>3, <2>1, <2>2 DEF CountOf
    <3>2. count + 1 \in Life /\ count + 1 <= life
      BY <2>1, <2>2, RestartsAssumption DEF Life
    <3> QED BY <1>1, <3>1, <3>2
  <2>3. CASE ~(last # 0 /\ life # last)
    <3>1. CountOf(container) = count
      BY <1>1, <1>3, <2>1, <2>3 DEF CountOf
    <3> QED BY <1>1, <2>1, <3>1 DEF Life
  <2> QED BY <2>2, <2>3
<1> QED BY <1>2, <1>3

LEMMA InspectedIsTyped ==
    ASSUME RestartsAreTyped
    PROVE  /\ Inspected(container) \in
                [restartCount : Life, lastStartedAt : Life, lastOomKilledAt : Life]
           /\ Inspected(container).restartCount <= Inspected(container).lastStartedAt
           /\ Inspected(container).lastStartedAt <= container.StartedAt
<1>1. PICK life \in Life, n \in Life : life = container.StartedAt /\ n = CountOf(container) /\ n <= life
  BY CountsAreTyped DEF RestartsAreTyped
<1>2. 0 \in Life /\ Life \subseteq Nat
  BY RestartsAssumption DEF Life
<1>3. PICK count, last, oom \in Life :
        /\ count = IF Prev = NoState THEN 0 ELSE Prev.restartCount
        /\ last = Prev.lastStartedAt /\ oom = Prev.lastOomKilledAt
        /\ count <= last /\ last <= life
  <2>1. CASE Prev = NoState
    BY <1>1, <1>2, <2>1 DEF Prev, NoState
  <2>2. CASE Prev # NoState
    BY <1>1, <2>2 DEF Prev, RestartsAreTyped
  <2> QED BY <2>1, <2>2
<1>4. PICK kill \in Life : kill = StickyOom(container)
  BY <1>1, <1>2, <1>3 DEF StickyOom, OomOf
<1>5. CASE collector = "agent"
  <2>1. Inspected(container) =
            [restartCount |-> IF statusListed = "running" THEN n ELSE count,
             lastStartedAt |-> IF statusListed = "running" THEN life ELSE last,
             lastOomKilledAt |-> kill]
    BY <1>1, <1>3, <1>4, <1>5 DEF Inspected, AgentState
  <2> QED BY <1>1, <1>2, <1>3, <2>1
<1>6. CASE collector # "agent"
  <2>1. PICK m \in {n, count} :
            Inspected(container) = [restartCount |-> m, lastStartedAt |-> life, lastOomKilledAt |-> 0]
    BY <1>1, <1>3, <1>6 DEF Inspected, StandaloneState
  <2>2. m <= life
    BY <1>1, <1>2, <1>3
  <2> QED BY <1>1, <1>2, <2>1, <2>2
<1> QED BY <1>5, <1>6

RowOfLives == [count : Int, oom : Life, life : Life, found : Life]

\* A row that is stored.
LEMMA StoredIsTypedRow ==
    ASSUME RestartsAreTyped, NEW n \in Life, NEW time \in Life, found' \in Life,
           StoreRow([NoRow EXCEPT !.count = n, !.oom = time])
    PROVE  {newestRow', olderRow'} \subseteq
                {NoRow} \cup [count : Life, oom : Life, life : Life, found : Life]
<1> DEFINE row == [NoRow EXCEPT !.count = n, !.oom = time]
<1>1. n \in Int /\ NoRow \in RowOfLives
  BY RestartsAssumption DEF NoRow, RowOfLives, Life
<1>2. row \in RowOfLives /\ row.count = n
  BY <1>1 DEF RowOfLives
<1>3. StoreRow(row)
  OBVIOUS
<1> HIDE DEF row
<1>4. newestRow' = [row EXCEPT !.life = container.StartedAt, !.found = found'] /\ container.StartedAt \in Life
  BY <1>3 DEF StoreRow, RestartsAreTyped
<1>5. newestRow' \in RowOfLives /\ newestRow'.count = n
  BY <1>2, <1>4 DEF RowOfLives
<1>6. newestRow' \in [count : Life, oom : Life, life : Life, found : Life]
  BY <1>5 DEF RowOfLives
<1>7. olderRow' = olderRow \/ olderRow' = newestRow
  BY <1>3 DEF StoreRow
<1> QED BY <1>6, <1>7 DEF RestartsAreTyped

LEMMA RestartsTypesNext == RestartsAreTyped /\ [RestartsNext]_restartVars => RestartsAreTyped'
<1> SUFFICES ASSUME RestartsAreTyped, [RestartsNext]_restartVars PROVE RestartsAreTyped'
  OBVIOUS
<1>1. CASE ContainerEnds \/ PolicyRestarts \/ StartedByHand \/ ContainerRemoved
  BY <1>1, DockerIsTyped
<1>2. CASE List
  BY <1>2 DEF List, RestartsAreTyped
<1>3. CASE Inspect
  <2> DEFINE info == Inspected(container)
  <2>1. /\ info \in [restartCount : Life, lastStartedAt : Life, lastOomKilledAt : Life]
        /\ info.restartCount <= info.lastStartedAt /\ info.lastStartedAt <= container.StartedAt
    BY InspectedIsTyped
  <2>2. restartState' = info /\ UNCHANGED <<collector, container, breaks>> /\ statusListed' = "no"
    BY <1>3 DEF Inspect
  <2> HIDE DEF info
  <2>3. found' \in Life
    BY <1>3 DEF Inspect, RestartsAreTyped
  <2>4. StoreRow([NoRow EXCEPT !.count = info.restartCount, !.oom = info.lastOomKilledAt])
    BY <1>3, <2>2 DEF Inspect
  <2>5. {newestRow', olderRow'} \subseteq
            {NoRow} \cup [count : Life, oom : Life, life : Life, found : Life]
    BY <2>1, <2>3, <2>4, StoredIsTypedRow
  <2> QED BY <2>1, <2>2, <2>3, <2>5 DEF RestartsAreTyped
<1>4. CASE InspectFails
  <2>1. PICK n, oom \in Life :
            n = (IF Prev = NoState THEN 0 ELSE Prev.restartCount) /\ oom = Prev.lastOomKilledAt
    BY RestartsAssumption DEF RestartsAreTyped, Prev, NoState, Life
  <2>2. StoreRow([NoRow EXCEPT !.count = n, !.oom = oom]) /\ found' \in Life
    BY <1>4, <2>1 DEF InspectFails, RestartsAreTyped
  <2>3. {newestRow', olderRow'} \subseteq
            {NoRow} \cup [count : Life, oom : Life, life : Life, found : Life]
    BY <2>2, StoredIsTypedRow
  <2>4. breaks' \in 0 .. MaxBreaks
    BY <1>4, RestartsAssumption DEF InspectFails, RestartsAreTyped
  <2> QED BY <1>4, <2>2, <2>3, <2>4 DEF InspectFails, RestartsAreTyped
<1>5. CASE ListedNoMore \/ CollectorRestarts
  <2>1. 0 \in Life /\ NoState.lastStartedAt = 0 /\ 0 <= container.StartedAt
    BY RestartsAssumption DEF RestartsAreTyped, NoState, Life
  <2>2. breaks' \in 0 .. MaxBreaks
    BY <1>5, RestartsAssumption DEF ListedNoMore, CollectorRestarts, RestartsAreTyped
  <2>3. /\ restartState' = NoState /\ found' = 0 /\ statusListed' = "no"
        /\ UNCHANGED <<collector, container, newestRow, olderRow>>
    BY <1>5 DEF ListedNoMore, CollectorRestarts
  <2> QED BY <2>1, <2>2, <2>3 DEF RestartsAreTyped
<1>6. CASE UNCHANGED restartVars
  BY <1>6 DEF restartVars, RestartsAreTyped
<1> QED BY <1>1, <1>2, <1>3, <1>4, <1>5, <1>6 DEF RestartsNext

\* The collector's counts keep to their types: none gets ahead of the container's lives.
THEOREM RestartsTypeCorrect == RestartsSpec => []RestartsTypeOK
BY RestartsTypesInit, RestartsTypesNext, RestartsTypesHold, PTL DEF RestartsSpec

(***************************************************************************)
(* The cache of findings.  It holds what was returned last, but for the    *)
(* confidence: a finding is worded by the cache and weighed by the votes.  *)
(***************************************************************************)

IsWorded(f) == f = [conclusion |-> f.conclusion, confidence |-> f.confidence,
                    episode |-> f.episode, tags |-> f.tags]

CacheIsOfFinding ==
    /\ IsWorded(sticky)
    /\ sticky.conclusion = finding.conclusion
    /\ sticky.episode = finding.episode
    /\ sticky.tags = finding.tags

LEMMA CacheInit == DiagnosisInit => CacheIsOfFinding
BY DEF DiagnosisInit, CacheIsOfFinding, IsWorded, NoFinding

LEMMA RunOfDiagnosis ==
    ASSUME CacheIsOfFinding, RunDiagnosis
    PROVE  /\ CacheIsOfFinding'
           /\ finding'.conclusion = Primary
           /\ finding'.confidence = Calibrated(Primary)
           /\ finding.conclusion = Primary =>
                finding'.episode = finding.episode /\ finding'.tags = finding.tags
<1>1. PICK raw : raw = Raw
  OBVIOUS
<1>2. IsWorded(raw) /\ raw.conclusion = Primary
  BY <1>1 DEF Raw, IsWorded
<1>3. PICK f : f = Sticky(raw)
  OBVIOUS
<1>4. /\ IsWorded(f) /\ f.conclusion = Primary
      /\ sticky.conclusion = Primary => f = sticky
  BY <1>2, <1>3 DEF Sticky, CacheIsOfFinding
<1>5. PICK c : c = Calibrated(Primary)
  OBVIOUS
<1>6. sticky' = f /\ finding' = [f EXCEPT !.confidence = c]
  BY <1>1, <1>3, <1>4, <1>5 DEF RunDiagnosis, Diagnosed
<1>7. /\ finding'.conclusion = f.conclusion /\ finding'.confidence = c
      /\ finding'.episode = f.episode /\ finding'.tags = f.tags
  BY <1>4, <1>6 DEF IsWorded
<1> QED BY <1>4, <1>5, <1>6, <1>7 DEF CacheIsOfFinding, IsWorded

LEMMA CacheStep == CacheIsOfFinding /\ [DiagnosisNext]_diagnosisVars => CacheIsOfFinding'
<1> SUFFICES ASSUME CacheIsOfFinding, [DiagnosisNext]_diagnosisVars
             PROVE  CacheIsOfFinding'
  OBVIOUS
<1>1. CASE RunDiagnosis
  BY <1>1, RunOfDiagnosis
<1>2. CASE UNCHANGED <<sticky, finding>>
  BY <1>2 DEF CacheIsOfFinding, IsWorded
<1>3. CASE HubReboots
  BY <1>3 DEF HubReboots, CacheIsOfFinding, IsWorded, NoFinding
<1> QED BY <1>1, <1>2, <1>3
        DEF DiagnosisNext, diagnosisVars, NewRow, LogsChange, ViewFinding, InsightsCron, Feedback

\* A finding draws the conclusion of the moment, with the confidence the votes give it, and
\* keeps its words as long as it keeps its conclusion.
THEOREM FindingsAreOfTheMoment == DiagnosisSpec => FindingsKeepUp
<1> DEFINE KeepsUp ==
        Diagnoses =>
          /\ finding'.conclusion = Primary
          /\ finding'.confidence = Calibrated(Primary)
          /\ finding.conclusion = Primary =>
               finding'.episode = finding.episode /\ finding'.tags = finding.tags
<1>1. CacheIsOfFinding => KeepsUp
  BY RunOfDiagnosis DEF Diagnoses, ViewFinding, InsightsCron
<1>2. CacheIsOfFinding => [KeepsUp]_diagnosisVars
  BY <1>1
<1> QED BY <1>2, CacheInit, CacheStep, PTL DEF DiagnosisSpec, FindingsKeepUp

(***************************************************************************)
(* Types of the findings.  One of the conclusions always holds, and no count *)
(* of votes is greater than all votes.                                     *)
(***************************************************************************)

RealFindings == [conclusion : Conclusion, confidence : Confidences,
                 episode : 1 .. MaxEpisodes, tags : LogTags]

DiagnosisTypes == DiagnosisTypeOK /\ (unhealthy => episode # 0)

LEMMA ConclusionsAreListed ==
    /\ DOMAIN Conclusions = 1 .. 10 /\ Conclusions[10] = "fallback"
    /\ \A i \in 1 .. 10 : Conclusions[i] \in Conclusion
    /\ "none" \notin Conclusion /\ "oom_confirmed" \in Conclusion
    /\ IsFiniteSet(Conclusion)
<1>1. DOMAIN Conclusions = 1 .. 10 /\ Conclusions[10] = "fallback" /\ Conclusions[1] = "oom_confirmed"
  BY DEF Conclusions
<1>2. ASSUME NEW i \in 1 .. 10 PROVE Conclusions[i] # "none"
  <2>1. /\ Conclusions[1] # "none" /\ Conclusions[2] # "none" /\ Conclusions[3] # "none"
        /\ Conclusions[4] # "none" /\ Conclusions[5] # "none" /\ Conclusions[6] # "none"
        /\ Conclusions[7] # "none" /\ Conclusions[8] # "none" /\ Conclusions[9] # "none"
        /\ Conclusions[10] # "none"
    BY DEF Conclusions
  <2> QED BY <2>1
<1>3. IsFiniteSet(1 .. 10)
  <2>1. \A n \in Int : IsFiniteSet(1 .. n)
    BY FS_Interval
  <2>2. 10 \in Int
    OBVIOUS
  <2> QED BY <2>1, <2>2, Zenon
<1>4. IsFiniteSet(Conclusion)
  <2> DEFINE name == [i \in 1 .. 10 |-> Conclusions[i]]
  <2>1. name \in Surjection(1 .. 10, Conclusion)
    BY <1>1 DEF Surjection, Conclusion
  <2> HIDE DEF name
  <2> QED BY <1>3, <2>1, FS_Surjection
<1> QED BY <1>1, <1>2, <1>4 DEF Conclusion

\* There is a most specific signal: the last of the conclusions always holds.
LEMMA PrimaryIsConclusion ==
    ASSUME NEW tags
    PROVE  PrimaryOf(tags) \in Conclusion
<1> DEFINE firing == {i \in 1 .. 10 : Fires(Conclusions[i], tags)}
<1>1. Fires(Conclusions[10], tags)
  BY ConclusionsAreListed DEF Fires
<1>2. PICK m \in firing : \A j \in firing : m <= j
  <2>1. firing \subseteq Nat /\ 10 \in firing
    BY <1>1
  <2> HIDE DEF firing
  <2> QED BY <2>1, LeastExists
<1>3. m \in DOMAIN Conclusions /\ Fires(Conclusions[m], tags)
      /\ \A j \in 1 .. m - 1 : ~Fires(Conclusions[j], tags)
  <2>1. ASSUME NEW j \in 1 .. m - 1, Fires(Conclusions[j], tags) PROVE FALSE
    BY <1>2, <2>1
  <2> QED BY <1>2, <2>1, ConclusionsAreListed
<1> DEFINE first == CHOOSE i \in DOMAIN Conclusions :
                Fires(Conclusions[i], tags) /\ \A j \in 1 .. i - 1 : ~Fires(Conclusions[j], tags)
<1>4. first \in DOMAIN Conclusions
  BY <1>3
<1>5. PrimaryOf(tags) = Conclusions[first]
  BY DEF PrimaryOf
<1> HIDE DEF first
<1> QED BY <1>4, <1>5, ConclusionsAreListed

LEMMA ConfidencesAreTyped ==
    \A c : OwnConfidence(c) \in Confidences /\ Calibrated(c) \in Confidences
<1> TAKE c
<1>1. OwnConfidence(c) \in Confidences
  BY DEF OwnConfidence, Confidences
<1>2. \A v : Posterior(v) \in Confidences
  BY DEF Posterior, Confidences
<1> QED BY <1>1, <1>2 DEF Calibrated

\* What is diagnosed while the container is unhealthy is a finding.
LEMMA DiagnosedIsTyped ==
    ASSUME DiagnosisTypes, unhealthy, RunDiagnosis
    PROVE  sticky' \in Findings /\ finding' \in Findings
<1>1. Raw \in RealFindings
  <2>1. PICK e \in 1 .. MaxEpisodes : e = episode
    BY DiagnosisAssumption DEF DiagnosisTypes, DiagnosisTypeOK
  <2>2. PICK c \in Conclusion, own \in Confidences : c = Primary /\ own = OwnConfidence(Primary)
    BY PrimaryIsConclusion, ConfidencesAreTyped DEF Primary
  <2>3. PICK tags \in LogTags : tags = logTags
    BY DEF DiagnosisTypes, DiagnosisTypeOK
  <2>4. Raw = [conclusion |-> c, confidence |-> own, episode |-> e, tags |-> tags]
    BY <2>1, <2>2, <2>3 DEF Raw
  <2> QED BY <2>4 DEF RealFindings
<1>2. Sticky(Raw) \in RealFindings
  <2>1. CASE sticky.conclusion = Raw.conclusion
    <3>1. sticky \in Findings /\ sticky.conclusion \in Conclusion
      BY <1>1, <2>1 DEF RealFindings, DiagnosisTypes, DiagnosisTypeOK
    <3>2. NoFinding.conclusion = "none"
      BY DEF NoFinding
    <3>3. sticky \in RealFindings
      BY <3>1, <3>2, ConclusionsAreListed DEF Findings, RealFindings
    <3> QED BY <2>1, <3>3 DEF Sticky
  <2> QED BY <1>1, <2>1 DEF Sticky
<1>3. PICK f \in RealFindings : f = Sticky(Raw)
  BY <1>2
<1>4. PICK given \in Confidences : given = Calibrated(f.conclusion)
  BY ConfidencesAreTyped
<1>5. Diagnosed = [sticky |-> f, finding |-> [f EXCEPT !.confidence = given]]
  BY <1>3, <1>4 DEF Diagnosed
<1>6. sticky' = f /\ finding' = [f EXCEPT !.confidence = given]
  BY <1>5 DEF RunDiagnosis
<1>7. finding' \in RealFindings
  BY <1>3, <1>4, <1>6 DEF RealFindings
<1> QED BY <1>6, <1>7 DEF Findings, RealFindings

\* A vote: none of the counts is greater than all votes.
LEMMA FeedbackIsTyped ==
    ASSUME DiagnosisTypes, Feedback
    PROVE  votes' \in [Conclusion -> [helpful : 0 .. MaxVotes, unhelpful : 0 .. MaxVotes]]
<1>1. PICK k \in Conclusion : k = KindOf(finding.conclusion)
  <2>1. finding \in Findings /\ finding # NoFinding
    BY DEF Feedback, DiagnosisTypes, DiagnosisTypeOK
  <2>2. finding.conclusion \in Conclusion
    BY <2>1 DEF Findings
  <2> QED BY <2>2, ConclusionsAreListed DEF KindOf
<1>2. votes \in [Conclusion -> [helpful : 0 .. MaxVotes, unhelpful : 0 .. MaxVotes]] /\ MaxVotes \in Nat
  BY DiagnosisAssumption DEF DiagnosisTypes, DiagnosisTypeOK
<1>3. PICK h \in 0 .. MaxVotes, u \in 0 .. MaxVotes :
        h = votes[k].helpful /\ u = votes[k].unhelpful /\ votes[k] = [helpful |-> h, unhelpful |-> u]
  BY <1>2
<1>4. h < MaxVotes /\ u < MaxVotes
  <2> DEFINE n == [c \in Conclusion |-> votes[c].helpful + votes[c].unhelpful]
  <2>1. (\A c \in Conclusion : n[c] \in Nat) /\ n[k] = h + u
    BY <1>2, <1>3
  <2>2. TotalVotes = MapThenSumSet(LAMBDA c : n[c], Conclusion)
    BY DEF TotalVotes
  <2> HIDE DEF n
  <2>3. TotalVotes = Sums(n, Conclusion)[Conclusion]
    BY <2>2, MapThenSumIsSum
  <2>4. TotalVotes \in Nat /\ n[k] <= TotalVotes
    BY <2>1, <2>3, SumIsNat, ConclusionsAreListed
  <2>5. TotalVotes < MaxVotes
    BY DEF Feedback
  <2> QED BY <1>2, <2>1, <2>4, <2>5
<1>5. PICK w \in {"helpful", "unhelpful"} : votes' = [votes EXCEPT ![k][w] = @ + 1]
  BY <1>1 DEF Feedback
<1>6. CASE w = "helpful"
  <2>1. PICK v : v = votes[k] /\ v = [helpful |-> h, unhelpful |-> u]
    BY <1>3
  <2>2. [v EXCEPT !["helpful"] = @ + 1] = [helpful |-> h + 1, unhelpful |-> u]
    BY <2>1
  <2>3. votes' = [votes EXCEPT ![k] = [v EXCEPT !["helpful"] = @ + 1]]
    BY <1>5, <1>6, <2>1
  <2>4. votes' = [votes EXCEPT ![k] = [helpful |-> h + 1, unhelpful |-> u]]
    BY <2>2, <2>3
  <2> QED BY <1>2, <1>4, <2>4
<1>7. CASE w = "unhelpful"
  <2>1. PICK v : v = votes[k] /\ v = [helpful |-> h, unhelpful |-> u]
    BY <1>3
  <2>2. [v EXCEPT !["unhelpful"] = @ + 1] = [helpful |-> h, unhelpful |-> u + 1]
    BY <2>1
  <2>3. votes' = [votes EXCEPT ![k] = [v EXCEPT !["unhelpful"] = @ + 1]]
    BY <1>5, <1>7, <2>1
  <2>4. votes' = [votes EXCEPT ![k] = [helpful |-> h, unhelpful |-> u + 1]]
    BY <2>2, <2>3
  <2> QED BY <1>2, <1>4, <2>4
<1> QED BY <1>6, <1>7

LEMMA DiagnosisTypesInit == DiagnosisInit => DiagnosisTypes
<1> SUFFICES ASSUME DiagnosisInit PROVE DiagnosisTypes
  OBVIOUS
<1>1. 0 \in 0 .. MaxEpisodes /\ 0 \in 0 .. MaxVotes /\ 0 \in 0 .. MaxReboots
  BY DiagnosisAssumption
<1>2. NoFinding \in Findings /\ NoEntry \in LogTags
  BY DEF Findings, LogTags
<1>3. votes \in [Conclusion -> [helpful : 0 .. MaxVotes, unhelpful : 0 .. MaxVotes]]
  BY <1>1 DEF DiagnosisInit
<1> QED BY <1>1, <1>2, <1>3 DEF DiagnosisInit, DiagnosisTypes, DiagnosisTypeOK

LEMMA DiagnosisTypesNext == DiagnosisTypes /\ [DiagnosisNext]_diagnosisVars => DiagnosisTypes'
<1> SUFFICES ASSUME DiagnosisTypes, [DiagnosisNext]_diagnosisVars PROVE DiagnosisTypes'
  OBVIOUS
<1>1. NoFinding \in Findings /\ NoEntry \in LogTags
  BY DEF Findings, LogTags
<1>2. CASE NewRow
  <2>1. episode' \in 0 .. MaxEpisodes /\ (unhealthy' => episode' # 0)
    BY <1>2, DiagnosisAssumption DEF NewRow, DiagnosisTypes, DiagnosisTypeOK
  <2> QED BY <1>2, <2>1 DEF NewRow, DiagnosisTypes, DiagnosisTypeOK
<1>3. CASE LogsChange
  BY <1>3 DEF LogsChange, DiagnosisTypes, DiagnosisTypeOK
<1>4. CASE ViewFinding
  <2>1. sticky' \in Findings /\ finding' \in Findings
    BY <1>4, DiagnosedIsTyped DEF ViewFinding
  <2> QED BY <1>4, <2>1 DEF ViewFinding, DiagnosisTypes, DiagnosisTypeOK
<1>5. CASE InsightsCron
  <2>1. {sticky', finding', insight'} \subseteq Findings
    <3>1. CASE unhealthy
      BY <1>5, <3>1, DiagnosedIsTyped DEF InsightsCron
    <3>2. CASE ~unhealthy
      BY <1>1, <1>5, <3>2 DEF InsightsCron, DiagnosisTypes, DiagnosisTypeOK
    <3> QED BY <3>1, <3>2
  <2> QED BY <1>5, <2>1 DEF InsightsCron, DiagnosisTypes, DiagnosisTypeOK
<1>6. CASE Feedback
  BY <1>6, FeedbackIsTyped DEF Feedback, DiagnosisTypes, DiagnosisTypeOK
<1>7. CASE HubReboots
  <2>1. reboots' \in 0 .. MaxReboots
    BY <1>7, DiagnosisAssumption DEF HubReboots, DiagnosisTypes, DiagnosisTypeOK
  <2> QED BY <1>1, <1>7, <2>1 DEF HubReboots, DiagnosisTypes, DiagnosisTypeOK
<1>8. CASE UNCHANGED diagnosisVars
  BY <1>8 DEF diagnosisVars, DiagnosisTypes, DiagnosisTypeOK
<1> QED BY <1>2, <1>3, <1>4, <1>5, <1>6, <1>7, <1>8 DEF DiagnosisNext

\* Findings, votes and caches keep to their types.
THEOREM DiagnosisTypeCorrect == DiagnosisSpec => []DiagnosisTypeOK
<1>1. DiagnosisTypes => DiagnosisTypeOK
  BY DEF DiagnosisTypes
<1> QED BY <1>1, DiagnosisTypesInit, DiagnosisTypesNext, PTL DEF DiagnosisSpec

(***************************************************************************)
(* Log patterns, for any texts, tails and bounds: no text is written more  *)
(* often than all of them, and what is shown is a sum.                     *)
(***************************************************************************)

LEMMA SumsAreNats ==
    ASSUME NEW S, IsFiniteSet(S), NEW g, \A t \in S : g[t] \in Nat
    PROVE  Sum(g, S) \in Nat /\ \A t \in S : g[t] <= Sum(g, S)
<1>1. Sum(g, S) = Sums(g, S)[S]
  BY FoldIsSum DEF Sum
<1> QED BY <1>1, SumIsNat

LEMMA MiningTypesInit == MiningInit => MiningTypeOK
<1> SUFFICES ASSUME MiningInit PROVE MiningTypeOK
  OBVIOUS
<1>1. 0 \in 0 .. MaxLines /\ 0 \in Days /\ 0 \in 0 .. MaxMisses /\ 0 \in 0 .. MaxOccurrences
  BY MiningAssumption DEF Days, MaxOccurrences
<1>2. NoEvent \in EventRow /\ NoFetch.state = "no" /\ NoFetch.lines = <<>>
  BY <1>1 DEF NoEvent, NoFetch, EventRow
<1>3. tail \in Seq(Text) /\ Len(tail) <= TailLines
  BY MiningAssumption DEF MiningInit
<1>4. fetch.state = "no" /\ fetch.lines \in Seq(Text)
  BY <1>2 DEF MiningInit
<1>5. events \in [Matching -> EventRow]
  BY <1>2 DEF MiningInit
<1>6. written \in [Text -> 0 .. MaxLines] /\ lastDay \in [Matching -> Days]
  BY <1>1 DEF MiningInit
<1>7. sick = FALSE /\ phase = 0 /\ cacheAge = Period /\ pending = FALSE /\ shown = 0 /\ misses = 0
  BY DEF MiningInit
<1>8. phase \in 0 .. Period - 1 /\ cacheAge \in 0 .. Period
  BY <1>7 DEF Period
<1> QED BY <1>1, <1>3, <1>4, <1>5, <1>6, <1>7, <1>8 DEF MiningTypeOK

\* A line is written: none is written more often than all of them.
LEMMA WriteIsTyped ==
    ASSUME MiningTypeOK, NEW t \in Text, WriteLine(t)
    PROVE  MiningTypeOK'
<1>1. PICK n \in 0 .. MaxLines : n = written[t] /\ n < MaxLines
  <2>1. written[t] \in 0 .. MaxLines /\ IsFiniteSet(Text) /\ \A x \in Text : written[x] \in Nat
    <3>1. written \in [Text -> 0 .. MaxLines]
      BY DEF MiningTypeOK
    <3> QED BY <3>1, MiningAssumption
  <2>2. Sum(written, Text) \in Nat /\ written[t] <= Sum(written, Text)
    BY <2>1, SumsAreNats
  <2>3. Sum(written, Text) < MaxLines
    BY DEF WriteLine
  <2> QED BY <2>1, <2>2, <2>3, MiningAssumption
<1>2. written' \in [Text -> 0 .. MaxLines]
  <2>1. n + 1 \in 0 .. MaxLines /\ written' = [written EXCEPT ![t] = n + 1]
    BY <1>1, MiningAssumption DEF WriteLine
  <2> QED BY <2>1 DEF MiningTypeOK
<1>3. tail' \in Seq(Text) /\ Len(tail') <= TailLines
  <2>1. PICK all \in Seq(Text) : all = Append(tail, t) /\ Len(all) = Len(tail) + 1
    <3>1. tail \in Seq(Text)
      BY DEF MiningTypeOK
    <3>2. Append(tail, t) \in Seq(Text) /\ Len(Append(tail, t)) = Len(tail) + 1
      BY <3>1, AppendProperties
    <3> QED BY <3>2
  <2>2. Len(tail) \in Nat /\ Len(tail) <= TailLines /\ TailLines \in Nat \ {0}
    BY MiningAssumption DEF MiningTypeOK
  <2>3. PICK k \in {1, 2} : k = 1 + (IF Len(all) > TailLines THEN 1 ELSE 0) /\ tail' = SubSeq(all, k, Len(all))
    BY <2>1 DEF WriteLine
  <2>4. k \in 1 .. Len(all) + 1 /\ Len(all) \in 0 .. Len(all)
    BY <2>1, <2>2, <2>3
  <2>5. tail' \in Seq(Text) /\ Len(tail') = IF k <= Len(all) THEN Len(all) - k + 1 ELSE 0
    BY <2>1, <2>3, <2>4, SubSeqProperties
  <2> QED BY <2>1, <2>2, <2>3, <2>5
<1>4. lastDay' \in [Matching -> Days]
  <2>1. 0 \in Days
    BY MiningAssumption DEF Days
  <2> QED BY <2>1 DEF WriteLine, MiningTypeOK
<1> QED BY <1>2, <1>3, <1>4 DEF WriteLine, MiningTypeOK

LEMMA AskIsTyped ==
    ASSUME MiningTypeOK, Ask
    PROVE  pending' \in BOOLEAN /\ fetch'.state \in {"no", "asked", "answered"} /\ fetch'.lines \in Seq(Text)
<1>1. PICK asked : asked = [NoFetch EXCEPT !.state = "asked"] /\ asked.state = "asked" /\ asked.lines = <<>>
  <2>1. PICK none : none = NoFetch /\ none = [state |-> "no", lines |-> <<>>]
    BY DEF NoFetch
  <2>2. [none EXCEPT !.state = "asked"] = [state |-> "asked", lines |-> <<>>]
    BY <2>1
  <2> QED BY <2>1, <2>2
<1>2. fetch' = fetch \/ fetch' = asked
  BY <1>1 DEF Ask
<1>3. pending' = TRUE
  BY DEF Ask
<1>4. fetch.state \in {"no", "asked", "answered"} /\ fetch.lines \in Seq(Text)
  BY DEF MiningTypeOK
<1>5. CASE fetch' = fetch
  BY <1>3, <1>4, <1>5
<1>6. CASE fetch' = asked
  <2>1. <<>> \in Seq(Text)
    OBVIOUS
  <2> QED BY <1>1, <1>3, <1>6, <2>1
<1> QED BY <1>2, <1>5, <1>6

\* A number of lines is counted up to the bound.
LEMMA RecordedIsTyped ==
    ASSUME MiningTypeOK, NEW lines \in Seq(Text)
    PROVE  Recorded(lines) \in [Matching -> EventRow]
<1> SUFFICES ASSUME NEW t \in Matching PROVE Recorded(lines)[t] \in EventRow
  BY DEF Recorded
<1>1. PICK n \in Nat : n = Cardinality({i \in DOMAIN lines : lines[i] = t})
  <2>1. IsFiniteSet(DOMAIN lines)
    BY FS_Interval, LenProperties
  <2> QED BY <2>1, SizeIsNat
<1>2. PICK e \in EventRow : e = events[t]
  BY DEF MiningTypeOK, EventRow
<1>3. PICK sum \in Nat : sum = e.occurrences + n
  BY MiningAssumption DEF EventRow, MaxOccurrences
<1>4. 0 \in Days /\ MaxOccurrences \in Nat
  BY MiningAssumption DEF Days, MaxOccurrences
<1>5. PICK count \in 0 .. MaxOccurrences : count = IF sum > MaxOccurrences THEN MaxOccurrences ELSE sum
  BY <1>4
<1>6. PICK fired \in Days : fired = IF e = NoEvent THEN 0 ELSE e.fired
  BY <1>4 DEF EventRow
<1>7. Recorded(lines)[t] = IF n = 0 THEN e ELSE [occurrences |-> count, fired |-> fired, seen |-> 0]
  BY <1>1, <1>2, <1>3, <1>5, <1>6 DEF Recorded
<1> QED BY <1>4, <1>7 DEF EventRow

LEMMA FetchIsTyped ==
    ASSUME MiningTypeOK, AgentAnswers \/ HandleLogs \/ FetchFails \/ HubRestarts
    PROVE  MiningTypeOK'
<1>1. NoFetch.state = "no" /\ NoFetch.lines = <<>>
  BY DEF NoFetch
<1>2. CASE AgentAnswers
  <2>1. fetch'.state = "answered" /\ fetch'.lines = tail
    BY <1>2 DEF AgentAnswers
  <2> QED BY <1>2, <2>1 DEF AgentAnswers, MiningTypeOK
<1>3. CASE HandleLogs
  <2>1. events' \in [Matching -> EventRow]
    BY <1>3, RecordedIsTyped DEF HandleLogs, MiningTypeOK
  <2>3. fetch' = NoFetch /\ pending' = FALSE /\ cacheAge' = 0 /\ 0 \in 0 .. Period /\ <<>> \in Seq(Text)
    BY <1>3 DEF HandleLogs, Period
  <2> QED BY <1>1, <1>3, <2>1, <2>3 DEF HandleLogs, MiningTypeOK
<1>4. CASE FetchFails \/ HubRestarts
  <2>1. misses' \in 0 .. MaxMisses
    BY <1>4, MiningAssumption DEF FetchFails, HubRestarts, MiningTypeOK
  <2>2. fetch' = NoFetch /\ pending' = FALSE /\ <<>> \in Seq(Text)
    BY <1>4 DEF FetchFails, HubRestarts, PendingAfterFailure
  <2>3. cacheAge' \in 0 .. Period
    BY <1>4 DEF FetchFails, HubRestarts, MiningTypeOK, Period
  <2> QED BY <1>1, <1>4, <2>1, <2>2, <2>3 DEF FetchFails, HubRestarts, MiningTypeOK
<1> QED BY <1>2, <1>3, <1>4

\* The cron shows the sum of what is recorded of the day.
LEMMA CronIsTyped ==
    ASSUME MiningTypeOK, FiveMinutes
    PROVE  MiningTypeOK'
<1>1. shown' \in Nat
  <2>1. CASE phase' = 0
    <3>1. IsFiniteSet(Recent)
      BY MiningAssumption, FS_Subset DEF Recent
    <3> DEFINE counts == [t \in Recent |-> events[t].occurrences]
    <3>2. \A t \in Recent : counts[t] \in Nat
      BY MiningAssumption DEF Recent, MiningTypeOK, MaxOccurrences, EventRow
    <3>3. shown' = Sum(counts, Recent)
      BY <2>1 DEF FiveMinutes
    <3> HIDE DEF counts
    <3> QED BY <3>1, <3>2, <3>3, SumsAreNats
  <2> QED BY <2>1 DEF FiveMinutes, MiningTypeOK
<1>2. pending' \in BOOLEAN /\ fetch'.state \in {"no", "asked", "answered"} /\ fetch'.lines \in Seq(Text)
  <2>1. CASE phase' = 0
    BY <2>1, AskIsTyped DEF FiveMinutes
  <2> QED BY <2>1 DEF FiveMinutes, MiningTypeOK
<1>3. phase' \in 0 .. Period - 1 /\ cacheAge' \in 0 .. Period
  BY DEF FiveMinutes, Period, Older, MiningTypeOK
<1> QED BY <1>1, <1>2, <1>3 DEF FiveMinutes, MiningTypeOK

LEMMA DayIsTyped ==
    ASSUME MiningTypeOK, DayPasses
    PROVE  MiningTypeOK'
<1> DEFINE Aged(d) == IF d > Retention THEN d ELSE d + 1
<1>1. \A d \in Days : Aged(d) \in Days
  BY MiningAssumption DEF Days
<1>2. /\ lastDay' = [t \in Matching |-> Aged(lastDay[t])]
      /\ events' = [t \in Matching |->
            IF events[t] = NoEvent \/ events[t].fired >= Retention THEN NoEvent
            ELSE [events[t] EXCEPT !.fired = Aged(@), !.seen = Aged(@)]]
  BY DEF DayPasses
<1> HIDE DEF Aged
<1>3. lastDay' \in [Matching -> Days]
  BY <1>1, <1>2 DEF MiningTypeOK
<1>4. ASSUME NEW t \in Matching PROVE events'[t] \in EventRow
  <2>1. events[t] \in EventRow
    BY DEF MiningTypeOK
  <2>2. NoEvent \in EventRow
    BY MiningAssumption DEF NoEvent, EventRow, MaxOccurrences, Days
  <2>3. CASE events[t] = NoEvent \/ events[t].fired >= Retention
    BY <1>2, <2>2, <2>3
  <2>4. CASE ~(events[t] = NoEvent \/ events[t].fired >= Retention)
    <3>1. PICK x \in Days, y \in Days : x = Aged(events[t].fired) /\ y = Aged(events[t].seen)
      BY <1>1, <2>1 DEF EventRow
    <3>2. events'[t] = [events[t] EXCEPT !.fired = x, !.seen = y]
      BY <1>2, <2>4, <3>1
    <3> QED BY <2>1, <3>2 DEF EventRow
  <2> QED BY <2>3, <2>4
<1>5. events' \in [Matching -> EventRow]
  BY <1>2, <1>4
<1>6. cacheAge' = Period
  BY DEF DayPasses
<1>7. cacheAge' \in 0 .. Period
  BY <1>6 DEF Period
<1> QED BY <1>3, <1>5, <1>7 DEF DayPasses, MiningTypeOK

LEMMA MiningTypesNext == MiningTypeOK /\ [MiningNext]_miningVars => MiningTypeOK'
<1> SUFFICES ASSUME MiningTypeOK, [MiningNext]_miningVars PROVE MiningTypeOK'
  OBVIOUS
<1>1. CASE HealthChanges \/ ViewContainer
  <2>1. pending' \in BOOLEAN /\ fetch'.state \in {"no", "asked", "answered"} /\ fetch'.lines \in Seq(Text)
    BY <1>1, AskIsTyped DEF HealthChanges, ViewContainer, MiningTypeOK
  <2> QED BY <1>1, <2>1 DEF HealthChanges, ViewContainer, MiningTypeOK
<1>2. CASE UNCHANGED miningVars
  BY <1>2 DEF miningVars, MiningTypeOK
<1> QED BY <1>1, <1>2, WriteIsTyped, FetchIsTyped, CronIsTyped, DayIsTyped DEF MiningNext

\* Counts, days and tails keep to their types.
THEOREM MiningTypeCorrect == MiningSpec => []MiningTypeOK
BY MiningTypesInit, MiningTypesNext, PTL DEF MiningSpec

(***************************************************************************)
(* Insights about the containers of a host, for any containers and rows.   *)
(***************************************************************************)

LEMMA NewestRowsKeep ==
    ASSUME NEW S, NEW s \in Seq(S), NEW n \in Nat
    PROVE  NewestRows(s, n) \in Seq(S) /\ Len(NewestRows(s, n)) = IF Len(s) > n THEN n ELSE Len(s)
<1>1. PICK k \in 1 .. Len(s) + 1 : k = 1 + (IF Len(s) > n THEN Len(s) - n ELSE 0)
  BY LenProperties
<1>2. Len(s) \in Nat /\ NewestRows(s, n) = SubSeq(s, k, Len(s))
  BY <1>1, LenProperties DEF NewestRows
<1>3. k \in Int /\ Len(s) \in Int /\ \A i \in k .. Len(s) : s[i] \in S
  <2>1. \A i \in 1 .. Len(s) : s[i] \in S
    BY ElementOfSeq
  <2>2. k \in Int /\ 1 <= k /\ Len(s) \in Int
    BY <1>1, <1>2
  <2>3. \A i \in k .. Len(s) : i \in 1 .. Len(s)
    BY <2>2
  <2> QED BY <2>1, <2>2, <2>3
<1>4. NewestRows(s, n) \in Seq(S) /\ Len(NewestRows(s, n)) = IF k <= Len(s) THEN Len(s) - k + 1 ELSE 0
  BY <1>2, <1>3, SubSeqProperties
<1>5. PICK m \in Nat : m = Len(s)
  BY <1>2
<1>6. k = (IF m > n THEN 1 + (m - n) ELSE 1)
  BY <1>1, <1>5
<1>7. (IF k <= m THEN m - k + 1 ELSE 0) = (IF m > n THEN n ELSE m)
  BY <1>6
<1> QED BY <1>4, <1>5, <1>7

LEMMA InsightsTypesInit == InsightsInit => InsightsTypeOK
<1> SUFFICES ASSUME InsightsInit PROVE InsightsTypeOK
  OBVIOUS
<1>1. ASSUME NEW c \in Containers PROVE week[c] \in Seq(Rows) /\ Len(week[c]) = Week
  <2>1. week[c] = [i \in 1 .. Week |-> "none"] /\ Week \in Nat /\ "none" \in Rows
    BY InsightsAssumption DEF InsightsInit, Rows
  <2> QED BY <2>1
<1>2. ASSUME NEW c \in Hot PROVE lastRuns[c] \in Seq({"up", "high"}) /\ Len(lastRuns[c]) <= Sustained
  <2>1. lastRuns[c] = <<>> /\ Sustained \in Nat
    BY InsightsAssumption DEF InsightsInit
  <2> QED BY <2>1
<1>3. registry \in [Containers -> {"unknown", "listed", "removed"}] /\ insights = {}
  BY DEF InsightsInit
<1> QED BY <1>1, <1>2, <1>3 DEF InsightsTypeOK

\* A collection replaces the oldest rows.
LEMMA CollectionIsTyped ==
    ASSUME InsightsTypeOK, Collection
    PROVE  InsightsTypeOK'
<1>1. PICK l \in Listing :
        /\ week' = [c \in Containers |-> NewestRows(Append(week[c], l[c]), Week)]
        /\ lastRuns' = [c \in Hot |->
            IF Ran(l[c]) THEN NewestRows(Append(lastRuns[c], l[c]), Sustained) ELSE lastRuns[c]]
        /\ registry' = [c \in Containers |->
            CASE l[c] # "none" -> "listed"
              [] registry[c] = "listed" /\ \E d \in Containers : l[d] # "none" -> "removed"
              [] OTHER -> registry[c]]
        /\ UNCHANGED insights
  BY DEF Collection
<1>2. l \in [Containers -> Rows] /\ Hot \subseteq Containers /\ Week \in Nat /\ Sustained \in Nat
  BY InsightsAssumption DEF Listing
<1>3. ASSUME NEW c \in Containers PROVE week'[c] \in Seq(Rows) /\ Len(week'[c]) = Week
  <2>1. week[c] \in Seq(Rows) /\ Len(week[c]) = Week /\ l[c] \in Rows
    BY <1>2 DEF InsightsTypeOK
  <2>2. Append(week[c], l[c]) \in Seq(Rows) /\ Len(Append(week[c], l[c])) = Week + 1
    BY <2>1, AppendProperties
  <2>3. PICK s \in Seq(Rows) : s = Append(week[c], l[c]) /\ Len(s) = Week + 1
    BY <2>2
  <2>4. week'[c] = NewestRows(s, Week)
    BY <1>1, <2>3
  <2>5. NewestRows(s, Week) \in Seq(Rows) /\ Len(NewestRows(s, Week)) = IF Len(s) > Week THEN Week ELSE Len(s)
    BY <1>2, NewestRowsKeep
  <2> QED BY <1>2, <2>3, <2>4, <2>5
<1>4. ASSUME NEW c \in Hot
      PROVE  lastRuns'[c] \in Seq({"up", "high"}) /\ Len(lastRuns'[c]) <= Sustained
  <2>1. lastRuns[c] \in Seq({"up", "high"}) /\ Len(lastRuns[c]) <= Sustained
    BY DEF InsightsTypeOK
  <2>2. CASE Ran(l[c])
    <3>1. l[c] \in {"up", "high"}
      BY <2>2 DEF Ran
    <3>2. Append(lastRuns[c], l[c]) \in Seq({"up", "high"})
          /\ Len(Append(lastRuns[c], l[c])) = Len(lastRuns[c]) + 1
      BY <2>1, <3>1, AppendProperties
    <3>3. PICK s \in Seq({"up", "high"}) : s = Append(lastRuns[c], l[c]) /\ Len(s) = Len(lastRuns[c]) + 1
      BY <3>2
    <3>6. lastRuns'[c] = NewestRows(s, Sustained)
      BY <1>1, <2>2, <3>3
    <3>7. NewestRows(s, Sustained) \in Seq({"up", "high"})
          /\ Len(NewestRows(s, Sustained)) = IF Len(s) > Sustained THEN Sustained ELSE Len(s)
      BY <1>2, NewestRowsKeep
    <3>4. lastRuns'[c] \in Seq({"up", "high"})
          /\ Len(lastRuns'[c]) = IF Len(lastRuns[c]) + 1 > Sustained THEN Sustained ELSE Len(lastRuns[c]) + 1
      BY <3>3, <3>6, <3>7
    <3>5. Len(lastRuns[c]) \in Nat
      BY <2>1, LenProperties
    <3> QED BY <1>2, <2>1, <3>4, <3>5
  <2>3. CASE ~Ran(l[c])
    BY <1>1, <2>1, <2>3
  <2> QED BY <2>2, <2>3
<1>5. registry' \in [Containers -> {"unknown", "listed", "removed"}]
  <2>1. registry \in [Containers -> {"unknown", "listed", "removed"}]
    BY DEF InsightsTypeOK
  <2> QED BY <1>1, <2>1
<1>6. \A i \in insights' : i.kind \in Kinds /\ i.about \subseteq Containers /\ i.count \in Nat
  BY <1>1 DEF InsightsTypeOK
<1> QED BY <1>3, <1>4, <1>5, <1>6 DEF InsightsTypeOK

IsInsight(i) == i.kind \in Kinds /\ i.about \subseteq Containers /\ i.count \in Nat

LEMMA AboutIsTyped ==
    ASSUME NEW S \in SUBSET Containers, NEW kind \in Kinds
    PROVE  IsFiniteSet(About(kind, S)) /\ \A i \in About(kind, S) : IsInsight(i)
<1>1. IsFiniteSet(S)
  BY InsightsAssumption, FS_Subset
<1> DEFINE insightOf == [c \in S |-> [kind |-> kind, about |-> {c}, count |-> 1]]
<1>2. insightOf \in Surjection(S, About(kind, S))
  BY DEF Surjection, About
<1>3. \A i \in About(kind, S) : IsInsight(i)
  BY DEF About, IsInsight
<1> HIDE DEF insightOf
<1> QED BY <1>1, <1>2, <1>3, FS_Surjection

LEMMA FoundIsTyped == IsFiniteSet(Found) /\ \A i \in Found : IsInsight(i)
<1> DEFINE dips == {c \in OfRegistry : Dipped(c)}
           restarts == {c \in OfRegistry : RestartCount(c) >= Restarts}
           sustained == {c \in OfRegistry \cap Hot : SustainedHigh(c)}
           growing == {c \in Containers : Growing(c)}
<1>1. /\ dips \in SUBSET Containers /\ restarts \in SUBSET Containers
      /\ sustained \in SUBSET Containers /\ growing \in SUBSET Containers
  BY DEF OfRegistry
<1>2. Found = About("dip", dips) \cup About("restarts", restarts)
                \cup About("sustained", sustained) \cup About("prediction", growing)
  BY DEF Found
<1> HIDE DEF dips, restarts, sustained, growing
<1>3. {"dip", "restarts", "sustained", "prediction"} \subseteq Kinds
  BY DEF Kinds
<1>4. /\ IsFiniteSet(About("dip", dips)) /\ IsFiniteSet(About("restarts", restarts))
      /\ IsFiniteSet(About("sustained", sustained)) /\ IsFiniteSet(About("prediction", growing))
  BY <1>1, <1>3, AboutIsTyped
<1>5. IsFiniteSet(Found)
  BY <1>2, <1>4, FS_Union
<1>6. \A i \in Found : IsInsight(i)
  BY <1>1, <1>2, <1>3, AboutIsTyped
<1> QED BY <1>5, <1>6

\* What is said of several containers counts what was said of them.
LEMMA GenerateIsTyped ==
    ASSUME InsightsTypeOK, GenerateInsights
    PROVE  InsightsTypeOK'
<1> DEFINE availability == {i \in Found : i.kind \in {"dip", "restarts"}}
<1>1. PICK n \in Nat : n = Cardinality(availability)
  <2>1. availability \in SUBSET Found
    OBVIOUS
  <2> HIDE DEF availability
  <2> QED BY <2>1, FoundIsTyped, SizeIsNat
<1> DEFINE gone == [kind |-> "host gone", about |-> UNION {i.about : i \in availability}, count |-> n]
<1>2. IsInsight(gone)
  <2>1. gone.about \subseteq Containers
    BY FoundIsTyped DEF IsInsight
  <2>2. gone.kind \in Kinds /\ gone.count \in Nat
    BY DEF Kinds
  <2> HIDE DEF gone
  <2> QED BY <2>1, <2>2 DEF IsInsight
<1>3. insights' \subseteq Found \cup {gone}
  BY <1>1 DEF GenerateInsights, Enriched
<1> HIDE DEF gone
<1>4. \A i \in insights' : IsInsight(i)
  BY <1>2, <1>3, FoundIsTyped
<1> QED BY <1>4 DEF GenerateInsights, InsightsTypeOK, IsInsight

LEMMA InsightsTypesNext == InsightsTypeOK /\ [InsightsNext]_insightVars => InsightsTypeOK'
<1>1. InsightsTypeOK /\ UNCHANGED insightVars => InsightsTypeOK'
  BY DEF insightVars, InsightsTypeOK
<1> QED BY <1>1, CollectionIsTyped, GenerateIsTyped DEF InsightsNext

\* Rows and insights keep to their types: so many rows of every container, and no insight
\* about anything else.
THEOREM InsightsTypeCorrect == InsightsSpec => []InsightsTypeOK
BY InsightsTypesInit, InsightsTypesNext, PTL DEF InsightsSpec

(***************************************************************************)
(* Process events, for any processes, buffers and losses.                  *)
(***************************************************************************)

\* The argvs that the hub knows or has had its only definition of.
KnownArgvs == dictionary \cup undefined

\* What the messages of a queue define, up to one of them and all together.
DefsTo(queue, i) == UNION {queue[j].argv_defs : j \in 1 .. i}
DefsOf(queue) == DefsTo(queue, Len(queue))

\* Each message spawns what K has, or what it or one before it defines.
Told(K, queue) == \A i \in 1 .. Len(queue) : \A key \in queue[i].spawns :
    Argv[key[1]] \in K \cup DefsTo(queue, i)

\* Those whose exit may be told: the gone, and the running that a look missed.
Gone == ended \cup overlooked

\* Exits of host processes are of those that are gone.
TellsRealExits(queue, gone) == \A i \in 1 .. Len(queue) : \A key \in queue[i].exits :
    key[1] \notin InContainer => key[1] \in gone

\* The key of a host process is that of its start.
KeysAreStable == \A key \in prevKeys :
    key[1] \in alive \cup ended /\ (key[1] \notin InContainer => key[2] = 0)

DefsComeFirst ==
    /\ Told(KnownArgvs, wire)
    /\ Told(KnownArgvs \cup DefsOf(wire), buffer)
    /\ shippedHashes \subseteq KnownArgvs \cup DefsOf(wire) \cup DefsOf(buffer)

ExitsAreReal ==
    TellsRealExits(wire, Gone) /\ TellsRealExits(buffer, Gone) /\ HostExitsAreReal

ProcessInv == ProcessTypeOK /\ KeysAreStable /\ DefsComeFirst /\ ExitsAreReal /\ ArgvIsKnown

\* Exits that are real stay so when more are gone.
LEMMA RealOfMore ==
    ASSUME NEW queue, NEW gone, NEW more, TellsRealExits(queue, gone), gone \subseteq more
    PROVE  TellsRealExits(queue, more)
BY DEF TellsRealExits

LEMMA InDefs ==
    ASSUME NEW queue, NEW i, NEW a
    PROVE  a \in DefsTo(queue, i) <=> \E j \in 1 .. i : a \in queue[j].argv_defs
BY DEF DefsTo

\* What holds of a queue holds when more is known.
LEMMA ToldOfMore ==
    ASSUME NEW K, NEW L, K \subseteq L, NEW queue, Told(K, queue)
    PROVE  Told(L, queue)
BY DEF Told

\* One message more.
LEMMA ToldAppended ==
    ASSUME NEW K, NEW queue \in Seq(Payload), NEW m \in Payload, Told(K, queue),
           \A key \in m.spawns : Argv[key[1]] \in K \cup DefsOf(queue) \cup m.argv_defs
    PROVE  /\ Told(K, Append(queue, m))
           /\ DefsOf(Append(queue, m)) = DefsOf(queue) \cup m.argv_defs
<1> DEFINE longer == Append(queue, m)
           n == Len(queue)
<1>1. n \in Nat /\ Len(longer) = n + 1 /\ longer[n + 1] = m /\ \A i \in 1 .. n : longer[i] = queue[i]
  OBVIOUS
<1> HIDE DEF longer, n
<1>2. \A i \in 1 .. n : DefsTo(longer, i) = DefsTo(queue, i)
  <2> SUFFICES ASSUME NEW i \in 1 .. n PROVE DefsTo(longer, i) = DefsTo(queue, i)
    OBVIOUS
  <2>1. \A j \in 1 .. i : j \in 1 .. n
    BY <1>1
  <2> QED BY <1>1, <2>1 DEF DefsTo
<1>3. DefsTo(longer, n + 1) = DefsTo(queue, n) \cup m.argv_defs
  <2>1. \A j : j \in 1 .. n + 1 <=> j \in 1 .. n \/ j = n + 1
    BY <1>1
  <2> QED BY <1>1, <2>1 DEF DefsTo
<1>4. ASSUME NEW i \in 1 .. n + 1, NEW key \in longer[i].spawns
      PROVE  Argv[key[1]] \in K \cup DefsTo(longer, i)
  <2>1. CASE i \in 1 .. n
    BY <1>1, <1>2, <1>4, <2>1 DEF Told, n
  <2>2. CASE i = n + 1
    BY <1>1, <1>3, <1>4, <2>2 DEF DefsOf, n
  <2> QED BY <1>1, <2>1, <2>2
<1> QED BY <1>1, <1>3, <1>4 DEF Told, DefsOf, longer, n

\* The oldest messages are gone, and what they defined is known.
LEMMA ToldWithoutOldest ==
    ASSUME NEW K, NEW queue \in Seq(Payload), Told(K, queue), NEW e \in 0 .. Len(queue)
    PROVE  LET rest == SubSeq(queue, e + 1, Len(queue)) IN
           /\ rest \in Seq(Payload) /\ Len(rest) = Len(queue) - e
           /\ \A i \in 1 .. Len(rest) : rest[i] = queue[e + i]
           /\ Told(K \cup DefsTo(queue, e), rest)
           /\ DefsOf(queue) = DefsTo(queue, e) \cup DefsOf(rest)
<1> DEFINE rest == SubSeq(queue, e + 1, Len(queue))
           n == Len(queue)
<1>1. n \in Nat /\ e \in 0 .. n /\ e \in Nat
  OBVIOUS
<1>2. rest \in Seq(Payload) /\ Len(rest) = n - e /\ \A i \in 1 .. n - e : rest[i] = queue[e + i]
  <2>1. \A i \in e + 1 .. n : queue[i] \in Payload
    BY <1>1, ElementOfSeq
  <2>2. e + 1 \in Int /\ n \in Int
    BY <1>1
  <2>3. /\ rest \in Seq(Payload)
        /\ Len(rest) = IF e + 1 <= n THEN n - (e + 1) + 1 ELSE 0
        /\ \A i \in 1 .. n - (e + 1) + 1 : rest[i] = queue[e + 1 + i - 1]
    <3> HIDE DEF n
    <3> QED BY <2>1, <2>2, SubSeqProperties DEF n
  <2>4. n - (e + 1) + 1 = n - e /\ (~(e + 1 <= n) => n - e = 0)
    BY <1>1
  <2>5. \A i \in 1 .. n - e : e + 1 + i - 1 = e + i
    BY <1>1
  <2> HIDE DEF n, rest
  <2> QED BY <1>1, <2>3, <2>4, <2>5
<1> HIDE DEF rest, n
<1>3. ASSUME NEW i \in 0 .. n - e
      PROVE  DefsTo(queue, e + i) = DefsTo(queue, e) \cup DefsTo(rest, i)
  <2>1. \A j \in 1 .. i : j \in 1 .. n - e /\ e + j \in 1 .. e + i
    BY <1>1
  <2>2. \A j \in 1 .. e + i : j \in 1 .. e \/ (j - e \in 1 .. i /\ j = e + (j - e))
    BY <1>1
  <2>3. \A j \in 1 .. e : j \in 1 .. e + i
    BY <1>1
  <2>4. \A j \in 1 .. i : rest[j] = queue[e + j]
    BY <1>2, <2>1
  <2>5. ASSUME NEW a \in DefsTo(queue, e + i)
        PROVE  a \in DefsTo(queue, e) \cup DefsTo(rest, i)
    <3>1. PICK j \in 1 .. e + i : a \in queue[j].argv_defs
      BY InDefs
    <3>2. CASE j \in 1 .. e
      BY <3>1, <3>2, InDefs
    <3>3. CASE j - e \in 1 .. i /\ j = e + (j - e)
      <4>1. a \in rest[j - e].argv_defs
        BY <2>4, <3>1, <3>3
      <4> QED BY <3>3, <4>1, InDefs
    <3> QED BY <2>2, <3>1, <3>2, <3>3
  <2>6. ASSUME NEW a \in DefsTo(queue, e) \cup DefsTo(rest, i)
        PROVE  a \in DefsTo(queue, e + i)
    <3>1. CASE a \in DefsTo(queue, e)
      BY <2>3, <3>1, InDefs
    <3>2. CASE a \in DefsTo(rest, i)
      <4>1. PICK j \in 1 .. i : a \in rest[j].argv_defs
        BY <3>2, InDefs
      <4>2. a \in queue[e + j].argv_defs /\ e + j \in 1 .. e + i
        BY <2>1, <2>4, <4>1
      <4> QED BY <4>2, InDefs
    <3> QED BY <2>6, <3>1, <3>2
  <2> QED BY <2>5, <2>6
<1>4. DefsOf(queue) = DefsTo(queue, e) \cup DefsOf(rest)
  <2>1. n - e \in 0 .. n - e /\ e + (n - e) = n
    BY <1>1
  <2> QED BY <1>2, <1>3, <2>1 DEF DefsOf, n
<1>5. ASSUME NEW i \in 1 .. n - e, NEW key \in rest[i].spawns
      PROVE  Argv[key[1]] \in K \cup DefsTo(queue, e) \cup DefsTo(rest, i)
  <2>1. e + i \in 1 .. n /\ i \in 0 .. n - e
    BY <1>1
  <2>2. key \in queue[e + i].spawns
    BY <1>2, <1>5
  <2>3. Argv[key[1]] \in K \cup DefsTo(queue, e + i)
    BY <2>1, <2>2 DEF Told, n
  <2> QED BY <1>3, <2>1, <2>3
<1>6. Told(K \cup DefsTo(queue, e), rest)
  BY <1>2, <1>5 DEF Told
<1> QED BY <1>2, <1>4, <1>6 DEF rest, n

\* A queue behind another.
LEMMA ToldBehind ==
    ASSUME NEW K, NEW p \in Seq(Payload), NEW q \in Seq(Payload),
           Told(K, p), Told(K \cup DefsOf(p), q)
    PROVE  Told(K, p \o q) /\ DefsOf(p \o q) = DefsOf(p) \cup DefsOf(q)
<1> DEFINE both == p \o q
           n == Len(p)
           k == Len(q)
<1>1. n \in Nat /\ k \in Nat
  OBVIOUS
<1>2. /\ Len(both) = n + k
      /\ \A i \in 1 .. n : both[i] = p[i]
      /\ \A i \in 1 .. k : both[n + i] = q[i]
  OBVIOUS
<1> HIDE DEF both, n, k
<1>3. \A i \in 1 .. n : DefsTo(both, i) = DefsTo(p, i)
  <2> SUFFICES ASSUME NEW i \in 1 .. n PROVE DefsTo(both, i) = DefsTo(p, i)
    OBVIOUS
  <2>1. \A j \in 1 .. i : j \in 1 .. n
    BY <1>1
  <2> QED BY <1>2, <2>1 DEF DefsTo
<1>4. ASSUME NEW i \in 0 .. k
      PROVE  DefsTo(both, n + i) = DefsTo(p, n) \cup DefsTo(q, i)
  <2>1. \A j \in 1 .. i : j \in 1 .. k /\ n + j \in 1 .. n + i
    BY <1>1
  <2>2. \A j \in 1 .. n + i : j \in 1 .. n \/ (j - n \in 1 .. i /\ j = n + (j - n))
    BY <1>1
  <2>3. \A j \in 1 .. n : j \in 1 .. n + i
    BY <1>1
  <2>4. \A j \in 1 .. i : both[n + j] = q[j]
    BY <1>2, <2>1
  <2>5. \A j \in 1 .. n : both[j] = p[j]
    BY <1>2
  <2>6. ASSUME NEW a \in DefsTo(both, n + i)
        PROVE  a \in DefsTo(p, n) \cup DefsTo(q, i)
    <3>1. PICK j \in 1 .. n + i : a \in both[j].argv_defs
      BY InDefs
    <3> QED BY <2>2, <2>4, <2>5, <3>1, InDefs
  <2>7. ASSUME NEW a \in DefsTo(p, n) \cup DefsTo(q, i)
        PROVE  a \in DefsTo(both, n + i)
    BY <2>1, <2>3, <2>4, <2>5, InDefs
  <2> QED BY <2>6, <2>7
<1>5. DefsOf(both) = DefsOf(p) \cup DefsOf(q)
  <2>1. k \in 0 .. k
    BY <1>1
  <2> QED BY <1>2, <1>4, <2>1 DEF DefsOf, n, k
<1>6. ASSUME NEW i \in 1 .. n + k, NEW key \in both[i].spawns
      PROVE  Argv[key[1]] \in K \cup DefsTo(both, i)
  <2>1. CASE i \in 1 .. n
    BY <1>2, <1>3, <1>6, <2>1 DEF Told, n
  <2>2. CASE i - n \in 1 .. k /\ i = n + (i - n)
    <3>1. i - n \in 0 .. k
      BY <2>2
    <3>2. key \in q[i - n].spawns
      BY <1>2, <1>6, <2>2
    <3>3. Argv[key[1]] \in K \cup DefsTo(p, n) \cup DefsTo(q, i - n)
      BY <2>2, <3>2 DEF Told, DefsOf, n, k
    <3> QED BY <1>4, <2>2, <3>1, <3>3
  <2> QED BY <1>1, <2>1, <2>2
<1> QED BY <1>2, <1>5, <1>6 DEF Told, both

\* What the buffer keeps of its messages (Evicted).
Kept(queue) ==
    IF Evicted(queue) > 0 THEN SubSeq(queue, Evicted(queue) + 1, Len(queue)) ELSE queue

LEMMA KeptIsTold ==
    ASSUME NEW K, NEW queue \in Seq(Payload), Told(K, queue),
           NEW gone, TellsRealExits(queue, gone)
    PROVE  /\ Kept(queue) \in Seq(Payload) /\ Len(Kept(queue)) <= BufferMaxCycles
           /\ Told(K \cup DefsTo(queue, Len(queue) - Len(Kept(queue))), Kept(queue))
           /\ DefsOf(queue) = DefsTo(queue, Len(queue) - Len(Kept(queue))) \cup DefsOf(Kept(queue))
           /\ TellsRealExits(Kept(queue), gone)
<1>1. Len(queue) \in Nat /\ BufferMaxCycles \in Nat
  BY ProcessAssumption
<1>2. CASE Evicted(queue) > 0
  <2> DEFINE e == Evicted(queue)
             rest == SubSeq(queue, e + 1, Len(queue))
  <2>1. e \in 0 .. Len(queue) /\ e = Len(queue) - BufferMaxCycles
    BY <1>1, <1>2 DEF Evicted
  <2>2. Kept(queue) = rest
    BY <1>2 DEF Kept
  <2> HIDE DEF e
  <2>3. /\ rest \in Seq(Payload) /\ Len(rest) = Len(queue) - e
        /\ \A i \in 1 .. Len(rest) : rest[i] = queue[e + i]
        /\ Told(K \cup DefsTo(queue, e), rest)
        /\ DefsOf(queue) = DefsTo(queue, e) \cup DefsOf(rest)
    BY <2>1, ToldWithoutOldest
  <2> HIDE DEF rest
  <2>4. Len(queue) - Len(rest) = e /\ Len(rest) = BufferMaxCycles
    BY <1>1, <2>1, <2>3
  <2>5. \A i \in 1 .. Len(rest) : e + i \in 1 .. Len(queue)
    BY <1>1, <2>1, <2>3
  <2>6. TellsRealExits(rest, gone)
    BY <2>3, <2>5 DEF TellsRealExits
  <2>7. Len(Kept(queue)) <= BufferMaxCycles /\ Len(queue) - Len(Kept(queue)) = e
    BY <1>1, <2>2, <2>4
  <2> QED BY <2>2, <2>3, <2>6, <2>7, Zenon
<1>3. CASE ~(Evicted(queue) > 0)
  <2>1. Kept(queue) = queue /\ Len(queue) <= BufferMaxCycles
    BY <1>1, <1>3 DEF Kept, Evicted
  <2>2. DefsTo(queue, Len(queue) - Len(queue)) = {}
    BY <1>1 DEF DefsTo
  <2>3. K \cup DefsTo(queue, Len(queue) - Len(queue)) = K
    BY <2>2
  <2>4. DefsOf(queue) = DefsTo(queue, Len(queue) - Len(queue)) \cup DefsOf(queue)
    BY <2>2
  <2> QED BY <2>1, <2>3, <2>4, Zenon
<1> QED BY <1>2, <1>3

-----------------------------------------------------------------------------
(* What a cycle observes.                                                  *)

LEMMA ObservedKeys ==
    ASSUME ProcessInv, NEW attributed \in SUBSET (alive \cap InContainer), NEW skipped,
           attributed # {} => looks < MaxLooks
    PROVE  /\ Observed(attributed, skipped) \subseteq Keys
           /\ \A key \in Observed(attributed, skipped) :
                key[1] \in alive /\ (key[1] \notin InContainer => key[2] = 0)
           /\ \A p \in alive \ InContainer :
                p \in skipped \/ <<p, 0>> \in Observed(attributed, skipped)
<1>1. alive \subseteq Process /\ looks \in 0 .. MaxLooks /\ MaxLooks \in Nat
  BY ProcessAssumption DEF ProcessInv, ProcessTypeOK
<1>2. ASSUME NEW p \in alive
      PROVE  /\ StartedAt(p, attributed) \in 0 .. MaxLooks
             /\ p \notin InContainer => StartedAt(p, attributed) = 0
  BY <1>1 DEF StartedAt
<1> QED BY <1>1, <1>2 DEF Observed, Keys

LEMMA DifferencePayload ==
    ASSUME ProcessInv, NEW current \in SUBSET Keys, NEW skipped,
           \A p \in alive \ InContainer : p \in skipped \/ <<p, 0>> \in current
    PROVE  /\ Difference(current) \in Payload
           /\ \A key \in Difference(current).spawns :
                Argv[key[1]] \in shippedHashes \cup Difference(current).argv_defs
           /\ \A key \in Difference(current).exits : key[1] \notin InContainer =>
                key[1] \in ended \/ (key[1] \in skipped /\ key = <<key[1], 0>>)
<1> DEFINE spawns == current \ prevKeys
           defs == {Argv[key[1]] : key \in spawns} \ shippedHashes
           exits == prevKeys \ current
<1>1. /\ Difference(current).argv_defs = defs
      /\ Difference(current).spawns = spawns
      /\ Difference(current).exits = exits
      /\ Difference(current) = [argv_defs |-> defs, spawns |-> spawns, exits |-> exits]
  BY DEF Difference
<1>2. spawns \subseteq Keys /\ exits \subseteq Keys
  BY DEF ProcessInv, ProcessTypeOK
<1>3. defs \subseteq Argvs
  BY <1>2 DEF Argvs, Keys
<1>4. Difference(current) \in Payload
  BY <1>1, <1>2, <1>3 DEF Payload
<1>5. \A key \in spawns : Argv[key[1]] \in shippedHashes \cup defs
  OBVIOUS
<1>6. ASSUME NEW key \in exits, key[1] \notin InContainer
      PROVE  key[1] \in ended \/ (key[1] \in skipped /\ key = <<key[1], 0>>)
  <2>1. key[1] \in alive \cup ended /\ key[2] = 0 /\ key \in Keys
    BY <1>2, <1>6 DEF ProcessInv, KeysAreStable
  <2>2. key = <<key[1], 0>>
    BY <2>1 DEF Keys
  <2>3. key[1] \notin alive \/ key[1] \in skipped
    BY <1>6, <2>2
  <2> QED BY <2>1, <2>2, <2>3
<1> QED BY <1>1, <1>4, <1>5, <1>6

-----------------------------------------------------------------------------
(* The steps.                                                              *)

LEMMA ProcessInvInit == ProcessInit => ProcessInv
<1> SUFFICES ASSUME ProcessInit PROVE ProcessInv
  OBVIOUS
<1>1. << >> \in Seq(Payload) /\ Len(<< >>) = 0
  OBVIOUS
<1>2. ProcessTypeOK
  BY <1>1, ProcessAssumption DEF ProcessInit, ProcessTypeOK
<1>3. KeysAreStable /\ ArgvIsKnown
  BY DEF ProcessInit, KeysAreStable, ArgvIsKnown
<1>4. DefsComeFirst /\ ExitsAreReal
  BY <1>1 DEF ProcessInit, DefsComeFirst, ExitsAreReal, Told, TellsRealExits, HostExitsAreReal
<1> QED BY <1>2, <1>3, <1>4 DEF ProcessInv

\* Processes come and go.
LEMMA HostKeepsInv ==
    ASSUME ProcessInv, NEW p \in Process, ProcessStarts(p) \/ ProcessEnds(p)
    PROVE  ProcessInv'
<1>1. /\ UNCHANGED <<looks, prevKeys, shippedHashes, buffer, mqttUp, wire, rows, exited,
                     dictionary, undefined, unrecorded, overlooked, losses>>
      /\ ended \subseteq ended' /\ alive \cup ended \subseteq alive' \cup ended'
      /\ alive' \cup ended' \subseteq Process /\ alive' \cap ended' = {}
  BY DEF ProcessStarts, ProcessEnds, ProcessInv, ProcessTypeOK
<1>2. ProcessTypeOK'
  BY <1>1 DEF ProcessInv, ProcessTypeOK
<1>3. KeysAreStable'
  BY <1>1 DEF ProcessInv, KeysAreStable
<1>4. DefsComeFirst' /\ ArgvIsKnown'
  BY <1>1 DEF ProcessInv, DefsComeFirst, ArgvIsKnown, KnownArgvs
<1>5. ExitsAreReal'
  BY <1>1 DEF ProcessInv, ExitsAreReal, TellsRealExits, HostExitsAreReal, Gone
<1> QED BY <1>2, <1>3, <1>4, <1>5 DEF ProcessInv

\* The connection comes and goes.
LEMMA MqttKeepsInv ==
    ASSUME ProcessInv, MqttGoes \/ MqttReturns \/ UNCHANGED processVars
    PROVE  ProcessInv'
<1>1. /\ UNCHANGED <<alive, ended, looks, prevKeys, shippedHashes, buffer, wire, rows, exited,
                     dictionary, undefined, unrecorded, overlooked>>
      /\ losses' = losses \/ losses' = losses + 1
      /\ mqttUp' = mqttUp \/ mqttUp' = TRUE \/ mqttUp' = FALSE
  BY DEF MqttGoes, MqttReturns, Loss, processVars
<1>2. ProcessTypeOK'
  <2>1. ProcessTypeOK
    BY DEF ProcessInv
  <2>2. losses' \in Nat
    BY <1>1, <2>1 DEF ProcessTypeOK
  <2>3. mqttUp' \in BOOLEAN
    BY <1>1, <2>1, Zenon DEF ProcessTypeOK
  <2> QED BY <1>1, <2>1, <2>2, <2>3 DEF ProcessTypeOK
<1>3. KeysAreStable'
  BY <1>1 DEF ProcessInv, KeysAreStable
<1>4. DefsComeFirst' /\ ArgvIsKnown'
  BY <1>1 DEF ProcessInv, DefsComeFirst, ArgvIsKnown, KnownArgvs
<1>5. ExitsAreReal'
  BY <1>1 DEF ProcessInv, ExitsAreReal, HostExitsAreReal, Gone
<1> QED BY <1>2, <1>3, <1>4, <1>5 DEF ProcessInv

\* A cycle: what is evicted is known to be undefined, what is new is defined before it.
LEMMA PollCycleKeepsInv ==
    ASSUME ProcessInv, PollCycle
    PROVE  ProcessInv'
<1>1. PICK attributed \in SUBSET (alive \cap InContainer) :
        \E skipped \in SUBSET (alive \ attributed) :
            /\ Publish(Observed(attributed, skipped))
            /\ overlooked' = overlooked \cup {p \in skipped : <<p, 0>> \in prevKeys}
            /\ attributed # {} => looks < MaxLooks
            /\ looks' = IF attributed # {} THEN looks + 1 ELSE looks
            /\ IF skipped = {} THEN UNCHANGED losses ELSE Loss
            /\ UNCHANGED <<alive, ended, mqttUp, rows, exited, dictionary>>
  BY Zenon DEF PollCycle
<1>2. PICK skipped \in SUBSET (alive \ attributed) :
            /\ Publish(Observed(attributed, skipped))
            /\ overlooked' = overlooked \cup {p \in skipped : <<p, 0>> \in prevKeys}
            /\ attributed # {} => looks < MaxLooks
            /\ looks' = IF attributed # {} THEN looks + 1 ELSE looks
            /\ IF skipped = {} THEN UNCHANGED losses ELSE Loss
            /\ UNCHANGED <<alive, ended, mqttUp, rows, exited, dictionary>>
  BY <1>1, Zenon
<1>3. losses' = losses \/ losses' = losses + 1
  BY <1>2, Zenon DEF Loss
<1>4. LET message == Difference(Observed(attributed, skipped))
          queue == Append(buffer, message)
          kept == Kept(queue)
      IN  /\ shippedHashes' = shippedHashes \cup message.argv_defs
          /\ Lost({queue[i] : i \in 1 .. Len(queue) - Len(kept)})
          /\ IF mqttUp THEN wire' = wire \o kept /\ buffer' = << >>
                       ELSE buffer' = kept /\ UNCHANGED wire
          /\ prevKeys' = Observed(attributed, skipped)
  BY <1>2 DEF Publish, Kept
<1> DEFINE m == Difference(Observed(attributed, skipped))
           queue == Append(buffer, m)
           kept == Kept(queue)
           e == Len(queue) - Len(kept)
           K == KnownArgvs \cup DefsOf(wire)
<1>5. /\ Observed(attributed, skipped) \subseteq Keys
      /\ \A key \in Observed(attributed, skipped) :
            key[1] \in alive /\ (key[1] \notin InContainer => key[2] = 0)
      /\ \A p \in alive \ InContainer : p \in skipped \/ <<p, 0>> \in Observed(attributed, skipped)
  BY <1>2, ObservedKeys
<1>6. /\ m \in Payload
      /\ \A key \in m.spawns : Argv[key[1]] \in shippedHashes \cup m.argv_defs
      /\ \A key \in m.exits : key[1] \notin InContainer =>
            key[1] \in ended \/ (key[1] \in skipped /\ key = <<key[1], 0>>)
  BY <1>5, DifferencePayload
<1>7. /\ ended' = ended /\ overlooked' = overlooked \cup {p \in skipped : <<p, 0>> \in prevKeys}
      /\ overlooked' \subseteq Process
  BY <1>2 DEF ProcessInv, ProcessTypeOK
<1>8. m.exits \subseteq prevKeys
  BY DEF Difference
<1> HIDE DEF m
<1>9. /\ \A key \in m.exits : key[1] \notin InContainer => key[1] \in Gone'
      /\ Gone \subseteq Gone'
  BY <1>6, <1>7, <1>8 DEF Gone
<1>10. buffer \in Seq(Payload) /\ wire \in Seq(Payload)
  BY DEF ProcessInv, ProcessTypeOK
<1>11. queue \in Seq(Payload) /\ Told(K, queue) /\ DefsOf(queue) = DefsOf(buffer) \cup m.argv_defs
  <2>1. Told(K, buffer)
    BY DEF ProcessInv, DefsComeFirst
  <2>2. \A key \in m.spawns : Argv[key[1]] \in K \cup DefsOf(buffer) \cup m.argv_defs
    BY <1>6 DEF ProcessInv, DefsComeFirst
  <2> HIDE DEF K
  <2>3. queue \in Seq(Payload)
    BY <1>6, <1>10
  <2> QED BY <1>6, <1>10, <2>1, <2>2, <2>3, ToldAppended
<1>12. TellsRealExits(queue, Gone')
  <2>1. \A i \in 1 .. Len(queue) :
            (i \in 1 .. Len(buffer) /\ queue[i] = buffer[i]) \/ queue[i] = m
    BY <1>6, <1>10
  <2>2. TellsRealExits(buffer, Gone')
    <3>1. TellsRealExits(buffer, Gone)
      BY Zenon DEF ProcessInv, ExitsAreReal
    <3> QED BY <1>9, <3>1, RealOfMore
  <2> QED BY <1>9, <2>1, <2>2 DEF TellsRealExits
<1> HIDE DEF queue
<1>13. /\ kept \in Seq(Payload) /\ Len(kept) <= BufferMaxCycles
       /\ Told(K \cup DefsTo(queue, e), kept)
       /\ DefsOf(queue) = DefsTo(queue, e) \cup DefsOf(kept)
       /\ TellsRealExits(kept, Gone')
  <2> HIDE DEF K
  <2> QED BY <1>11, <1>12, KeptIsTold
<1> HIDE DEF kept
<1>14. /\ Lost({queue[i] : i \in 1 .. e}) /\ dictionary' = dictionary
  BY <1>4, <1>2 DEF m, queue, kept
<1>15. undefined' = undefined \cup DefsTo(queue, e)
  BY <1>14 DEF Lost, DefsTo
<1>16. KnownArgvs' = KnownArgvs \cup DefsTo(queue, e)
  BY <1>14, <1>15 DEF KnownArgvs
<1>17. /\ prevKeys' = Observed(attributed, skipped)
       /\ shippedHashes' = shippedHashes \cup m.argv_defs
       /\ UNCHANGED <<alive, ended, mqttUp, rows, exited, dictionary>>
       /\ losses' = losses \/ losses' = losses + 1
       /\ \/ wire' = wire \o kept /\ buffer' = << >>
          \/ buffer' = kept /\ wire' = wire
  BY <1>4, <1>2, <1>3 DEF m, queue, kept
<1>18. DefsComeFirst'
  <2>1. Told(KnownArgvs', wire)
    BY <1>16, ToldOfMore DEF ProcessInv, DefsComeFirst
  <2>2. Told(KnownArgvs' \cup DefsOf(wire), kept)
    BY <1>13, <1>16, ToldOfMore
  <2>3. shippedHashes' \subseteq KnownArgvs' \cup DefsOf(wire) \cup DefsOf(kept)
    BY <1>11, <1>13, <1>16, <1>17 DEF ProcessInv, DefsComeFirst
  <2>4. CASE wire' = wire \o kept /\ buffer' = << >>
    <3> DEFINE L == KnownArgvs'
    <3> HIDE DEF L
    <3>3. Told(L, wire) /\ Told(L \cup DefsOf(wire), kept)
      BY <2>1, <2>2 DEF L
    <3>4. Told(L, wire \o kept) /\ DefsOf(wire \o kept) = DefsOf(wire) \cup DefsOf(kept)
      <4>1. wire \in Seq(Payload) /\ kept \in Seq(Payload)
        BY <1>10, <1>13
      <4> HIDE DEF K, e
      <4>2. ASSUME NEW M, Told(M, wire), Told(M \cup DefsOf(wire), kept)
            PROVE  Told(M, wire \o kept) /\ DefsOf(wire \o kept) = DefsOf(wire) \cup DefsOf(kept)
        BY ONLY <4>1, <4>2, ToldBehind, ZenonT(60)
      <4> QED BY ONLY <3>3, <4>2, Zenon
    <3>1. Told(KnownArgvs', wire') /\ DefsOf(wire') = DefsOf(wire) \cup DefsOf(kept)
      BY <2>4, <3>4, Zenon DEF L
    <3>2. Told(KnownArgvs' \cup DefsOf(wire'), buffer')
      BY <2>4 DEF Told
    <3> QED BY <2>3, <3>1, <3>2 DEF DefsComeFirst
  <2>5. CASE buffer' = kept /\ wire' = wire
    BY <2>1, <2>2, <2>3, <2>5 DEF DefsComeFirst
  <2> QED BY <1>17, <2>4, <2>5
<1>19. ExitsAreReal'
  <2>1. TellsRealExits(wire, Gone') /\ HostExitsAreReal'
    <3>1. TellsRealExits(wire, Gone) /\ HostExitsAreReal
      BY Zenon DEF ProcessInv, ExitsAreReal
    <3>2. TellsRealExits(wire, Gone')
      BY <1>9, <3>1, RealOfMore
    <3>3. exited' = exited /\ ended \cup overlooked \subseteq ended' \cup overlooked'
      BY <1>17, <1>9 DEF Gone
    <3>4. HostExitsAreReal'
      BY <3>1, <3>3 DEF HostExitsAreReal
    <3> QED BY <3>2, <3>4
  <2>2. CASE wire' = wire \o kept /\ buffer' = << >>
    <3>1. \A i \in 1 .. Len(wire') :
            \/ i \in 1 .. Len(wire) /\ wire'[i] = wire[i]
            \/ i - Len(wire) \in 1 .. Len(kept) /\ wire'[i] = kept[i - Len(wire)]
      BY <1>10, <1>13, <2>2
    <3>2. TellsRealExits(wire', Gone')
      BY <1>13, <2>1, <3>1 DEF TellsRealExits
    <3>3. TellsRealExits(buffer', Gone')
      BY <2>2 DEF TellsRealExits
    <3> QED BY <1>17, <2>1, <3>2, <3>3 DEF ExitsAreReal
  <2>3. CASE buffer' = kept /\ wire' = wire
    BY <1>13, <1>17, <2>1, <2>3 DEF ExitsAreReal
  <2> QED BY <1>17, <2>2, <2>3
<1>20. KeysAreStable' /\ ArgvIsKnown'
  BY <1>5, <1>16, <1>17 DEF ProcessInv, KeysAreStable, ArgvIsKnown, KnownArgvs
<1>21. ProcessTypeOK'
  <2>1. wire' \in Seq(Payload) /\ buffer' \in Seq(Payload) /\ Len(buffer') <= BufferMaxCycles
    <3>1. << >> \in Seq(Payload) /\ Len(<< >>) <= BufferMaxCycles
      BY ProcessAssumption
    <3>2. wire \o kept \in Seq(Payload)
      BY <1>10, <1>13
    <3> QED BY <1>10, <1>13, <1>17, <3>1, <3>2, Zenon
  <2>2. looks' \in 0 .. MaxLooks
    BY <1>2, ProcessAssumption DEF ProcessInv, ProcessTypeOK
  <2>3. m.argv_defs \subseteq Argvs
    BY <1>6 DEF Payload
  <2>4. \A i \in 1 .. e : queue[i] \in Payload
    BY <1>11, <1>13
  <2>5. DefsTo(queue, e) \subseteq Argvs
    BY <2>4 DEF DefsTo, Payload
  <2>6. unrecorded' \subseteq Keys
    BY <1>14, <2>4 DEF Lost, Payload, ProcessInv, ProcessTypeOK
  <2>7. losses' \in Nat
    BY <1>17 DEF ProcessInv, ProcessTypeOK
  <2> QED BY <1>5, <1>15, <1>17, <1>7, <2>1, <2>2, <2>3, <2>5, <2>6, <2>7 DEF ProcessInv, ProcessTypeOK
<1> QED BY <1>18, <1>19, <1>20, <1>21 DEF ProcessInv

\* The agent starts again: what it had not published is lost.
LEMMA AgentStartsAnewKeepsInv ==
    ASSUME ProcessInv, AgentStartsAnew
    PROVE  ProcessInv'
<1>1. /\ prevKeys' = {} /\ shippedHashes' = {} /\ buffer' = << >> /\ losses' = losses + 1
      /\ undefined' = undefined \cup UNION {buffer[i].argv_defs : i \in DOMAIN buffer}
      /\ unrecorded' = unrecorded \cup prevKeys \cup UNION {buffer[i].exits : i \in DOMAIN buffer}
      /\ UNCHANGED <<alive, ended, looks, mqttUp, wire, rows, exited, dictionary, overlooked>>
  BY DEF AgentStartsAnew, Loss
<1>2. /\ buffer \in Seq(Payload) /\ \A i \in DOMAIN buffer : buffer[i] \in Payload
      /\ << >> \in Seq(Payload) /\ Len(<< >>) = 0
  BY DEF ProcessInv, ProcessTypeOK
<1>3. undefined' \subseteq Argvs /\ unrecorded' \subseteq Keys
  BY <1>1, <1>2 DEF Payload, ProcessInv, ProcessTypeOK
<1>4. ProcessTypeOK'
  BY <1>1, <1>2, <1>3, ProcessAssumption DEF ProcessInv, ProcessTypeOK
<1>5. KnownArgvs \subseteq KnownArgvs'
  BY <1>1 DEF KnownArgvs
<1>6. KeysAreStable' /\ ArgvIsKnown'
  BY <1>1, <1>5 DEF ProcessInv, KeysAreStable, ArgvIsKnown, KnownArgvs
<1>7. DefsComeFirst'
  <2>1. Told(KnownArgvs', wire)
    BY <1>5, ToldOfMore DEF ProcessInv, DefsComeFirst
  <2> QED BY <1>1, <1>2, <2>1 DEF DefsComeFirst, Told
<1>8. ExitsAreReal'
  BY <1>1, <1>2 DEF ProcessInv, ExitsAreReal, TellsRealExits, HostExitsAreReal, Gone
<1> QED BY <1>4, <1>6, <1>7, <1>8 DEF ProcessInv

\* The oldest message on its way arrives or is lost: what it defines is known then.
LEMMA WireMovesOn ==
    ASSUME ProcessInv, wire # << >>, wire' = Tail(wire),
           UNCHANGED <<ended, overlooked, shippedHashes, buffer>>,
           KnownArgvs \cup Head(wire).argv_defs \subseteq KnownArgvs'
    PROVE  /\ Head(wire) \in Payload /\ wire' \in Seq(Payload)
           /\ DefsComeFirst'
           /\ TellsRealExits(wire, Gone)' /\ TellsRealExits(buffer, Gone)'
           /\ \A key \in Head(wire).spawns : Argv[key[1]] \in KnownArgvs'
           /\ \A key \in Head(wire).exits : key[1] \notin InContainer => key[1] \in Gone
<1> DEFINE m == Head(wire)
<1>1. wire \in Seq(Payload) /\ Len(wire) \in Nat /\ 1 \in 1 .. Len(wire) /\ m = wire[1]
  BY DEF ProcessInv, ProcessTypeOK
<1>2. Tail(wire) = SubSeq(wire, 1 + 1, Len(wire))
  BY <1>1
<1>3. DefsTo(wire, 1) = m.argv_defs
  BY <1>1 DEF DefsTo
<1>4. /\ wire' \in Seq(Payload) /\ Len(wire') = Len(wire) - 1
      /\ \A i \in 1 .. Len(wire') : wire'[i] = wire[1 + i]
      /\ Told(KnownArgvs \cup m.argv_defs, wire')
      /\ DefsOf(wire) = m.argv_defs \cup DefsOf(wire')
  <2>1. Told(KnownArgvs, wire) /\ 1 \in 0 .. Len(wire)
    BY <1>1 DEF ProcessInv, DefsComeFirst
  <2> DEFINE K == KnownArgvs
             rest == SubSeq(wire, 1 + 1, Len(wire))
  <2>2. wire \in Seq(Payload) /\ Told(K, wire)
    BY <1>1, <2>1
  <2> HIDE DEF K
  <2>3. /\ rest \in Seq(Payload) /\ Len(rest) = Len(wire) - 1
        /\ \A i \in 1 .. Len(rest) : rest[i] = wire[1 + i]
        /\ Told(K \cup DefsTo(wire, 1), rest)
        /\ DefsOf(wire) = DefsTo(wire, 1) \cup DefsOf(rest)
    BY ONLY <2>1, <2>2, ToldWithoutOldest, Zenon
  <2>4. wire' = rest
    BY <1>2
  <2> HIDE DEF rest
  <2> QED BY <1>3, <2>3, <2>4, Zenon DEF K
<1>5. Told(KnownArgvs', wire')
  BY <1>4, ToldOfMore
<1>6. Told(KnownArgvs' \cup DefsOf(wire'), buffer')
  <2>1. KnownArgvs \cup DefsOf(wire) \subseteq KnownArgvs' \cup DefsOf(wire')
    BY <1>4
  <2>2. Told(KnownArgvs \cup DefsOf(wire), buffer)
    BY DEF ProcessInv, DefsComeFirst
  <2> QED BY <2>1, <2>2, ToldOfMore
<1>7. DefsComeFirst'
  BY <1>4, <1>5, <1>6 DEF ProcessInv, DefsComeFirst
<1>8. TellsRealExits(wire, Gone)' /\ TellsRealExits(buffer, Gone)'
  <2>1. \A i \in 1 .. Len(wire') : 1 + i \in 1 .. Len(wire)
    BY <1>1, <1>4
  <2> QED BY <1>4, <2>1 DEF ProcessInv, ExitsAreReal, TellsRealExits, Gone
<1>9. \A key \in m.spawns : Argv[key[1]] \in KnownArgvs'
  BY <1>1, <1>3 DEF ProcessInv, DefsComeFirst, Told
<1>10. \A key \in m.exits : key[1] \notin InContainer => key[1] \in Gone
  BY <1>1 DEF ProcessInv, ExitsAreReal, TellsRealExits
<1> QED BY <1>1, <1>4, <1>7, <1>8, <1>9, <1>10

LEMMA DropKeepsInv ==
    ASSUME ProcessInv, Drop
    PROVE  ProcessInv'
<1>1. /\ wire # << >> /\ wire' = Tail(wire) /\ losses' = losses + 1
      /\ undefined' = undefined \cup Head(wire).argv_defs
      /\ unrecorded' = unrecorded \cup Head(wire).exits
      /\ UNCHANGED <<alive, ended, looks, prevKeys, shippedHashes, buffer, mqttUp, rows,
                     exited, dictionary, overlooked>>
  BY DEF Drop, Lost, Loss
<1>2. KnownArgvs' = KnownArgvs \cup Head(wire).argv_defs
  BY <1>1 DEF KnownArgvs
<1>3. /\ Head(wire) \in Payload /\ wire' \in Seq(Payload) /\ DefsComeFirst'
      /\ TellsRealExits(wire, Gone)' /\ TellsRealExits(buffer, Gone)'
  BY <1>1, <1>2, WireMovesOn
<1>4. ProcessTypeOK'
  BY <1>1, <1>3 DEF Payload, ProcessInv, ProcessTypeOK
<1>5. KeysAreStable' /\ ArgvIsKnown' /\ ExitsAreReal'
  BY <1>1, <1>2, <1>3 DEF ProcessInv, KeysAreStable, ArgvIsKnown, KnownArgvs, ExitsAreReal,
     HostExitsAreReal, Gone
<1> QED BY <1>3, <1>4, <1>5 DEF ProcessInv

\* The hub refuses a message that is too large, or takes all of it.
LEMMA IngestKeepsInv ==
    ASSUME ProcessInv, Ingest
    PROVE  ProcessInv'
<1> DEFINE m == Head(wire)
<1>1. /\ wire # << >> /\ wire' = Tail(wire)
      /\ UNCHANGED <<alive, ended, looks, prevKeys, shippedHashes, buffer, mqttUp, overlooked, losses>>
  BY DEF Ingest
<1>2. \/ /\ undefined' = undefined \cup m.argv_defs
         /\ unrecorded' = unrecorded \cup m.exits
         /\ UNCHANGED <<rows, exited, dictionary>>
      \/ /\ dictionary' = dictionary \cup m.argv_defs
         /\ rows' = rows \cup m.spawns
         /\ exited' = exited \cup (rows' \cap m.exits)
         /\ undefined' = undefined \ m.argv_defs
         /\ UNCHANGED unrecorded
  BY DEF Ingest, Lost, Exits
<1>3. KnownArgvs' = KnownArgvs \cup m.argv_defs
  BY <1>2 DEF KnownArgvs
<1>4. /\ m \in Payload /\ wire' \in Seq(Payload) /\ DefsComeFirst'
      /\ TellsRealExits(wire, Gone)' /\ TellsRealExits(buffer, Gone)'
      /\ \A key \in m.spawns : Argv[key[1]] \in KnownArgvs'
      /\ \A key \in m.exits : key[1] \notin InContainer => key[1] \in Gone
  BY <1>1, <1>3, WireMovesOn
<1> HIDE DEF m
<1>5. m.argv_defs \subseteq Argvs /\ m.spawns \subseteq Keys /\ m.exits \subseteq Keys
  BY <1>4 DEF Payload
<1>6. /\ exited' \subseteq rows' /\ rows' \subseteq Keys /\ dictionary' \subseteq Argvs
      /\ undefined' \subseteq Argvs /\ unrecorded' \subseteq Keys
      /\ rows' \subseteq rows \cup m.spawns /\ exited' \subseteq exited \cup m.exits
  BY <1>2, <1>5 DEF ProcessInv, ProcessTypeOK
<1>7. ProcessTypeOK'
  BY <1>1, <1>4, <1>6 DEF ProcessInv, ProcessTypeOK
<1>8. KeysAreStable'
  BY <1>1 DEF ProcessInv, KeysAreStable
<1>9. ArgvIsKnown'
  BY <1>3, <1>4, <1>6 DEF ProcessInv, ArgvIsKnown, KnownArgvs
<1>10. ExitsAreReal'
  BY <1>1, <1>4, <1>6 DEF ProcessInv, ExitsAreReal, HostExitsAreReal, Gone
<1> QED BY <1>4, <1>7, <1>8, <1>9, <1>10 DEF ProcessInv

\* Pruning forgets argvs, and the history remembers that.
LEMMA PruneRowKeepsInv ==
    ASSUME ProcessInv, NEW key \in Keys, PruneRow(key)
    PROVE  ProcessInv'
<1>1. /\ rows' = rows \ {key} /\ exited' = exited \ {key} /\ losses' = losses + 1
      /\ dictionary' = dictionary \cap Referenced(rows')
      /\ undefined' = undefined \cup {a \in Argvs : \A k \in rows' : Argv[k[1]] # a}
      /\ UNCHANGED <<alive, ended, looks, prevKeys, shippedHashes, buffer, mqttUp, wire,
                     unrecorded, overlooked>>
  BY DEF PruneRow, Loss
<1>2. ProcessTypeOK'
  BY <1>1 DEF ProcessInv, ProcessTypeOK
<1>3. KnownArgvs \subseteq KnownArgvs'
  BY <1>1 DEF KnownArgvs, Referenced, ProcessInv, ProcessTypeOK
<1>4. KeysAreStable' /\ ArgvIsKnown' /\ ExitsAreReal'
  BY <1>1, <1>3 DEF ProcessInv, KeysAreStable, ArgvIsKnown, KnownArgvs, ExitsAreReal,
     HostExitsAreReal, Gone
<1>5. Told(KnownArgvs', wire)
  BY <1>3, ToldOfMore DEF ProcessInv, DefsComeFirst
<1>6. Told(KnownArgvs' \cup DefsOf(wire), buffer)
  <2>1. KnownArgvs \cup DefsOf(wire) \subseteq KnownArgvs' \cup DefsOf(wire)
    BY <1>3
  <2> QED BY <2>1, ToldOfMore DEF ProcessInv, DefsComeFirst
<1>7. DefsComeFirst'
  BY <1>1, <1>3, <1>5, <1>6 DEF ProcessInv, DefsComeFirst
<1> QED BY <1>2, <1>4, <1>7 DEF ProcessInv

LEMMA ProcessInvNext == ProcessInv /\ [ProcessNext]_processVars => ProcessInv'
BY HostKeepsInv, MqttKeepsInv, PollCycleKeepsInv, AgentStartsAnewKeepsInv, DropKeepsInv,
   IngestKeepsInv, PruneRowKeepsInv DEF ProcessNext

\* The state part of "what the hub tells of a host's processes" (poller.ts, index.ts,
\* ingest-process-events.ts): whatever the buffer evicts, the network loses, the hub
\* refuses or prunes and however often the agent starts anew, no host process is recorded
\* as ended while it runs but one that a look in /proc missed, and no row is without its
\* argv but for a definition that was lost.
THEOREM EndsAreReal == ProcessSpec => [](ProcessTypeOK /\ HostExitsAreReal /\ ArgvIsKnown)
<1>1. ProcessInit => ProcessInv
  BY ProcessInvInit
<1>2. ProcessInv /\ [ProcessNext]_processVars => ProcessInv'
  BY ProcessInvNext
<1>3. ProcessInv => ProcessTypeOK /\ HostExitsAreReal /\ ArgvIsKnown
  BY DEF ProcessInv, ExitsAreReal
<1> QED BY <1>1, <1>2, <1>3, PTL DEF ProcessSpec

(***************************************************************************)
(* The parts together: the one that runs keeps to its types.               *)
(***************************************************************************)

ContainersInv ==
    /\ ProcessInv /\ RestartsAreTyped /\ MiningTypeOK /\ DiagnosisTypes /\ InsightsTypeOK
    /\ UpdaterTypes

LEMMA ContainersInvInit == ContainersInit => ContainersInv
BY ProcessInvInit, RestartsTypesInit, MiningTypesInit, DiagnosisTypesInit, InsightsTypesInit,
   UpdaterTypesInit DEF ContainersInit, ContainersInv

\* A step of the parts is a step of one and leaves the others alone.
LEMMA StepsOfContainers ==
    ASSUME [ContainersNext]_containerVars
    PROVE  /\ [ProcessNext]_processVars /\ [RestartsNext]_restartVars /\ [MiningNext]_miningVars
           /\ [DiagnosisNext]_diagnosisVars /\ [InsightsNext]_insightVars /\ [UpdaterNext]_updaterVars
BY Zenon DEF ContainersNext, containerVars

LEMMA ContainersInvNext == ContainersInv /\ [ContainersNext]_containerVars => ContainersInv'
BY StepsOfContainers, ProcessInvNext, RestartsTypesNext, MiningTypesNext, DiagnosisTypesNext,
   InsightsTypesNext, UpdaterTypesNext DEF ContainersInv

\* Whichever part of the programs runs keeps to its types, for any processes, containers,
\* texts, situations and bounds.
THEOREM ContainersTypeCorrect == ContainersSpec => []ContainersTypeOK
<1>1. ContainersInv => ContainersTypeOK
  BY RestartsTypesHold, UpdaterTypesHold
     DEF ContainersInv, ContainersTypeOK, ProcessInv, DiagnosisTypes
<1> QED BY ContainersInvInit, ContainersInvNext, <1>1, PTL DEF ContainersSpec

\* What is promised of each part holds where they are put together: a behaviour of the
\* composition is one of each part that needs no fairness.
THEOREM ContainersAreSafe == ContainersSpec =>
    /\ RestartsAreTold /\ FindingsKeepUp /\ []UpdatesLeaveOne
    /\ [](HostExitsAreReal /\ ArgvIsKnown)
<1>1. ContainersInit => RestartsInit /\ DiagnosisInit /\ UpdaterInit
  BY DEF ContainersInit
<1>2. [ContainersNext]_containerVars =>
        [RestartsNext]_restartVars /\ [DiagnosisNext]_diagnosisVars /\ [UpdaterNext]_updaterVars
  BY StepsOfContainers
<1>3. ContainersSpec => RestartsSpec /\ DiagnosisSpec /\ UpdaterSpec
  BY <1>1, <1>2, PTL DEF ContainersSpec, RestartsSpec, DiagnosisSpec, UpdaterSpec
<1>4. ContainersInv => HostExitsAreReal /\ ArgvIsKnown
  BY DEF ContainersInv, ProcessInv, ExitsAreReal
<1>5. ContainersSpec => [](HostExitsAreReal /\ ArgvIsKnown)
  BY <1>4, ContainersInvInit, ContainersInvNext, PTL DEF ContainersSpec
<1> QED BY <1>3, <1>5, RestartsAreCounted, FindingsAreOfTheMoment, OneIsLeft
=============================================================================
