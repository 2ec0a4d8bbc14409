---------------------------- MODULE AgentUpdater ----------------------------
(***************************************************************************)
(* An agent updating itself or the hub through Docker                      *)
(* (agent/src/updater.ts, called from agent/src/mqtt.ts and                *)
(* agent/src/index.ts).                                                    *)
(*                                                                         *)
(* A handler of the agent does one Docker call after the other; each may   *)
(* fail, other handlers run in between, and the agent's own container may  *)
(* be removed while a handler of it waits.                                 *)
(*                                                                         *)
(* An operator named ...Mutant is the definition below it with a plausible *)
(* mistake; nothing refers to it, a run that swaps it in must fail.        *)
(***************************************************************************)
EXTENDS Integers, FiniteSets

CONSTANTS
    MaxContainers, \* bound on the containers made
    MaxUpdates,    \* bound on the update requests
    MaxMishaps     \* bound on the failed calls and restarts

ASSUME UpdaterAssumption ==
    MaxContainers \in Nat /\ MaxUpdates \in Nat /\ MaxMishaps \in Nat

VARIABLES
    containers, \* Docker's: id -> DockerContainer, a higher id is newer
    created,    \* containers made so far
    updates,    \* performUpdate calls that have not returned: number -> Update
    requested,  \* update requests so far
    booting,    \* agents started that have not listed the containers
    cleaning,   \* agents in cleanupOldContainers: id -> containers left to remove
    mishaps,    \* failed calls and restarts so far
    spoiled,    \* history: targets an update of which overlapped with another one, was
                \* cut off, or had a call fail that it cannot do without
    twofold     \* history: the stop of a hub failed, or two updates of it overlapped

updaterVars == <<containers, created, updates, requested, booting, cleaning, mishaps, spoiled, twofold>>

Targets == {"agent", "hub"}

\* Named insightd-<role> and `olds` times -old.
DockerContainer == [role : Targets, olds : Nat, running : BOOLEAN]

\* by: the agent whose handler it is; of: the container to replace; olds: its name as
\* inspected; next: the Docker call to come.
Update ==
    [by : Nat, target : Targets, of : Nat, olds : Nat, replacement : Nat,
     next : {"pull", "stop", "rename", "create", "start", "remove"}]

NameOf(c) == <<containers[c].role, containers[c].olds>>

UpdaterTypeOK ==
    /\ created \in Nat /\ requested \in Nat /\ mishaps \in Nat
    /\ DOMAIN containers \subseteq 1 .. created
    /\ \A c \in DOMAIN containers : containers[c] \in DockerContainer
    /\ \A c, d \in DOMAIN containers : NameOf(c) = NameOf(d) => c = d
    /\ \A u \in DOMAIN updates : LET up == updates[u] IN
        /\ up \in Update /\ up.by \in DOMAIN containers
        /\ up.of \in DOMAIN containers => containers[up.of].role = up.target
    /\ booting \cup DOMAIN cleaning \subseteq {c \in DOMAIN containers : containers[c].role = "agent"}
    /\ \A a \in DOMAIN cleaning : cleaning[a] \subseteq 1 .. created
    /\ spoiled \subseteq Targets /\ twofold \in BOOLEAN

\* The names of the compose file.
UpdaterInit ==
    /\ containers = [c \in {1, 2} |->
            [role |-> IF c = 1 THEN "hub" ELSE "agent", olds |-> 0, running |-> TRUE]]
    /\ created = 2
    /\ updates = << >> /\ requested = 0
    /\ booting = {} /\ cleaning = << >>
    /\ mishaps = 0 /\ spoiled = {} /\ twofold = FALSE

-----------------------------------------------------------------------------
Mishap == mishaps < MaxMishaps /\ mishaps' = mishaps + 1

Running(role) == {c \in DOMAIN containers : containers[c].role = role /\ containers[c].running}

Taken(role, olds) == \E c \in DOMAIN containers : NameOf(c) = <<role, olds>>

InFlight(target) == {u \in DOMAIN updates : updates[u].target = target}

\* The updates that a cannot finish and that have begun to replace their container.
CutOff(a) == {updates[u].target : u \in {v \in DOMAIN updates :
    updates[v].by = a /\ updates[v].next \in (IF updates[v].target = "hub"
        THEN {"rename", "create", "start", "remove"} ELSE {"create", "start"})}}

With(f, key, value) == [k \in DOMAIN f \cup {key} |-> IF k = key THEN value ELSE f[k]]

EndUpdates(U) == updates' = [u \in DOMAIN updates \ U |-> updates[u]]

Oldest(C) == {c \in C : \A d \in C : c <= d}

Newest(C) == {c \in C : \A d \in C : d <= c}

\* The container to replace: the agent's own, or Docker's first hub, the newest.
Replaced(a, target) ==
    IF target = "agent" THEN {a} ELSE Newest({c \in DOMAIN containers : containers[c].role = "hub"})

\* performUpdate up to the pull.  Without a hub it throws.
BeginUpdate(a, target) ==
    /\ a \in Running("agent") \ booting
    /\ requested < MaxUpdates
    /\ requested' = requested + 1
    /\ \/ \E c \in Replaced(a, target) :
            updates' = With(updates, requested', [by |-> a, target |-> target, of |-> c,
                olds |-> containers[c].olds, replacement |-> 0, next |-> "pull"])
       \/ Replaced(a, target) = {} /\ UNCHANGED updates
    /\ spoiled' = IF InFlight(target) # {} THEN spoiled \cup {target} ELSE spoiled
    /\ twofold' = (twofold \/ (target = "hub" /\ InFlight("hub") # {}))
    /\ UNCHANGED <<containers, created, booting, cleaning, mishaps>>

Goes(u, call) == updates' = [updates EXCEPT ![u].next = call]

Calls(u, call) == u \in DOMAIN updates /\ updates[u].next = call

\* Docker does it, or says no; the container may be gone.
Exists(u) == updates[u].of \in DOMAIN containers

Pull(u) ==
    /\ Calls(u, "pull")
    /\ \/ Goes(u, IF updates[u].target = "hub" THEN "stop" ELSE "rename") /\ UNCHANGED mishaps
       \/ EndUpdates({u}) /\ Mishap
    /\ UNCHANGED <<containers, created, requested, booting, cleaning, spoiled, twofold>>

\* stop() of the hub; an error is taken to mean that it had stopped.
Stop(u) ==
    /\ Calls(u, "stop")
    /\ Goes(u, "rename")
    /\ \/ /\ containers' = IF Exists(u) THEN [containers EXCEPT ![updates[u].of].running = FALSE]
                           ELSE containers
          /\ UNCHANGED <<mishaps, twofold>>
       \/ /\ Mishap
          /\ twofold' = TRUE
          /\ UNCHANGED containers
    /\ UNCHANGED <<created, requested, booting, cleaning, spoiled>>

\* To the name that was inspected, with -old; an error is ignored.
Rename(u) ==
    /\ Calls(u, "rename")
    /\ Goes(u, "create")
    /\ LET target == updates[u].target
           olds == updates[u].olds + 1
       IN  \/ /\ containers' = IF Exists(u) /\ ~Taken(target, olds)
                               THEN [containers EXCEPT ![updates[u].of].olds = olds]
                               ELSE containers
              /\ UNCHANGED <<mishaps, spoiled>>
           \/ /\ Mishap
              /\ spoiled' = spoiled \cup ({target} \cap {"hub"})
              /\ UNCHANGED containers
    /\ UNCHANGED <<created, requested, booting, cleaning, twofold>>

\* Under the name that was inspected, if it is free; otherwise the update has failed.
Create(u) ==
    /\ Calls(u, "create")
    /\ LET target == updates[u].target
       IN  \/ /\ ~Taken(target, updates[u].olds)
              /\ created < MaxContainers
              /\ created' = created + 1
              /\ containers' = With(containers, created',
                    [role |-> target, olds |-> updates[u].olds, running |-> FALSE])
              /\ updates' = [updates EXCEPT ![u].next = "start", ![u].replacement = created']
              /\ UNCHANGED <<mishaps, spoiled>>
           \/ /\ Taken(target, updates[u].olds)
              /\ EndUpdates({u})
              /\ UNCHANGED <<containers, created, mishaps, spoiled>>
           \/ /\ Mishap
              /\ EndUpdates({u})
              /\ spoiled' = spoiled \cup {target}
              /\ UNCHANGED <<containers, created>>
    /\ UNCHANGED <<requested, booting, cleaning, twofold>>

\* The agent has done its part when the replacement runs; the hub's old container goes.
Start(u) ==
    /\ Calls(u, "start")
    /\ LET target == updates[u].target
           new == updates[u].replacement
       IN  \/ /\ new \in DOMAIN containers
              /\ containers' = [containers EXCEPT ![new].running = TRUE]
              /\ booting' = IF target = "agent" THEN booting \cup {new} ELSE booting
              /\ IF target = "hub" THEN Goes(u, "remove") ELSE EndUpdates({u})
              /\ UNCHANGED <<mishaps, spoiled>>
           \/ /\ new \notin DOMAIN containers
              /\ EndUpdates({u})
              /\ UNCHANGED <<containers, booting, mishaps, spoiled>>
           \/ /\ Mishap
              /\ EndUpdates({u})
              /\ spoiled' = spoiled \cup {target}
              /\ UNCHANGED <<containers, booting>>
    /\ UNCHANGED <<created, requested, cleaning, twofold>>

Without(C) == [c \in DOMAIN containers \ C |-> containers[c]]

\* remove({ force: true }) of the hub's old container; a failure is logged.
RemoveHub(u) ==
    /\ Calls(u, "remove")
    /\ EndUpdates({u})
    /\ \/ containers' = Without({updates[u].of}) /\ UNCHANGED <<mishaps, spoiled>>
       \/ Mishap /\ spoiled' = spoiled \cup {"hub"} /\ UNCHANGED containers
    /\ UNCHANGED <<created, requested, booting, cleaning, twofold>>

-----------------------------------------------------------------------------
(* An agent starts.                                                        *)

\* name.startsWith('insightd-') alone.
IsLeftoverMutant(c) == TRUE

\* name.endsWith('-old') && name.startsWith('insightd-'), running or not, itself too.
IsLeftover(c) == containers[c].olds > 0

\* Connected: cleanupOldContainers lists the containers.
Boot(a) ==
    /\ a \in booting
    /\ booting' = booting \ {a}
    /\ cleaning' = With(cleaning, a, {c \in DOMAIN containers : IsLeftover(c)})
    /\ UNCHANGED <<containers, created, updates, requested, mishaps, spoiled, twofold>>

\* One after the other, with force: a running agent ends there, with its handlers.
RemoveLeftover(a, c) ==
    /\ a \in DOMAIN cleaning /\ c \in cleaning[a]
    /\ \/ /\ containers' = Without({c})
          /\ EndUpdates({u \in DOMAIN updates : updates[u].by = c})
          /\ spoiled' = spoiled \cup CutOff(c)
          /\ booting' = booting \ {c}
          /\ cleaning' = [b \in DOMAIN cleaning \ {c} |->
                IF b = a THEN cleaning[a] \ {c} ELSE cleaning[b]]
          /\ UNCHANGED mishaps
       \/ /\ Mishap
          /\ cleaning' = [cleaning EXCEPT ![a] = @ \ {c}]
          /\ UNCHANGED <<containers, updates, booting, spoiled>>
    /\ UNCHANGED <<created, requested, twofold>>

CleanedUp(a) ==
    /\ a \in DOMAIN cleaning /\ cleaning[a] = {}
    /\ cleaning' = [b \in DOMAIN cleaning \ {a} |-> cleaning[b]]
    /\ UNCHANGED <<containers, created, updates, requested, booting, mishaps, spoiled, twofold>>

\* The process ends and Docker starts its container again (restart: unless-stopped).
RestartAgent(a) ==
    /\ a \in Running("agent")
    /\ Mishap
    /\ booting' = booting \cup {a}
    /\ cleaning' = [b \in DOMAIN cleaning \ {a} |-> cleaning[b]]
    /\ EndUpdates({u \in DOMAIN updates : updates[u].by = a})
    /\ spoiled' = spoiled \cup CutOff(a)
    /\ UNCHANGED <<containers, created, requested, twofold>>

UpdaterNext ==
    \/ \E a \in DOMAIN containers :
        \/ \E target \in Targets : BeginUpdate(a, target)
        \/ Boot(a) \/ CleanedUp(a) \/ RestartAgent(a)
        \/ \E c \in 1 .. created : RemoveLeftover(a, c)
    \/ \E u \in DOMAIN updates :
        Pull(u) \/ Stop(u) \/ Rename(u) \/ Create(u) \/ Start(u) \/ RemoveHub(u)

UpdaterSpec == UpdaterInit /\ [][UpdaterNext]_updaterVars

-----------------------------------------------------------------------------
(* Properties.                                                             *)

\* What is updated always runs on the host.  An agent does unless an update of it was
\* cut off after the rename, overlapped with another, or could not create or start the
\* replacement: then the agent that is left carries an -old name, and its next start
\* removes it.  A failed pull, rename or removal does no harm.  After an update the hub
\* runs, under its own name, whatever happened to its stop; and two hubs never run on
\* the host's one database, whatever fails, is cut off or is left over, as long as the
\* stop of a hub works and its updates do not overlap.
UpdatesLeaveOne ==
    /\ "agent" \notin spoiled => Running("agent") # {}
    /\ "hub" \notin spoiled /\ InFlight("hub") = {} =>
        \E c \in Running("hub") : containers[c].olds = 0
    /\ ~twofold => Cardinality(Running("hub")) <= 1
=============================================================================
