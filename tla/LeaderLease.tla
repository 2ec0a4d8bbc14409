----------------------------- MODULE LeaderLease -----------------------------
(***************************************************************************)
(* Leader election of the Kubernetes agents over one Lease object          *)
(* (agent/src/runtime/k8s-lease.ts): which pod publishes the inventory of  *)
(* the cluster.  tryAcquire, tryRenew and the release of stop() each GET   *)
(* the lease, decide, and PUT or POST it under the resourceVersion they    *)
(* saw.  Their timers do not wait for each other, so several may be under  *)
(* way in one pod; requests and replies are slow or lost, pods crash and   *)
(* restart under their name, and each pod reads its own clock.             *)
(*                                                                         *)
(* The timers may fire at any time: nothing here depends on the intervals. *)
(* Nobody deletes the Lease.                                               *)
(*                                                                         *)
(* An operator named ...Mutant is the definition below it with a plausible *)
(* mistake; nothing refers to it, a run that swaps it in must fail.        *)
(***************************************************************************)
EXTENDS Integers

CONSTANTS
    Pod,           \* identities: the pods' names
    Nobody,        \* holderIdentity null
    Slot,          \* bound: as many attempts of one pod overlap
    LeaseDuration, \* leaseDurationSec
    Drift,         \* Drift[p]: how far the clock of p is ahead
    DriftBound,    \* two pods' clocks differ by this at most
    MaxTime,       \* bound on the clock
    MaxVersion     \* bound on the writes of the Lease

ASSUME LeaseAssumption ==
    /\ Nobody \notin Pod
    /\ LeaseDuration \in Nat
    /\ Drift \in [Pod -> Int]
    /\ DriftBound \in Nat
    /\ \A p, q \in Pod : Drift[q] - Drift[p] <= DriftBound
    /\ MaxTime \in Nat /\ MaxVersion \in Nat

VARIABLES
    now,     \* true time
    lease,   \* the Lease object; version 0: it does not exist
    up,      \* the agent process of p runs
    stopped, \* stop() was called
    leader,  \* isLeader()
    op,      \* op[p][s]: an attempt under way
    stamp    \* history: the newest renewTime of a lease p knows it held

podVars == <<up, stopped, leader>>
vars == <<now, lease, podVars, op, stamp>>

\* The slot of stop()'s release.
ReleaseSlot == 0
Slots == Slot \cup {ReleaseSlot}

\* A PUT with this version, or none, is unconditional.
AnyVersion == -1

Lease == [holder : Pod \cup {Nobody}, renewTime : Int, version : Int]

\* kind: the attempt, "orphan" once nobody waits for it.  at: asked, the GET is
\* on its way; answered, `lease` is what it read; sent, `lease` is to be written
\* over that version; replied, it was (ok) or was refused.
Op == [kind : {"acquire", "renew", "release", "orphan"},
       at : {"idle", "asked", "answered", "sent", "replied"},
       lease : Lease, ok : BOOLEAN]

NoLease == [holder |-> Nobody, renewTime |-> 0, version |-> 0]
Idle == [kind |-> "orphan", at |-> "idle", lease |-> NoLease, ok |-> FALSE]
Abandoned(o) == IF o.at = "sent" THEN [o EXCEPT !.kind = "orphan"] ELSE Idle
Asked(kind) == [kind |-> kind, at |-> "asked", lease |-> NoLease, ok |-> FALSE]

LeaseTypeOK ==
    /\ now \in Nat
    /\ lease \in Lease /\ lease.version \in Nat
    /\ up \in [Pod -> BOOLEAN]
    /\ stopped \in [Pod -> BOOLEAN]
    /\ leader \in [Pod -> BOOLEAN]
    /\ op \in [Pod -> [Slots -> Op]]
    /\ stamp \in [Pod -> Int]

Clock(p) == now + Drift[p]

LeaseInit ==
    /\ now = 0
    /\ lease = NoLease
    /\ up = [p \in Pod |-> TRUE]
    /\ stopped = [p \in Pod |-> FALSE]
    /\ leader = [p \in Pod |-> FALSE]
    /\ op = [p \in Pod |-> [s \in Slots |-> Idle]]
    /\ stamp = [p \in Pod |-> Drift[p] - LeaseDuration]

-----------------------------------------------------------------------------
(* What the elector computes.                                              *)

\* Expired a moment early.
IsLeaseExpiredMutant(p, seen) == Clock(p) - seen.renewTime >= LeaseDuration

IsLeaseExpired(p, seen) == Clock(p) - seen.renewTime > LeaseDuration

\* The resourceVersion is left out of the object.
BuildLeaseMutant(p, seen) == [holder |-> p, renewTime |-> Clock(p), version |-> AnyVersion]

BuildLease(p, seen) == [holder |-> p, renewTime |-> Clock(p), version |-> seen.version]

\* An empty name for none.
ReleasedLeaseMutant(p, seen) == [holder |-> "", renewTime |-> Clock(p), version |-> seen.version]

ReleasedLease(p, seen) == [holder |-> Nobody, renewTime |-> Clock(p), version |-> seen.version]

Larger(a, b) == IF a >= b THEN a ELSE b

BecomesLeader(p, held) ==
    /\ leader' = [leader EXCEPT ![p] = TRUE]
    /\ stamp' = [stamp EXCEPT ![p] = Larger(@, held.renewTime)]

StepsDown(p) == leader' = [leader EXCEPT ![p] = FALSE] /\ UNCHANGED stamp

StaysAsItIs == UNCHANGED <<leader, stamp>>

(* The steps of one attempt.                                               *)

Becomes(p, s, o) == op' = [op EXCEPT ![p][s] = o]
Ends(p, s) == Becomes(p, s, Idle)
Sends(p, s, l) == Becomes(p, s, [op[p][s] EXCEPT !.at = "sent", !.lease = l])

\* The acquire timer of a standby.
StartAcquire(p, s) ==
    /\ up[p] /\ ~stopped[p] /\ ~leader[p]
    /\ op[p][s] = Idle
    /\ Becomes(p, s, Asked("acquire"))
    /\ UNCHANGED <<now, lease, podVars, stamp>>

\* The renew timer of a leader.
StartRenew(p, s) ==
    /\ up[p] /\ ~stopped[p] /\ leader[p]
    /\ op[p][s] = Idle
    /\ Becomes(p, s, Asked("renew"))
    /\ UNCHANGED <<now, lease, podVars, stamp>>

\* stop(): the timers are cleared, attempts under way go on; a leader releases.
Stop(p) ==
    /\ up[p] /\ ~stopped[p]
    /\ op[p][ReleaseSlot] = Idle
    /\ stopped' = [stopped EXCEPT ![p] = TRUE]
    /\ IF leader[p] THEN Becomes(p, ReleaseSlot, Asked("release")) ELSE UNCHANGED op
    /\ UNCHANGED <<now, lease, up, leader, stamp>>

\* The attempt of p in slot s is of this kind and has come this far.
Attempt(p, s, kind, at) ==
    /\ op[p][s].kind = kind /\ op[p][s].at = at
    /\ UNCHANGED <<now, lease, up, stopped>>

DecideAcquire(p, s) ==
    /\ Attempt(p, s, "acquire", "answered")
    /\ LET seen == op[p][s].lease
       IN  \/ /\ seen.version = 0 \/ (seen.holder # p /\ IsLeaseExpired(p, seen))
              /\ Sends(p, s, BuildLease(p, seen))
              /\ StaysAsItIs
           \/ /\ seen.version # 0 /\ seen.holder = p
              /\ BecomesLeader(p, seen)
              /\ Ends(p, s)
           \/ /\ seen.version # 0 /\ seen.holder # p /\ ~IsLeaseExpired(p, seen)
              /\ StaysAsItIs
              /\ Ends(p, s)

FinishAcquire(p, s) ==
    /\ Attempt(p, s, "acquire", "replied")
    /\ IF op[p][s].ok THEN BecomesLeader(p, op[p][s].lease) ELSE StaysAsItIs
    /\ Ends(p, s)

DecideRenew(p, s) ==
    /\ Attempt(p, s, "renew", "answered")
    /\ LET seen == op[p][s].lease
       IN  IF seen.version # 0 /\ seen.holder = p
           THEN Sends(p, s, BuildLease(p, seen)) /\ StaysAsItIs
           ELSE Ends(p, s) /\ StepsDown(p)

FinishRenew(p, s) ==
    /\ Attempt(p, s, "renew", "replied")
    /\ IF op[p][s].ok
       THEN UNCHANGED leader /\ stamp' = [stamp EXCEPT ![p] = Larger(@, op[p][s].lease.renewTime)]
       ELSE StepsDown(p)
    /\ Ends(p, s)

DecideRelease(p, s) ==
    /\ Attempt(p, s, "release", "answered")
    /\ LET seen == op[p][s].lease
       IN  IF seen.version # 0 /\ seen.holder = p
           THEN Sends(p, s, ReleasedLease(p, seen)) /\ StaysAsItIs
           ELSE Ends(p, s) /\ StepsDown(p)

\* The status of the PUT is not looked at.
FinishRelease(p, s) ==
    /\ Attempt(p, s, "release", "replied")
    /\ Ends(p, s)
    /\ StepsDown(p)

\* A request without an answer in time, or a GET refused: an exception, logged.
\* What was sent may still arrive.
Fail(p, s) ==
    /\ op[p][s].at # "idle" /\ op[p][s].kind # "orphan"
    /\ UNCHANGED <<now, lease, up, stopped>>
    /\ IF op[p][s].kind = "release" THEN StepsDown(p) ELSE StaysAsItIs
    /\ Becomes(p, s, Abandoned(op[p][s]))

(* The API server.                                                         *)

Read(p, s) ==
    /\ op[p][s].at = "asked"
    /\ Becomes(p, s, [op[p][s] EXCEPT !.at = "answered", !.lease = lease])
    /\ UNCHANGED <<now, lease, podVars, stamp>>

Reply(p, s, ok) ==
    IF op[p][s].kind = "orphan"
    THEN Ends(p, s)
    ELSE Becomes(p, s, [op[p][s] EXCEPT !.at = "replied", !.ok = ok])

\* POST creates what does not exist, PUT replaces the version it names.
Apply(p, s) ==
    /\ op[p][s].at = "sent"
    /\ op[p][s].lease.version \in {lease.version, AnyVersion}
    /\ lease.version < MaxVersion
    /\ lease' = [op[p][s].lease EXCEPT !.version = lease.version + 1]
    /\ Reply(p, s, TRUE)
    /\ UNCHANGED <<now, podVars, stamp>>

\* 409, or another error status.
Refuse(p, s) ==
    /\ op[p][s].at = "sent"
    /\ Reply(p, s, FALSE)
    /\ UNCHANGED <<now, lease, podVars, stamp>>

(* Time, and the agent process.                                            *)

Tick ==
    /\ now < MaxTime
    /\ now' = now + 1
    /\ UNCHANGED <<lease, podVars, op, stamp>>

\* The process ends: what it has sent may still arrive.
Exit(p) ==
    /\ up[p]
    /\ up' = [up EXCEPT ![p] = FALSE]
    /\ leader' = [leader EXCEPT ![p] = FALSE]
    /\ op' = [op EXCEPT ![p] = [s \in Slots |-> Abandoned(op[p][s])]]
    /\ UNCHANGED <<now, lease, stopped, stamp>>

\* start(), in a new process of the same pod.
Start(p) ==
    /\ ~up[p]
    /\ up' = [up EXCEPT ![p] = TRUE]
    /\ stopped' = [stopped EXCEPT ![p] = FALSE]
    /\ UNCHANGED <<now, lease, leader, op, stamp>>

Elector(p) ==
    \/ Stop(p)
    \/ \E s \in Slot : StartAcquire(p, s) \/ StartRenew(p, s)
    \/ \E s \in Slots :
        \/ DecideAcquire(p, s) \/ FinishAcquire(p, s)
        \/ DecideRenew(p, s) \/ FinishRenew(p, s)
        \/ DecideRelease(p, s) \/ FinishRelease(p, s)
        \/ Fail(p, s)

LeaseNext ==
    \/ \E p \in Pod :
        \/ Elector(p) \/ Exit(p) \/ Start(p)
        \/ \E s \in Slots : Read(p, s) \/ Apply(p, s) \/ Refuse(p, s)
    \/ Tick

LeaseSpec == LeaseInit /\ [][LeaseNext]_vars

-----------------------------------------------------------------------------
(* Properties.                                                             *)

\* The lease changes hands only when it is expired at that moment, by the
\* clock of the pod that takes it: a renewal between its look and its write,
\* however late the write arrives, keeps the lease with its holder.
TakeoverOnlyExpired ==
    [][\A p \in Pod : lease.version # 0 /\ lease.holder # p /\ lease'.holder = p
            => Clock(p) - lease.renewTime > LeaseDuration]_vars

\* Two pods both lead only while the one without the lease has been cut off:
\* for the lease's duration, less what the clocks differ, it has not learnt
\* of a renewal of its own.
StaleLeaderIsCutOff == \A p, q \in Pod :
    p # q /\ leader[p] /\ lease.holder = q
        => Clock(p) - stamp[p] > LeaseDuration - DriftBound

\* A candidate that finds the lease released takes it at once, without waiting
\* for the duration of the lease (the comment of createLeaderElector).
HandoffWithinTick ==
    [][\A p \in Pod, s \in Slot :
        /\ DecideAcquire(p, s)
        /\ op[p][s].lease.version # 0 /\ op[p][s].lease.holder = Nobody
        => op'[p][s].at = "sent"]_vars
=============================================================================
