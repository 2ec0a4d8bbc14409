--------------------------- MODULE LeaderLeaseProofs ---------------------------
(***************************************************************************)
(* For any number of pods, attempts under way, clocks and lease durations: *)
(* the lease is taken over only when it is expired at that moment.  It is  *)
(* the resourceVersion that carries the proof: what an attempt decided on  *)
(* an older version is never written.                                      *)
(***************************************************************************)
EXTENDS LeaderLease, TLAPS

LEMMA NoLeaseIsLease == NoLease \in Lease
BY DEF NoLease, Lease

LEMMA IdleIsOp == Idle \in Op
BY NoLeaseIsLease DEF Idle, Op

LEMMA AskedIsOp ==
    ASSUME NEW kind \in {"acquire", "renew", "release", "orphan"}
    PROVE  Asked(kind) \in Op /\ Asked(kind).at = "asked"
BY NoLeaseIsLease DEF Asked, Op

LEMMA AbandonedIsOp ==
    ASSUME NEW o \in Op
    PROVE  /\ Abandoned(o) \in Op
           /\ Abandoned(o).at \in {"idle", "sent"}
           /\ Abandoned(o).at = "sent" => o.at = "sent" /\ Abandoned(o).lease = o.lease
BY IdleIsOp DEF Abandoned, Op, Idle

LEMMA BuildLeaseIsLease ==
    ASSUME LeaseTypeOK, NEW p \in Pod, NEW seen \in Lease
    PROVE  BuildLease(p, seen) \in Lease /\ ReleasedLease(p, seen) \in Lease
BY LeaseAssumption DEF BuildLease, ReleasedLease, Lease, Clock, LeaseTypeOK

\* A step that makes o of the attempt of p in slot s leaves the others alone.
LEMMA OneAttempt ==
    ASSUME LeaseTypeOK, NEW p \in Pod, NEW s \in Slots, NEW o \in Op, Becomes(p, s, o)
    PROVE  /\ op' \in [Pod -> [Slots -> Op]]
           /\ op'[p][s] = o
           /\ \A q \in Pod, t \in Slots : op'[q][t] = op[q][t] \/ (q = p /\ t = s)
BY DEF Becomes, LeaseTypeOK

-----------------------------------------------------------------------------
(* What each step does to an attempt, for the proof.                       *)

\* What an attempt knows of the lease.  An answer is the lease, or is older; of
\* what would still be written, a takeover finds the lease expired.
KnowsLease(p, o) ==
    /\ o.at = "answered" =>
        /\ o.lease.version \in Nat /\ o.lease.version <= lease.version
        /\ o.lease.version = lease.version => o.lease = lease
    /\ o.at = "sent" =>
        /\ o.lease.version \in Nat /\ o.lease.version <= lease.version
        /\ o.lease.holder \in {p, Nobody}
        /\ (/\ o.lease.version = lease.version /\ lease.version # 0
            /\ o.lease.holder = p /\ lease.holder # p)
           => Clock(p) - lease.renewTime > LeaseDuration

AttemptsKnow == \A p \in Pod, s \in Slots : KnowsLease(p, op[p][s])

LeaseInv == LeaseTypeOK /\ AttemptsKnow

\* A step that neither moves the clock nor writes the lease.
Local == UNCHANGED <<now, lease>>

LEMMA LocalStepKeepsInv ==
    ASSUME LeaseInv, Local, NEW p \in Pod, NEW s \in Slots, NEW o \in Op,
           Becomes(p, s, o), KnowsLease(p, o)
    PROVE  op' \in [Pod -> [Slots -> Op]] /\ AttemptsKnow'
<1>1. op' \in [Pod -> [Slots -> Op]] /\ op'[p][s] = o
  BY OneAttempt DEF LeaseInv
<1>2. \A q \in Pod, t \in Slots : KnowsLease(q, op'[q][t])
  BY OneAttempt DEF LeaseInv, AttemptsKnow
<1>3. \A q \in Pod, t \in Slots : (KnowsLease(q, op[q][t]))'
  BY <1>2 DEF KnowsLease, Clock, Local
<1>4. QED
  BY <1>1, <1>3 DEF AttemptsKnow

LEMMA OpAt ==
    ASSUME LeaseInv, NEW p \in Pod, NEW s \in Slots
    PROVE  op[p][s] \in Op /\ op[p][s].lease \in Lease /\ KnowsLease(p, op[p][s])
BY DEF LeaseInv, LeaseTypeOK, AttemptsKnow, Op

LEMMA BeliefTypes ==
    ASSUME LeaseTypeOK, NEW p \in Pod, NEW held \in Lease,
           BecomesLeader(p, held) \/ StepsDown(p) \/ StaysAsItIs
    PROVE  leader' \in [Pod -> BOOLEAN] /\ stamp' \in [Pod -> Int]
<1>1. Larger(stamp[p], held.renewTime) \in Int
  BY DEF LeaseTypeOK, Larger, Lease
<1>2. QED
  BY <1>1 DEF BecomesLeader, StepsDown, StaysAsItIs, LeaseTypeOK

\* An attempt is at its end, is abandoned, or sends a lease of p or nobody.
LEMMA EndKnows ==
    ASSUME NEW p \in Pod, NEW o, o.at \in {"idle", "asked", "replied"}
    PROVE  KnowsLease(p, o)
BY DEF KnowsLease

LEMMA AbandonedKnows ==
    ASSUME LeaseInv, NEW p \in Pod, NEW s \in Slots
    PROVE  Abandoned(op[p][s]) \in Op /\ KnowsLease(p, Abandoned(op[p][s]))
BY OpAt, AbandonedIsOp DEF KnowsLease

LEMMA SentKnows ==
    ASSUME LeaseInv, NEW p \in Pod, NEW s \in Slots, NEW l \in Lease,
           op[p][s].at = "answered",
           l.version = op[p][s].lease.version,
           l.holder \in {p, Nobody},
           \/ l.holder = Nobody
           \/ op[p][s].lease.version = 0
           \/ op[p][s].lease.holder = p
           \/ IsLeaseExpired(p, op[p][s].lease)
    PROVE  LET o == [op[p][s] EXCEPT !.at = "sent", !.lease = l]
           IN  o \in Op /\ KnowsLease(p, o)
<1> DEFINE o == [op[p][s] EXCEPT !.at = "sent", !.lease = l]
<1>1. o \in Op /\ o.at = "sent" /\ o.lease = l
  BY OpAt DEF Op
<1>2. KnowsLease(p, op[p][s])
  BY OpAt
<1>3. l.version \in Nat /\ l.version <= lease.version
  BY <1>2 DEF KnowsLease
<1>4. ASSUME l.version = lease.version, lease.version # 0, l.holder = p, lease.holder # p
      PROVE  Clock(p) - lease.renewTime > LeaseDuration
  <2>1. op[p][s].lease = lease
    BY <1>2, <1>4 DEF KnowsLease
  <2>2. IsLeaseExpired(p, lease)
    BY <1>4, <2>1, LeaseAssumption
  <2>3. QED
    BY <2>2 DEF IsLeaseExpired
<1>5. KnowsLease(p, o)
  BY <1>1, <1>3, <1>4 DEF KnowsLease
<1>6. QED
  BY <1>1, <1>5

-----------------------------------------------------------------------------
(* The steps.                                                              *)

LEMMA LeaseInitInv == LeaseInit => LeaseInv
<1> SUFFICES ASSUME LeaseInit PROVE LeaseInv
  OBVIOUS
<1>1. lease \in Lease /\ lease.version \in Nat
  BY NoLeaseIsLease DEF LeaseInit, NoLease
<1>2. op \in [Pod -> [Slots -> Op]]
  BY IdleIsOp DEF LeaseInit
<1>3. LeaseTypeOK
  BY <1>1, <1>2, LeaseAssumption DEF LeaseInit, LeaseTypeOK
<1>4. \A p \in Pod, s \in Slots : op[p][s].at = "idle"
  BY DEF LeaseInit, Idle
<1>5. QED
  BY <1>3, <1>4, EndKnows DEF LeaseInv, AttemptsKnow

\* Timers, decisions, answers and failures of one attempt.
LEMMA AttemptKeepsInv ==
    ASSUME LeaseInv, NEW p \in Pod, NEW s \in Slots,
           \/ s \in Slot /\ (StartAcquire(p, s) \/ StartRenew(p, s))
           \/ DecideAcquire(p, s) \/ FinishAcquire(p, s)
           \/ DecideRenew(p, s) \/ FinishRenew(p, s)
           \/ DecideRelease(p, s) \/ FinishRelease(p, s)
           \/ Fail(p, s) \/ Read(p, s) \/ Refuse(p, s)
    PROVE  LeaseInv'
<1> DEFINE Believes == leader' \in [Pod -> BOOLEAN] /\ stamp' \in [Pod -> Int]
           Keeps == Local /\ UNCHANGED <<up, stopped>>
           Knows(o) == o \in Op /\ Becomes(p, s, o) /\ KnowsLease(p, o)
<1>a. LeaseTypeOK /\ op[p][s] \in Op /\ op[p][s].lease \in Lease /\ KnowsLease(p, op[p][s])
  BY OpAt DEF LeaseInv
<1>b. Ends(p, s) => Knows(Idle)
  BY IdleIsOp, EndKnows DEF Ends, Idle
<1>c. \A kind \in {"acquire", "renew", "release"} :
        Becomes(p, s, Asked(kind)) => Knows(Asked(kind))
  BY AskedIsOp, EndKnows
<1>d. StaysAsItIs \/ StepsDown(p) => Believes
  BY <1>a, BeliefTypes
<1>e. BuildLease(p, op[p][s].lease) \in Lease /\ ReleasedLease(p, op[p][s].lease) \in Lease
  BY <1>a, BuildLeaseIsLease
<1>f. UNCHANGED <<leader, stamp>> => Believes
  BY <1>a DEF LeaseTypeOK
<1>1. ASSUME StartAcquire(p, s) \/ StartRenew(p, s)
      PROVE  Keeps /\ Believes /\ \E o : Knows(o)
  BY <1>1, <1>c, <1>f DEF StartAcquire, StartRenew, Local, podVars
<1>2. ASSUME DecideAcquire(p, s)
      PROVE  Keeps /\ Believes /\ \E o : Knows(o)
  <2>1. op[p][s].at = "answered" /\ Keeps
    BY <1>2 DEF DecideAcquire, Attempt, Local
  <2>2. CASE /\ op[p][s].lease.version = 0 \/ IsLeaseExpired(p, op[p][s].lease)
             /\ Sends(p, s, BuildLease(p, op[p][s].lease))
             /\ StaysAsItIs
    <3>1. BuildLease(p, op[p][s].lease).version = op[p][s].lease.version
          /\ BuildLease(p, op[p][s].lease).holder = p
      BY DEF BuildLease
    <3>2. Knows([op[p][s] EXCEPT !.at = "sent", !.lease = BuildLease(p, op[p][s].lease)])
      BY <2>1, <2>2, <3>1, <1>e, SentKnows DEF Sends
    <3>3. QED
      BY <2>1, <2>2, <3>2, <1>d
  <2>3. CASE BecomesLeader(p, op[p][s].lease) /\ Ends(p, s)
    BY <2>1, <2>3, <1>a, <1>b, BeliefTypes
  <2>4. CASE StaysAsItIs /\ Ends(p, s)
    BY <2>1, <2>4, <1>b, <1>d
  <2>5. QED
    BY <1>2, <2>2, <2>3, <2>4 DEF DecideAcquire
<1>3. ASSUME FinishAcquire(p, s)
      PROVE  Keeps /\ Believes /\ \E o : Knows(o)
  <2>1. BecomesLeader(p, op[p][s].lease) \/ StaysAsItIs
    BY <1>3 DEF FinishAcquire
  <2>2. Believes
    BY <2>1, <1>a, BeliefTypes
  <2>3. QED
    BY <1>3, <2>2, <1>b DEF FinishAcquire, Attempt, Local
<1>4. ASSUME DecideRenew(p, s)
      PROVE  Keeps /\ Believes /\ \E o : Knows(o)
  <2>1. op[p][s].at = "answered" /\ Keeps
    BY <1>4 DEF DecideRenew, Attempt, Local
  <2>2. CASE op[p][s].lease.version # 0 /\ op[p][s].lease.holder = p
    <3>1. BuildLease(p, op[p][s].lease).version = op[p][s].lease.version
          /\ BuildLease(p, op[p][s].lease).holder = p
      BY DEF BuildLease
    <3>2. Sends(p, s, BuildLease(p, op[p][s].lease)) /\ StaysAsItIs
      BY <1>4, <2>2 DEF DecideRenew
    <3>3. Knows([op[p][s] EXCEPT !.at = "sent", !.lease = BuildLease(p, op[p][s].lease)])
      BY <2>1, <2>2, <3>1, <3>2, <1>e, SentKnows DEF Sends
    <3>4. QED
      BY <2>1, <3>2, <3>3, <1>d
  <2>3. CASE ~(op[p][s].lease.version # 0 /\ op[p][s].lease.holder = p)
    <3>1. Ends(p, s) /\ StepsDown(p)
      BY <1>4, <2>3 DEF DecideRenew
    <3>2. QED
      BY <2>1, <3>1, <1>b, <1>d
  <2>4. QED
    BY <2>2, <2>3
<1>5. ASSUME FinishRenew(p, s)
      PROVE  Keeps /\ Believes /\ \E o : Knows(o)
  <2>1. Larger(stamp[p], op[p][s].lease.renewTime) \in Int
    BY <1>a DEF LeaseTypeOK, Larger, Lease
  <2>2. Believes
    BY <1>5, <1>a, <1>d, <2>1 DEF FinishRenew, LeaseTypeOK
  <2>3. QED
    BY <1>5, <2>2, <1>b DEF FinishRenew, Attempt, Local
<1>6. ASSUME DecideRelease(p, s)
      PROVE  Keeps /\ Believes /\ \E o : Knows(o)
  <2>1. op[p][s].at = "answered" /\ Keeps
    BY <1>6 DEF DecideRelease, Attempt, Local
  <2>2. CASE op[p][s].lease.version # 0 /\ op[p][s].lease.holder = p
    <3>1. ReleasedLease(p, op[p][s].lease).version = op[p][s].lease.version
          /\ ReleasedLease(p, op[p][s].lease).holder = Nobody
      BY DEF ReleasedLease
    <3>2. Sends(p, s, ReleasedLease(p, op[p][s].lease)) /\ StaysAsItIs
      BY <1>6, <2>2 DEF DecideRelease
    <3>3. Knows([op[p][s] EXCEPT !.at = "sent", !.lease = ReleasedLease(p, op[p][s].lease)])
      BY <2>1, <2>2, <3>1, <3>2, <1>e, SentKnows DEF Sends
    <3>4. QED
      BY <2>1, <3>2, <3>3, <1>d
  <2>3. CASE ~(op[p][s].lease.version # 0 /\ op[p][s].lease.holder = p)
    <3>1. Ends(p, s) /\ StepsDown(p)
      BY <1>6, <2>3 DEF DecideRelease
    <3>2. QED
      BY <2>1, <3>1, <1>b, <1>d
  <2>4. QED
    BY <2>2, <2>3
<1>7. ASSUME FinishRelease(p, s)
      PROVE  Keeps /\ Believes /\ \E o : Knows(o)
  BY <1>7, <1>b, <1>d DEF FinishRelease, Attempt, Local
<1>8. ASSUME Fail(p, s)
      PROVE  Keeps /\ Believes /\ \E o : Knows(o)
  <2>1. Believes
    BY <1>8, <1>d DEF Fail
  <2>2. Knows(Abandoned(op[p][s]))
    BY <1>8, AbandonedKnows DEF Fail
  <2>3. QED
    BY <1>8, <2>1, <2>2 DEF Fail, Local
<1>9. ASSUME Read(p, s)
      PROVE  Keeps /\ Believes /\ \E o : Knows(o)
  <2> DEFINE o == [op[p][s] EXCEPT !.at = "answered", !.lease = lease]
  <2>1. o \in Op /\ o.at = "answered" /\ o.lease = lease
    BY <1>a DEF Op, LeaseTypeOK
  <2>2. KnowsLease(p, o)
    BY <2>1, <1>a DEF KnowsLease, LeaseTypeOK
  <2>3. QED
    BY <1>9, <2>1, <2>2, <1>f DEF Read, Local, podVars
<1>10. ASSUME Refuse(p, s)
       PROVE  Keeps /\ Believes /\ \E o : Knows(o)
  <2> DEFINE o == [op[p][s] EXCEPT !.at = "replied", !.ok = FALSE]
  <2>1. o \in Op /\ o.at = "replied"
    BY <1>a DEF Op
  <2>2. Ends(p, s) \/ Becomes(p, s, o)
    BY <1>10 DEF Refuse, Reply
  <2> HIDE DEF o
  <2>3. Becomes(p, s, o) => Knows(o)
    BY <2>1, EndKnows
  <2>4. \E x : Knows(x)
    BY <2>2, <2>3, <1>b
  <2>5. QED
    BY <1>10, <2>4, <1>f DEF Refuse, Local, podVars
<1>11. Keeps /\ Believes /\ \E o : Knows(o)
  BY <1>1, <1>2, <1>3, <1>4, <1>5, <1>6, <1>7, <1>8, <1>9, <1>10
<1>12. op' \in [Pod -> [Slots -> Op]] /\ AttemptsKnow'
  BY <1>11, LocalStepKeepsInv
<1>13. QED
  BY <1>11, <1>12, <1>a DEF LeaseInv, LeaseTypeOK, Local

LEMMA StopKeepsInv ==
    ASSUME LeaseInv, NEW p \in Pod, Stop(p)
    PROVE  LeaseInv'
<1>1. LeaseTypeOK /\ Local
  BY DEF LeaseInv, Stop, Local
<1>2. stopped' \in [Pod -> BOOLEAN] /\ UNCHANGED <<up, leader, stamp>>
  BY <1>1 DEF Stop, LeaseTypeOK
<1>3. CASE leader[p]
  <2>1. Becomes(p, ReleaseSlot, Asked("release")) /\ ReleaseSlot \in Slots
    BY <1>3 DEF Stop, Slots
  <2>2. Asked("release") \in Op /\ KnowsLease(p, Asked("release"))
    BY AskedIsOp, EndKnows
  <2>3. op' \in [Pod -> [Slots -> Op]] /\ AttemptsKnow'
    BY <1>1, <2>1, <2>2, LocalStepKeepsInv
  <2>4. QED
    BY <1>1, <1>2, <2>3 DEF LeaseInv, LeaseTypeOK, Local
<1>4. CASE ~leader[p]
  <2>1. UNCHANGED op
    BY <1>4 DEF Stop
  <2>2. QED
    BY <1>1, <1>2, <2>1 DEF LeaseInv, LeaseTypeOK, Local, AttemptsKnow, KnowsLease, Clock
<1>5. QED
  BY <1>3, <1>4

\* A write makes every other attempt's version an old one.
LEMMA ApplyKeepsInv ==
    ASSUME LeaseInv, NEW p \in Pod, NEW s \in Slots, Apply(p, s)
    PROVE  LeaseInv'
<1> DEFINE l == op[p][s].lease
           o == [op[p][s] EXCEPT !.at = "replied", !.ok = TRUE]
<1>1. LeaseTypeOK /\ op[p][s] \in Op /\ l \in Lease /\ KnowsLease(p, op[p][s])
  BY OpAt DEF LeaseInv
<1>2. lease' \in Lease /\ lease'.version \in Nat /\ lease'.version = lease.version + 1
  BY <1>1 DEF Apply, LeaseTypeOK, Lease
<1>3. \E x \in Op : Becomes(p, s, x) /\ x.at \in {"idle", "replied"}
  <2>1. o \in Op /\ o.at = "replied"
    BY <1>1 DEF Op
  <2>2. Ends(p, s) \/ Becomes(p, s, o)
    BY DEF Apply, Reply
  <2>3. Idle.at = "idle"
    BY DEF Idle
  <2>4. QED
    BY <2>1, <2>2, <2>3, IdleIsOp DEF Ends
<1>4. PICK x \in Op : Becomes(p, s, x) /\ x.at \in {"idle", "replied"}
  BY <1>3
<1>5. op' \in [Pod -> [Slots -> Op]] /\ op'[p][s] = x
  BY <1>1, <1>4, OneAttempt
<1>6. ASSUME NEW q \in Pod, NEW t \in Slots
      PROVE  KnowsLease(q, op[q][t])'
  <2>1. CASE op'[q][t] = x
    BY <2>1, <1>4 DEF KnowsLease
  <2>2. CASE op'[q][t] = op[q][t]
    <3>1. KnowsLease(q, op[q][t]) /\ op[q][t] \in Op
      BY OpAt
    <3>2. op[q][t].at \in {"answered", "sent"} => op[q][t].lease.version \in Nat /\ op[q][t].lease.version < lease'.version
      BY <3>1, <1>1, <1>2 DEF KnowsLease, LeaseTypeOK
    <3>3. op[q][t].at = "sent" => op[q][t].lease.holder \in {q, Nobody}
      BY <3>1 DEF KnowsLease
    <3>4. QED
      BY <2>2, <3>2, <3>3, <1>2 DEF KnowsLease
  <2>3. QED
    BY <2>1, <2>2, <1>1, <1>4, <1>5, OneAttempt
<1>7. AttemptsKnow'
  BY <1>6 DEF AttemptsKnow
<1>8. LeaseTypeOK'
  BY <1>1, <1>2, <1>5 DEF Apply, LeaseTypeOK, podVars
<1>9. QED
  BY <1>7, <1>8 DEF LeaseInv

\* An expired lease stays expired.
LEMMA TickKeepsInv ==
    ASSUME LeaseInv, Tick
    PROVE  LeaseInv'
<1>1. LeaseTypeOK /\ now' = now + 1 /\ lease.renewTime \in Int
  BY DEF LeaseInv, LeaseTypeOK, Tick, Lease
<1>2. LeaseTypeOK'
  BY <1>1 DEF Tick, LeaseTypeOK, podVars
<1>3. ASSUME NEW p \in Pod, NEW s \in Slots
      PROVE  KnowsLease(p, op[p][s])'
  <2>1. KnowsLease(p, op[p][s])
    BY OpAt
  <2>2. Clock(p) - lease.renewTime > LeaseDuration
          => (Clock(p) - lease.renewTime > LeaseDuration)'
    BY <1>1, LeaseAssumption DEF Clock, Tick, LeaseTypeOK
  <2>3. QED
    BY <2>1, <2>2 DEF KnowsLease, Tick
<1>4. QED
  BY <1>2, <1>3 DEF LeaseInv, AttemptsKnow

LEMMA ProcessKeepsInv ==
    ASSUME LeaseInv, NEW p \in Pod, Exit(p) \/ Start(p)
    PROVE  LeaseInv'
<1>1. LeaseTypeOK /\ Local
  BY DEF LeaseInv, Exit, Start, Local
<1>2. CASE Exit(p)
  <2>1. op' \in [Pod -> [Slots -> Op]]
    BY <1>1, <1>2, AbandonedKnows DEF Exit, LeaseTypeOK
  <2>2. \A q \in Pod, t \in Slots : op'[q][t] \in {op[q][t], Abandoned(op[q][t])}
    BY <1>1, <1>2 DEF Exit, LeaseTypeOK
  <2>3. \A q \in Pod, t \in Slots : KnowsLease(q, op'[q][t])
    BY <2>2, AbandonedKnows, OpAt
  <2>4. AttemptsKnow'
    BY <2>3, <1>1 DEF AttemptsKnow, KnowsLease, Clock, Local
  <2>5. QED
    BY <1>1, <1>2, <2>1, <2>4 DEF Exit, LeaseInv, LeaseTypeOK
<1>3. CASE Start(p)
  BY <1>1, <1>3 DEF Start, LeaseInv, LeaseTypeOK, AttemptsKnow, KnowsLease, Clock
<1>4. QED
  BY <1>2, <1>3

LEMMA LeaseStepInv == LeaseInv /\ [LeaseNext]_vars => LeaseInv'
<1> SUFFICES ASSUME LeaseInv, [LeaseNext]_vars PROVE LeaseInv'
  OBVIOUS
<1>1. CASE Tick
  BY <1>1, TickKeepsInv
<1>2. ASSUME NEW p \in Pod, Elector(p) \/ Exit(p) \/ Start(p)
      PROVE  LeaseInv'
  <2>1. CASE Stop(p)
    BY <2>1, StopKeepsInv
  <2>2. CASE Exit(p) \/ Start(p)
    BY <2>2, ProcessKeepsInv
  <2>3. CASE \E s \in Slot : StartAcquire(p, s) \/ StartRenew(p, s)
    BY <2>3, AttemptKeepsInv DEF Slots
  <2>4. CASE \E s \in Slots : \/ DecideAcquire(p, s) \/ FinishAcquire(p, s)
                              \/ DecideRenew(p, s) \/ FinishRenew(p, s)
                              \/ DecideRelease(p, s) \/ FinishRelease(p, s)
                              \/ Fail(p, s)
    BY <2>4, AttemptKeepsInv
  <2>5. QED
    BY <1>2, <2>1, <2>2, <2>3, <2>4 DEF Elector
<1>3. ASSUME NEW p \in Pod, NEW s \in Slots, Read(p, s) \/ Apply(p, s) \/ Refuse(p, s)
      PROVE  LeaseInv'
  BY <1>3, AttemptKeepsInv, ApplyKeepsInv
<1>4. CASE UNCHANGED vars
  BY <1>4 DEF vars, podVars, LeaseInv, LeaseTypeOK, AttemptsKnow, KnowsLease, Clock
<1>5. QED
  BY <1>1, <1>2, <1>3, <1>4 DEF LeaseNext

-----------------------------------------------------------------------------
(* The theorems.                                                           *)

\* Every variable of the election keeps its type (k8s-lease.ts).
THEOREM LeaseTypeCorrect == LeaseSpec => []LeaseTypeOK
<1>1. LeaseInv => LeaseTypeOK
  BY DEF LeaseInv
<1>2. QED
  BY <1>1, LeaseInitInv, LeaseStepInv, PTL DEF LeaseSpec

\* Who takes the lease from another finds it expired when its write arrives.
LEMMA TakeoverStep ==
    ASSUME LeaseInv, [LeaseNext]_vars, NEW p \in Pod,
           lease.version # 0, lease.holder # p, lease'.holder = p
    PROVE  Clock(p) - lease.renewTime > LeaseDuration
<1>1. lease' # lease
  OBVIOUS
<1>2. PICK q \in Pod, s \in Slots : Apply(q, s)
  <2>1. Tick \/ UNCHANGED vars => UNCHANGED lease
    BY DEF Tick, vars
  <2>2. \A q \in Pod : Exit(q) \/ Start(q) \/ Stop(q) => UNCHANGED lease
    BY DEF Exit, Start, Stop
  <2>3. \A q \in Pod : \A s \in Slots : Read(q, s) \/ Refuse(q, s) => UNCHANGED lease
    BY DEF Read, Refuse
  <2>4. \A q \in Pod : \A s \in Slot : StartAcquire(q, s) \/ StartRenew(q, s) => UNCHANGED lease
    BY DEF StartAcquire, StartRenew
  <2>5. ASSUME NEW q \in Pod, NEW s \in Slots,
               \/ DecideAcquire(q, s) \/ FinishAcquire(q, s)
               \/ DecideRenew(q, s) \/ FinishRenew(q, s)
               \/ DecideRelease(q, s) \/ FinishRelease(q, s)
               \/ Fail(q, s)
        PROVE  UNCHANGED lease
    BY <2>5 DEF DecideAcquire, FinishAcquire, DecideRenew, FinishRenew, DecideRelease,
       FinishRelease, Fail, Attempt
  <2>6. ASSUME NEW q \in Pod, Elector(q)
        PROVE  UNCHANGED lease
    BY <2>6, <2>2, <2>4, <2>5 DEF Elector
  <2>7. QED
    BY <1>1, <2>1, <2>2, <2>3, <2>6 DEF LeaseNext
<1>3. op[q][s] \in Op /\ op[q][s].lease \in Lease /\ KnowsLease(q, op[q][s])
  BY OpAt
<1>4. op[q][s].lease.version \in Nat /\ op[q][s].lease.holder \in {q, Nobody}
  BY <1>2, <1>3 DEF Apply, KnowsLease
<1>5. op[q][s].lease.version = lease.version
  BY <1>2, <1>4 DEF Apply, AnyVersion
<1>6. lease'.holder = op[q][s].lease.holder
  BY <1>2, <1>3 DEF Apply, Lease
<1>7. p = q
  BY <1>4, <1>6, LeaseAssumption
<1>8. QED
  BY <1>2, <1>3, <1>5, <1>6, <1>7 DEF Apply, KnowsLease

\* The lease changes hands only when it is expired, by the clock of the pod
\* that takes it, at the moment its write arrives (k8s-lease.ts:119-131).
THEOREM TakeoverNeedsExpiry == LeaseSpec => TakeoverOnlyExpired
<1>1. LeaseInv /\ [LeaseNext]_vars =>
        [\A p \in Pod : lease.version # 0 /\ lease.holder # p /\ lease'.holder = p
            => Clock(p) - lease.renewTime > LeaseDuration]_vars
  BY TakeoverStep
<1>2. QED
  BY <1>1, LeaseInitInv, LeaseStepInv, PTL DEF LeaseSpec, TakeoverOnlyExpired

-----------------------------------------------------------------------------
(* What a pod knows of its own renewals.                                   *)

\* The attempt o of p has learnt of a lease of p: read it, or written it.
Learns(p, o) ==
    \/ o.at = "answered" /\ o.lease.version # 0 /\ o.lease.holder = p
    \/ o.at = "replied" /\ o.ok /\ o.kind \in {"acquire", "renew"}

HasLed(p) == leader[p] \/ stamp[p] # Drift[p] - LeaseDuration

\* The renewals p knows of: its stamp, and those its attempts will put there.
Known(p) ==
    {r \in Int : \/ HasLed(p) /\ r = stamp[p]
                 \/ \E s \in Slots : Learns(p, op[p][s]) /\ r = op[p][s].lease.renewTime}

\* r lies between the start of the pod's clock and its hands.
OnClock(p, r) == Drift[p] <= r /\ r <= Clock(p)

\* A renewal p knows of is not newer than the lease while p holds it or has
\* released it, and is old by the clock of p once another pod took over.
SoundRenewal(p, r) ==
    /\ lease.version # 0
    /\ OnClock(p, r)
    /\ lease.holder = p => r <= lease.renewTime
    /\ lease.holder # p =>
        \/ Clock(p) - r > LeaseDuration - DriftBound
        \/ lease.holder = Nobody /\ r <= lease.renewTime

\* What is still to be written is not older than what p knows and, while it
\* may replace the lease, than the lease of p.
SoundWrite(p, o) ==
    /\ OnClock(p, o.lease.renewTime)
    /\ o.kind \in {"acquire", "renew"} => o.lease.holder = p
    /\ o.lease.version = lease.version =>
        /\ \A r \in Known(p) : r <= o.lease.renewTime
        /\ lease.holder = p => lease.renewTime <= o.lease.renewTime
        /\ o.lease.holder = Nobody => lease.holder = p

RenewalInv ==
    /\ LeaseInv
    /\ \A p \in Pod : lease.holder = p => OnClock(p, lease.renewTime)
    /\ \A p \in Pod : \A r \in Known(p) : SoundRenewal(p, r)
    /\ \A p \in Pod, s \in Slots : op[p][s].at = "sent" => SoundWrite(p, op[p][s])

LEMMA ClockType ==
    ASSUME LeaseTypeOK, NEW p \in Pod
    PROVE  Clock(p) \in Int /\ Drift[p] \in Int /\ Drift[p] <= Clock(p)
BY LeaseAssumption DEF LeaseTypeOK, Clock

\* A pod that learns of a renewal it knew of knows nothing newer by it.
LEMMA StampIsKnown ==
    ASSUME RenewalInv, NEW p \in Pod, NEW held \in Lease, held.renewTime \in Known(p),
           stamp' = [stamp EXCEPT ![p] = Larger(@, held.renewTime)]
    PROVE  stamp'[p] \in Known(p) /\ \A q \in Pod \ {p} : stamp'[q] = stamp[q]
<1>1. LeaseTypeOK /\ stamp[p] \in Int /\ held.renewTime \in Int
  BY DEF RenewalInv, LeaseInv, LeaseTypeOK, Lease
<1>2. stamp'[p] = Larger(stamp[p], held.renewTime) /\ \A q \in Pod \ {p} : stamp'[q] = stamp[q]
  BY <1>1 DEF LeaseTypeOK
<1>3. Drift[p] <= held.renewTime
  BY DEF RenewalInv, SoundRenewal, OnClock
<1>4. CASE stamp[p] > held.renewTime
  <2>1. Drift[p] \in Int /\ LeaseDuration \in Nat
    BY LeaseAssumption
  <2>2. stamp[p] # Drift[p] - LeaseDuration
    BY <1>1, <1>3, <1>4, <2>1
  <2>3. stamp[p] \in Known(p)
    BY <1>1, <2>2 DEF Known, HasLed
  <2>4. QED
    BY <1>1, <1>2, <1>4, <2>3 DEF Larger
<1>5. CASE stamp[p] <= held.renewTime
  <2>1. stamp'[p] = held.renewTime
    BY <1>1, <1>2, <1>5 DEF Larger
  <2>2. QED
    BY <1>2, <2>1
<1>6. QED
  BY <1>1, <1>4, <1>5

\* A step of one attempt that neither moves the clock nor writes the lease:
\* p learns of nothing but what it knew or of the lease it holds.
LEMMA LocalStepKeepsRenewals ==
    ASSUME RenewalInv, LeaseInv', Local, NEW p \in Pod, NEW s \in Slots, NEW o \in Op, Becomes(p, s, o),
           \A q \in Pod \ {p} : leader'[q] = leader[q] /\ stamp'[q] = stamp[q],
           HasLed(p)' => stamp'[p] \in Known(p),
           Learns(p, o) => \/ o.lease.renewTime \in Known(p)
                           \/ lease.version # 0 /\ lease.holder = p /\ o.lease.renewTime = lease.renewTime,
           o.at = "sent" => SoundWrite(p, o)
    PROVE  RenewalInv'
<1> DEFINE Fresh(q, r) == lease.version # 0 /\ lease.holder = q /\ r = lease.renewTime
<1>1. /\ LeaseTypeOK /\ op'[p][s] = o
      /\ \A q \in Pod, t \in Slots : op'[q][t] = op[q][t] \/ (q = p /\ t = s)
  BY OneAttempt DEF RenewalInv, LeaseInv
<1>2. ASSUME NEW q \in Pod, NEW r \in Known(q)'
      PROVE  r \in Known(q) \/ Fresh(q, r)
  <2>1. r \in Int
    BY <1>2 DEF Known
  <2>2. CASE HasLed(q)' /\ r = stamp'[q]
    <3>1. CASE q = p
      BY <2>2, <3>1
    <3>2. CASE q # p
      BY <2>1, <2>2, <3>2 DEF Known, HasLed
    <3>3. QED
      BY <3>1, <3>2
  <2>3. CASE \E t \in Slots : Learns(q, op'[q][t]) /\ r = op'[q][t].lease.renewTime
    <3>1. PICK t \in Slots : Learns(q, op'[q][t]) /\ r = op'[q][t].lease.renewTime
      BY <2>3
    <3>2. CASE op'[q][t] = op[q][t]
      BY <2>1, <3>1, <3>2 DEF Known
    <3>3. CASE q = p /\ t = s
      BY <1>1, <3>1, <3>3
    <3>4. QED
      BY <1>1, <3>2, <3>3
  <2>4. QED
    BY <1>2, <2>2, <2>3 DEF Known, Learns
<1>3. \A q \in Pod : (lease.holder = q => OnClock(q, lease.renewTime))'
  BY DEF RenewalInv, Local, OnClock, Clock
<1>4. ASSUME NEW q \in Pod, NEW r \in Known(q)'
      PROVE  SoundRenewal(q, r)'
  <2>1. SoundRenewal(q, r)
    <3>1. CASE r \in Known(q)
      BY <3>1 DEF RenewalInv
    <3>2. CASE Fresh(q, r)
      <4>1. OnClock(q, r) /\ r \in Int
        BY <1>1, <3>2 DEF RenewalInv, LeaseTypeOK, Lease
      <4>2. QED
        BY <3>2, <4>1 DEF SoundRenewal
    <3>3. QED
      BY <1>2, <1>4, <3>1, <3>2
  <2>2. QED
    BY <2>1 DEF SoundRenewal, OnClock, Clock, Local
<1>5. ASSUME NEW q \in Pod, NEW t \in Slots, op'[q][t].at = "sent"
      PROVE  SoundWrite(q, op[q][t])'
  <2>1. SoundWrite(q, op'[q][t])
    BY <1>1, <1>5 DEF RenewalInv
  <2>2. op'[q][t].lease.version = lease.version => \A r \in Known(q)' : r <= op'[q][t].lease.renewTime
    BY <1>2, <2>1 DEF SoundWrite
  <2>3. QED
    BY <2>1, <2>2 DEF SoundWrite, OnClock, Clock, Local
<1>6. QED
  BY <1>3, <1>4, <1>5 DEF RenewalInv

\* A pod that writes what it has just built writes nothing older than it knows.
LEMMA SoundSend ==
    ASSUME RenewalInv, NEW p \in Pod, NEW s \in Slots, NEW l \in Lease,
           op[p][s].at = "answered",
           l.version = op[p][s].lease.version,
           l.renewTime = Clock(p),
           l.holder \in {p, Nobody},
           l.holder = Nobody => /\ op[p][s].kind = "release"
                                /\ op[p][s].lease.version # 0 /\ op[p][s].lease.holder = p
    PROVE  SoundWrite(p, [op[p][s] EXCEPT !.at = "sent", !.lease = l])
<1> DEFINE o == [op[p][s] EXCEPT !.at = "sent", !.lease = l]
<1>1. LeaseTypeOK /\ op[p][s] \in Op /\ KnowsLease(p, op[p][s])
  BY OpAt DEF RenewalInv, LeaseInv
<1>2. o.kind = op[p][s].kind /\ o.lease = l
  BY <1>1 DEF Op
<1>3. Clock(p) \in Int /\ OnClock(p, Clock(p))
  BY <1>1, ClockType DEF OnClock
<1>4. \A r \in Known(p) : r <= Clock(p)
  BY DEF RenewalInv, SoundRenewal, OnClock
<1>5. lease.holder = p => lease.renewTime <= Clock(p)
  BY DEF RenewalInv, OnClock
<1>6. l.version = lease.version /\ l.holder = Nobody => lease.holder = p
  BY <1>1 DEF KnowsLease
<1>7. op[p][s].kind \in {"acquire", "renew"} => l.holder = p
  OBVIOUS
<1> HIDE DEF o
<1>8. QED
  BY <1>2, <1>3, <1>4, <1>5, <1>6, <1>7 DEF SoundWrite

\* Nothing learnt from an attempt that is over, asked or given up.
LEMMA NothingLearnt ==
    ASSUME NEW p, NEW o, o.at \in {"idle", "asked", "sent"} \/ (o.at = "replied" /\ ~o.ok)
    PROVE  ~Learns(p, o)
BY DEF Learns

\* A pod that stamps nothing knows no more of its past.
LEMMA NothingStamped ==
    ASSUME RenewalInv, NEW p \in Pod, UNCHANGED <<leader, stamp>> \/ StepsDown(p)
    PROVE  /\ \A q \in Pod \ {p} : leader'[q] = leader[q] /\ stamp'[q] = stamp[q]
           /\ HasLed(p)' => stamp'[p] \in Known(p)
<1>1. leader \in [Pod -> BOOLEAN] /\ stamp \in [Pod -> Int]
  BY DEF RenewalInv, LeaseInv, LeaseTypeOK
<1>2. UNCHANGED stamp /\ (leader'[p] => leader[p]) /\ \A q \in Pod \ {p} : leader'[q] = leader[q]
  BY <1>1 DEF StepsDown
<1>3. HasLed(p)' => HasLed(p)
  BY <1>2 DEF HasLed
<1>4. QED
  BY <1>1, <1>2, <1>3 DEF Known

\* One that becomes leader on, or renews, a lease it knows of.
LEMMA KnownStamped ==
    ASSUME RenewalInv, NEW p \in Pod, NEW held \in Lease, held.renewTime \in Known(p),
           \/ BecomesLeader(p, held)
           \/ UNCHANGED leader /\ stamp' = [stamp EXCEPT ![p] = Larger(@, held.renewTime)]
    PROVE  /\ \A q \in Pod \ {p} : leader'[q] = leader[q] /\ stamp'[q] = stamp[q]
           /\ HasLed(p)' => stamp'[p] \in Known(p)
<1>1. leader \in [Pod -> BOOLEAN]
  BY DEF RenewalInv, LeaseInv, LeaseTypeOK
<1>2. stamp' = [stamp EXCEPT ![p] = Larger(@, held.renewTime)]
      /\ \A q \in Pod \ {p} : leader'[q] = leader[q]
  BY <1>1 DEF BecomesLeader
<1>3. QED
  BY <1>2, StampIsKnown

\* Timers, decisions, answers and failures of one attempt.
LEMMA AttemptKeepsRenewals ==
    ASSUME RenewalInv, LeaseInv', NEW p \in Pod, NEW s \in Slots,
           \/ s \in Slot /\ (StartAcquire(p, s) \/ StartRenew(p, s))
           \/ DecideAcquire(p, s) \/ FinishAcquire(p, s)
           \/ DecideRenew(p, s) \/ FinishRenew(p, s)
           \/ DecideRelease(p, s) \/ FinishRelease(p, s)
           \/ Fail(p, s) \/ Read(p, s) \/ Refuse(p, s)
    PROVE  RenewalInv'
<1> DEFINE Stamps == /\ \A q \in Pod \ {p} : leader'[q] = leader[q] /\ stamp'[q] = stamp[q]
                     /\ HasLed(p)' => stamp'[p] \in Known(p)
           Fits(o) == /\ o \in Op /\ Becomes(p, s, o)
                      /\ Learns(p, o) => \/ o.lease.renewTime \in Known(p)
                                         \/ /\ lease.version # 0 /\ lease.holder = p
                                            /\ o.lease.renewTime = lease.renewTime
                      /\ o.at = "sent" => SoundWrite(p, o)
           seen == op[p][s].lease
<1>a. /\ LeaseInv /\ LeaseTypeOK
      /\ op[p][s] \in Op /\ seen \in Lease /\ seen.renewTime \in Int /\ KnowsLease(p, op[p][s])
  BY OpAt DEF RenewalInv, LeaseInv, Lease
<1>b. Learns(p, op[p][s]) => seen.renewTime \in Known(p)
  BY <1>a DEF Known
<1>c. Ends(p, s) => Fits(Idle)
  BY IdleIsOp, NothingLearnt DEF Ends, Idle
<1>d. \A kind \in {"acquire", "renew", "release"} : Becomes(p, s, Asked(kind)) => Fits(Asked(kind))
  BY AskedIsOp, NothingLearnt
<1>e. StaysAsItIs \/ StepsDown(p) \/ UNCHANGED <<leader, stamp>> => Stamps
  BY NothingStamped DEF StaysAsItIs
<1>f. /\ BuildLease(p, seen) \in Lease /\ ReleasedLease(p, seen) \in Lease
      /\ BuildLease(p, seen).holder = p /\ ReleasedLease(p, seen).holder = Nobody
      /\ BuildLease(p, seen).version = seen.version /\ ReleasedLease(p, seen).version = seen.version
      /\ BuildLease(p, seen).renewTime = Clock(p) /\ ReleasedLease(p, seen).renewTime = Clock(p)
  BY <1>a, BuildLeaseIsLease DEF BuildLease, ReleasedLease
<1>g. ASSUME NEW l \in {BuildLease(p, seen), ReleasedLease(p, seen)},
             op[p][s].at = "answered", Sends(p, s, l),
             l.holder = Nobody => op[p][s].kind = "release" /\ seen.version # 0 /\ seen.holder = p
      PROVE  \E o : Fits(o)
  <2> DEFINE o == [op[p][s] EXCEPT !.at = "sent", !.lease = l]
  <2>1. SoundWrite(p, o)
    BY <1>f, <1>g, SoundSend
  <2>2. o \in Op /\ o.at = "sent"
    BY <1>a, <1>f DEF Op
  <2>3. Becomes(p, s, o)
    BY <1>g DEF Sends
  <2> HIDE DEF o
  <2>4. Fits(o)
    BY <2>1, <2>2, <2>3, NothingLearnt
  <2>5. QED
    BY <2>4
<1> HIDE DEF seen
<1>1. ASSUME StartAcquire(p, s) \/ StartRenew(p, s)
      PROVE  Local /\ Stamps /\ \E o : Fits(o)
  BY <1>1, <1>d, <1>e DEF StartAcquire, StartRenew, Local, podVars
<1>2. ASSUME DecideAcquire(p, s)
      PROVE  Local /\ Stamps /\ \E o : Fits(o)
  <2>1. op[p][s].at = "answered" /\ Local
    BY <1>2 DEF DecideAcquire, Attempt, Local
  <2>2. CASE Sends(p, s, BuildLease(p, seen)) /\ StaysAsItIs
    <3>1. p # Nobody
      BY LeaseAssumption
    <3>2. QED
      BY <2>1, <2>2, <3>1, <1>e, <1>f, <1>g
  <2>3. CASE seen.version # 0 /\ seen.holder = p /\ BecomesLeader(p, seen) /\ Ends(p, s)
    <3>1. Learns(p, op[p][s])
      BY <2>1, <2>3 DEF Learns, seen
    <3>2. Stamps
      BY <2>3, <3>1, <1>a, <1>b, KnownStamped
    <3>3. QED
      BY <2>1, <2>3, <3>2, <1>c
  <2>4. CASE StaysAsItIs /\ Ends(p, s)
    BY <2>1, <2>4, <1>c, <1>e
  <2>5. QED
    BY <1>2, <2>2, <2>3, <2>4 DEF DecideAcquire, seen
<1>3. ASSUME FinishAcquire(p, s) \/ FinishRenew(p, s)
      PROVE  Local /\ Stamps /\ \E o : Fits(o)
  <2>1. Local /\ Ends(p, s) /\ op[p][s].at = "replied" /\ op[p][s].kind \in {"acquire", "renew"}
    BY <1>3 DEF FinishAcquire, FinishRenew, Attempt, Local
  <2>2. CASE op[p][s].ok
    <3>1. seen.renewTime \in Known(p)
      BY <2>1, <2>2, <1>b DEF Learns
    <3>2. \/ BecomesLeader(p, seen)
          \/ UNCHANGED leader /\ stamp' = [stamp EXCEPT ![p] = Larger(@, seen.renewTime)]
      BY <1>3, <2>2 DEF FinishAcquire, FinishRenew, seen
    <3>3. Stamps
      BY <3>1, <3>2, <1>a, KnownStamped
    <3>4. QED
      BY <2>1, <3>3, <1>c
  <2>3. CASE ~op[p][s].ok
    <3>1. StaysAsItIs \/ StepsDown(p)
      BY <1>3, <2>3 DEF FinishAcquire, FinishRenew
    <3>2. QED
      BY <2>1, <3>1, <1>c, <1>e
  <2>4. QED
    BY <2>2, <2>3
<1>4. ASSUME DecideRenew(p, s) \/ DecideRelease(p, s)
      PROVE  Local /\ Stamps /\ \E o : Fits(o)
  <2>1. op[p][s].at = "answered" /\ Local
    BY <1>4 DEF DecideRenew, DecideRelease, Attempt, Local
  <2>2. CASE seen.version # 0 /\ seen.holder = p
    <3>1. \/ Sends(p, s, BuildLease(p, seen)) /\ StaysAsItIs
          \/ Sends(p, s, ReleasedLease(p, seen)) /\ StaysAsItIs /\ op[p][s].kind = "release"
      BY <1>4, <2>2 DEF DecideRenew, DecideRelease, Attempt, seen
    <3>2. p # Nobody
      BY LeaseAssumption
    <3>3. \E o : Fits(o)
      BY <2>1, <2>2, <3>1, <3>2, <1>f, <1>g
    <3>4. QED
      BY <2>1, <3>1, <3>3, <1>e
  <2>3. CASE ~(seen.version # 0 /\ seen.holder = p)
    <3>1. Ends(p, s) /\ StepsDown(p)
      BY <1>4, <2>3 DEF DecideRenew, DecideRelease, seen
    <3>2. QED
      BY <2>1, <3>1, <1>c, <1>e
  <2>4. QED
    BY <2>2, <2>3
<1>5. ASSUME FinishRelease(p, s)
      PROVE  Local /\ Stamps /\ \E o : Fits(o)
  BY <1>5, <1>c, <1>e DEF FinishRelease, Attempt, Local
<1>6. ASSUME Fail(p, s)
      PROVE  Local /\ Stamps /\ \E o : Fits(o)
  <2>1. Local /\ Stamps /\ Becomes(p, s, Abandoned(op[p][s]))
    BY <1>6, <1>e DEF Fail, Local
  <2>2. Abandoned(op[p][s]) \in Op /\ Abandoned(op[p][s]).at \in {"idle", "sent"}
    BY <1>a, AbandonedIsOp
  <2>3. Abandoned(op[p][s]).at = "sent" => SoundWrite(p, Abandoned(op[p][s]))
    <3>1. ASSUME op[p][s].at = "sent"
          PROVE  /\ Abandoned(op[p][s]).kind = "orphan"
                 /\ Abandoned(op[p][s]).lease = op[p][s].lease
                 /\ SoundWrite(p, op[p][s])
      BY <3>1, <1>a DEF Abandoned, Op, RenewalInv
    <3>2. QED
      BY <3>1, <1>a, AbandonedIsOp DEF SoundWrite
  <2>4. Fits(Abandoned(op[p][s]))
    BY <2>1, <2>2, <2>3, NothingLearnt
  <2>5. QED
    BY <2>1, <2>4
<1>7. ASSUME Read(p, s)
      PROVE  Local /\ Stamps /\ \E o : Fits(o)
  <2> DEFINE o == [op[p][s] EXCEPT !.at = "answered", !.lease = lease]
  <2>1. o \in Op /\ o.at = "answered" /\ o.lease = lease
    BY <1>a DEF Op, LeaseTypeOK
  <2>2. Becomes(p, s, o)
    BY <1>7 DEF Read
  <2> HIDE DEF o
  <2>3. Fits(o)
    BY <2>1, <2>2 DEF Learns
  <2>4. QED
    BY <1>7, <2>3, <1>e DEF Read, Local, podVars
<1>8. ASSUME Refuse(p, s)
      PROVE  Local /\ Stamps /\ \E o : Fits(o)
  <2> DEFINE o == [op[p][s] EXCEPT !.at = "replied", !.ok = FALSE]
  <2>1. o \in Op /\ o.at = "replied" /\ ~o.ok
    BY <1>a DEF Op
  <2>2. Ends(p, s) \/ Becomes(p, s, o)
    BY <1>8 DEF Refuse, Reply
  <2> HIDE DEF o
  <2>3. Becomes(p, s, o) => Fits(o)
    BY <2>1, NothingLearnt
  <2>4. \E x : Fits(x)
    BY <2>2, <2>3, <1>c
  <2>5. QED
    BY <1>8, <2>4, <1>e DEF Refuse, Local, podVars
<1>9. Local /\ Stamps /\ \E o : Fits(o)
  BY <1>1, <1>2, <1>3, <1>4, <1>5, <1>6, <1>7, <1>8
<1>10. QED
  BY <1>9, LocalStepKeepsRenewals

\* The write of p: what p knows is not newer than the lease it writes, and
\* what another pod knows has aged, for p found its lease expired.
LEMMA ApplyKeepsRenewals ==
    ASSUME RenewalInv, LeaseInv', NEW p \in Pod, NEW s \in Slots, Apply(p, s)
    PROVE  RenewalInv'
<1> DEFINE l == op[p][s].lease
           o == [op[p][s] EXCEPT !.at = "replied", !.ok = TRUE]
<1>1. LeaseInv /\ LeaseTypeOK /\ op[p][s] \in Op /\ l \in Lease
      /\ KnowsLease(p, op[p][s]) /\ SoundWrite(p, op[p][s])
  BY OpAt DEF RenewalInv, LeaseInv, Apply
<1>2. l.version = lease.version /\ l.version \in Nat /\ l.holder \in {p, Nobody}
  BY <1>1 DEF Apply, KnowsLease, AnyVersion
<1>3. /\ lease'.holder = l.holder /\ lease'.renewTime = l.renewTime
      /\ lease'.version = lease.version + 1 /\ lease'.version # 0
      /\ UNCHANGED <<now, leader, stamp>>
  BY <1>1, <1>2 DEF Apply, Lease, LeaseTypeOK, podVars
<1>4. /\ l.renewTime \in Int /\ OnClock(p, l.renewTime)
      /\ op[p][s].kind \in {"acquire", "renew"} => l.holder = p
      /\ \A r \in Known(p) : r <= l.renewTime
      /\ l.holder = Nobody => lease.holder = p
  BY <1>1, <1>2 DEF SoundWrite, Lease
<1>5. PICK x \in Op : /\ Becomes(p, s, x)
                      /\ x.at \in {"idle", "replied"}
                      /\ Learns(p, x) => x.lease.renewTime = l.renewTime
  <2>1. o \in Op /\ o.at = "replied" /\ o.lease = l
    BY <1>1 DEF Op
  <2>2. Ends(p, s) \/ Becomes(p, s, o)
    BY DEF Apply, Reply
  <2>3. Idle.at = "idle" /\ ~Learns(p, Idle)
    BY DEF Idle, Learns
  <2> HIDE DEF o
  <2>4. QED
    BY <2>1, <2>2, <2>3, IdleIsOp DEF Ends
<1>6. /\ op'[p][s] = x
      /\ \A q \in Pod, t \in Slots : op'[q][t] = op[q][t] \/ (q = p /\ t = s)
  BY <1>1, <1>5, OneAttempt
<1>7. ASSUME NEW q \in Pod, NEW r \in Known(q)'
      PROVE  r \in Known(q) \/ (q = p /\ r = l.renewTime)
  <2>1. r \in Int
    BY <1>7 DEF Known
  <2>2. CASE HasLed(q)' /\ r = stamp'[q]
    BY <1>3, <2>1, <2>2 DEF Known, HasLed
  <2>3. CASE \E t \in Slots : Learns(q, op'[q][t]) /\ r = op'[q][t].lease.renewTime
    <3>1. PICK t \in Slots : Learns(q, op'[q][t]) /\ r = op'[q][t].lease.renewTime
      BY <2>3
    <3>2. CASE op'[q][t] = op[q][t]
      BY <2>1, <3>1, <3>2 DEF Known
    <3>3. CASE q = p /\ t = s
      BY <1>5, <1>6, <3>1, <3>3
    <3>4. QED
      BY <1>6, <3>2, <3>3
  <2>4. QED
    BY <1>7, <2>2, <2>3 DEF Known, Learns
<1>8. ASSUME NEW q \in Pod
      PROVE  (lease.holder = q => OnClock(q, lease.renewTime))'
  BY <1>2, <1>3, <1>4, LeaseAssumption DEF OnClock, Clock
<1>9. ASSUME NEW q \in Pod, NEW r \in Known(q)'
      PROVE  SoundRenewal(q, r)'
  <2>1. r \in Int /\ Clock(q) \in Int /\ Clock(p) \in Int /\ lease.renewTime \in Int
    BY <1>1, <1>9, ClockType DEF Known, LeaseTypeOK, Lease
  <2>2. CASE q = p
    <3>1. OnClock(p, r) /\ r <= l.renewTime
      BY <1>4, <1>7, <1>9, <2>1, <2>2 DEF RenewalInv, SoundRenewal
    <3>2. QED
      BY <1>2, <1>3, <2>2, <3>1 DEF SoundRenewal, OnClock, Clock
  <2>3. CASE q # p
    <3>1. SoundRenewal(q, r)
      BY <1>7, <1>9, <2>3 DEF RenewalInv
    <3>2. Clock(q) - r > LeaseDuration - DriftBound
      <4>1. CASE r <= lease.renewTime /\ lease.holder # p
        <5>1. l.holder = p
          BY <1>2, <1>4, <4>1
        <5>2. Clock(p) - lease.renewTime > LeaseDuration
          BY <1>1, <1>2, <3>1, <4>1, <5>1 DEF KnowsLease, Apply, SoundRenewal
        <5>3. Clock(p) - Clock(q) <= DriftBound
          BY <1>1, LeaseAssumption DEF Clock, LeaseTypeOK
        <5>4. LeaseDuration \in Nat /\ DriftBound \in Nat
          BY LeaseAssumption
        <5>5. QED
          BY <2>1, <4>1, <5>2, <5>3, <5>4
      <4>2. CASE lease.holder = p
        BY <2>3, <3>1, <4>2, LeaseAssumption DEF SoundRenewal
      <4>3. QED
        BY <3>1, <4>1, <4>2 DEF SoundRenewal
    <3>3. QED
      BY <1>2, <1>3, <2>3, <3>1, <3>2, LeaseAssumption DEF SoundRenewal, OnClock, Clock
  <2>4. QED
    BY <2>2, <2>3
<1>10. ASSUME NEW q \in Pod, NEW t \in Slots, op'[q][t].at = "sent"
       PROVE  SoundWrite(q, op[q][t])'
  <2>1. op'[q][t] = op[q][t]
    BY <1>5, <1>6, <1>10
  <2>2. SoundWrite(q, op[q][t]) /\ KnowsLease(q, op[q][t])
    BY <1>10, <2>1, OpAt DEF RenewalInv
  <2>3. op[q][t].lease.version # lease'.version
    BY <1>1, <1>3, <1>10, <2>1, <2>2 DEF KnowsLease, LeaseTypeOK
  <2>4. QED
    BY <1>3, <2>1, <2>2, <2>3 DEF SoundWrite, OnClock, Clock
<1>11. QED
  BY <1>8, <1>9, <1>10 DEF RenewalInv

\* A step that leaves the lease, the beliefs and the attempts alone, or gives
\* attempts up, while the clock stands still or moves on.
LEMMA AgeingKeepsRenewals ==
    ASSUME RenewalInv, LeaseInv', UNCHANGED <<lease, stamp>>, now' \in {now, now + 1},
           \A p \in Pod : leader'[p] => leader[p],
           \A p \in Pod, s \in Slots : op'[p][s] \in {op[p][s], Abandoned(op[p][s])}
    PROVE  RenewalInv'
<1>1. LeaseTypeOK /\ lease.renewTime \in Int
  BY DEF RenewalInv, LeaseInv, LeaseTypeOK, Lease
<1>2. \A p \in Pod, s \in Slots :
        /\ Learns(p, op'[p][s]) => op'[p][s] = op[p][s]
        /\ op'[p][s].at = "sent" =>
             op[p][s].at = "sent" /\ op'[p][s].lease = op[p][s].lease
             /\ op'[p][s].kind \in {op[p][s].kind, "orphan"}
  <2> SUFFICES ASSUME NEW p \in Pod, NEW s \in Slots
               PROVE  /\ Learns(p, op'[p][s]) => op'[p][s] = op[p][s]
                      /\ op'[p][s].at = "sent" =>
                           op[p][s].at = "sent" /\ op'[p][s].lease = op[p][s].lease
                           /\ op'[p][s].kind \in {op[p][s].kind, "orphan"}
    OBVIOUS
  <2>1. op[p][s] \in Op
    BY OpAt DEF RenewalInv
  <2>2. CASE op'[p][s] = op[p][s]
    BY <2>2
  <2>3. CASE op'[p][s] = Abandoned(op[p][s])
    BY <2>1, <2>3, AbandonedIsOp, NothingLearnt DEF Abandoned, Op, Idle
  <2>4. QED
    BY <2>2, <2>3
<1>3. \A p \in Pod : Known(p)' \subseteq Known(p)
  BY <1>2 DEF Known, HasLed
<1>4. \A p \in Pod : Clock(p) \in Int /\ Clock(p)' \in Int /\ Clock(p) <= Clock(p)' /\ Drift[p] \in Int
  BY <1>1, LeaseAssumption DEF Clock, LeaseTypeOK
<1>5. ASSUME NEW p \in Pod, NEW r \in Int, OnClock(p, r)
      PROVE  OnClock(p, r)'
  BY <1>4, <1>5 DEF OnClock
<1>6. ASSUME NEW p \in Pod
      PROVE  (lease.holder = p => OnClock(p, lease.renewTime))'
  <2>1. lease.holder = p => OnClock(p, lease.renewTime)'
    <3>1. PICK r \in Int : r = lease.renewTime
      BY <1>1
    <3>2. lease.holder = p => OnClock(p, r)'
      BY <1>5, <3>1 DEF RenewalInv
    <3>3. QED
      BY <3>1, <3>2 DEF OnClock
  <2>2. QED
    BY <2>1
<1>7. ASSUME NEW p \in Pod, NEW r \in Known(p)'
      PROVE  SoundRenewal(p, r)'
  <2>1. r \in Int /\ SoundRenewal(p, r)
    BY <1>3, <1>7 DEF RenewalInv, Known
  <2>2. Clock(p) - r > LeaseDuration - DriftBound => Clock(p)' - r > LeaseDuration - DriftBound
    <3>1. LeaseDuration \in Nat /\ DriftBound \in Nat
      BY LeaseAssumption
    <3>2. QED
      BY <1>4, <2>1, <3>1
  <2>3. OnClock(p, r)'
    BY <1>5, <2>1 DEF SoundRenewal
  <2>4. QED
    BY <2>1, <2>2, <2>3 DEF SoundRenewal
<1>8. ASSUME NEW p \in Pod, NEW s \in Slots, op'[p][s].at = "sent"
      PROVE  SoundWrite(p, op[p][s])'
  <2>1. SoundWrite(p, op[p][s]) /\ op[p][s].lease.renewTime \in Int
    BY <1>2, <1>8, OpAt DEF RenewalInv, Lease
  <2>2. OnClock(p, op[p][s].lease.renewTime)'
    <3>1. PICK r \in Int : r = op[p][s].lease.renewTime
      BY <2>1
    <3>2. OnClock(p, r)' /\ op'[p][s].lease.renewTime = r
      BY <1>2, <1>5, <1>8, <2>1, <3>1 DEF SoundWrite
    <3>3. QED
      BY <3>2 DEF OnClock
  <2>3. QED
    BY <1>2, <1>3, <1>8, <2>1, <2>2 DEF SoundWrite
<1>9. QED
  BY <1>6, <1>7, <1>8 DEF RenewalInv

LEMMA RenewalInvInit == LeaseInit => RenewalInv
<1> SUFFICES ASSUME LeaseInit PROVE RenewalInv
  OBVIOUS
<1>1. LeaseInv
  BY LeaseInitInv
<1>2. \A p \in Pod, s \in Slots : op[p][s].at = "idle"
  BY DEF LeaseInit, Idle
<1>3. \A p \in Pod : Known(p) = {}
  BY <1>2, LeaseAssumption DEF LeaseInit, Known, HasLed, Learns
<1>4. \A p \in Pod : lease.holder # p
  BY LeaseAssumption DEF LeaseInit, NoLease
<1>5. QED
  BY <1>1, <1>2, <1>3, <1>4 DEF RenewalInv

LEMMA RenewalInvStep == RenewalInv /\ [LeaseNext]_vars => RenewalInv'
<1> SUFFICES ASSUME RenewalInv, [LeaseNext]_vars PROVE RenewalInv'
  OBVIOUS
<1>1. LeaseInv' /\ LeaseTypeOK
  BY LeaseStepInv DEF RenewalInv, LeaseInv
<1>2. CASE Tick
  BY <1>1, <1>2, AgeingKeepsRenewals DEF Tick, podVars
<1>3. CASE UNCHANGED vars
  BY <1>1, <1>3, AgeingKeepsRenewals DEF vars, podVars
<1>4. ASSUME NEW p \in Pod, Stop(p)
      PROVE  RenewalInv'
  <2>1. CASE leader[p]
    <3>1. Becomes(p, ReleaseSlot, Asked("release")) /\ ReleaseSlot \in Slots /\ Local
      BY <1>4, <2>1 DEF Stop, Slots, Local
    <3>2. Asked("release") \in Op /\ Asked("release").at = "asked"
      BY AskedIsOp
    <3>3. UNCHANGED <<leader, stamp>>
      BY <1>4 DEF Stop
    <3>4. ~Learns(p, Asked("release"))
      BY <3>2, NothingLearnt
    <3>5. QED
      BY <1>1, <3>1, <3>2, <3>3, <3>4, NothingStamped, LocalStepKeepsRenewals
  <2>2. CASE ~leader[p]
    BY <1>1, <1>4, <2>2, AgeingKeepsRenewals DEF Stop
  <2>3. QED
    BY <2>1, <2>2
<1>5. ASSUME NEW p \in Pod, Exit(p)
      PROVE  RenewalInv'
  <2>1. \A q \in Pod, t \in Slots : op'[q][t] \in {op[q][t], Abandoned(op[q][t])}
    BY <1>1, <1>5 DEF Exit, LeaseTypeOK
  <2>2. \A q \in Pod : leader'[q] => leader[q]
    BY <1>1, <1>5 DEF Exit, LeaseTypeOK
  <2>3. QED
    BY <1>1, <1>5, <2>1, <2>2, AgeingKeepsRenewals DEF Exit
<1>6. ASSUME NEW p \in Pod, Start(p)
      PROVE  RenewalInv'
  BY <1>1, <1>6, AgeingKeepsRenewals DEF Start
<1>7. ASSUME NEW p \in Pod, NEW s \in Slots, Apply(p, s)
      PROVE  RenewalInv'
  BY <1>1, <1>7, ApplyKeepsRenewals
<1>8. CASE \E p \in Pod, s \in Slots :
             \/ s \in Slot /\ (StartAcquire(p, s) \/ StartRenew(p, s))
             \/ DecideAcquire(p, s) \/ FinishAcquire(p, s)
             \/ DecideRenew(p, s) \/ FinishRenew(p, s)
             \/ DecideRelease(p, s) \/ FinishRelease(p, s)
             \/ Fail(p, s) \/ Read(p, s) \/ Refuse(p, s)
  BY <1>1, <1>8, AttemptKeepsRenewals
<1>9. QED
  BY <1>2, <1>3, <1>4, <1>5, <1>6, <1>7, <1>8 DEF LeaseNext, Elector, Slots

\* Two pods both lead only while the one without the lease has not learnt of
\* a renewal of its own for the lease's duration, less what the clocks differ:
\* whatever overlaps in a pod, and however late its writes and answers come.
THEOREM StaleLeaderCutOff == LeaseSpec => []StaleLeaderIsCutOff
<1>1. RenewalInv => StaleLeaderIsCutOff
  <2> SUFFICES ASSUME RenewalInv, NEW p \in Pod, NEW q \in Pod, p # q, leader[p], lease.holder = q
               PROVE  Clock(p) - stamp[p] > LeaseDuration - DriftBound
    BY DEF StaleLeaderIsCutOff
  <2>1. stamp[p] \in Known(p)
    BY DEF Known, HasLed, RenewalInv, LeaseInv, LeaseTypeOK
  <2>2. SoundRenewal(p, stamp[p])
    BY <2>1 DEF RenewalInv
  <2>3. QED
    BY <2>2, LeaseAssumption DEF SoundRenewal
<1>2. QED
  BY <1>1, RenewalInvInit, RenewalInvStep, PTL DEF LeaseSpec
=============================================================================
