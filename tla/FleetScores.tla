---------------------------- MODULE FleetScores ----------------------------
(***************************************************************************)
(* The health scores: computeHealthScores (insights/health.ts) stores one  *)
(* for each host, of its measures, its liveness and its open alerts, and   *)
(* one for the system, every quarter of an hour; getSystemHealthScore      *)
(* (web/queries.ts) shows them with the alerts that are open now, by a     *)
(* formula of its own.  Scores of containers are not modelled.             *)
(*                                                                         *)
(* An operator named ...Mutant is the definition below it with a plausible *)
(* mistake; nothing refers to it, a run that swaps it in must fail.        *)
(***************************************************************************)
EXTENDS Integers, FiniteSets, FiniteSetsExt

CONSTANTS
    FleetHost,
    Samples,   \* what each host may report: [cpu, memory, load], NotMeasured or a number
    MaxOpen,   \* open alerts of a host, a bound
    MaxLosses  \* hosts that go and computations that are cut off, a bound

NotMeasured == -1

ASSUME FleetScoresAssumption ==
    /\ IsFiniteSet(FleetHost)
    /\ MaxOpen \in Nat /\ MaxLosses \in Nat
    /\ \A h \in FleetHost : \A s \in Samples[h] : \A m \in {"cpu", "memory", "load"} :
        s[m] \in Nat \cup {NotMeasured}

VARIABLES
    hostRows, \* the table hosts
    sample,   \* the newest row of host_snapshots
    heard,    \* last_seen is less than ten minutes ago
    alerts,   \* rows of alert_state that are not resolved
    scores,   \* health_scores of the hosts
    system,   \* health_scores of the system
    losses    \* counted up to the bound

scoreVars == <<hostRows, sample, heard, alerts, scores, system, losses>>

NoScore == [score |-> -1]
NoSample == [cpu |-> NotMeasured, memory |-> NotMeasured, load |-> NotMeasured]

\* factors of a row: the score of what was measured, and of alerts the number too.
Factors == [cpu : Int, memory : Int, load : Int, online : {0, 100}, open : 0 .. MaxOpen]

ScoresTypeOK ==
    /\ hostRows \subseteq FleetHost
    /\ \A h \in FleetHost : sample[h] \in Samples[h] \cup {NoSample}
    /\ losses \in 0 .. MaxLosses
    /\ heard \in [FleetHost -> BOOLEAN]
    /\ alerts \in [FleetHost -> 0 .. MaxOpen]
    /\ \A h \in FleetHost : \/ scores[h] = NoScore
                            \/ scores[h].score \in 0 .. 100 /\ scores[h].factors \in Factors
    /\ \/ system = NoScore
       \/ system.score \in 0 .. 100 /\ \A h \in DOMAIN system.of : system.of[h] \in 0 .. 100

ScoresInit ==
    /\ hostRows = {} /\ sample = [h \in FleetHost |-> NoSample]
    /\ heard = [h \in FleetHost |-> FALSE]
    /\ alerts = [h \in FleetHost |-> 0]
    /\ scores = [h \in FleetHost |-> NoScore] /\ system = NoScore
    /\ losses = 0

-----------------------------------------------------------------------------
(* computeHealthScores.                                                    *)

\* Math.round of a quotient.
Rounded(total, weight) == (2 * total + weight) \div (2 * weight)

\* The score of a measure by the three bounds of its levels.
Level(value, bounds) ==
    CASE value = NotMeasured -> NotMeasured
      [] value # NotMeasured /\ value < bounds[1] -> 100
      [] value \in bounds[1] .. bounds[2] - 1 -> 70
      [] value \in bounds[2] .. bounds[3] - 1 -> 40
      [] value >= bounds[3] -> 10

OpenScore(count) == IF count > 5 THEN 0 ELSE 100 - count * 20

FactorsOf(h) ==
    [cpu |-> Level(sample[h].cpu, <<70, 85, 95>>),
     memory |-> Level(sample[h].memory, <<80, 90, 95>>),
     load |-> Level(sample[h].load, <<4, 8, 16>>),
     online |-> IF heard[h] THEN 100 ELSE 0,
     open |-> alerts[h]]

Weights == [cpu |-> 20, memory |-> 20, load |-> 15, online |-> 20]

Total(of) == MapThenSumSet(LAMBDA x : of[x], DOMAIN of)

\* The weight of the alerts is not counted.
WeighedMutant(factors) ==
    LET counted == {m \in DOMAIN Weights : factors[m] # NotMeasured}
        total == Total([m \in counted |-> factors[m] * Weights[m]])
        weight == Total([m \in counted |-> Weights[m]])
    IN  Rounded(total + 15 * OpenScore(factors.open), weight)

\* What is measured counts by its weight, the alerts by fifteen.
Weighed(factors) ==
    LET counted == {m \in DOMAIN Weights : factors[m] # NotMeasured}
        total == Total([m \in counted |-> factors[m] * Weights[m]])
        weight == Total([m \in counted |-> Weights[m]])
    IN  Rounded(total + 15 * OpenScore(factors.open), weight + 15)

Mean(of) == IF DOMAIN of = {} THEN 100
            ELSE Rounded(Total(of), Cardinality(DOMAIN of))

Scored(h) == [score |-> Weighed(FactorsOf(h)), factors |-> FactorsOf(h)]

\* Every upsert commits on its own: a hub that dies leaves the hosts it has done.
StoreScores(done) ==
    /\ done \subseteq hostRows
    /\ scores' = [h \in FleetHost |-> IF h \in done THEN Scored(h) ELSE scores[h]]
    /\ UNCHANGED <<hostRows, sample, heard, alerts>>

ComputeScores ==
    /\ StoreScores(hostRows) /\ UNCHANGED losses
    /\ LET of == [h \in hostRows |-> Weighed(FactorsOf(h))]
       IN  system' = [score |-> Mean(of), of |-> of]

Lose == losses < MaxLosses /\ losses' = losses + 1

CutCompute == Lose /\ \E done \in SUBSET hostRows : StoreScores(done) /\ UNCHANGED system

-----------------------------------------------------------------------------
(* What the scores are about.                                              *)

\* upsertHost and ingestHost.
Report(h) ==
    /\ \E s \in Samples[h] : sample' = [sample EXCEPT ![h] = s]
    /\ hostRows' = hostRows \cup {h}
    /\ heard' = [heard EXCEPT ![h] = TRUE]
    /\ UNCHANGED <<alerts, scores, system, losses>>

TenMinutesPass(h) ==
    /\ heard[h] /\ heard' = [heard EXCEPT ![h] = FALSE]
    /\ UNCHANGED <<hostRows, sample, alerts, scores, system, losses>>

AlertsChange(h) ==
    /\ h \in hostRows
    /\ \/ alerts[h] < MaxOpen /\ alerts' = [alerts EXCEPT ![h] = @ + 1]
       \/ alerts[h] > 0 /\ alerts' = [alerts EXCEPT ![h] = @ - 1]
    /\ UNCHANGED <<hostRows, sample, heard, scores, system, losses>>

\* handleDeleteHost, whose statements commit one by one: cut off after the snapshots, after
\* the alerts, after the scores, or not.
DeleteHost(h) ==
    /\ h \in hostRows /\ Lose
    /\ \E last \in {"snapshots", "alerts", "scores", "hosts"} :
        /\ sample' = [sample EXCEPT ![h] = NoSample]
        /\ alerts' = IF last = "snapshots" THEN alerts ELSE [alerts EXCEPT ![h] = 0]
        /\ scores' = IF last \in {"scores", "hosts"} THEN [scores EXCEPT ![h] = NoScore] ELSE scores
        /\ hostRows' = IF last = "hosts" THEN hostRows \ {h} ELSE hostRows
    /\ heard' = IF h \in hostRows' THEN heard ELSE [heard EXCEPT ![h] = FALSE]
    /\ UNCHANGED system

\* pruneOldData takes the rows of a host that has long been silent; neither its open alerts
\* nor its score.
PruneHost(h) ==
    /\ h \in hostRows /\ ~heard[h] /\ Lose
    /\ hostRows' = hostRows \ {h}
    /\ sample' = [sample EXCEPT ![h] = NoSample]
    /\ UNCHANGED <<heard, alerts, scores, system>>

ScoresNext ==
    \/ ComputeScores \/ CutCompute
    \/ \E h \in FleetHost : \/ Report(h) \/ TenMinutesPass(h) \/ AlertsChange(h)
                            \/ DeleteHost(h) \/ PruneHost(h)

ScoresSpec == ScoresInit /\ [][ScoresNext]_scoreVars

-----------------------------------------------------------------------------
(* getSystemHealthScore.                                                   *)

Rated == {h \in FleetHost : scores[h] # NoScore}
Moved(h) == alerts[h] # scores[h].factors.open

\* patchAlertsFactor: the weighed mean over the factors that are there.
Patched(h) == Weighed([scores[h].factors EXCEPT !.open = alerts[h]])

Shown(h) == IF Moved(h) THEN Patched(h) ELSE scores[h].score

\* The mean is taken of the stored scores, not of the patched ones.
SystemShownMutant ==
    IF \E h \in Rated : Moved(h) THEN Mean([h \in Rated |-> scores[h].score]) ELSE system.score

\* The stored mean, unless the alerts of a host have changed since.
SystemShown ==
    IF \E h \in Rated : Moved(h) THEN Mean([h \in Rated |-> Shown(h)]) ELSE system.score

-----------------------------------------------------------------------------
(* Properties.                                                             *)

\* The host is there, and what was measured of it has not changed since its score.
AsScored(h) ==
    /\ h \in hostRows /\ scores[h] # NoScore
    /\ \A m \in DOMAIN Weights : scores[h].factors[m] = FactorsOf(h)[m]

\* The rows of the hosts are those the system's score was computed of.
IsWhole ==
    /\ system # NoScore /\ DOMAIN system.of = Rated
    /\ \A h \in Rated : system.of[h] = scores[h].score

\* web/queries.ts:1001 "so the displayed number actually matches the factors the user
\* sees": alerts that open and close between two computations, computations that are cut
\* off, hosts that come, fall silent and go, and still what is shown is what a computation
\* would give now, of each host whose measures are the same and of the system if those of
\* all are.
ScoresAgree ==
    /\ \A h \in FleetHost : AsScored(h) => Shown(h) = Weighed(FactorsOf(h))
    /\ IsWhole /\ (\A h \in Rated \cup hostRows : AsScored(h))
        => SystemShown = Mean([h \in hostRows |-> Weighed(FactorsOf(h))])

\* web/queries.ts:1058 "so the top-level number stays consistent with the factors": the
\* system's score is that of the hosts it is broken down to.  (Fails: README, findings.)
SystemIsOfItsHosts == system # NoScore => SystemShown = Mean([h \in Rated |-> Shown(h)])
=============================================================================
