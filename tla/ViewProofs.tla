------------------------------ MODULE ViewProofs ------------------------------
(***************************************************************************)
(* The parts of the hub's pages that store one thing and show another, for *)
(* any number of hosts, of rows, of edits and of losses: the health scores *)
(* (FleetScores), what is said of one container (FleetPages), the settings *)
(* (HubSettings), the groups of hosts (HostGroups) and the page of a       *)
(* container (ContainerPage).  At the end, the program without a hub       *)
(* (StandaloneProgram) and the types of all of them together (MCViews).    *)
(***************************************************************************)
EXTENDS MCViews, SetLemmas

(***************************************************************************)
(* Health scores.  How the weighed mean comes about does not matter, only  *)
(* that every number on the page is one of its factors.                    *)
(***************************************************************************)

HasFactors(f) ==
    f = [cpu |-> f.cpu, memory |-> f.memory, load |-> f.load,
         online |-> f.online, open |-> f.open]

\* What is stored of h is the score of the factors beside it.
IsOwnScore(h) ==
    scores[h] = NoScore \/ (scores[h].score = Weighed(scores[h].factors)
                            /\ HasFactors(scores[h].factors))

SystemIsMean ==
    system = NoScore \/ (/\ system.score = Mean(system.of)
                         /\ system.of = [h \in DOMAIN system.of |-> system.of[h]])

ScoresInv ==
    /\ hostRows \subseteq FleetHost
    /\ scores = [h \in FleetHost |-> scores[h]]
    /\ \A h \in FleetHost : IsOwnScore(h)
    /\ SystemIsMean

LEMMA FactorsOfHaveFactors == \A h : HasFactors(FactorsOf(h))
BY DEF HasFactors, FactorsOf

LEMMA ScoresInvInit == ScoresInit => ScoresInv
BY DEF ScoresInit, ScoresInv, IsOwnScore, SystemIsMean

\* Hosts are scored, all or those before a cut.
LEMMA StoreScoresKeeps ==
    ASSUME ScoresInv, NEW done, StoreScores(done)
    PROVE  /\ hostRows' \subseteq FleetHost
           /\ scores' = [h \in FleetHost |-> scores'[h]]
           /\ \A h \in FleetHost : IsOwnScore(h)'
<1>1. hostRows' = hostRows /\ scores' = [h \in FleetHost |-> IF h \in done THEN Scored(h) ELSE scores[h]]
  BY DEF StoreScores
<1>2. ASSUME NEW h \in FleetHost PROVE IsOwnScore(h)'
  <2>1. CASE h \in done
    <3>1. scores'[h] = Scored(h)
      BY <1>1, <2>1
    <3>2. scores'[h].score = Weighed(FactorsOf(h)) /\ scores'[h].factors = FactorsOf(h)
      BY <3>1 DEF Scored
    <3> QED BY <3>2, FactorsOfHaveFactors DEF IsOwnScore
  <2>2. CASE h \notin done
    BY <1>1, <2>2 DEF IsOwnScore, ScoresInv
  <2> QED BY <2>1, <2>2
<1> QED BY <1>1, <1>2 DEF ScoresInv

LEMMA ScoresInvNext == ScoresInv /\ [ScoresNext]_scoreVars => ScoresInv'
<1> SUFFICES ASSUME ScoresInv, [ScoresNext]_scoreVars PROVE ScoresInv'
  OBVIOUS
<1>1. CASE ComputeScores
  <2>1. StoreScores(hostRows)
    BY <1>1 DEF ComputeScores
  <2>2. SystemIsMean'
    BY <1>1 DEF ComputeScores, SystemIsMean
  <2> QED BY <2>1, <2>2, StoreScoresKeeps DEF ScoresInv
<1>2. CASE CutCompute
  <2>1. PICK done \in SUBSET hostRows : StoreScores(done) /\ system' = system
    BY <1>2 DEF CutCompute
  <2>2. SystemIsMean'
    BY <2>1 DEF ScoresInv, SystemIsMean
  <2> QED BY <2>1, <2>2, StoreScoresKeeps DEF ScoresInv
<1>3. ASSUME NEW h \in FleetHost, Report(h) PROVE ScoresInv'
  BY <1>3 DEF Report, ScoresInv, IsOwnScore, SystemIsMean
<1>4. ASSUME NEW h \in FleetHost, TenMinutesPass(h) PROVE ScoresInv'
  BY <1>4 DEF TenMinutesPass, ScoresInv, IsOwnScore, SystemIsMean
<1>5. ASSUME NEW h \in FleetHost, AlertsChange(h) PROVE ScoresInv'
  BY <1>5 DEF AlertsChange, ScoresInv, IsOwnScore, SystemIsMean
<1>6. ASSUME NEW h \in FleetHost, DeleteHost(h) PROVE ScoresInv'
  <2>1. scores' = scores \/ scores' = [scores EXCEPT ![h] = NoScore]
    BY <1>6 DEF DeleteHost
  <2>2. hostRows' \subseteq FleetHost /\ system' = system
    BY <1>6 DEF DeleteHost, ScoresInv
  <2>3. scores' = [g \in FleetHost |-> scores'[g]] /\ \A g \in FleetHost : IsOwnScore(g)'
    BY <2>1 DEF ScoresInv, IsOwnScore
  <2> QED BY <2>2, <2>3 DEF ScoresInv, SystemIsMean
<1>7. ASSUME NEW h \in FleetHost, PruneHost(h) PROVE ScoresInv'
  BY <1>7 DEF PruneHost, ScoresInv, IsOwnScore, SystemIsMean
<1>8. CASE UNCHANGED scoreVars
  BY <1>8 DEF scoreVars, ScoresInv, IsOwnScore, SystemIsMean
<1> QED BY <1>1, <1>2, <1>3, <1>4, <1>5, <1>6, <1>7, <1>8 DEF ScoresNext

\* What is shown of a host whose measures have not changed is its score now.
LEMMA ShownIsCurrent ==
    ASSUME ScoresInv, NEW h \in FleetHost, AsScored(h)
    PROVE  Shown(h) = Weighed(FactorsOf(h))
<1> DEFINE f == scores[h].factors
           now == FactorsOf(h)
<1>1. scores[h].score = Weighed(f) /\ HasFactors(f)
  BY DEF AsScored, ScoresInv, IsOwnScore
<1>2. f.cpu = now.cpu /\ f.memory = now.memory /\ f.load = now.load /\ f.online = now.online
  BY DEF AsScored, Weights
<1>3. HasFactors(now) /\ now.open = alerts[h]
  BY FactorsOfHaveFactors DEF FactorsOf
<1>4. CASE Moved(h)
  <2>1. [f EXCEPT !.open = alerts[h]] = now
    BY <1>1, <1>2, <1>3 DEF HasFactors
  <2> QED BY <1>4, <2>1 DEF Shown, Patched
<1>5. CASE ~Moved(h)
  <2>1. f.open = now.open
    BY <1>3, <1>5 DEF Moved
  <2>2. f = now
    BY <1>1, <1>2, <1>3, <2>1 DEF HasFactors
  <2> QED BY <1>1, <1>5, <2>2 DEF Shown
<1> QED BY <1>4, <1>5

LEMMA ScoresInvAgrees == ScoresInv => ScoresAgree
<1> SUFFICES ASSUME ScoresInv PROVE ScoresAgree
  OBVIOUS
<1>1. ASSUME IsWhole, \A h \in Rated \cup hostRows : AsScored(h)
      PROVE  SystemShown = Mean([h \in hostRows |-> Weighed(FactorsOf(h))])
  <2>1. Rated = hostRows
    BY <1>1 DEF AsScored, Rated, ScoresInv
  <2>2. \A h \in Rated : Shown(h) = Weighed(FactorsOf(h))
    BY <1>1, <2>1, ShownIsCurrent DEF ScoresInv
  <2>3. CASE \E h \in Rated : Moved(h)
    <3>1. [h \in Rated |-> Shown(h)] = [h \in hostRows |-> Weighed(FactorsOf(h))]
      BY <2>1, <2>2
    <3> QED BY <2>3, <3>1 DEF SystemShown
  <2>4. CASE ~ \E h \in Rated : Moved(h)
    <3>1. \A h \in Rated : system.of[h] = Weighed(FactorsOf(h))
      BY <1>1, <2>2, <2>4 DEF IsWhole, Shown
    <3>2. /\ system.score = Mean(system.of)
          /\ system.of = [h \in Rated |-> system.of[h]]
      BY <1>1 DEF IsWhole, ScoresInv, SystemIsMean
    <3>3. [h \in Rated |-> system.of[h]] = [h \in hostRows |-> Weighed(FactorsOf(h))]
      BY <2>1, <3>1
    <3> QED BY <2>4, <3>2, <3>3 DEF SystemShown
  <2> QED BY <2>3, <2>4
<1> QED BY <1>1, ShownIsCurrent DEF ScoresAgree

\* web/queries.ts: what the page shows of a host and of the system is what computeHealthScores
\* would store now, if what it measured is the same, whatever alerts opened and closed,
\* whichever computations were cut off and whichever hosts came and went since.
THEOREM ScoresAreCurrent == ScoresSpec => []ScoresAgree
<1>1. ScoresInit => ScoresInv
  BY ScoresInvInit
<1>2. ScoresInv /\ [ScoresNext]_scoreVars => ScoresInv'
  BY ScoresInvNext
<1>3. ScoresInv => ScoresAgree
  BY ScoresInvAgrees
<1> QED BY <1>1, <1>2, <1>3, PTL DEF ScoresSpec

-----------------------------------------------------------------------------
(* The types of the scores: a weighed mean of scores is a score.           *)

\* The totals of the page are sums.
LEMMA TotalIsSum ==
    ASSUME NEW f
    PROVE  Total(f) = Sums(f, DOMAIN f)[DOMAIN f]
BY MapThenSumIsSum DEF Total

\* A quotient of a total that is at most a hundred times the weight is rounded to at most
\* a hundred.
LEMMA RoundedIsScore ==
    ASSUME NEW total \in Nat, NEW weight \in Nat \ {0}, total <= 100 * weight
    PROVE  Rounded(total, weight) \in 0 .. 100
<1>1. 2 * total + weight \in Nat /\ 2 * weight \in Nat \ {0}
  OBVIOUS
<1>2. 2 * total + weight < (100 + 1) * (2 * weight)
  OBVIOUS
<1> QED BY <1>1, <1>2, QuotientIsBounded DEF Rounded

LEMMA LevelsAreScores ==
    ASSUME NEW value \in Nat \cup {NotMeasured}, NEW bounds,
           bounds[1] \in Nat /\ bounds[2] \in Nat /\ bounds[3] \in Nat,
           bounds[1] <= bounds[2] /\ bounds[2] <= bounds[3]
    PROVE  Level(value, bounds) \in 0 .. 100 \cup {NotMeasured}
<1>1. CASE value = NotMeasured
  BY <1>1 DEF Level, NotMeasured
<1>2. CASE value # NotMeasured
  <2>1. PICK b1, b2, b3 \in Nat : b1 = bounds[1] /\ b2 = bounds[2] /\ b3 = bounds[3]
    OBVIOUS
  <2>2. /\ value \in Nat
        /\ value < b1 \/ value \in b1 .. b2 - 1 \/ value \in b2 .. b3 - 1 \/ value >= b3
    BY <1>2, <2>1
  <2>3. Level(value, bounds) \in {100, 70, 40, 10}
    BY <1>2, <2>1, <2>2 DEF Level
  <2> QED BY <2>3
<1> QED BY <1>1, <1>2

LEMMA WeightsAreWeights ==
    /\ DOMAIN Weights = {"cpu", "memory", "load", "online"}
    /\ \A m \in DOMAIN Weights : Weights[m] \in Nat \ {0}
BY DEF Weights

\* Scores of measures, weighed, are a score.
LEMMA WeighedIsScore ==
    ASSUME NEW factors, \A m \in DOMAIN Weights : factors[m] \in 0 .. 100 \cup {NotMeasured},
           factors.open \in Nat
    PROVE  Weighed(factors) \in 0 .. 100
<1> DEFINE told == {m \in DOMAIN Weights : factors[m] # NotMeasured}
           parts == [m \in told |-> factors[m] * Weights[m]]
           weights == [m \in told |-> Weights[m]]
           total == Total(parts)
           weight == Total(weights)
<1>1. IsFiniteSet(told)
  <2>1. IsFiniteSet({"cpu", "memory", "load", "online"})
    <3>1. IsFiniteSet({"cpu"})
      BY FS_Singleton
    <3>2. IsFiniteSet({"cpu", "memory"})
      BY <3>1, FS_AddElement
    <3>3. IsFiniteSet({"cpu", "memory", "load"})
      BY <3>2, FS_AddElement
    <3> QED BY <3>3, FS_AddElement
  <2> QED BY <2>1, WeightsAreWeights, FS_Subset
<1>2. ASSUME NEW m \in told
      PROVE  parts[m] \in Nat /\ weights[m] \in Nat /\ parts[m] <= 100 * weights[m]
  <2>1. PICK f, w : f = factors[m] /\ w = Weights[m]
    OBVIOUS
  <2>2. f \in 0 .. 100 /\ w \in Nat
    BY <2>1, WeightsAreWeights
  <2>3. f * w \in Nat /\ f * w <= 100 * w
    BY <2>2
  <2> QED BY <2>1, <2>2, <2>3
<1>3. DOMAIN parts = told /\ DOMAIN weights = told
  OBVIOUS
<1> HIDE DEF told, parts, weights
<1>4. total \in Nat /\ weight \in Nat /\ total <= 100 * weight
  <2>1. total = Sums(parts, told)[told] /\ weight = Sums(weights, told)[told]
    BY <1>3, TotalIsSum
  <2>2. Sums(parts, told)[told] \in Nat /\ Sums(weights, told)[told] \in Nat
    BY <1>1, <1>2, SumIsNat
  <2>3. Sums(parts, told)[told] <= 100 * Sums(weights, told)[told]
    BY <1>1, <1>2, SumsCompare
  <2> QED BY <2>1, <2>2, <2>3
<1>5. OpenScore(factors.open) \in 0 .. 100
  BY DEF OpenScore
<1>6. Weighed(factors) = Rounded(total + 15 * OpenScore(factors.open), weight + 15)
  BY DEF Weighed, told, parts, weights
<1> HIDE DEF total, weight
<1>7. PICK o \in 0 .. 100 : o = OpenScore(factors.open)
  BY <1>5
<1>8. total + 15 * o \in Nat /\ weight + 15 \in Nat \ {0} /\ total + 15 * o <= 100 * (weight + 15)
  BY <1>4
<1> QED BY <1>6, <1>7, <1>8, RoundedIsScore

\* The mean of scores is a score.
LEMMA MeanIsScore ==
    ASSUME NEW f, IsFiniteSet(DOMAIN f), \A h \in DOMAIN f : f[h] \in 0 .. 100
    PROVE  Mean(f) \in 0 .. 100
<1> DEFINE S == DOMAIN f
           ones == [h \in S |-> 1]
<1>1. CASE S = {}
  BY <1>1 DEF Mean
<1>2. CASE S # {}
  <2>1. Cardinality(S) \in Nat \ {0}
    BY <1>2, FS_CardinalityType, FS_EmptySet
  <2>2. Sums(f, S)[S] \in Nat
    BY SumIsNat
  <2>3. Sums(ones, S)[S] = Cardinality(S)
    BY SumOfOnes
  <2>4. \A h \in S : f[h] \in Nat /\ ones[h] \in Nat /\ f[h] <= 100 * ones[h]
    OBVIOUS
  <2> HIDE DEF ones
  <2>5. Sums(f, S)[S] <= 100 * Cardinality(S)
    BY <2>3, <2>4, SumsCompare
  <2>6. Mean(f) = Rounded(Sums(f, S)[S], Cardinality(S))
    BY <1>2, TotalIsSum DEF Mean
  <2> QED BY <2>1, <2>2, <2>5, <2>6, RoundedIsScore
<1> QED BY <1>1, <1>2

HasScore(stored) == stored.score \in 0 .. 100 /\ stored.factors \in Factors

ScoresTypes ==
    /\ ScoresTypeOK
    /\ sample = [h \in FleetHost |-> sample[h]]
    /\ scores = [h \in FleetHost |-> scores[h]]

LEMMA FactorsAreTyped ==
    ASSUME ScoresTypes, NEW h \in FleetHost
    PROVE  /\ FactorsOf(h) \in Factors
           /\ Weighed(FactorsOf(h)) \in 0 .. 100
<1> DEFINE levels == 0 .. 100 \cup {NotMeasured}
<1>1. \A m \in {"cpu", "memory", "load"} : sample[h][m] \in Nat \cup {NotMeasured}
  BY FleetScoresAssumption DEF ScoresTypes, ScoresTypeOK, NoSample, NotMeasured
<1>2. PICK c, m, l : /\ c = Level(sample[h].cpu, <<70, 85, 95>>)
                     /\ m = Level(sample[h].memory, <<80, 90, 95>>)
                     /\ l = Level(sample[h].load, <<4, 8, 16>>)
  OBVIOUS
<1>3. c \in levels /\ m \in levels /\ l \in levels
  <2>1. c \in levels
    <3>1. PICK value, bounds :
            /\ value \in Nat \cup {NotMeasured}
            /\ value = sample[h].cpu /\ bounds = <<70, 85, 95>>
      BY <1>1
    <3>2. bounds[1] = 70 /\ bounds[2] = 85 /\ bounds[3] = 95
      BY <3>1
    <3>3. Level(value, bounds) \in levels
      BY <3>1, <3>2, LevelsAreScores
    <3> QED BY <1>2, <3>1, <3>3
  <2>2. m \in levels
    <3>1. PICK value, bounds :
            /\ value \in Nat \cup {NotMeasured}
            /\ value = sample[h].memory /\ bounds = <<80, 90, 95>>
      BY <1>1
    <3>2. bounds[1] = 80 /\ bounds[2] = 90 /\ bounds[3] = 95
      BY <3>1
    <3>3. Level(value, bounds) \in levels
      BY <3>1, <3>2, LevelsAreScores
    <3> QED BY <1>2, <3>1, <3>3
  <2>3. l \in levels
    <3>1. PICK value, bounds :
            /\ value \in Nat \cup {NotMeasured}
            /\ value = sample[h].load /\ bounds = <<4, 8, 16>>
      BY <1>1
    <3>2. bounds[1] = 4 /\ bounds[2] = 8 /\ bounds[3] = 16
      BY <3>1
    <3>3. Level(value, bounds) \in levels
      BY <3>1, <3>2, LevelsAreScores
    <3> QED BY <1>2, <3>1, <3>3
  <2> QED BY <2>1, <2>2, <2>3
<1>4. PICK o : o = IF heard[h] THEN 100 ELSE 0
  OBVIOUS
<1>5. o \in {0, 100} /\ alerts[h] \in 0 .. MaxOpen /\ alerts[h] \in Nat
  BY <1>4, FleetScoresAssumption DEF ScoresTypes, ScoresTypeOK
<1>6. FactorsOf(h) = [cpu |-> c, memory |-> m, load |-> l, online |-> o, open |-> alerts[h]]
  BY <1>2, <1>4 DEF FactorsOf
<1>7. FactorsOf(h) \in Factors
  BY <1>3, <1>5, <1>6 DEF Factors, NotMeasured
<1>8. \A k \in DOMAIN Weights : FactorsOf(h)[k] \in levels
  BY <1>3, <1>5, <1>6, WeightsAreWeights
<1>9. FactorsOf(h).open \in Nat
  BY <1>5, <1>6
<1> QED BY <1>7, <1>8, <1>9, WeighedIsScore

LEMMA ScoresTypesInit == ScoresInit => ScoresTypes
<1> SUFFICES ASSUME ScoresInit PROVE ScoresTypes
  OBVIOUS
<1>1. 0 \in 0 .. MaxLosses /\ 0 \in 0 .. MaxOpen
  BY FleetScoresAssumption
<1> QED BY <1>1 DEF ScoresInit, ScoresTypes, ScoresTypeOK

\* Hosts are scored, all or those before a cut.
LEMMA StoredScoresAreTyped ==
    ASSUME ScoresTypes, NEW done, StoreScores(done)
    PROVE  /\ scores' = [h \in FleetHost |-> scores'[h]]
           /\ \A h \in FleetHost : scores'[h] = NoScore \/ HasScore(scores'[h])
<1>1. scores' = [h \in FleetHost |-> IF h \in done THEN Scored(h) ELSE scores[h]]
  BY DEF StoreScores
<1>2. ASSUME NEW h \in FleetHost PROVE scores'[h] = NoScore \/ HasScore(scores'[h])
  <2>1. HasScore(Scored(h))
    BY FactorsAreTyped DEF HasScore, Scored
  <2>2. scores[h] = NoScore \/ HasScore(scores[h])
    BY DEF ScoresTypes, ScoresTypeOK, HasScore
  <2> QED BY <1>1, <2>1, <2>2
<1> QED BY <1>1, <1>2

LEMMA ScoresTypesNext == ScoresTypes /\ [ScoresNext]_scoreVars => ScoresTypes'
<1> SUFFICES ASSUME ScoresTypes, [ScoresNext]_scoreVars PROVE ScoresTypes'
  OBVIOUS
<1> USE DEF HasScore
<1>1. CASE ComputeScores
  <2>1. StoreScores(hostRows) /\ UNCHANGED <<hostRows, sample, heard, alerts, losses>>
    BY <1>1 DEF ComputeScores, StoreScores
  <2> DEFINE f == [h \in hostRows |-> Weighed(FactorsOf(h))]
  <2>2. hostRows \subseteq FleetHost
    BY DEF ScoresTypes, ScoresTypeOK
  <2>3. DOMAIN f = hostRows /\ IsFiniteSet(hostRows)
    BY <2>2, FleetScoresAssumption, FS_Subset
  <2>4. \A h \in hostRows : f[h] \in 0 .. 100
    BY <2>2, FactorsAreTyped
  <2> HIDE DEF f
  <2>5. Mean(f) \in 0 .. 100
    BY <2>3, <2>4, MeanIsScore
  <2>6. system' = [score |-> Mean(f), of |-> f]
    BY <1>1 DEF ComputeScores, f
  <2>7. system'.score \in 0 .. 100 /\ \A h \in DOMAIN system'.of : system'.of[h] \in 0 .. 100
    BY <2>3, <2>4, <2>5, <2>6
  <2> QED BY <2>1, <2>7, StoredScoresAreTyped DEF ScoresTypes, ScoresTypeOK
<1>2. CASE CutCompute
  <2>1. PICK done : StoreScores(done) /\ system' = system
    BY <1>2 DEF CutCompute
  <2>2. losses' \in 0 .. MaxLosses
    BY <1>2, FleetScoresAssumption DEF CutCompute, Lose, ScoresTypes, ScoresTypeOK
  <2>3. UNCHANGED <<hostRows, sample, heard, alerts>>
    BY <2>1 DEF StoreScores
  <2> QED BY <2>1, <2>2, <2>3, StoredScoresAreTyped DEF ScoresTypes, ScoresTypeOK
<1>3. ASSUME NEW h \in FleetHost, Report(h) PROVE ScoresTypes'
  BY <1>3 DEF Report, ScoresTypes, ScoresTypeOK
<1>4. ASSUME NEW h \in FleetHost, TenMinutesPass(h) PROVE ScoresTypes'
  BY <1>4 DEF TenMinutesPass, ScoresTypes, ScoresTypeOK
<1>5. ASSUME NEW h \in FleetHost, AlertsChange(h) PROVE ScoresTypes'
  <2>1. alerts' \in [FleetHost -> 0 .. MaxOpen]
    BY <1>5, FleetScoresAssumption DEF AlertsChange, ScoresTypes, ScoresTypeOK
  <2>2. UNCHANGED <<hostRows, sample, heard, scores, system, losses>>
    BY <1>5 DEF AlertsChange
  <2> QED BY <2>1, <2>2 DEF ScoresTypes, ScoresTypeOK
<1>6. ASSUME NEW h \in FleetHost, DeleteHost(h) PROVE ScoresTypes'
  <2>1. losses' \in 0 .. MaxLosses /\ hostRows' \subseteq FleetHost /\ system' = system
    BY <1>6, FleetScoresAssumption DEF DeleteHost, Lose, ScoresTypes, ScoresTypeOK
  <2>2. alerts' \in [FleetHost -> 0 .. MaxOpen] /\ heard' \in [FleetHost -> BOOLEAN]
    BY <1>6, FleetScoresAssumption DEF DeleteHost, ScoresTypes, ScoresTypeOK
  <2>3. scores' = scores \/ scores' = [scores EXCEPT ![h] = NoScore]
    BY <1>6 DEF DeleteHost
  <2>4. sample' = [sample EXCEPT ![h] = NoSample]
    BY <1>6 DEF DeleteHost
  <2> QED BY <2>1, <2>2, <2>3, <2>4 DEF ScoresTypes, ScoresTypeOK
<1>7. ASSUME NEW h \in FleetHost, PruneHost(h) PROVE ScoresTypes'
  <2>1. losses' \in 0 .. MaxLosses /\ hostRows' \subseteq FleetHost
    BY <1>7, FleetScoresAssumption DEF PruneHost, Lose, ScoresTypes, ScoresTypeOK
  <2> QED BY <1>7, <2>1 DEF PruneHost, ScoresTypes, ScoresTypeOK
<1>8. CASE UNCHANGED scoreVars
  BY <1>8 DEF scoreVars, ScoresTypes, ScoresTypeOK
<1> QED BY <1>1, <1>2, <1>3, <1>4, <1>5, <1>6, <1>7, <1>8 DEF ScoresNext

\* computeHealthScores stores scores between 0 and 100 of every host and of the system, of
\* whatever was measured, whichever computations were cut off.
THEOREM ScoresTypeCorrect == ScoresSpec => []ScoresTypeOK
<1>1. ScoresTypes => ScoresTypeOK
  BY DEF ScoresTypes
<1> QED BY ScoresTypesInit, ScoresTypesNext, <1>1, PTL DEF ScoresSpec

(***************************************************************************)
(* Settings.                                                               *)
(***************************************************************************)

\* What a row of the table may hold, and what a field may.
Storable(k) == (Texts(k) \cup {Default[k]}) \ {Mask}
Typable(k) == Texts(k) \cup {NONE}

RowsAreStorable ==
    /\ settingRow = [k \in SettingKeys |-> settingRow[k]]
    /\ \A k \in SettingKeys : settingRow[k] \in Storable(k) \cup {NONE}

FieldsAreTypable ==
    /\ edits = [k \in SettingKeys |-> edits[k]]
    /\ \A k \in SettingKeys : edits[k] \in Typable(k)

\* A payload may name the mask; it is the handler that leaves it out.
IsPayload(payload) ==
    \A k \in SettingKeys \cap DOMAIN payload : payload[k] \in Texts(k) \cup {Default[k], Mask}
                                               /\ (k # "secret" => payload[k] # Mask)

PutIsTyped ==
    \/ putRequest = NoPut
    \/ /\ putRequest = [stage |-> putRequest.stage, fields |-> putRequest.fields,
                        payload |-> putRequest.payload]
       /\ putRequest.stage \in {"sent", "stored"}
       /\ IsPayload(putRequest.payload)

\* SavedIsShown as it is while a save is under way: until it is stored, and then again when
\* it is answered and the page has fetched what is stored.
ShownIsStored ==
    Loaded /\ ~refetch /\ ~overtaken /\ putRequest.stage # "stored"
        => \A k \in SettingKeys : settingsShown[k].value = Masked(k, Raw(k))

SourcesAreKnown ==
    \A k \in DOMAIN settingsShown : settingsShown[k].source \in {"db", "env", "default"}

SettingsInv ==
    /\ followed \in Setting /\ envValue \in Environments(followed)
    /\ RowsAreStorable
    /\ FieldsAreTypable
    /\ PutIsTyped
    /\ ShownIsStored
    /\ SourcesAreKnown
    /\ {refetch, overtaken, reveal, lostText} \subseteq BOOLEAN

LEMMA TextsOfSettings ==
    ASSUME NEW k \in Setting
    PROVE  /\ NONE \notin Texts(k) /\ NONE # Default[k] /\ Default[k] # Mask
           /\ k # "secret" => Mask \notin Texts(k)
           /\ Environments(k) \subseteq Texts(k) \cup {NONE}
           /\ Mask \notin Environments(k)
BY DEF Setting, Texts, NONE, Default, Mask, Environments, Numbers, Switches

LEMMA KeysAreSettings == SettingsInv => SettingKeys \subseteq Setting /\ "threshold" \in SettingKeys
BY DEF SettingsInv, SettingKeys, Setting

\* A text that is resolved is one that could be stored.
LEMMA RawIsStorable ==
    ASSUME SettingsInv, NEW k \in SettingKeys
    PROVE  Raw(k) \in Storable(k)
<1>1. k \in Setting /\ followed \in Setting
  BY KeysAreSettings DEF SettingsInv
<1>2. CASE settingRow[k] # NONE
  BY <1>2 DEF Raw, SettingsInv, RowsAreStorable
<1>3. CASE settingRow[k] = NONE /\ EnvOf(k) \notin {NONE, ""}
  <2>1. Raw(k) = EnvOf(k) /\ EnvOf(k) \in Environments(k)
    BY <1>3 DEF Raw, EnvOf, SettingsInv
  <2> QED BY <1>1, <1>3, <2>1, TextsOfSettings DEF Storable
<1>4. CASE settingRow[k] = NONE /\ EnvOf(k) \in {NONE, ""}
  <2>1. Raw(k) = Default[k]
    BY <1>4 DEF Raw
  <2> QED BY <1>1, <2>1, TextsOfSettings DEF Storable
<1> QED BY <1>2, <1>3, <1>4

\* The handler stores what may be stored.
LEMMA PutSettingsStores ==
    ASSUME SettingsInv, NEW payload, IsPayload(payload), settingRow' = PutSettings(payload),
           UNCHANGED <<followed, envValue>>
    PROVE  RowsAreStorable'
<1>1. SettingKeys' = SettingKeys
  BY DEF SettingKeys
<1>2. ASSUME NEW k \in SettingKeys PROVE settingRow'[k] \in Storable(k) \cup {NONE}
  <2>1. CASE k \in DOMAIN payload /\ ~(k = "secret" /\ payload[k] = Mask)
    BY <2>1 DEF PutSettings, IsPayload, Storable
  <2>2. CASE ~(k \in DOMAIN payload /\ ~(k = "secret" /\ payload[k] = Mask))
    BY <2>2 DEF PutSettings, SettingsInv, RowsAreStorable
  <2> QED BY <2>1, <2>2
<1>3. settingRow' = [k \in SettingKeys |-> settingRow'[k]]
  BY DEF PutSettings
<1> QED BY <1>1, <1>2, <1>3 DEF RowsAreStorable, Storable

\* What another page, the wizard or a client sends.
LEMMA PayloadsArePayloads == SettingsInv => \A payload \in Payloads : IsPayload(payload)
<1> SUFFICES ASSUME SettingsInv, NEW payload \in Payloads PROVE IsPayload(payload)
  OBVIOUS
<1>1. ASSUME NEW changed \in SettingKeys, NEW text \in Texts(changed) \ {"****x"},
             payload = [k \in {changed} |-> text]
      PROVE  IsPayload(payload)
  <2>1. DOMAIN payload = {changed} /\ payload[changed] = text
    BY <1>1
  <2>2. text \in Texts(changed) /\ (changed # "secret" => text # Mask)
    BY <1>1, KeysAreSettings, TextsOfSettings
  <2>3. ASSUME NEW k \in SettingKeys \cap DOMAIN payload
        PROVE  payload[k] \in Texts(k) \cup {Default[k], Mask} /\ (k # "secret" => payload[k] # Mask)
    <3>1. k = changed
      BY <2>1
    <3> QED BY <2>1, <2>2, <3>1
  <2> QED BY <2>3 DEF IsPayload
<1>2. ASSUME payload = [[k \in SettingKeys |-> GetSettings[k].value] EXCEPT !["threshold"] = "30"]
      PROVE  IsPayload(payload)
  <2>1. ASSUME NEW k \in SettingKeys, k # "threshold"
        PROVE  payload[k] = Masked(k, Raw(k))
    BY <1>2, <2>1 DEF GetSettings
  <2>2. ASSUME NEW k \in SettingKeys, k = "threshold"
        PROVE  payload[k] = "30"
    BY <1>2, <2>2
  <2>3. "30" = Default["threshold"] /\ "30" # Mask
    BY DEF Default, Setting, Numbers, Mask
  <2>4. ASSUME NEW k \in SettingKeys
        PROVE  /\ payload[k] \in Texts(k) \cup {Default[k], Mask}
               /\ k # "secret" => payload[k] # Mask
    <3>1. Raw(k) \in Storable(k)
      BY RawIsStorable
    <3>2. CASE k = "threshold"
      BY <3>2, <2>2, <2>3
    <3>3. CASE k # "threshold"
      BY <3>1, <3>3, <2>1 DEF Masked, Storable
    <3> QED BY <3>2, <3>3
  <2> QED BY <2>4 DEF IsPayload
<1>3. \/ \E changed \in SettingKeys : \E text \in Texts(changed) \ {"****x"} :
            payload = [k \in {changed} |-> text]
      \/ payload = [[k \in SettingKeys |-> GetSettings[k].value] EXCEPT !["threshold"] = "30"]
  BY DEF Payloads
<1> QED BY <1>1, <1>2, <1>3

LEMMA SettingsInvInit == SettingsInit => SettingsInv
<1> SUFFICES ASSUME SettingsInit PROVE SettingsInv
  OBVIOUS
<1>1. RowsAreStorable /\ FieldsAreTypable
  BY DEF SettingsInit, RowsAreStorable, FieldsAreTypable, NoEdits, Typable
<1>2. PutIsTyped /\ ShownIsStored /\ SourcesAreKnown
  BY DEF SettingsInit, PutIsTyped, ShownIsStored, SourcesAreKnown, Loaded
<1> QED BY <1>1, <1>2 DEF SettingsInit, SettingsInv

\* A step that leaves the table, and what the page shows, alone.
LEMMA ShownStays ==
    ASSUME SettingsInv, UNCHANGED <<followed, envValue, settingRow, settingsShown>>,
           \/ refetch'
           \/ overtaken'
           \/ /\ UNCHANGED <<refetch, overtaken>>
              /\ putRequest.stage # "stored" \/ putRequest'.stage = "stored"
    PROVE  /\ RowsAreStorable' /\ ShownIsStored' /\ SourcesAreKnown'
           /\ followed' \in Setting /\ envValue' \in Environments(followed')
<1>1. SettingKeys' = SettingKeys
  BY DEF SettingKeys
<1>2. RowsAreStorable'
  BY <1>1 DEF SettingsInv, RowsAreStorable, Storable
<1>3. ShownIsStored'
  BY <1>1 DEF SettingsInv, ShownIsStored, Loaded, Masked, Raw, EnvOf
<1> QED BY <1>2, <1>3 DEF SettingsInv, SourcesAreKnown

\* A step that leaves the fields and the request alone, or empties them.
LEMMA FieldsStay ==
    ASSUME SettingsInv, UNCHANGED followed, edits' = edits \/ edits' = NoEdits
    PROVE  FieldsAreTypable'
<1>1. SettingKeys' = SettingKeys
  BY DEF SettingKeys
<1>2. NoEdits = [k \in SettingKeys |-> NoEdits[k]] /\ \A k \in SettingKeys : NoEdits[k] = NONE
  BY DEF NoEdits
<1> QED BY <1>1, <1>2 DEF SettingsInv, FieldsAreTypable, Typable

LEMMA RequestStays ==
    ASSUME SettingsInv, UNCHANGED followed, putRequest' = putRequest \/ putRequest' = NoPut
    PROVE  PutIsTyped'
<1>1. SettingKeys' = SettingKeys
  BY DEF SettingKeys
<1> QED BY <1>1 DEF SettingsInv, PutIsTyped, IsPayload

LEMMA SettingsInvNext == SettingsInv /\ [SettingsNext]_settingVars => SettingsInv'
<1> SUFFICES ASSUME SettingsInv, [SettingsNext]_settingVars PROVE SettingsInv'
  OBVIOUS
<1> USE DEF SettingsInv
<1>1. CASE FetchSettings
  <2>1. SettingKeys' = SettingKeys /\ UNCHANGED <<followed, envValue, settingRow>>
    BY <1>1 DEF FetchSettings, SettingKeys
  <2>2. RowsAreStorable'
    BY <2>1 DEF RowsAreStorable, Storable
  <2>3. settingsShown' = [k \in SettingKeys |-> [value |-> Masked(k, Raw(k)), source |-> Source(k)]]
    BY <1>1 DEF FetchSettings, GetSettings
  <2>4. ShownIsStored'
    <3>1. \A k \in SettingKeys : settingsShown'[k].value = Masked(k, Raw(k))
      BY <2>3
    <3>2. \A k : Masked(k, Raw(k))' = Masked(k, Raw(k))
      BY <2>1 DEF Masked, Raw, EnvOf
    <3> QED BY <2>1, <3>1, <3>2 DEF ShownIsStored
  <2>5. SourcesAreKnown'
    BY <2>3 DEF SourcesAreKnown, Source
  <2>6. FieldsAreTypable' /\ PutIsTyped'
    BY <1>1, FieldsStay, RequestStays DEF FetchSettings
  <2>7. {refetch', overtaken', reveal', lostText'} \subseteq BOOLEAN
    BY <1>1 DEF FetchSettings
  <2> QED BY <2>1, <2>2, <2>4, <2>5, <2>6, <2>7
<1>2. CASE ToggleReveal
  <2>1. RowsAreStorable' /\ ShownIsStored' /\ SourcesAreKnown'
        /\ followed' \in Setting /\ envValue' \in Environments(followed')
    BY <1>2, ShownStays DEF ToggleReveal
  <2>2. PutIsTyped'
    BY <1>2, RequestStays DEF ToggleReveal
  <2>3. FieldsAreTypable'
    <3>1. SettingKeys' = SettingKeys
      BY <1>2 DEF ToggleReveal, SettingKeys
    <3>2. {Mask, ""} \subseteq Typable("secret")
      BY DEF Typable, Texts, Mask, Switches
    <3>3. \/ edits' = edits
          \/ edits' = [edits EXCEPT !["secret"] =
                         IF settingsShown["secret"].value = Mask THEN Mask ELSE ""]
      BY <1>2 DEF ToggleReveal
    <3> QED BY <3>1, <3>2, <3>3 DEF FieldsAreTypable, Typable
  <2>4. {refetch', overtaken', reveal', lostText'} \subseteq BOOLEAN
    BY <1>2 DEF ToggleReveal
  <2> QED BY <2>1, <2>2, <2>3, <2>4
<1>3. CASE DiscardEdits
  <2>1. RowsAreStorable' /\ ShownIsStored' /\ SourcesAreKnown'
        /\ followed' \in Setting /\ envValue' \in Environments(followed')
    BY <1>3, ShownStays DEF DiscardEdits
  <2>2. FieldsAreTypable' /\ PutIsTyped'
    BY <1>3, FieldsStay, RequestStays DEF DiscardEdits
  <2>3. {refetch', overtaken', reveal', lostText'} \subseteq BOOLEAN
    BY <1>3 DEF DiscardEdits
  <2> QED BY <2>1, <2>2, <2>3
<1>4. CASE SaveSettings
  <2>1. putRequest = NoPut /\ putRequest.stage # "stored"
    BY <1>4 DEF SaveSettings, NoPut
  <2>2. RowsAreStorable' /\ ShownIsStored' /\ SourcesAreKnown'
        /\ followed' \in Setting /\ envValue' \in Environments(followed')
    BY <1>4, <2>1, ShownStays DEF SaveSettings
  <2>3. FieldsAreTypable'
    BY <1>4, FieldsStay DEF SaveSettings
  <2>4. PutIsTyped'
    <3>1. \A k \in DirtyKeys : [j \in DirtyKeys |-> edits[j]][k] \in Texts(k)
      BY DEF DirtyKeys, IsDirty, FieldsAreTypable, Typable
    <3>2. IsPayload([j \in DirtyKeys |-> edits[j]])
      BY <3>1, KeysAreSettings, TextsOfSettings DEF IsPayload
    <3>3. PICK payload : /\ putRequest' = [stage |-> "sent", fields |-> edits, payload |-> payload]
                         /\ IsPayload(payload)
      BY <1>4, <3>2 DEF SaveSettings
    <3>4. IsPayload(payload)'
      BY <1>4, <3>3 DEF SaveSettings, IsPayload, SettingKeys
    <3>5. putRequest'.payload = payload
      BY <3>3
    <3>6. putRequest'.stage = "sent" /\ putRequest'.fields = edits
      BY <3>3
    <3> QED BY <3>3, <3>4, <3>5, <3>6 DEF PutIsTyped, IsPayload
  <2>5. {refetch', overtaken', reveal', lostText'} \subseteq BOOLEAN
    BY <1>4 DEF SaveSettings
  <2> QED BY <2>2, <2>3, <2>4, <2>5
<1>5. CASE HandlePut
  <2>1. putRequest.stage = "sent" /\ putRequest # NoPut
    BY <1>5 DEF HandlePut, NoPut
  <2>2. IsPayload(putRequest.payload)
    BY <2>1 DEF PutIsTyped
  <2>3. RowsAreStorable'
    BY <1>5, <2>2, PutSettingsStores DEF HandlePut
  <2>4. putRequest' = [stage |-> "stored", fields |-> putRequest.fields, payload |-> putRequest.payload]
    BY <1>5, <2>1 DEF HandlePut, PutIsTyped
  <2>5. PutIsTyped'
    BY <1>5, <2>2, <2>4 DEF HandlePut, PutIsTyped, IsPayload, SettingKeys
  <2>6. ShownIsStored'
    BY <2>4 DEF ShownIsStored
  <2>7. FieldsAreTypable'
    BY <1>5, FieldsStay DEF HandlePut
  <2> QED BY <1>5, <2>3, <2>5, <2>6, <2>7 DEF HandlePut, SourcesAreKnown
<1>6. CASE PutAnswered
  <2>1. RowsAreStorable' /\ ShownIsStored' /\ SourcesAreKnown'
        /\ followed' \in Setting /\ envValue' \in Environments(followed')
    BY <1>6, ShownStays DEF PutAnswered
  <2>2. FieldsAreTypable' /\ PutIsTyped'
    BY <1>6, FieldsStay, RequestStays DEF PutAnswered
  <2>3. lostText' \in BOOLEAN
    BY <1>6 DEF PutAnswered
  <2>4. {refetch', overtaken', reveal', lostText'} \subseteq BOOLEAN
    BY <1>6, <2>3 DEF PutAnswered
  <2> QED BY <2>1, <2>2, <2>4
<1>7. CASE PutFails
  <2>1. overtaken' \/ (overtaken' = overtaken /\ putRequest.stage # "stored")
    BY <1>7 DEF PutFails
  <2>2. RowsAreStorable' /\ ShownIsStored' /\ SourcesAreKnown'
        /\ followed' \in Setting /\ envValue' \in Environments(followed')
    BY <1>7, <2>1, ShownStays DEF PutFails
  <2>3. FieldsAreTypable' /\ PutIsTyped'
    BY <1>7, FieldsStay, RequestStays DEF PutFails
  <2>4. overtaken' \in BOOLEAN
    BY <1>7 DEF PutFails
  <2>5. {refetch', overtaken', reveal', lostText'} \subseteq BOOLEAN
    BY <1>7, <2>4 DEF PutFails
  <2> QED BY <2>2, <2>3, <2>5
<1>8. ASSUME NEW k \in SettingKeys, NEW text \in Texts(k), TypeText(k, text) PROVE SettingsInv'
  <2>1. RowsAreStorable' /\ ShownIsStored' /\ SourcesAreKnown'
        /\ followed' \in Setting /\ envValue' \in Environments(followed')
    BY <1>8, ShownStays DEF TypeText
  <2>2. PutIsTyped'
    BY <1>8, RequestStays DEF TypeText
  <2>3. FieldsAreTypable'
    BY <1>8 DEF TypeText, FieldsAreTypable, Typable, SettingKeys
  <2>4. {refetch', overtaken', reveal', lostText'} \subseteq BOOLEAN
    BY <1>8 DEF TypeText
  <2> QED BY <2>1, <2>2, <2>3, <2>4
<1>9. ASSUME NEW payload \in Payloads, OtherSaves(payload) PROVE SettingsInv'
  <2>1. RowsAreStorable'
    BY <1>9, PayloadsArePayloads, PutSettingsStores DEF OtherSaves
  <2>2. ShownIsStored'
    BY <1>9 DEF OtherSaves, ShownIsStored
  <2>3. FieldsAreTypable' /\ PutIsTyped'
    BY <1>9, FieldsStay, RequestStays DEF OtherSaves
  <2> QED BY <1>9, <2>1, <2>2, <2>3 DEF OtherSaves, SourcesAreKnown
<1>10. CASE UNCHANGED settingVars
  <2>1. RowsAreStorable' /\ ShownIsStored' /\ SourcesAreKnown'
        /\ followed' \in Setting /\ envValue' \in Environments(followed')
    BY <1>10, ShownStays DEF settingVars
  <2>2. FieldsAreTypable' /\ PutIsTyped'
    BY <1>10, FieldsStay, RequestStays DEF settingVars
  <2> QED BY <1>10, <2>1, <2>2 DEF settingVars
<1> QED BY <1>1, <1>2, <1>3, <1>4, <1>5, <1>6, <1>7, <1>8, <1>9, <1>10 DEF SettingsNext

\* What is shown of one setting is what is used of it.
LEMMA SettingUsedAsShown ==
    ASSUME SettingsInv, NEW k \in SettingKeys, ~UsedOtherwise(k)
    PROVE  InUse(k) = Understood(k, Raw(k))
<1>1. k \in Setting /\ Raw(k) \in Storable(k)
  BY KeysAreSettings, RawIsStorable
<1>2. CASE k \in {"cooldown", "address", "secret"}
  <2>1. ~Falsy(Raw(k))
    BY <1>2 DEF UsedOtherwise
  <2>2. Understood(k, Raw(k)) = Raw(k)
    BY <2>1 DEF Understood, Falsy
  <2>3. InUse(k) = OrElse(OrElse(Raw(k), Base(k)), Default[k])
    BY <1>2, <2>2 DEF InUse
  <2> QED BY <2>1, <2>2, <2>3 DEF OrElse
<1>3. CASE k = "retention"
  <2>1. Raw(k) \notin {"", "0", "3"}
    BY <1>3 DEF UsedOtherwise
  <2>2. Understood(k, Raw(k)) = Raw(k)
    BY <2>1 DEF Understood
  <2> QED BY <1>3, <2>1, <2>2 DEF InUse, OrElse, Falsy
<1>4. CASE k = "schedule"
  <2>1. settingRow[k] = NONE
    BY <1>4 DEF UsedOtherwise, Source
  <2>2. Raw(k) = Base(k)
    BY <1>4, <2>1 DEF Raw, Base, Understood, Numbers
  <2> QED BY <1>4, <2>2 DEF InUse, Understood, Numbers
<1>5. CASE k = "publicPage"
  <2>1. settingRow[k] \in {"true", "false", NONE}
    BY <1>5, <1>1 DEF SettingsInv, RowsAreStorable, Storable, Texts, Switches, Default, Numbers
  <2>2. Raw(k) = IF settingRow[k] = "true" THEN "true" ELSE "false"
    BY <1>5, <1>1, <2>1 DEF UsedOtherwise, Source, Raw, Switches, Default, Numbers, NONE
  <2> QED BY <1>5, <2>2 DEF InUse, Understood, Numbers
<1>6. CASE k = "pageSection"
  <2>1. Raw(k) = IF settingRow[k] = NONE THEN "true" ELSE settingRow[k]
    BY <1>6, <1>1 DEF UsedOtherwise, Source, Raw, Switches, Default, Numbers
  <2> QED BY <1>6, <2>1 DEF InUse, Understood, Numbers
<1>7. CASE k = "threshold"
  BY <1>7 DEF InUse
<1> QED BY <1>1, <1>2, <1>3, <1>4, <1>5, <1>6, <1>7 DEF Setting

LEMMA SettingsInvHolds == SettingsInv => SettingsHold /\ SettingsTypeOK
<1> SUFFICES ASSUME SettingsInv PROVE SettingsHold /\ SettingsTypeOK
  OBVIOUS
<1>1. UsedAsShown
  BY SettingUsedAsShown DEF UsedAsShown
<1>2. SecretIsNoMask
  BY KeysAreSettings, TextsOfSettings DEF SettingsInv, RowsAreStorable, Storable, SecretIsNoMask, NONE, Mask
<1>3. SavedIsShown
  BY DEF SettingsInv, ShownIsStored, SavedIsShown, NoPut
<1>4. \A k \in SettingKeys : Texts(k) \cup {Default[k]} \subseteq AnyText
  <2>1. \A k \in Setting : Default[k] \in {"30", "x", "true", "false", ""}
    BY DEF Default, Setting, Numbers
  <2>2. \A k \in Setting : Texts(k) \subseteq AnyText
    BY DEF AnyText
  <2>3. {"true", "false"} \subseteq AnyText
    <3>1. {"true", "false"} = Texts("publicPage") /\ "publicPage" \in Setting
      BY DEF Texts, Setting, Switches
    <3> QED BY <2>2, <3>1
  <2>4. "30" \in AnyText /\ "x" \in AnyText /\ "" \in AnyText
    BY DEF AnyText
  <2> QED BY <2>1, <2>2, <2>3, <2>4, KeysAreSettings
<1>5. envValue \in AnyText \cup {NONE}
  BY TextsOfSettings DEF SettingsInv, AnyText
<1>6. SettingsTypeOK
  BY <1>4, <1>5 DEF SettingsInv, SettingsTypeOK, RowsAreStorable, FieldsAreTypable, Storable,
     Typable, PutIsTyped, SourcesAreKnown
<1> QED BY <1>1, <1>2, <1>3, <1>6 DEF SettingsHold

\* db/settings.ts, handlers.ts, SettingsPage.tsx: what the jobs and pages of the hub use is
\* what its page shows, no secret is replaced by its mask, and a save that was answered is
\* what the page shows next, whoever else writes and whichever requests fail.
THEOREM SettingsAreTrue == SettingsSpec => []SettingsHold
<1>1. SettingsInit => SettingsInv
  BY SettingsInvInit
<1>2. SettingsInv /\ [SettingsNext]_settingVars => SettingsInv'
  BY SettingsInvNext
<1>3. SettingsInv => SettingsHold
  BY SettingsInvHolds
<1> QED BY <1>1, <1>2, <1>3, PTL DEF SettingsSpec

\* The settings, their fields and the request that saves them keep to their types.
THEOREM SettingsTypeCorrect == SettingsSpec => []SettingsTypeOK
<1>1. SettingsInit => SettingsInv
  BY SettingsInvInit
<1>2. SettingsInv /\ [SettingsNext]_settingVars => SettingsInv'
  BY SettingsInvNext
<1>3. SettingsInv => SettingsTypeOK
  BY SettingsInvHolds
<1> QED BY <1>1, <1>2, <1>3, PTL DEF SettingsSpec

(***************************************************************************)
(* The pages of a container.  All of PagesAgree but the host's row in the  *)
(* registry is about the ages of its rows, whatever they say.              *)
(***************************************************************************)

\* A page is of a host that is in the table hosts, or there is nothing to show.
PagesInv ==
    /\ PagesTypeOK
    /\ hostRow \/ (rows = [a \in RowAges |-> None] /\ before = None)

LEMMA PagesInvInit == PagesInit => PagesInv
BY DEF PagesInit, PagesInv, PagesTypeOK

LEMMA PagesInvNext == PagesInv /\ [PagesNext]_pageVars => PagesInv'
<1> SUFFICES ASSUME PagesInv, [PagesNext]_pageVars PROVE PagesInv'
  OBVIOUS
<1> USE FleetPagesAssumption
<1>1. /\ rows \in [RowAges -> Says \cup {None}] /\ before \in Says \cup {None}
      /\ registry \in {"unknown", "present", "removed"} /\ hostRow \in BOOLEAN
  BY DEF PagesInv, PagesTypeOK
<1>2. CASE \E said \in Says : Listing(said)
  BY <1>1, <1>2 DEF Listing, PagesInv, PagesTypeOK
<1>3. CASE ListingOfOthers
  BY <1>1, <1>3 DEF ListingOfOthers, PagesInv, PagesTypeOK
<1>4. CASE TickPasses
  <2>1. rows' = [a \in RowAges |-> IF a = 0 THEN None ELSE rows[a - 1]]
    BY <1>4 DEF TickPasses
  <2>2. \A a \in RowAges : a # 0 => a - 1 \in RowAges
    BY DEF RowAges
  <2>3. rows' \in [RowAges -> Says \cup {None}]
    BY <1>1, <2>1, <2>2
  <2>4. Window \in RowAges
    BY DEF RowAges
  <2>5. before' \in Says \cup {None} /\ UNCHANGED <<registry, hostRow>>
    BY <1>1, <1>4, <2>4 DEF TickPasses
  <2>6. hostRow \/ (rows' = [a \in RowAges |-> None] /\ before' = None)
    <3>1. ASSUME rows = [a \in RowAges |-> None], before = None
          PROVE  rows' = [a \in RowAges |-> None] /\ before' = None
      BY <1>4, <2>2, <2>4, <3>1 DEF TickPasses
    <3> QED BY <3>1 DEF PagesInv
  <2> QED BY <1>1, <2>3, <2>5, <2>6 DEF PagesInv, PagesTypeOK
<1>5. CASE Prune
  <2>1. UNCHANGED rows /\ before' = None /\ registry' \in {registry, "unknown"}
    BY <1>5 DEF Prune
  <2>2. hostRow' \in BOOLEAN
    BY <1>5 DEF Prune
  <2>3. hostRow' \/ rows = [a \in RowAges |-> None]
    BY <1>5 DEF Prune, PagesInv
  <2> QED BY <1>1, <2>1, <2>2, <2>3 DEF PagesInv, PagesTypeOK
<1>6. CASE DeleteRows
  BY <1>1, <1>6 DEF DeleteRows, PagesInv, PagesTypeOK
<1>7. CASE UNCHANGED pageVars
  BY <1>1, <1>7 DEF pageVars, PagesInv, PagesTypeOK
<1> QED BY <1>2, <1>3, <1>4, <1>5, <1>6, <1>7 DEF PagesNext

\* The least and the greatest of a set of ages.
LEMMA LeastAge ==
    ASSUME NEW S, S \subseteq RowAges, S # {}
    PROVE  Min(S) \in S /\ \A x \in S : Min(S) <= x
<1>1. S \subseteq Nat
  BY FleetPagesAssumption DEF RowAges
<1> QED BY <1>1, MinIsLeast

LEMMA GreatestAge ==
    ASSUME NEW S, S \subseteq RowAges, S # {}
    PROVE  Max(S) \in S /\ \A x \in S : x <= Max(S)
<1>1. Window \in Nat /\ S \subseteq 0 .. Window
  BY FleetPagesAssumption DEF RowAges
<1> QED BY <1>1, MaxIsGreatest

\* The dashboard and the two pages look at the same newest row.
LEMMA CountsOfPagesAgree == PagesInv => CountsAgree
<1> SUFFICES ASSUME PagesInv PROVE CountsAgree
  OBVIOUS
<1>1. ~hostRow => Latest = None
  BY DEF PagesInv, Latest, InWindow
<1>2. Latest \in Says \cup {None}
  <2>1. CASE InWindow = {}
    BY <2>1 DEF PagesInv, PagesTypeOK, Latest
  <2>2. CASE InWindow # {}
    <3>1. Min(InWindow) \in RowAges
      BY <2>2, LeastAge DEF InWindow
    <3> QED BY <2>2, <3>1 DEF PagesInv, PagesTypeOK, Latest
  <2> QED BY <2>1, <2>2
<1>3. CASE registry = "present" /\ Latest # None
  <2>1. OnHostPage = {Latest} /\ OnOwnPage = {Latest} /\ Counted = 1
    BY <1>1, <1>3 DEF OnHostPage, OnOwnPage, Counted
  <2>2. Cardinality({Latest}) = 1
    BY FS_Singleton
  <2>3. CASE Latest \in {"failed", "paused"}
    <3>1. OnHostPage \cap {"failed", "paused"} = {Latest}
      BY <2>1, <2>3
    <3>2. CountedDown = 1
      BY <2>1, <2>3 DEF CountedDown, CountedRunning, CountedCompleted
    <3> QED BY <2>1, <2>2, <3>1, <3>2 DEF CountsAgree
  <2>4. CASE Latest \in {"running", "completed"}
    <3>1. OnHostPage \cap {"failed", "paused"} = {}
      BY <2>1, <2>4
    <3>2. CountedDown = 0
      BY <2>1, <2>4 DEF CountedDown, CountedRunning, CountedCompleted
    <3> QED BY <2>1, <2>2, <3>1, <3>2, FS_EmptySet DEF CountsAgree
  <2> QED BY <1>2, <1>3, <2>3, <2>4 DEF Says
<1>4. CASE ~(registry = "present" /\ Latest # None)
  <2>1. OnHostPage = {} /\ Counted = 0
    BY <1>4 DEF OnHostPage, Counted
  <2>2. OnHostPage \cap {"failed", "paused"} = {} /\ CountedDown = 0
    BY <2>1 DEF CountedDown, CountedRunning, CountedCompleted
  <2> QED BY <2>1, <2>2, FS_EmptySet DEF CountsAgree
<1> QED BY <1>3, <1>4

\* Ages are numbers; a row that runs has another status than one that does not.
LEMMA AgesOfRows ==
    ASSUME PagesInv
    PROVE  /\ InWindow \subseteq RowAges /\ RowAges \subseteq Nat
           /\ Changes \subseteq InWindow /\ Incidents \subseteq Changes /\ Events \subseteq InWindow
           /\ \A a, b \in InWindow : IsUp(a) # IsUp(b) => Status(rows[a]) # Status(rows[b])
           /\ \A a \in InWindow : \A S \in SUBSET InWindow : Earlier(a, S) \subseteq RowAges
<1>1. \A a \in InWindow : rows[a] \in Says
  BY DEF PagesInv, PagesTypeOK, InWindow
<1>2. \A a, b \in InWindow : IsUp(a) # IsUp(b) => Status(rows[a]) # Status(rows[b])
  BY <1>1 DEF Says, Status, IsUp
<1>3. InWindow \subseteq RowAges /\ RowAges \subseteq Nat
  BY FleetPagesAssumption DEF InWindow, RowAges
<1> QED BY <1>2, <1>3 DEF Changes, Incidents, Events, Earlier

\* A change of the status that the feed shows is one that the incidents are made of, and one
\* that they are made of is in the feed if there is a row before it.
LEMMA EventsAreChanges ==
    ASSUME PagesInv
    PROVE  /\ Events \subseteq Changes
           /\ \A a \in Changes : Earlier(a, InWindow) # {} => a \in Events
<1>1. ASSUME NEW a \in InWindow, Earlier(a, InWindow) # {}
      PROVE  /\ Previous(a) = rows[Min(Earlier(a, InWindow))]
             /\ Previous(a) # None
  <2>1. Min(Earlier(a, InWindow)) \in Earlier(a, InWindow)
    BY <1>1, AgesOfRows, LeastAge
  <2> QED BY <1>1, <2>1 DEF Previous, Earlier, InWindow
<1> QED BY <1>1 DEF Events, Changes

\* What EndOf is: younger than the start, a change to running, and the first one.
LEMMA EndIsFirstStart ==
    ASSUME PagesInv, NEW i \in Incidents
    PROVE  /\ EndOf(i) \in Int /\ EndOf(i) < i
           /\ EndOf(i) # Ongoing => EndOf(i) \in Changes /\ IsUp(EndOf(i))
           /\ \A a \in Changes : a < i /\ IsUp(a) => a <= EndOf(i)
<1> DEFINE ends == {a \in Changes : a < i /\ IsUp(a)}
<1>1. ends \subseteq RowAges /\ i \in Nat /\ RowAges \subseteq Nat
  BY AgesOfRows
<1>2. CASE ends = {}
  <2>1. EndOf(i) = -1
    BY <1>2 DEF EndOf, Ongoing
  <2> QED BY <1>1, <1>2, <2>1 DEF Ongoing
<1>3. CASE ends # {}
  <2> DEFINE m == Max(ends)
  <2>1. EndOf(i) = m
    BY <1>3 DEF EndOf
  <2>2. m \in ends /\ \A a \in ends : a <= m
    BY <1>1, <1>3, GreatestAge
  <2> HIDE DEF m
  <2>3. m \in Nat /\ m \in Changes /\ m < i /\ IsUp(m)
    BY <1>1, <2>2
  <2> QED BY <2>1, <2>2, <2>3
<1> QED BY <1>2, <1>3

LEMMA IncidentsAreApart ==
    ASSUME PagesInv, NEW i \in Incidents, NEW j \in Incidents, j < i
    PROVE  During(i) \cap During(j) = {}
<1> DEFINE m == Min(Earlier(j, Changes))
<1>1. i \in Earlier(j, Changes) /\ Changes \subseteq InWindow /\ j \in InWindow
  BY AgesOfRows DEF Earlier
<1>2. Earlier(j, Changes) \subseteq RowAges
  BY <1>1, AgesOfRows
<1>3. m \in Earlier(j, Changes) /\ m <= i
  BY <1>1, <1>2, LeastAge
<1>4. IsUp(m) /\ ~IsUp(i)
  BY <1>1 DEF Incidents
<1>5. m \in Changes /\ m > j /\ m # i
  BY <1>3, <1>4 DEF Earlier
<1>6. {i, j, m} \subseteq Nat
  BY <1>1, <1>2, <1>3, AgesOfRows
<1>7. m <= EndOf(i)
  BY <1>3, <1>4, <1>5, <1>6, EndIsFirstStart
<1>8. EndOf(i) \in Int /\ EndOf(j) \in Int
  BY EndIsFirstStart
<1> QED BY <1>5, <1>6, <1>7, <1>8 DEF During

\* A stop is in the incident that the last change to another status than running began,
\* with no start in between.
LEMMA StopIsInIncident ==
    ASSUME PagesInv, NEW a \in Changes, ~IsUp(a)
    PROVE  \E i \in Incidents : /\ a \in During(i) /\ a <= i
                                /\ EndOf(i) < a
<1> DEFINE since == {b \in Changes : b >= a /\ \A c \in Changes : a <= c /\ c <= b => ~IsUp(c)}
           i == Max(since)
<1>1. Changes \subseteq RowAges /\ RowAges \subseteq Nat
  BY AgesOfRows
<1>2. a \in since
  BY <1>1
<1>3. i \in since /\ \A b \in since : b <= i
  BY <1>1, <1>2, GreatestAge
<1> HIDE DEF i
<1>4. i \in Changes /\ a <= i /\ (\A c \in Changes : a <= c /\ c <= i => ~IsUp(c)) /\ ~IsUp(i)
  BY <1>1, <1>3
<1>5. ASSUME Earlier(i, Changes) # {} PROVE IsUp(Min(Earlier(i, Changes)))
  <2> DEFINE m == Min(Earlier(i, Changes))
  <2>1. Earlier(i, Changes) \subseteq RowAges
    BY <1>1 DEF Earlier
  <2>2. m \in Earlier(i, Changes) /\ \A x \in Earlier(i, Changes) : m <= x
    BY <1>5, <2>1, LeastAge
  <2> HIDE DEF m
  <2>3. m \in Changes /\ m > i
    BY <2>2 DEF Earlier
  <2>4. \A c \in Changes : c <= m => c <= i \/ c = m
    BY <1>1, <1>4, <2>2, <2>3 DEF Earlier
  <2>5. m \notin since
    BY <1>1, <1>3, <1>4, <2>3
  <2>6. IsUp(m)
    BY <1>1, <1>4, <2>3, <2>4, <2>5
  <2> QED BY <2>6 DEF m
<1>6. i \in Incidents
  BY <1>4, <1>5 DEF Incidents
<1>7. EndOf(i) < a
  <2>1. EndOf(i) \in Int /\ EndOf(i) < i /\ (EndOf(i) # Ongoing => EndOf(i) \in Changes /\ IsUp(EndOf(i)))
    BY <1>6, EndIsFirstStart
  <2>2. a \in Nat /\ i \in Nat
    BY <1>1, <1>4
  <2> QED BY <1>1, <1>4, <2>1, <2>2 DEF Ongoing
<1>8. a \in During(i)
  <2>1. EndOf(i) \in Int
    BY <1>6, EndIsFirstStart
  <2>2. a \in Nat /\ i \in Nat
    BY <1>1, <1>4
  <2> QED BY <1>4, <1>7, <2>1, <2>2 DEF During
<1> QED BY <1>4, <1>6, <1>7, <1>8

LEMMA FeedOfPagesAgrees == PagesInv => FeedAgrees
<1> SUFFICES ASSUME PagesInv PROVE FeedAgrees
  OBVIOUS
<1>1. \A i, j \in Incidents : i # j => During(i) \cap During(j) = {}
  <2>1. ASSUME NEW i \in Incidents, NEW j \in Incidents, i # j PROVE During(i) \cap During(j) = {}
    <3>1. i < j \/ j < i
      BY <2>1, AgesOfRows
    <3> QED BY <3>1, IncidentsAreApart
  <2> QED BY <2>1
<1>2. \A a \in StopEvents : \E i \in Incidents : a \in During(i)
  BY StopIsInIncident, EventsAreChanges DEF StopEvents
<1>3. \A i \in Incidents : i \in StopEvents \/ Earlier(i, InWindow) = {}
  BY EventsAreChanges DEF StopEvents, Incidents
<1>4. ASSUME NEW i \in Incidents, EndOf(i) # Ongoing PROVE EndOf(i) \in StartEvents
  <2>1. EndOf(i) \in Changes /\ IsUp(EndOf(i)) /\ EndOf(i) < i
    BY <1>4, EndIsFirstStart
  <2>2. i \in Earlier(EndOf(i), InWindow)
    BY <2>1, AgesOfRows DEF Earlier
  <2> QED BY <2>1, <2>2, EventsAreChanges DEF StartEvents
<1> QED BY <1>1, <1>2, <1>3, <1>4 DEF FeedAgrees

\* Between its start and its end no row of an incident runs, even one that nothing changed at.
LEMMA NothingRunsDuring ==
    ASSUME PagesInv, NEW i \in Incidents, NEW a \in InWindow, EndOf(i) < a, a <= i
    PROVE  ~IsUp(a)
<1> SUFFICES ASSUME IsUp(a) PROVE FALSE
  OBVIOUS
<1> DEFINE up == {b \in InWindow : a <= b /\ b < i /\ IsUp(b)}
           b == Max(up)
           p == Min(Earlier(b, InWindow))
<1>1. InWindow \subseteq RowAges /\ RowAges \subseteq Nat /\ i \in InWindow /\ ~IsUp(i)
  BY AgesOfRows DEF Incidents
<1>2. a \in up
  BY <1>1
<1>3. b \in up /\ \A x \in up : x <= b
  BY <1>1, <1>2, GreatestAge
<1> HIDE DEF b
<1>4. b \in InWindow /\ a <= b /\ b < i /\ IsUp(b)
  BY <1>3
<1>5. i \in Earlier(b, InWindow) /\ Earlier(b, InWindow) \subseteq RowAges
  BY <1>1, <1>4 DEF Earlier
<1>6. p \in Earlier(b, InWindow) /\ p <= i
  BY <1>5, LeastAge
<1>7. Previous(b) = rows[p]
  BY <1>5 DEF Previous
<1> HIDE DEF p
<1>8. p \in InWindow /\ p > b
  BY <1>6 DEF Earlier
<1>9. ~IsUp(p)
  <2>1. p \notin up
    BY <1>1, <1>3, <1>4, <1>8
  <2> QED BY <1>1, <1>4, <1>6, <1>8, <2>1
<1>10. b \in Changes
  <2>1. rows[p] # None
    BY <1>8 DEF InWindow
  <2>2. Status(rows[b]) # Status(rows[p])
    BY <1>4, <1>8, <1>9, AgesOfRows
  <2> QED BY <1>4, <1>7, <2>1, <2>2 DEF Changes
<1>11. b <= EndOf(i)
  BY <1>4, <1>10, EndIsFirstStart
<1>12. EndOf(i) \in Int
  BY EndIsFirstStart
<1> QED BY <1>1, <1>4, <1>11, <1>12

\* What an hour shows of the rows in it.
LEMMA SlotShowsItsRows ==
    ASSUME NEW s \in Slots
    PROVE  /\ \A a \in InSlot(s) : ~IsUp(a) => Slot(s) \in {"down", "completed"}
           /\ Slot(s) = "down" => \E a \in InSlot(s) : ~IsUp(a)
<1> DEFINE said == {rows[a] : a \in InSlot(s)}
<1>1. Slot(s) = (CASE said = {} -> None [] said = {"running"} -> "up"
                   [] said = {"completed"} -> "completed" [] OTHER -> "down")
  BY DEF Slot
<1>2. ASSUME NEW a \in InSlot(s), ~IsUp(a) PROVE Slot(s) \in {"down", "completed"}
  <2>1. rows[a] \in said /\ rows[a] # "running"
    BY <1>2 DEF IsUp
  <2> HIDE DEF said
  <2>2. said # {} /\ said # {"running"}
    BY <2>1
  <2> QED BY <1>1, <2>2
<1>3. ASSUME Slot(s) = "down" PROVE \E a \in InSlot(s) : ~IsUp(a)
  <2>1. said # {} /\ said # {"running"}
    <3> HIDE DEF said
    <3> QED BY <1>1, <1>3 DEF None
  <2> QED BY <2>1 DEF IsUp
<1> QED BY <1>2, <1>3

LEMMA TimelineOfPagesAgrees == PagesInv => TimelineAgrees
<1> SUFFICES ASSUME PagesInv PROVE TimelineAgrees
  OBVIOUS
<1>1. InWindow \subseteq Nat /\ Changes \subseteq InWindow /\ Incidents \subseteq Changes
  BY AgesOfRows
<1>2. ASSUME NEW i \in Incidents, NEW s \in Slots, InSlot(s) \cap During(i) # {}
      PROVE  Slot(s) \in {"down", "completed"}
  <2>1. PICK a \in InSlot(s) : a \in During(i)
    BY <1>2
  <2>2. a \in InWindow
    BY DEF InSlot
  <2>3. EndOf(i) \in Int
    BY EndIsFirstStart
  <2>4. EndOf(i) < a /\ a <= i
    BY <1>1, <2>1, <2>2, <2>3 DEF During
  <2>5. ~IsUp(a)
    BY <2>2, <2>4, NothingRunsDuring
  <2> QED BY <2>5, SlotShowsItsRows
<1>3. ASSUME NEW s \in Slots, Slot(s) = "down"
      PROVE  \/ \E i \in Incidents : InSlot(s) \cap During(i) # {}
             \/ \E a \in InSlot(s) : ~IsUp(a) /\ \A b \in Earlier(a, InWindow) : ~IsUp(b)
  <2>1. PICK a \in InSlot(s) : ~IsUp(a)
    BY <1>3, SlotShowsItsRows
  <2>2. a \in InWindow
    BY DEF InSlot
  <2> DEFINE up == {b \in Earlier(a, InWindow) : IsUp(b)}
             b == Min(up)
             stops == {c \in InWindow : a <= c /\ c < b}
             c == Max(stops)
  <2>3. CASE up = {}
    BY <2>1, <2>3
  <2>4. CASE up # {}
    <3>1. up \subseteq RowAges
      BY AgesOfRows DEF Earlier
    <3>2. b \in up /\ \A x \in up : b <= x
      BY <2>4, <3>1, LeastAge
    <3> HIDE DEF b
    <3>3. b \in InWindow /\ b > a /\ IsUp(b)
      BY <3>2 DEF Earlier
    <3>4. stops \subseteq RowAges /\ a \in stops
      <4>1. InWindow \subseteq RowAges
        BY AgesOfRows
      <4>2. a <= a /\ a < b
        BY <1>1, <2>2, <3>3
      <4> QED BY <2>2, <4>1, <4>2
    <3>5. c \in stops /\ \A x \in stops : x <= c
      BY <3>4, GreatestAge
    <3> HIDE DEF c
    <3>6. c \in InWindow /\ a <= c /\ c < b
      BY <3>5
    <3>7. ~IsUp(c)
      BY <1>1, <2>1, <2>2, <3>2, <3>6 DEF Earlier
    <3>8. c \in Changes
      <4> DEFINE p == Min(Earlier(c, InWindow))
      <4>1. b \in Earlier(c, InWindow) /\ Earlier(c, InWindow) \subseteq RowAges
        BY <3>3, <3>6, AgesOfRows DEF Earlier
      <4>2. p \in Earlier(c, InWindow) /\ p <= b
        BY <4>1, LeastAge
      <4>3. Previous(c) = rows[p]
        BY <4>1 DEF Previous
      <4> HIDE DEF p
      <4>4. p \in InWindow /\ p > c
        BY <4>2 DEF Earlier
      <4>5. p = b
        <5>1. p < b => p \in stops
          BY <1>1, <2>2, <3>6, <4>4
        <5> QED BY <1>1, <3>3, <3>5, <3>6, <4>2, <4>4, <5>1
      <4>6. Status(rows[c]) # Status(rows[b]) /\ rows[b] # None
        BY <3>3, <3>6, <3>7, AgesOfRows DEF InWindow
      <4> QED BY <3>6, <4>3, <4>5, <4>6 DEF Changes
    <3>9. PICK i \in Incidents : c <= i /\ EndOf(i) < c
      BY <3>7, <3>8, StopIsInIncident
    <3>10. EndOf(i) \in Int /\ (EndOf(i) # Ongoing => EndOf(i) \in Changes /\ IsUp(EndOf(i)))
      BY EndIsFirstStart
    <3>11. EndOf(i) < a
      <4>1. CASE EndOf(i) = Ongoing
        BY <1>1, <2>2, <4>1 DEF Ongoing
      <4>2. CASE EndOf(i) # Ongoing
        <5>1. EndOf(i) \in InWindow /\ IsUp(EndOf(i)) /\ EndOf(i) < b
          BY <1>1, <3>3, <3>6, <3>9, <3>10, <4>2
        <5>2. EndOf(i) > a => EndOf(i) \in up
          BY <5>1 DEF Earlier
        <5>3. {a, b, EndOf(i)} \subseteq Nat
          BY <1>1, <2>2, <3>3, <5>1
        <5>4. ~(EndOf(i) > a)
          <6> HIDE DEF up
          <6> QED BY <3>2, <5>1, <5>2, <5>3
        <5>5. EndOf(i) # a
          BY <2>1, <5>1
        <5> QED BY <5>3, <5>4, <5>5
      <4> QED BY <4>1, <4>2
    <3>12. a \in During(i)
      BY <1>1, <2>2, <3>6, <3>9, <3>10, <3>11 DEF During
    <3> QED BY <3>12
  <2> QED BY <2>3, <2>4
<1> QED BY <1>2, <1>3 DEF TimelineAgrees

\* PagesAgree holds for every window and length of an hour: the counts of getDashboard, the two
\* lists of containers, the feed of getEvents, and the incidents and hours of
\* getContainerDowntime (web/queries.ts) do not contradict one another.
THEOREM PagesDoAgree == PagesSpec => []PagesAgree
<1>1. PagesInit => PagesInv
  BY PagesInvInit
<1>2. PagesInv /\ [PagesNext]_pageVars => PagesInv'
  BY PagesInvNext
<1>3. PagesInv => PagesAgree
  BY CountsOfPagesAgree, FeedOfPagesAgrees, TimelineOfPagesAgrees DEF PagesAgree
<1> QED BY <1>1, <1>2, <1>3, PTL DEF PagesSpec

(***************************************************************************)
(* Groups of hosts, for any hosts, names and edits.                        *)
(***************************************************************************)

\* A host that has left a group has an override since: what its agent reports is not shown.
LeftAreOverridden == \A h \in GroupHost : row[h].override = NULL => left[h] = {}

GroupsInv == GroupsTypeOK /\ LeftAreOverridden /\ GroupsStayGone

\* The markers are not names.
LEMMA MarkersDiffer ==
    /\ NULL \notin Group /\ Empty \notin Group /\ NoRow.reported \notin Group \cup {NULL}
    /\ NULL # Empty /\ NoRow.override = NULL
BY HostGroupsAssumption DEF NULL, Empty, NoRow

LEMMA NoRowIsNoRow == NoRow \notin Rows
BY MarkersDiffer DEF Rows

\* Only hosts with a row are in a group.
LEMMA InGroupHaveRows ==
    ASSUME GroupsTypeOK, NEW name \in Group, NEW h \in InGroup(name)
    PROVE  h \in GroupHost /\ row[h] \in Rows
<1>1. h \in GroupHost /\ row[h] \in Rows \cup {NoRow}
  BY DEF InGroup, GroupsTypeOK
<1>2. row[h] # NoRow
  BY MarkersDiffer DEF InGroup
<1> QED BY <1>1, <1>2

\* Overriding some rows.
LEMMA OverriddenRows ==
    ASSUME GroupsTypeOK, NEW hosts \in SUBSET GroupHost, NEW name \in Group \cup {NULL, Empty},
           \A h \in hosts : row[h] \in Rows
    PROVE  LET new == Overridden(hosts, name) IN
           /\ new \in [GroupHost -> Rows \cup {NoRow}]
           /\ \A h \in hosts : new[h] \in Rows /\ new[h].override = name
           /\ \A h \in GroupHost \ hosts : new[h] = row[h]
<1> DEFINE new == Overridden(hosts, name)
<1>1. ASSUME NEW h \in hosts PROVE new[h] \in Rows /\ new[h].override = name
  <2>1. row[h] \in Rows
    OBVIOUS
  <2>2. new[h] = [row[h] EXCEPT !.override = name]
    BY DEF Overridden
  <2> HIDE DEF new
  <2> QED BY <2>1, <2>2 DEF Rows
<1>2. \A h \in GroupHost \ hosts : new[h] = row[h] /\ new[h] \in Rows \cup {NoRow}
  BY DEF Overridden, GroupsTypeOK
<1>3. new \in [GroupHost -> Rows \cup {NoRow}]
  <2>1. \A h \in GroupHost : new[h] \in Rows \cup {NoRow}
    BY <1>1, <1>2
  <2> QED BY <2>1 DEF Overridden
<1> HIDE DEF new
<1> QED BY <1>1, <1>2, <1>3 DEF new

LEMMA ListedIsList ==
    ASSUME GroupsTypeOK
    PROVE  Listed \in Lists
<1>1. ASSUME NEW h \in GroupHost, row[h] # NoRow
      PROVE  [group |-> Effective(row[h]), override |-> row[h].override] \in Entries
  <2>1. row[h] \in Rows
    BY <1>1 DEF GroupsTypeOK
  <2>2. Effective(row[h]) \in Group \cup {NULL, Empty}
    BY <2>1 DEF Effective, Rows
  <2> QED BY <2>1, <2>2 DEF Entries, Rows
<1> QED BY <1>1 DEF Listed, Lists

LEMMA GroupsInvInit == GroupsInit => GroupsInv
<1> SUFFICES ASSUME GroupsInit PROVE GroupsInv
  OBVIOUS
<1>1. ASSUME NEW h \in GroupHost
      PROVE  row[h] \in Rows /\ row[h].override = NULL /\ left[h] = {} /\ board[h] = Hidden
  <2>1. setting[h] \in Group \cup {NULL}
    BY DEF GroupsInit
  <2> QED BY <2>1 DEF GroupsInit, Rows
<1>2. row \in [GroupHost -> Rows \cup {NoRow}] /\ board \in Lists
  BY <1>1 DEF GroupsInit, Lists
<1>3. Cardinality({}) <= 1
  BY FS_EmptySet
<1>4. GroupsTypeOK
  <2>1. doings \in 0 .. MaxDoings
    <3>1. doings = 0 /\ MaxDoings \in Nat
      BY HostGroupsAssumption, Zenon DEF GroupsInit
    <3> QED BY <3>1
  <2>2. left \in [GroupHost -> SUBSET Group]
    <3>1. left = [h \in GroupHost |-> {}]
      BY Zenon DEF GroupsInit
    <3> QED BY <3>1
  <2> QED BY <1>2, <1>3, <2>1, <2>2 DEF GroupsInit, GroupsTypeOK
<1> QED BY <1>1, <1>4 DEF GroupsInv, LeftAreOverridden, GroupsStayGone

-----------------------------------------------------------------------------
(* Requests.  Of each kind, what it carries.                               *)

LEMMA RequestKinds ==
    ASSUME GroupsTypeOK, request # NoRequest
    PROVE  /\ request.kind = "set" => /\ request.host \in GroupHost /\ request.to \in Group \cup {Empty}
                                      /\ [request EXCEPT !.read = TRUE] \in Requests
           /\ request.kind = "reset" => request.host \in GroupHost
           /\ request.kind = "rename" => request.from \in Group /\ request.to \in Group
           /\ request.kind = "delete" => request.from \in Group
<1>1. request \in Requests
  BY DEF GroupsTypeOK
<1>2. CASE request \in [kind : {"set"}, host : GroupHost, to : Group \cup {Empty}, read : BOOLEAN]
  BY <1>2 DEF Requests
<1>3. CASE request \in [kind : {"reset"}, host : GroupHost]
  BY <1>3
<1>4. CASE request \in [kind : {"rename"}, from : Group, to : Group]
  BY <1>4
<1>5. CASE request \in [kind : {"delete"}, from : Group]
  BY <1>5
<1> QED BY <1>1, <1>2, <1>3, <1>4, <1>5 DEF Requests

\* What an update of rows has to keep.
LEMMA RowsKeepInv ==
    ASSUME GroupsInv, UNCHANGED <<setting, board, columns>>,
           request' = NoRequest \/ request' = request, fetched' = {} \/ fetched' = fetched,
           doings' = doings \/ Do,
           row' \in [GroupHost -> Rows \cup {NoRow}], left' \in [GroupHost -> SUBSET Group],
           \A h \in GroupHost : row'[h].override = NULL => left'[h] = {},
           \A h \in GroupHost : row'[h] # NoRow => Effective(row'[h]) \notin left'[h]
    PROVE  GroupsInv'
<1>1. fetched' \subseteq Lists /\ Cardinality(fetched') <= 1
  <2>1. fetched \subseteq Lists /\ Cardinality(fetched) <= 1
    BY Zenon DEF GroupsInv, GroupsTypeOK
  <2>2. Cardinality({}) <= 1
    BY FS_EmptySet
  <2> QED BY <2>1, <2>2, Zenon
<1>2. doings' \in 0 .. MaxDoings
  <2>1. doings \in 0 .. MaxDoings
    BY Zenon DEF GroupsInv, GroupsTypeOK
  <2>2. MaxDoings \in Nat
    BY Zenon, HostGroupsAssumption
  <2> QED BY <2>1, <2>2 DEF Do
<1>3. request' = NoRequest \/ request' \in Requests
  BY DEF GroupsInv, GroupsTypeOK
<1>4. GroupsTypeOK'
  BY <1>1, <1>2, <1>3 DEF GroupsInv, GroupsTypeOK
<1>5. LeftAreOverridden' /\ GroupsStayGone'
  BY DEF LeftAreOverridden, GroupsStayGone
<1> QED BY <1>4, <1>5 DEF GroupsInv

\* Some rows are overridden with a name that is not one of those left.
LEMMA OverridingKeepsInv ==
    ASSUME GroupsInv, UNCHANGED <<setting, board, columns, doings>>,
           request' = NoRequest \/ request' = request, fetched' = {} \/ fetched' = fetched,
           NEW hosts \in SUBSET GroupHost, \A h \in hosts : row[h] \in Rows,
           NEW name \in Group \cup {NULL, Empty},
           row' = Overridden(hosts, name), left' \in [GroupHost -> SUBSET Group],
           \A h \in GroupHost \ hosts : left'[h] \subseteq left[h],
           \A h \in hosts : name \notin left'[h] /\ (name = NULL => left'[h] = {})
    PROVE  GroupsInv'
<1>1. /\ row' \in [GroupHost -> Rows \cup {NoRow}]
      /\ \A h \in hosts : row'[h] \in Rows /\ row'[h].override = name
      /\ \A h \in GroupHost \ hosts : row'[h] = row[h]
  <2>1. GroupsTypeOK
    BY DEF GroupsInv
  <2> QED BY ONLY <2>1, OverriddenRows, hosts \in SUBSET GroupHost, \A h \in hosts : row[h] \in Rows,
            name \in Group \cup {NULL, Empty}, row' = Overridden(hosts, name)
<1>2. ASSUME NEW h \in GroupHost
      PROVE  /\ row'[h].override = NULL => left'[h] = {}
             /\ row'[h] # NoRow => Effective(row'[h]) \notin left'[h]
  <2>1. CASE h \in hosts
    BY <1>1, <2>1 DEF Effective
  <2>2. CASE h \notin hosts
    BY <1>1, <2>2 DEF GroupsInv, LeftAreOverridden, GroupsStayGone
  <2> QED BY <2>1, <2>2
<1> QED BY <1>1, <1>2, RowsKeepInv

LEMMA SetGroupKeepsInv ==
    ASSUME GroupsInv, SetGroup
    PROVE  GroupsInv'
<1> DEFINE h == request.host
           name == request.to
<1>1. /\ row' = SetOverride(h, name) /\ left' = Into({h}, name)
      /\ request' = NoRequest /\ fetched' = {}
      /\ UNCHANGED <<setting, board, columns, doings>>
  BY DEF SetGroup, Answered
<1>2. h \in GroupHost /\ name \in Group \cup {Empty}
  BY RequestKinds DEF SetGroup, GroupsInv
<1> HIDE DEF h, name
<1>3. left \in [GroupHost -> SUBSET Group] /\ row \in [GroupHost -> Rows \cup {NoRow}]
  BY DEF GroupsInv, GroupsTypeOK
<1>4. /\ left' \in [GroupHost -> SUBSET Group]
      /\ left'[h] = left[h] \ {name} /\ \A g \in GroupHost : left'[g] \subseteq left[g]
  BY <1>1, <1>2, <1>3 DEF Into
<1>5. CASE row[h] = NoRow
  <2>1. row' = row
    BY <1>1, <1>5 DEF SetOverride
  <2> QED BY <1>1, <1>3, <1>4, <2>1, RowsKeepInv DEF GroupsInv, LeftAreOverridden, GroupsStayGone
<1>6. CASE row[h] # NoRow
  <2>1. row' = Overridden({h}, name) /\ row[h] \in Rows /\ {h} \in SUBSET GroupHost
    BY <1>1, <1>2, <1>3, <1>6 DEF SetOverride
  <2>2. name # NULL
    BY <1>2, MarkersDiffer
  <2> QED BY <1>1, <1>2, <1>4, <2>1, <2>2, OverridingKeepsInv
<1> QED BY <1>5, <1>6

LEMMA ResetGroupKeepsInv ==
    ASSUME GroupsInv, ResetGroup
    PROVE  GroupsInv'
<1> DEFINE h == request.host
<1>1. h \in GroupHost /\ NULL \in Group \cup {NULL, Empty}
  BY RequestKinds DEF ResetGroup, GroupsInv
<1>2. left \in [GroupHost -> SUBSET Group] /\ row \in [GroupHost -> Rows \cup {NoRow}]
  BY DEF GroupsInv, GroupsTypeOK
<1>3. CASE row[h] = NoRow
  <2>1. request' = NoRequest /\ UNCHANGED <<row, left, fetched, setting, board, columns, doings>>
    BY <1>3 DEF ResetGroup
  <2> QED BY <1>2, <2>1, RowsKeepInv DEF GroupsInv, LeftAreOverridden, GroupsStayGone
<1>4. CASE row[h] # NoRow
  <2>1. /\ row' = Overridden({h}, NULL) /\ left' = [left EXCEPT ![h] = {}]
        /\ request' = NoRequest /\ fetched' = {}
        /\ UNCHANGED <<setting, board, columns, doings>>
    BY <1>4 DEF ResetGroup, Answered
  <2>2. row[h] \in Rows /\ {h} \in SUBSET GroupHost
    BY <1>1, <1>2, <1>4
  <2> HIDE DEF h
  <2>3. /\ left' \in [GroupHost -> SUBSET Group] /\ left'[h] = {}
        /\ \A g \in GroupHost : left'[g] \subseteq left[g]
    BY <1>1, <1>2, <2>1
  <2> QED BY <1>1, <2>1, <2>2, <2>3, OverridingKeepsInv
<1> QED BY <1>3, <1>4

LEMMA OutOfLeft ==
    ASSUME GroupsTypeOK, NEW hosts, NEW name \in Group, NEW into
    PROVE  LET new == OutOf(hosts, name, into) IN
           /\ new \in [GroupHost -> SUBSET Group]
           /\ \A h \in GroupHost \cap hosts : into \notin new[h]
           /\ \A h \in GroupHost \ hosts : new[h] = left[h]
<1>1. left \in [GroupHost -> SUBSET Group]
  BY DEF GroupsTypeOK
<1> QED BY <1>1 DEF OutOf

LEMMA RenameGroupKeepsInv ==
    ASSUME GroupsInv, RenameGroup
    PROVE  GroupsInv'
<1> DEFINE from == request.from
           to == request.to
           hosts == InGroup(from)
<1>1. /\ row' = Overridden(hosts, to) /\ left' = OutOf(hosts, from, to)
      /\ request' = NoRequest /\ fetched' = {}
      /\ UNCHANGED <<setting, board, columns, doings>>
  BY DEF RenameGroup, Answered
<1>2. from \in Group /\ to \in Group
  BY RequestKinds DEF RenameGroup, GroupsInv
<1> HIDE DEF from, to
<1>3. hosts \in SUBSET GroupHost /\ \A h \in hosts : row[h] \in Rows
  BY <1>2, InGroupHaveRows DEF GroupsInv
<1> HIDE DEF hosts
<1>4. /\ left' \in [GroupHost -> SUBSET Group]
      /\ \A h \in hosts : to \notin left'[h]
      /\ \A h \in GroupHost \ hosts : left'[h] \subseteq left[h]
  BY <1>1, <1>2, <1>3, OutOfLeft DEF GroupsInv
<1>5. to \in Group \cup {NULL, Empty} /\ to # NULL
  BY <1>2, MarkersDiffer
<1> QED BY <1>1, <1>3, <1>4, <1>5, OverridingKeepsInv

LEMMA DeleteGroupKeepsInv ==
    ASSUME GroupsInv, DeleteGroup
    PROVE  GroupsInv'
<1> DEFINE from == request.from
           hosts == InGroup(from)
<1>1. /\ row' = Overridden(hosts, Empty) /\ left' = OutOf(hosts, from, NULL)
      /\ request' = NoRequest /\ fetched' = {}
      /\ UNCHANGED <<setting, board, columns, doings>>
  BY DEF DeleteGroup, DeletedGroup, Answered
<1>2. from \in Group
  BY RequestKinds DEF DeleteGroup, GroupsInv
<1> HIDE DEF from
<1>3. hosts \in SUBSET GroupHost /\ \A h \in hosts : row[h] \in Rows
  BY <1>2, InGroupHaveRows DEF GroupsInv
<1> HIDE DEF hosts
<1>4. /\ left' \in [GroupHost -> SUBSET Group]
      /\ \A h \in GroupHost \ hosts : left'[h] \subseteq left[h]
  BY <1>1, <1>2, OutOfLeft DEF GroupsInv
<1>5. /\ Empty \in Group \cup {NULL, Empty} /\ Empty # NULL
      /\ \A h \in hosts : Empty \notin left'[h]
  BY <1>3, <1>4, MarkersDiffer
<1> QED BY <1>1, <1>3, <1>4, <1>5, OverridingKeepsInv

\* An agent reports: what it reports is shown of hosts that have left no group.
LEMMA ReportGroupKeepsInv ==
    ASSUME GroupsInv, NEW h \in GroupHost, ReportGroup(h)
    PROVE  GroupsInv'
<1> DEFINE new == [reported |-> setting[h],
                   override |-> IF row[h] = NoRow THEN NULL ELSE row[h].override]
<1>1. /\ row' = [row EXCEPT ![h] = new]
      /\ UNCHANGED <<setting, left, board, fetched, columns, request, doings>>
  BY DEF ReportGroup
<1>2. left \in [GroupHost -> SUBSET Group] /\ row \in [GroupHost -> Rows \cup {NoRow}]
  BY DEF GroupsInv, GroupsTypeOK
<1>3. new \in Rows /\ new.override = row[h].override
  <2>1. setting[h] \in Group \cup {NULL}
    BY DEF GroupsInv, GroupsTypeOK
  <2>2. row[h].override \in Group \cup {NULL, Empty}
    BY <1>2, MarkersDiffer DEF Rows
  <2>3. new.override = row[h].override
    BY MarkersDiffer
  <2> QED BY <2>1, <2>2, <2>3 DEF Rows
<1>4. row[h].override = NULL => left[h] = {}
  BY DEF GroupsInv, LeftAreOverridden
<1>5. row[h].override # NULL => row[h] # NoRow /\ Effective(new) = Effective(row[h])
  BY <1>3, MarkersDiffer DEF Effective
<1> HIDE DEF new
<1>6. Effective(new) \notin left[h]
  BY <1>4, <1>5 DEF GroupsInv, GroupsStayGone
<1>7. row' \in [GroupHost -> Rows \cup {NoRow}] /\ row'[h] = new
      /\ \A g \in GroupHost \ {h} : row'[g] = row[g]
  BY <1>1, <1>2, <1>3
<1>8. /\ \A g \in GroupHost : row'[g].override = NULL => left'[g] = {}
      /\ \A g \in GroupHost : row'[g] # NoRow => Effective(row'[g]) \notin left'[g]
  BY <1>1, <1>3, <1>4, <1>6, <1>7 DEF GroupsInv, LeftAreOverridden, GroupsStayGone
<1> QED BY <1>1, <1>2, <1>7, <1>8, RowsKeepInv

LEMMA DropHostKeepsInv ==
    ASSUME GroupsInv, NEW h \in GroupHost, DropHost(h)
    PROVE  GroupsInv'
<1>1. /\ row' = [row EXCEPT ![h] = NoRow] /\ left' = [left EXCEPT ![h] = {}] /\ Do
      /\ UNCHANGED <<setting, board, fetched, columns, request>>
  BY DEF DropHost
<1>2. left \in [GroupHost -> SUBSET Group] /\ row \in [GroupHost -> Rows \cup {NoRow}]
  BY DEF GroupsInv, GroupsTypeOK
<1>3. /\ row' \in [GroupHost -> Rows \cup {NoRow}] /\ left' \in [GroupHost -> SUBSET Group]
      /\ row'[h] = NoRow /\ left'[h] = {}
      /\ \A g \in GroupHost \ {h} : row'[g] = row[g] /\ left'[g] = left[g]
  BY <1>1, <1>2
<1>4. /\ \A g \in GroupHost : row'[g].override = NULL => left'[g] = {}
      /\ \A g \in GroupHost : row'[g] # NoRow => Effective(row'[g]) \notin left'[g]
  BY <1>3 DEF GroupsInv, LeftAreOverridden, GroupsStayGone
<1> QED BY <1>1, <1>3, <1>4, RowsKeepInv

\* All else leaves the rows alone.
LEMMA BoardKeepsInv ==
    ASSUME GroupsInv, UNCHANGED <<row, left>>,
           setting' \in [GroupHost -> Group \cup {NULL}], board' \in Lists,
           fetched' \subseteq Lists, Cardinality(fetched') <= 1, columns' \subseteq Group,
           request' = NoRequest \/ request' \in Requests, doings' = doings \/ Do
    PROVE  GroupsInv'
<1>1. doings' \in 0 .. MaxDoings
  <2>1. doings \in 0 .. MaxDoings
    BY Zenon DEF GroupsInv, GroupsTypeOK
  <2>2. MaxDoings \in Nat
    BY Zenon, HostGroupsAssumption
  <2> QED BY <2>1, <2>2 DEF Do
<1>2. GroupsTypeOK'
  BY <1>1 DEF GroupsInv, GroupsTypeOK
<1>3. LeftAreOverridden' /\ GroupsStayGone'
  BY DEF GroupsInv, LeftAreOverridden, GroupsStayGone
<1> QED BY <1>2, <1>3 DEF GroupsInv

LEMMA FetchingKeepsInv ==
    ASSUME GroupsInv, Fetch \/ Fetched \/ SetChecked \/ RequestLost \/ UNCHANGED groupVars
    PROVE  GroupsInv'
<1>1. /\ UNCHANGED <<setting, row, left, columns>>
      /\ doings' = doings \/ Do
  BY DEF Fetch, Fetched, SetChecked, RequestLost, groupVars
<1>2. /\ Listed \in Lists /\ Cardinality({Listed}) = 1 /\ Cardinality({}) = 0
  BY ListedIsList, FS_Singleton, FS_EmptySet DEF GroupsInv
<1>3. fetched' \subseteq Lists /\ Cardinality(fetched') <= 1 /\ board' \in Lists
  <2>1. GroupsTypeOK
    BY DEF GroupsInv
  <2>2. CASE Fetch
    BY <1>2, <2>1, <2>2 DEF Fetch, GroupsTypeOK
  <2>3. CASE Fetched
    BY <1>2, <2>1, <2>3 DEF Fetched, GroupsTypeOK
  <2>4. CASE SetChecked \/ RequestLost \/ UNCHANGED groupVars
    BY <2>1, <2>4 DEF SetChecked, RequestLost, groupVars, GroupsTypeOK
  <2> QED BY <2>2, <2>3, <2>4
<1>4. request' = NoRequest \/ request' \in Requests
  <2>1. CASE SetChecked
    <3>1. request' = NoRequest \/ request' = [request EXCEPT !.read = TRUE]
      BY <2>1 DEF SetChecked
    <3>2. [request EXCEPT !.read = TRUE] \in Requests
      BY <2>1, RequestKinds DEF SetChecked, GroupsInv
    <3> QED BY <3>1, <3>2
  <2>2. CASE request' = request \/ request' = NoRequest
    BY <2>2 DEF GroupsInv, GroupsTypeOK
  <2> QED BY <2>1, <2>2 DEF Fetch, Fetched, RequestLost, groupVars
<1>5. setting' \in [GroupHost -> Group \cup {NULL}] /\ columns' \subseteq Group
  BY <1>1 DEF GroupsInv, GroupsTypeOK
<1> QED BY <1>1, <1>3, <1>4, <1>5, BoardKeepsInv

LEMMA EditingKeepsInv ==
    ASSUME GroupsInv,
           \/ \E h \in GroupHost : \/ Reconfigure(h) \/ ResetHost(h)
                                   \/ \E g \in Group \cup {Empty} : DragHost(h, g)
           \/ \E g \in Group : \/ AddColumn(g) \/ DeleteColumn(g)
                               \/ \E new \in Group : RenameColumn(g, new)
    PROVE  GroupsInv'
<1>1. UNCHANGED <<row, left, board, fetched>> /\ Do
  BY DEF Reconfigure, ResetHost, DragHost, AddColumn, DeleteColumn, RenameColumn
<1>2. setting' \in [GroupHost -> Group \cup {NULL}]
  BY DEF Reconfigure, ResetHost, DragHost, AddColumn, DeleteColumn, RenameColumn, GroupsInv, GroupsTypeOK
<1>3. columns' \subseteq Group
  BY DEF Reconfigure, ResetHost, DragHost, AddColumn, DeleteColumn, RenameColumn, GroupsInv, GroupsTypeOK
<1>4. request' = NoRequest \/ request' \in Requests
  <2>1. ASSUME NEW h \in GroupHost, NEW g \in Group \cup {Empty}, DragHost(h, g)
        PROVE  request' \in Requests
    BY <2>1 DEF DragHost, Send, Requests
  <2>2. ASSUME NEW h \in GroupHost, ResetHost(h) PROVE request' \in Requests
    BY <2>2 DEF ResetHost, Send, Requests
  <2>3. ASSUME NEW g \in Group, NEW new \in Group, RenameColumn(g, new)
        PROVE  request' = request \/ request' \in Requests
    BY <2>3 DEF RenameColumn, Send, Requests
  <2>4. ASSUME NEW g \in Group, DeleteColumn(g)
        PROVE  request' = request \/ request' \in Requests
    BY <2>4 DEF DeleteColumn, Send, Requests
  <2>5. (\E h \in GroupHost : Reconfigure(h)) \/ (\E g \in Group : AddColumn(g)) => request' = request
    BY DEF Reconfigure, AddColumn
  <2> QED BY <2>1, <2>2, <2>3, <2>4, <2>5 DEF GroupsInv, GroupsTypeOK
<1>5. /\ board' \in Lists /\ fetched' \subseteq Lists /\ Cardinality(fetched') <= 1
  BY <1>1 DEF GroupsInv, GroupsTypeOK
<1> QED BY <1>1, <1>2, <1>3, <1>4, <1>5, BoardKeepsInv

LEMMA GroupsInvNext == GroupsInv /\ [GroupsNext]_groupVars => GroupsInv'
BY SetGroupKeepsInv, ResetGroupKeepsInv, RenameGroupKeepsInv, DeleteGroupKeepsInv,
   ReportGroupKeepsInv, DropHostKeepsInv, FetchingKeepsInv, EditingKeepsInv
   DEF GroupsNext, HandleRequest

\* The state part of "a group that is renamed or deleted does not come back"
\* (web/handlers.ts "those hosts would silently snap back"): of any hosts and names, in any
\* order of reports, edits, lost requests and pruned hosts.
THEOREM GroupsAreGone == GroupsSpec => [](GroupsTypeOK /\ GroupsStayGone)
<1>1. GroupsInit => GroupsInv
  BY GroupsInvInit
<1>2. GroupsInv /\ [GroupsNext]_groupVars => GroupsInv'
  BY GroupsInvNext
<1>3. GroupsInv => GroupsTypeOK /\ GroupsStayGone
  BY DEF GroupsInv
<1> QED BY <1>1, <1>2, <1>3, PTL DEF GroupsSpec

(***************************************************************************)
(* The page of a container, for any siblings, moves and requests.          *)
(***************************************************************************)

\* What the page that is shown has under way itself.
Actions == {f \in flights : f.kind = "action" /\ f.life = page}

\* What the proofs need of the types: a container is told from none, and no request is of
\* a life that has yet to begin.
PageShape ==
    /\ at \in Sibling \cup {"none"} /\ Known \subseteq Sibling
    /\ mount \in Nat /\ page \in Nat /\ page <= mount
    /\ \A f \in flights : f.about \in Sibling /\ f.life \in Nat /\ f.life <= mount

\* The parts of ShownIsOwn, and the hub's rows behind the second.
OnPageIsOwn ==
    \A shown \in {viewer, answer, banner, dialog, busy} : shown # NoOne => shown.of = at

RowsAreOwn ==
    /\ DOMAIN existing = Sibling /\ DOMAIN diagnoses = Sibling
    /\ \A c \in Sibling : /\ existing[c] # NoOne => existing[c].of = c
                          /\ diagnoses[c] # NoOne => diagnoses[c].of = c

\* A request of the viewer or card that is mounted, and an action of the page that is shown,
\* is of the container of the page.
FlightsAreOwn == \A f \in flights :
    /\ f.kind \in {"logs", "ai"} /\ f.life = mount => f.about = at
    /\ f.kind = "action" /\ f.life = page => f.about = at

\* A diagnosis on its way to the page is of the signals the hub began on.
DiagnosesAreOfAsked == \A f \in flights :
    /\ f.stage # "asked" => f.kind = "ai"
    /\ f.stage = "answered" => Hash(f.of) = Hash(f.signals)

\* Without a shortcut, buttons and dialog exclude each other and an action under way.
OneAtATime == ~keyed =>
    /\ dialog # NoOne => busy = NoOne
    /\ \A f \in Actions : busy = [of |-> f.about]
    /\ \A f, g \in Actions : f = g

PageInv ==
    /\ PageShape /\ OnPageIsOwn /\ RowsAreOwn /\ AnswerIsOfAsked
    /\ FlightsAreOwn /\ DiagnosesAreOfAsked /\ OneAtATime

LEMMA NoOneIsNobody ==
    ASSUME NEW c \in Sibling
    PROVE  [of |-> c] # NoOne /\ [of |-> c].of = c
BY ContainerPageAssumption DEF NoOne

LEMMA PageInvOwn == PageInv => ShownIsOwn
BY DEF PageInv, OnPageIsOwn, RowsAreOwn, ShownIsOwn

LEMMA PageInvActions == PageInv => ActionsAreSingle
<1> SUFFICES ASSUME PageInv, ~keyed
             PROVE  Cardinality(Actions) <= 1 /\ \A f \in Actions : busy = [of |-> f.about]
  BY DEF ActionsAreSingle, Actions
<1>1. CASE Actions = {}
  BY <1>1, FS_EmptySet
<1>2. CASE Actions # {}
  <2>1. PICK f \in Actions : Actions = {f}
    BY <1>2 DEF PageInv, OneAtATime
  <2>2. Cardinality({f}) = 1
    BY FS_Singleton
  <2> QED BY <2>1, <2>2 DEF PageInv, OneAtATime
<1> QED BY <1>1, <1>2

LEMMA PageInvInit == ContainerPageInit => PageInv
<1> SUFFICES ASSUME ContainerPageInit PROVE PageInv
  OBVIOUS
<1>1. at \in Sibling
  BY ContainerPageAssumption DEF ContainerPageInit
<1>2. /\ flights = {} /\ mount = 1 /\ page = 1
      /\ dialog = NoOne /\ busy = NoOne /\ banner = NoOne /\ viewer = NoOne /\ answer = NoOne
  BY DEF ContainerPageInit
<1>3. PageShape
  <2>1. Known = {}
    BY DEF ContainerPageInit, Known
  <2> QED BY <1>1, <1>2, <2>1 DEF PageShape
<1>4. OnPageIsOwn /\ AnswerIsOfAsked
  BY <1>2 DEF OnPageIsOwn, AnswerIsOfAsked
<1>5. RowsAreOwn
  BY DEF ContainerPageInit, RowsAreOwn
<1>6. FlightsAreOwn /\ DiagnosesAreOfAsked /\ OneAtATime
  BY <1>2 DEF FlightsAreOwn, DiagnosesAreOfAsked, OneAtATime, Actions
<1> QED BY <1>3, <1>4, <1>5, <1>6 DEF PageInv

-----------------------------------------------------------------------------
(* Lives.                                                                  *)

\* A viewer or card that is mounted anew has asked for nothing and shows nothing.
LEMMA FreshKeepsInv ==
    ASSUME PageInv, Fresh, Known' \subseteq Sibling,
           UNCHANGED <<at, page, flights, dialog, busy, banner, keyed, existing, diagnoses>>
    PROVE  PageInv'
<1>1. mount' = mount + 1 /\ viewer' = NoOne /\ answer' = NoOne
  BY DEF Fresh
<1>2. \A f \in flights : f.life \in Nat /\ f.life <= mount' /\ f.life # mount'
  BY <1>1 DEF PageInv, PageShape
<1>3. PageShape'
  BY <1>1, <1>2 DEF PageInv, PageShape
<1>4. OnPageIsOwn' /\ RowsAreOwn' /\ AnswerIsOfAsked'
  BY <1>1 DEF PageInv, OnPageIsOwn, RowsAreOwn, AnswerIsOfAsked
<1>5. FlightsAreOwn'
  BY <1>2 DEF PageInv, FlightsAreOwn
<1>6. DiagnosesAreOfAsked' /\ OneAtATime'
  BY DEF PageInv, DiagnosesAreOfAsked, OneAtATime, Actions
<1> QED BY <1>3, <1>4, <1>5, <1>6 DEF PageInv

\* Neither has a page that opens: what is under way is of pages that were left.
LEMMA OpensKeepsInv ==
    ASSUME PageInv, NEW c \in Sibling \cup {"none"}, Opens(c), Known' \subseteq Sibling,
           flights' \subseteq flights, UNCHANGED <<existing, diagnoses>>
    PROVE  PageInv'
<1>1. /\ mount' = mount + 1 /\ page' = mount + 1 /\ at' = c
      /\ viewer' = NoOne /\ answer' = NoOne
      /\ dialog' = NoOne /\ busy' = NoOne /\ banner' = NoOne
  BY DEF Opens, Fresh
<1>2. \A f \in flights' : f.life \in Nat /\ f.life <= mount' /\ f.life # mount' /\ f.life # page'
  BY <1>1 DEF PageInv, PageShape
<1>3. PageShape'
  BY <1>1, <1>2 DEF PageInv, PageShape
<1>4. OnPageIsOwn' /\ RowsAreOwn' /\ AnswerIsOfAsked'
  BY <1>1 DEF PageInv, OnPageIsOwn, RowsAreOwn, AnswerIsOfAsked
<1>5. FlightsAreOwn' /\ Actions' = {}
  BY <1>2 DEF FlightsAreOwn, Actions
<1>6. DiagnosesAreOfAsked' /\ OneAtATime'
  BY <1>1, <1>5 DEF PageInv, DiagnosesAreOfAsked, OneAtATime
<1> QED BY <1>3, <1>4, <1>5, <1>6 DEF PageInv

LEMMA MovesKeepInv ==
    ASSUME PageInv, \/ \E c \in Sibling \cup {"none"} : GoTo(c)
                    \/ \E t \in {"overview", "logs"} : GoToTab(t)
                    \/ FetchFails
    PROVE  PageInv'
<1>1. ASSUME NEW c \in Sibling \cup {"none"}, GoTo(c) PROVE PageInv'
  BY <1>1, OpensKeepsInv DEF GoTo, pageState, PageInv, PageShape, Known
<1>2. ASSUME NEW t \in {"overview", "logs"}, GoToTab(t) PROVE PageInv'
  BY <1>2, FreshKeepsInv DEF GoToTab, pageState, PageInv, PageShape, Known
<1>3. CASE FetchFails
  <2>1. Known' = Known
    BY <1>3 DEF FetchFails, Known
  <2> QED BY <1>3, <2>1, FreshKeepsInv DEF FetchFails, place, PageInv, PageShape
<1> QED BY <1>1, <1>2, <1>3

-----------------------------------------------------------------------------
(* Actions.                                                                *)

\* Buttons, dialog and shortcuts.
LEMMA ActionsKeepInv ==
    ASSUME PageInv, ClickStart \/ ClickOther \/ Shortcut \/ Confirm \/ Cancel
    PROVE  PageInv'
<1>1. UNCHANGED <<at, page, mount, viewer, answer, existing, diagnoses, seen>>
  BY DEF ClickStart, ClickOther, Shortcut, Confirm, Cancel, pageState, place, mounted
<1>2. Known' \subseteq Sibling /\ (Rendered \/ at \in Known => at \in Sibling)
  BY <1>1 DEF PageInv, PageShape, Known, Rendered
<1>3. RowsAreOwn' /\ AnswerIsOfAsked'
  BY <1>1 DEF PageInv, RowsAreOwn, AnswerIsOfAsked
<1>4. ASSUME NEW does, at \in Sibling, Begin(does, at), ~keyed => busy = NoOne,
             dialog' = NoOne, keyed' = keyed
      PROVE  PageInv'
  <2> DEFINE f == Flight("action", does, at, page)
  <2>1. f.kind = "action" /\ f.about = at /\ f.life = page /\ f.stage = "asked"
    BY DEF Flight
  <2> HIDE DEF f
  <2>2. flights' = flights \cup {f} /\ busy' = [of |-> at] /\ banner' = NoOne
    BY <1>4 DEF Begin, Ask, f
  <2>3. PageShape'
    BY <1>1, <1>2, <1>4, <2>1, <2>2 DEF PageInv, PageShape
  <2>4. OnPageIsOwn'
    BY <1>1, <1>4, <2>2 DEF PageInv, OnPageIsOwn
  <2>5. FlightsAreOwn' /\ DiagnosesAreOfAsked'
    BY <1>1, <2>1, <2>2 DEF PageInv, FlightsAreOwn, DiagnosesAreOfAsked
  <2>6. ~keyed => Actions = {}
    <3>1. ASSUME ~keyed, NEW g \in Actions PROVE FALSE
      <4>1. busy = NoOne /\ busy = [of |-> g.about]
        BY <1>4, <3>1 DEF PageInv, OneAtATime
      <4>2. g.about \in Sibling
        BY DEF PageInv, PageShape, Actions
      <4> QED BY <4>1, <4>2, NoOneIsNobody
    <3> QED BY <3>1
  <2>7. Actions' = Actions \cup {f}
    BY <1>1, <2>1, <2>2 DEF Actions
  <2>8. OneAtATime'
    BY <1>4, <2>1, <2>2, <2>6, <2>7 DEF OneAtATime
  <2> QED BY <1>3, <2>3, <2>4, <2>5, <2>8 DEF PageInv
<1>5. CASE ClickStart
  <2>1. /\ at \in Sibling /\ Begin("start", at) /\ busy = NoOne
        /\ dialog' = NoOne /\ keyed' = keyed
    BY <1>2, <1>5 DEF ClickStart, ButtonsShown
  <2> QED BY <1>4, <2>1
<1>6. CASE Confirm
  <2>1. dialog.of = at /\ at \in Sibling /\ (~keyed => busy = NoOne)
    BY <1>2, <1>6 DEF Confirm, PageInv, OnPageIsOwn, OneAtATime
  <2> QED BY <1>4, <1>6, <2>1 DEF Confirm
<1>7. CASE ClickOther \/ Shortcut \/ Cancel
  <2>1. /\ UNCHANGED <<flights, busy, banner>>
        /\ dialog' = NoOne \/ dialog'.of = at
    BY <1>7 DEF ClickOther, Shortcut, Cancel
  <2>2. ~keyed' => ~keyed /\ (dialog' # NoOne => busy = NoOne)
    BY <1>7 DEF ClickOther, Shortcut, Cancel, ButtonsShown
  <2>3. PageShape'
    BY <1>1, <1>2, <2>1 DEF PageInv, PageShape
  <2>4. OnPageIsOwn'
    BY <1>1, <2>1 DEF PageInv, OnPageIsOwn
  <2>5. FlightsAreOwn' /\ DiagnosesAreOfAsked'
    BY <1>1, <2>1 DEF PageInv, FlightsAreOwn, DiagnosesAreOfAsked
  <2>6. OneAtATime'
    BY <1>1, <2>1, <2>2 DEF PageInv, OneAtATime, Actions
  <2> QED BY <1>3, <2>3, <2>4, <2>5, <2>6 DEF PageInv
<1> QED BY <1>5, <1>6, <1>7

\* An action ends: the page that asked tells of it, one that was left does not.
LEMMA ActionEndsKeepsInv ==
    ASSUME PageInv, NEW f \in flights, f.kind = "action", flights' = flights \ {f}, Tell(f),
           UNCHANGED <<at, page, mount, viewer, answer, dialog, keyed, existing, diagnoses>>,
           Known' \subseteq Sibling
    PROVE  PageInv'
<1>1. /\ f.life = page => busy' = NoOne /\ banner' = [of |-> f.about] /\ f.about = at
      /\ f.life # page => UNCHANGED <<busy, banner>>
  BY DEF Tell, PageInv, FlightsAreOwn
<1>2. PageShape'
  BY DEF PageInv, PageShape
<1>3. OnPageIsOwn'
  BY <1>1 DEF PageInv, OnPageIsOwn
<1>4. RowsAreOwn' /\ AnswerIsOfAsked'
  BY DEF PageInv, RowsAreOwn, AnswerIsOfAsked
<1>5. FlightsAreOwn' /\ DiagnosesAreOfAsked'
  BY DEF PageInv, FlightsAreOwn, DiagnosesAreOfAsked
<1>6. OneAtATime'
  <2>1. CASE f.life = page
    <3>1. ~keyed => Actions' = {}
      BY <2>1 DEF PageInv, OneAtATime, Actions
    <3> QED BY <1>1, <2>1, <3>1 DEF OneAtATime
  <2>2. CASE f.life # page
    <3>1. Actions' = Actions
      BY <2>2 DEF Actions
    <3> QED BY <1>1, <2>2, <3>1 DEF PageInv, OneAtATime
  <2> QED BY <2>1, <2>2
<1> QED BY <1>2, <1>3, <1>4, <1>5, <1>6 DEF PageInv

LEMMA ActionAnsweredKeepsInv ==
    ASSUME PageInv, NEW f \in flights, ActionAnswered(f) \/ RemovalAnswered(f)
    PROVE  PageInv'
<1>1. /\ f.kind = "action" /\ flights' = flights \ {f}
      /\ UNCHANGED <<existing, diagnoses>>
  BY DEF ActionAnswered, RemovalAnswered
<1>2. Known' = Known
  BY DEF ActionAnswered, RemovalAnswered, Known
<1>3. Known' \subseteq Sibling
  BY <1>2 DEF PageInv, PageShape
<1>4. CASE /\ Tell(f)
           /\ UNCHANGED <<at, page, mount, viewer, answer, dialog, keyed>>
  BY <1>1, <1>3, <1>4, ActionEndsKeepsInv
<1>5. CASE Opens("none")
  BY <1>1, <1>3, <1>5, OpensKeepsInv
<1> QED BY <1>4, <1>5 DEF ActionAnswered, RemovalAnswered, place, mounted

-----------------------------------------------------------------------------
(* Logs and diagnoses.                                                     *)

\* A viewer or card asks.
LEMMA AskingPageKeepsInv ==
    ASSUME PageInv, LoadLogs \/ Diagnose
    PROVE  PageInv'
<1>1. PICK kind \in {"logs", "ai"}, does \in {"load", "diagnose"} : Ask(Flight(kind, does, at, mount))
  BY DEF LoadLogs, Diagnose
<1> DEFINE f == Flight(kind, does, at, mount)
<1>2. f.kind = kind /\ f.about = at /\ f.life = mount /\ f.stage = "asked"
  BY DEF Flight
<1> HIDE DEF f
<1>3. /\ flights' = flights \cup {f}
      /\ UNCHANGED <<at, page, mount, seen, dialog, busy, banner, viewer, answer, keyed,
                     existing, diagnoses>>
  BY <1>1 DEF Ask, f, LoadLogs, Diagnose, pageState, place, mounted
<1>4. at \in Sibling
  BY DEF LoadLogs, Diagnose, Mounted, Rendered, PageInv, PageShape
<1>5. PageShape'
  BY <1>2, <1>3, <1>4 DEF PageInv, PageShape, Known
<1>6. OnPageIsOwn' /\ RowsAreOwn' /\ AnswerIsOfAsked'
  BY <1>3 DEF PageInv, OnPageIsOwn, RowsAreOwn, AnswerIsOfAsked
<1>7. FlightsAreOwn' /\ DiagnosesAreOfAsked'
  BY <1>2, <1>3 DEF PageInv, FlightsAreOwn, DiagnosesAreOfAsked
<1>8. OneAtATime'
  BY <1>2, <1>3 DEF PageInv, OneAtATime, Actions
<1> QED BY <1>5, <1>6, <1>7, <1>8 DEF PageInv

LEMMA LogsAnsweredKeepsInv ==
    ASSUME PageInv, NEW f \in flights, LogsAnswered(f)
    PROVE  PageInv'
<1>1. /\ flights' = flights \ {f} /\ f.kind = "logs"
      /\ viewer' = viewer \/ (viewer' = [of |-> f.about] /\ f.life = mount)
      /\ UNCHANGED <<at, page, mount, seen, dialog, busy, banner, answer, keyed, existing,
                     diagnoses>>
  BY DEF LogsAnswered, pageState, place
<1>2. PageShape'
  BY <1>1 DEF PageInv, PageShape, Known
<1>3. OnPageIsOwn' /\ RowsAreOwn' /\ AnswerIsOfAsked'
  BY <1>1 DEF PageInv, OnPageIsOwn, RowsAreOwn, AnswerIsOfAsked, FlightsAreOwn
<1>4. FlightsAreOwn' /\ DiagnosesAreOfAsked'
  BY <1>1 DEF PageInv, FlightsAreOwn, DiagnosesAreOfAsked
<1>5. OneAtATime'
  BY <1>1 DEF PageInv, OneAtATime, Actions
<1> QED BY <1>2, <1>3, <1>4, <1>5 DEF PageInv

\* The hub gets on with a diagnosis: it remains the same request, and its answer is of
\* its signals.
LEMMA HubGoesOn ==
    ASSUME PageInv, NEW f \in flights, f.kind = "ai", NEW g,
           g.kind = "ai" /\ g.about = f.about /\ g.life = f.life,
           g.stage = "answered" => Hash(g.of) = Hash(g.signals),
           flights' = flights \ {f} \/ flights' = (flights \ {f}) \cup {g},
           UNCHANGED <<at, page, mount, seen, dialog, busy, banner, viewer, answer, keyed,
                       existing>>,
           RowsAreOwn'
    PROVE  PageInv'
<1>1. PageShape'
  BY DEF PageInv, PageShape, Known
<1>2. OnPageIsOwn' /\ AnswerIsOfAsked'
  BY DEF PageInv, OnPageIsOwn, AnswerIsOfAsked
<1>3. FlightsAreOwn' /\ DiagnosesAreOfAsked'
  BY DEF PageInv, FlightsAreOwn, DiagnosesAreOfAsked
<1>4. OneAtATime'
  BY DEF PageInv, OneAtATime, Actions
<1> QED BY <1>1, <1>2, <1>3, <1>4 DEF PageInv

LEMMA DiagnosingKeepsInv ==
    ASSUME PageInv, NEW f \in flights, Handle(f) \/ GeminiAnswers(f) \/ GeminiFails(f)
    PROVE  PageInv'
<1>1. /\ f.kind = "ai"
      /\ UNCHANGED <<at, page, mount, seen, dialog, busy, banner, viewer, answer, keyed,
                     existing>>
  BY DEF Handle, GeminiAnswers, GeminiFails, PageInv, DiagnosesAreOfAsked, place, mounted
<1>2. f.stage = "answered" => Hash(f.of) = Hash(f.signals)
  BY DEF PageInv, DiagnosesAreOfAsked
<1>3. RowsAreOwn'
  <2>1. \/ UNCHANGED diagnoses
        \/ diagnoses' = [diagnoses EXCEPT ![f.about] = [of |-> f.about, signals |-> f.signals]]
    BY DEF Handle, GeminiAnswers, GeminiFails
  <2> QED BY <1>1, <2>1 DEF PageInv, RowsAreOwn
<1>4. ASSUME Handle(f) PROVE PageInv'
  <2> DEFINE now == [f EXCEPT !.signals = fate[f.about].signals]
             answered == [now EXCEPT !.stage = "answered",
                                     !.of = diagnoses[f.about].signals]
             calling == [now EXCEPT !.stage = "calling"]
  <2>1. now.kind = "ai" /\ now.about = f.about /\ now.life = f.life
    BY <1>1
  <2>2. \/ Cached(now) /\ flights' = (flights \ {f}) \cup {answered}
        \/ flights' = (flights \ {f}) \cup {calling}
        \/ flights' = flights \ {f}
    BY <1>4 DEF Handle
  <2>3. /\ answered.kind = "ai" /\ answered.about = f.about /\ answered.life = f.life
        /\ answered.signals = now.signals /\ answered.of = diagnoses[f.about].signals
    BY <2>1 DEF PageInv, PageShape
  <2>4. /\ calling.kind = "ai" /\ calling.about = f.about /\ calling.life = f.life
        /\ calling.stage = "calling"
    BY <2>1 DEF PageInv, PageShape
  <2>5. Cached(now) => Hash(answered.of) = Hash(answered.signals)
    BY <2>1, <2>3 DEF Cached
  <2> HIDE DEF now, answered, calling
  <2>6. CASE Cached(now) /\ flights' = (flights \ {f}) \cup {answered}
    BY <1>1, <1>3, <2>3, <2>5, <2>6, HubGoesOn
  <2>7. CASE flights' = (flights \ {f}) \cup {calling}
    BY <1>1, <1>3, <2>4, <2>7, HubGoesOn
  <2>8. CASE flights' = flights \ {f}
    BY <1>1, <1>2, <1>3, <2>8, HubGoesOn
  <2> QED BY <2>2, <2>6, <2>7, <2>8
<1>5. ASSUME GeminiAnswers(f) PROVE PageInv'
  <2> DEFINE g == [f EXCEPT !.stage = "answered", !.of = f.signals]
  <2>1. g.kind = "ai" /\ g.about = f.about /\ g.life = f.life /\ g.of = g.signals
    BY <1>1 DEF PageInv, PageShape
  <2>2. flights' = (flights \ {f}) \cup {g}
    BY <1>5 DEF GeminiAnswers
  <2> HIDE DEF g
  <2> QED BY <1>1, <1>3, <2>1, <2>2, HubGoesOn
<1>6. ASSUME GeminiFails(f) PROVE PageInv'
  <2>1. flights' = flights \ {f}
    BY <1>6 DEF GeminiFails
  <2> QED BY <1>1, <1>2, <1>3, <2>1, HubGoesOn
<1> QED BY <1>4, <1>5, <1>6

\* What is shown of a diagnosis is of the request of the card that shows it.
LEMMA DiagnosisAnsweredKeepsInv ==
    ASSUME PageInv, NEW f \in flights, DiagnosisAnswered(f)
    PROVE  PageInv'
<1>1. /\ flights' = flights \ {f} /\ f.stage = "answered" /\ f.kind = "ai"
      /\ UNCHANGED <<at, page, mount, seen, dialog, busy, banner, viewer, diagnoses, keyed>>
  BY DEF DiagnosisAnswered, PageInv, DiagnosesAreOfAsked, place
<1>2. \/ answer' = answer
      \/ /\ f.life = mount
         /\ answer' = [of |-> f.about, signals |-> f.of, asked |-> f.signals]
  BY DEF DiagnosisAnswered
<1>3. existing' = [existing EXCEPT ![f.about] = [of |-> f.about]]
  BY DEF DiagnosisAnswered
<1>4. PageShape'
  BY <1>1 DEF PageInv, PageShape, Known
<1>5. OnPageIsOwn'
  BY <1>1, <1>2 DEF PageInv, OnPageIsOwn, FlightsAreOwn
<1>6. RowsAreOwn'
  BY <1>1, <1>3 DEF PageInv, RowsAreOwn
<1>7. AnswerIsOfAsked'
  <2>1. Hash(f.of) = Hash(f.signals)
    BY <1>1 DEF PageInv, DiagnosesAreOfAsked
  <2> QED BY <1>2, <2>1 DEF PageInv, AnswerIsOfAsked, Hash
<1>8. FlightsAreOwn' /\ DiagnosesAreOfAsked'
  BY <1>1 DEF PageInv, FlightsAreOwn, DiagnosesAreOfAsked
<1>9. OneAtATime'
  BY <1>1 DEF PageInv, OneAtATime, Actions
<1> QED BY <1>4, <1>5, <1>6, <1>7, <1>8, <1>9 DEF PageInv

-----------------------------------------------------------------------------

\* What is fetched, or changes behind the page.
LEMMA BehindKeepsInv ==
    ASSUME PageInv, \/ FetchContainer \/ FetchDiagnosis
                    \/ \E c \in Sibling : OtherDiagnoses(c) \/ Change(c)
    PROVE  PageInv'
<1>1. UNCHANGED <<at, page, mount, dialog, busy, banner, viewer, answer, flights, keyed>>
  BY DEF FetchContainer, FetchDiagnosis, OtherDiagnoses, Change, place, mounted
<1>2. Known' \subseteq Sibling
  <2>1. CASE FetchContainer
    BY <2>1 DEF FetchContainer, PageInv, PageShape, Known
  <2>2. CASE FetchDiagnosis \/ \E c \in Sibling : OtherDiagnoses(c) \/ Change(c)
    BY <2>2 DEF FetchDiagnosis, OtherDiagnoses, Change, PageInv, PageShape, Known
  <2> QED BY <2>1, <2>2
<1>3. RowsAreOwn'
  <2>1. CASE FetchContainer \/ \E c \in Sibling : Change(c)
    BY <2>1 DEF FetchContainer, Change, pageState, PageInv, RowsAreOwn
  <2>2. CASE FetchDiagnosis
    <3>1. /\ existing' = [existing EXCEPT ![at] = [of |-> diagnoses[at].of]]
          /\ UNCHANGED diagnoses /\ at \in Sibling
      BY <2>2 DEF FetchDiagnosis, pageState, Mounted, Rendered, PageInv, PageShape
    <3>2. [of |-> diagnoses[at].of] # NoOne => diagnoses[at].of = at
      BY <3>1 DEF PageInv, RowsAreOwn, NoOne
    <3> QED BY <3>1, <3>2 DEF PageInv, RowsAreOwn
  <2>3. ASSUME NEW c \in Sibling, OtherDiagnoses(c) PROVE RowsAreOwn'
    BY <2>3 DEF OtherDiagnoses, PageInv, RowsAreOwn
  <2> QED BY <2>1, <2>2, <2>3
<1>4. PageShape'
  BY <1>1, <1>2 DEF PageInv, PageShape
<1>5. OnPageIsOwn' /\ AnswerIsOfAsked' /\ FlightsAreOwn' /\ DiagnosesAreOfAsked'
  BY <1>1 DEF PageInv, OnPageIsOwn, AnswerIsOfAsked, FlightsAreOwn, DiagnosesAreOfAsked
<1>6. OneAtATime'
  BY <1>1 DEF PageInv, OneAtATime, Actions
<1> QED BY <1>3, <1>4, <1>5, <1>6 DEF PageInv

LEMMA PageInvNext == PageInv /\ [ContainerPageNext]_containerPageVars => PageInv'
<1> SUFFICES ASSUME PageInv, [ContainerPageNext]_containerPageVars PROVE PageInv'
  OBVIOUS
<1>1. CASE UNCHANGED containerPageVars
  BY <1>1 DEF containerPageVars, PageInv, PageShape, Known, OnPageIsOwn, RowsAreOwn,
              AnswerIsOfAsked, FlightsAreOwn, DiagnosesAreOfAsked, OneAtATime, Actions
<1>2. CASE FetchContainer \/ FetchDiagnosis \/ \E c \in Sibling : OtherDiagnoses(c) \/ Change(c)
  BY <1>2, BehindKeepsInv
<1>3. CASE \/ \E c \in Sibling \cup {"none"} : GoTo(c)
           \/ \E t \in {"overview", "logs"} : GoToTab(t)
           \/ FetchFails
  BY <1>3, MovesKeepInv
<1>4. CASE ClickStart \/ ClickOther \/ Shortcut \/ Confirm \/ Cancel
  BY <1>4, ActionsKeepInv
<1>5. CASE LoadLogs \/ Diagnose
  BY <1>5, AskingPageKeepsInv
<1>6. ASSUME NEW f \in flights,
             \/ ActionAnswered(f) \/ RemovalAnswered(f) \/ LogsAnswered(f) \/ Handle(f)
             \/ GeminiAnswers(f) \/ GeminiFails(f) \/ DiagnosisAnswered(f)
      PROVE  PageInv'
  BY <1>6, ActionAnsweredKeepsInv, LogsAnsweredKeepsInv, DiagnosingKeepsInv,
     DiagnosisAnsweredKeepsInv
<1> QED BY <1>1, <1>2, <1>3, <1>4, <1>5, <1>6 DEF ContainerPageNext

(* Layout.tsx, useContainerAction.ts, LogViewer.tsx, AIDiagnosisCard.tsx, handleAIDiagnose:
   whatever comes late and wherever the user went, what a page shows is of its own
   container, a diagnosis is of the signals the hub began on, and without a shortcut one
   action of the page is under way at a time, the one it tells of. *)
THEOREM PageShowsItsOwn ==
    ContainerPageSpec => [](ShownIsOwn /\ AnswerIsOfAsked /\ ActionsAreSingle)
<1>1. PageInv => ShownIsOwn /\ AnswerIsOfAsked /\ ActionsAreSingle
  BY PageInvOwn, PageInvActions DEF PageInv
<1> QED BY PageInvInit, PageInvNext, <1>1, PTL DEF ContainerPageSpec

(***************************************************************************)
(* The types of the page: of a request, what it is about; and as many      *)
(* requests under way as were made.                                        *)
(***************************************************************************)

IsFlight(f) ==
    /\ f = [nr |-> f.nr, kind |-> f.kind, does |-> f.does, about |-> f.about, life |-> f.life,
            stage |-> f.stage, signals |-> f.signals, of |-> f.of]
    /\ f.about \in Sibling

FlightsAreTyped == \A f \in flights : IsFlight(f)

FlightsAreCounted ==
    /\ asked \in 0 .. MaxAsked
    /\ IsFiniteSet(flights) /\ Cardinality(flights) <= asked

\* The rest: what does not change together with the requests.
SeenIsTyped ==
    /\ Known \subseteq Sibling
    /\ \A c \in Known : seen[c] \in [running : BOOLEAN, silent : BOOLEAN, failed : BOOLEAN]

LivesAreTyped == mount \in Nat /\ page \in 1 .. mount

ShownIsTyped ==
    /\ fate \in [Sibling -> Fates]
    /\ at \in Sibling \cup {"none"} /\ tab \in {"overview", "logs"}
    /\ {loading, keyed} \subseteq BOOLEAN
    /\ {dialog.of, busy.of, banner.of, viewer.of, answer.of} \subseteq Sibling \cup {"none"}
    /\ existing = [c \in Sibling |-> existing[c]] /\ diagnoses = [c \in Sibling |-> diagnoses[c]]
    /\ \A c \in Sibling : {existing[c].of, diagnoses[c].of} \subseteq Sibling \cup {"none"}

PageTypes ==
    /\ ShownIsTyped /\ SeenIsTyped /\ LivesAreTyped
    /\ FlightsAreTyped /\ FlightsAreCounted

LEMMA PageTypesHold == PageTypes => ContainerPageTypeOK
<1> SUFFICES ASSUME PageTypes PROVE ContainerPageTypeOK
  OBVIOUS
<1>1. Cardinality(flights) <= MaxAsked
  BY ContainerPageAssumption, FS_CardinalityType DEF PageTypes, FlightsAreCounted
<1> QED BY <1>1 DEF PageTypes, ShownIsTyped, SeenIsTyped, LivesAreTyped, ContainerPageTypeOK

LEMMA PageTypesInit == ContainerPageInit => PageTypes
<1> SUFFICES ASSUME ContainerPageInit PROVE PageTypes
  OBVIOUS
<1>1. at \in Sibling
  BY ContainerPageAssumption DEF ContainerPageInit
<1>2. ShownIsTyped
  <2>1. fate \in [Sibling -> Fates]
    BY DEF ContainerPageInit, Fates
  <2>2. existing = [c \in Sibling |-> existing[c]] /\ diagnoses = [c \in Sibling |-> diagnoses[c]]
        /\ \A c \in Sibling : existing[c] = NoOne /\ diagnoses[c] = NoOne
    BY DEF ContainerPageInit
  <2>3. NoOne.of = "none"
    BY DEF NoOne
  <2>4. /\ tab = "overview" /\ loading = FALSE /\ keyed = FALSE
        /\ dialog = NoOne /\ busy = NoOne /\ banner = NoOne /\ viewer = NoOne /\ answer = NoOne
    BY DEF ContainerPageInit
  <2> QED BY <1>1, <2>1, <2>2, <2>3, <2>4 DEF ShownIsTyped
<1>3. SeenIsTyped /\ LivesAreTyped
  BY DEF ContainerPageInit, SeenIsTyped, LivesAreTyped, Known
<1>4. FlightsAreTyped /\ FlightsAreCounted
  BY ContainerPageAssumption, FS_EmptySet DEF ContainerPageInit, FlightsAreTyped, FlightsAreCounted
<1> QED BY <1>2, <1>3, <1>4 DEF PageTypes

-----------------------------------------------------------------------------
(* Requests that are made, go on and are answered.                         *)

\* A request more.
LEMMA AskingIsTyped ==
    ASSUME PageTypes, NEW kind, NEW does, NEW life, NEW c \in Sibling,
           Ask(Flight(kind, does, c, life))
    PROVE  FlightsAreTyped' /\ FlightsAreCounted'
<1> DEFINE f == Flight(kind, does, c, life)
<1>1. IsFlight(f)
  BY DEF Flight, IsFlight
<1>2. flights' = flights \cup {f} /\ asked < MaxAsked /\ asked' = asked + 1
  BY DEF Ask
<1> HIDE DEF f
<1>3. FlightsAreTyped'
  BY <1>1, <1>2 DEF PageTypes, FlightsAreTyped
<1>4. IsFiniteSet(flights') /\ Cardinality(flights') <= Cardinality(flights) + 1
  <2>1. IsFiniteSet(flights)
    BY DEF PageTypes, FlightsAreCounted
  <2>2. /\ IsFiniteSet(flights')
        /\ Cardinality(flights') \in {Cardinality(flights), Cardinality(flights) + 1}
    BY <1>2, <2>1, FS_AddElement
  <2>3. Cardinality(flights) \in Nat
    BY <2>1, FS_CardinalityType
  <2> QED BY <2>2, <2>3
<1>5. Cardinality(flights) \in Nat /\ Cardinality(flights') \in Nat
  BY <1>4, FS_CardinalityType DEF PageTypes, FlightsAreCounted
<1>6. FlightsAreCounted'
  BY <1>2, <1>4, <1>5, ContainerPageAssumption DEF PageTypes, FlightsAreCounted
<1> QED BY <1>3, <1>6

\* One that goes on, or is answered.
LEMMA FlyingIsTyped ==
    ASSUME PageTypes, NEW f \in flights, NEW g, IsFlight(g),
           flights' = flights \ {f} \/ flights' = (flights \ {f}) \cup {g},
           UNCHANGED asked
    PROVE  FlightsAreTyped' /\ FlightsAreCounted'
<1>1. FlightsAreTyped'
  BY DEF PageTypes, FlightsAreTyped
<1> DEFINE rest == flights \ {f}
<1>2. IsFiniteSet(flights) /\ IsFiniteSet(rest) /\ Cardinality(rest) = Cardinality(flights) - 1
  <2>1. IsFiniteSet(flights) /\ f \in flights
    BY DEF PageTypes, FlightsAreCounted
  <2> QED BY <2>1, FS_RemoveElement
<1>3. Cardinality(flights) \in Nat /\ Cardinality(rest) \in Nat
  BY <1>2, FS_CardinalityType
<1>4. IsFiniteSet(rest \cup {g}) /\ Cardinality(rest \cup {g}) <= Cardinality(rest) + 1
  <2> HIDE DEF rest
  <2>1. /\ IsFiniteSet(rest \cup {g})
        /\ Cardinality(rest \cup {g}) \in {Cardinality(rest), Cardinality(rest) + 1}
    BY <1>2, FS_AddElement
  <2> QED BY <1>3, <2>1
<1>5. flights' = rest \/ flights' = rest \cup {g}
  OBVIOUS
<1> HIDE DEF rest
<1>6. Cardinality(rest \cup {g}) \in Nat
  BY <1>4, FS_CardinalityType
<1>7. IsFiniteSet(flights') /\ Cardinality(flights') <= Cardinality(flights)
  <2>1. Cardinality(rest) <= Cardinality(flights)
        /\ Cardinality(rest \cup {g}) <= Cardinality(flights)
    BY <1>2, <1>3, <1>4, <1>6
  <2> QED BY <1>2, <1>4, <1>5, <2>1
<1>8. Cardinality(flights') \in Nat
  BY <1>7, FS_CardinalityType
<1>9. FlightsAreCounted'
  BY <1>3, <1>7, <1>8 DEF PageTypes, FlightsAreCounted
<1> QED BY <1>1, <1>9

\* What changes of a request on its way.
LEMMA ChangedIsFlight ==
    ASSUME NEW f, IsFlight(f), NEW v
    PROVE  /\ IsFlight([f EXCEPT !.stage = v])
           /\ IsFlight([f EXCEPT !.of = v])
           /\ IsFlight([f EXCEPT !.signals = v])
<1>1. IsFlight([f EXCEPT !.stage = v])
  BY DEF IsFlight
<1>2. IsFlight([f EXCEPT !.of = v])
  BY DEF IsFlight
<1>3. IsFlight([f EXCEPT !.signals = v])
  BY DEF IsFlight
<1> QED BY <1>1, <1>2, <1>3

LEMMA AnsweredIsFlight ==
    ASSUME NEW f, IsFlight(f), NEW v
    PROVE  IsFlight([f EXCEPT !.stage = "answered", !.of = v])
<1> DEFINE staged == [f EXCEPT !.stage = "answered"]
<1>1. IsFlight(staged)
  BY ChangedIsFlight
<1>2. [f EXCEPT !.stage = "answered", !.of = v] = [staged EXCEPT !.of = v]
  OBVIOUS
<1> HIDE DEF staged
<1>3. IsFlight([staged EXCEPT !.of = v])
  BY <1>1, ChangedIsFlight
<1> QED BY <1>2, <1>3

\* None of them.
LEMMA NoFlightIsTyped ==
    ASSUME PageTypes, UNCHANGED <<asked, flights>>
    PROVE  FlightsAreTyped' /\ FlightsAreCounted'
BY DEF PageTypes, FlightsAreTyped, FlightsAreCounted

-----------------------------------------------------------------------------
(* Steps.                                                                  *)

\* A page that opens, or a viewer and card that are mounted anew, show nothing.
LEMMA OpensIsTyped ==
    ASSUME PageTypes, NEW c \in Sibling \cup {"none"}, Opens(c),
           fate' \in [Sibling -> Fates], UNCHANGED <<existing, diagnoses>>
    PROVE  ShownIsTyped' /\ LivesAreTyped'
<1>1. NoOne.of = "none"
  BY DEF NoOne
<1>2. LivesAreTyped'
  BY DEF Opens, Fresh, PageTypes, LivesAreTyped
<1>3. ShownIsTyped'
  BY <1>1 DEF Opens, Fresh, PageTypes, ShownIsTyped
<1> QED BY <1>2, <1>3

LEMMA FreshIsTyped ==
    ASSUME PageTypes, Fresh, tab' \in {"overview", "logs"},
           UNCHANGED <<fate, at, page, dialog, busy, banner, existing, diagnoses, keyed>>
    PROVE  ShownIsTyped' /\ LivesAreTyped'
<1>1. NoOne.of = "none"
  BY DEF NoOne
<1>2. LivesAreTyped'
  BY DEF Fresh, PageTypes, LivesAreTyped
<1>3. ShownIsTyped'
  BY <1>1 DEF Fresh, PageTypes, ShownIsTyped
<1> QED BY <1>2, <1>3

LEMMA SeenStays ==
    ASSUME PageTypes, UNCHANGED seen
    PROVE  SeenIsTyped'
BY DEF PageTypes, SeenIsTyped, Known

Seen == [running : BOOLEAN, silent : BOOLEAN, failed : BOOLEAN]

LEMMA FailedIsTyped ==
    ASSUME PageTypes, NEW c, seen' = [seen EXCEPT ![c].failed = TRUE]
    PROVE  SeenIsTyped'
<1>1. DOMAIN seen' = Known
  BY DEF Known
<1>2. ASSUME NEW d \in Known PROVE seen'[d] \in Seen
  <2>1. seen[d] \in Seen
    BY DEF PageTypes, SeenIsTyped, Seen
  <2>2. [seen[d] EXCEPT !.failed = TRUE] \in Seen
    BY <2>1 DEF Seen
  <2>3. seen'[d] = IF d = c THEN [seen[d] EXCEPT !.failed = TRUE] ELSE seen[d]
    BY DEF Known
  <2> QED BY <2>1, <2>2, <2>3
<1> QED BY <1>1, <1>2 DEF PageTypes, SeenIsTyped, Seen, Known

LEMMA LookedIsTyped ==
    ASSUME PageTypes, NEW c, NEW look \in Seen, seen' = [seen EXCEPT ![c] = look]
    PROVE  SeenIsTyped'
BY DEF PageTypes, SeenIsTyped, Seen, Known

LEMMA MovesAreTyped ==
    ASSUME PageTypes, \/ \E c \in Sibling \cup {"none"} : GoTo(c)
                      \/ \E t \in {"overview", "logs"} : GoToTab(t)
                      \/ FetchFails
    PROVE  PageTypes'
<1>1. UNCHANGED <<asked, flights, fate>>
  BY DEF GoTo, GoToTab, FetchFails, pageState
<1>2. FlightsAreTyped' /\ FlightsAreCounted'
  BY <1>1, NoFlightIsTyped
<1>3. fate' \in [Sibling -> Fates]
  BY <1>1 DEF PageTypes, ShownIsTyped
<1>4. ASSUME NEW c \in Sibling \cup {"none"}, GoTo(c) PROVE PageTypes'
  <2>1. ShownIsTyped' /\ LivesAreTyped'
    BY <1>3, <1>4, OpensIsTyped DEF GoTo, pageState
  <2>2. SeenIsTyped'
    BY <1>4, SeenStays DEF GoTo
  <2> QED BY <1>2, <2>1, <2>2 DEF PageTypes
<1>5. ASSUME NEW t \in {"overview", "logs"}, GoToTab(t) PROVE PageTypes'
  <2>1. ShownIsTyped' /\ LivesAreTyped'
    BY <1>5, FreshIsTyped DEF GoToTab, pageState
  <2>2. SeenIsTyped'
    BY <1>5, SeenStays DEF GoToTab
  <2> QED BY <1>2, <2>1, <2>2 DEF PageTypes
<1>6. CASE FetchFails
  <2>1. tab' \in {"overview", "logs"}
    BY <1>6 DEF FetchFails, place, PageTypes, ShownIsTyped
  <2>2. ShownIsTyped' /\ LivesAreTyped'
    BY <1>6, <2>1, FreshIsTyped DEF FetchFails, place
  <2>3. SeenIsTyped'
    BY <1>6, FailedIsTyped DEF FetchFails
  <2> QED BY <1>2, <2>2, <2>3 DEF PageTypes
<1> QED BY <1>4, <1>5, <1>6

\* What is under way of a container that is listed on the page.
LEMMA RenderedIsSibling == PageTypes /\ (Rendered \/ at \in Known) => at \in Sibling
BY DEF PageTypes, SeenIsTyped, Rendered

LEMMA ActionsAreTyped ==
    ASSUME PageTypes, PageInv, ClickStart \/ ClickOther \/ Shortcut \/ Confirm \/ Cancel
    PROVE  PageTypes'
<1>1. NoOne.of = "none"
  BY DEF NoOne
<1>2. /\ UNCHANGED <<fate, at, tab, page, seen, mount, viewer, loading, answer, existing,
                     diagnoses>>
      /\ at \in Sibling
  BY RenderedIsSibling DEF ClickStart, ClickOther, Shortcut, Confirm, Cancel, ButtonsShown,
     pageState, place, mounted
<1>3. SeenIsTyped' /\ LivesAreTyped'
  BY <1>2, SeenStays DEF PageTypes, LivesAreTyped
<1>4. CASE ClickStart \/ Confirm
  <2>1. dialog # NoOne => dialog.of = at
    BY DEF PageInv, OnPageIsOwn
  <2>2. PICK does : Begin(does, at)
    BY <1>4, <2>1 DEF ClickStart, Confirm
  <2>3. /\ dialog' = NoOne /\ keyed' = keyed /\ banner' = NoOne /\ busy' = [of |-> at]
    BY <1>4, <2>2 DEF ClickStart, Confirm, Begin
  <2>4. ShownIsTyped'
    BY <1>1, <1>2, <2>3 DEF PageTypes, ShownIsTyped
  <2>5. FlightsAreTyped' /\ FlightsAreCounted'
    BY <1>2, <2>2, AskingIsTyped DEF Begin
  <2> QED BY <1>3, <2>4, <2>5 DEF PageTypes
<1>5. CASE ClickOther \/ Shortcut \/ Cancel
  <2>1. UNCHANGED <<busy, banner, asked, flights>> /\ (dialog' = NoOne \/ dialog'.of = at)
    BY <1>5 DEF ClickOther, Shortcut, Cancel
  <2>2. keyed' \in BOOLEAN
    <3>1. keyed' \in {keyed, TRUE}
      BY <1>5 DEF ClickOther, Shortcut, Cancel
    <3> QED BY <3>1 DEF PageTypes, ShownIsTyped
  <2>3. ShownIsTyped'
    BY <1>1, <1>2, <2>1, <2>2 DEF PageTypes, ShownIsTyped
  <2> QED BY <1>3, <2>1, <2>3, NoFlightIsTyped DEF PageTypes
<1> QED BY <1>4, <1>5

LEMMA AskingPageIsTyped ==
    ASSUME PageTypes, LoadLogs \/ Diagnose
    PROVE  PageTypes'
<1>1. PICK kind, does : Ask(Flight(kind, does, at, mount))
  BY DEF LoadLogs, Diagnose
<1>2. /\ UNCHANGED <<fate, at, tab, page, seen, mount, dialog, busy, banner, viewer, answer,
                     existing, diagnoses, keyed>>
      /\ loading' \in {loading, TRUE} /\ at \in Sibling
  BY RenderedIsSibling DEF LoadLogs, Diagnose, Mounted, pageState, place, mounted
<1>3. ShownIsTyped' /\ SeenIsTyped' /\ LivesAreTyped'
  BY <1>2, SeenStays DEF PageTypes, ShownIsTyped, LivesAreTyped
<1>4. FlightsAreTyped' /\ FlightsAreCounted'
  BY <1>1, <1>2, AskingIsTyped
<1> QED BY <1>3, <1>4 DEF PageTypes

\* What a container became.
LEMMA FateIsTyped ==
    ASSUME ShownIsTyped, NEW c \in Sibling, NEW v \in BOOLEAN,
           \/ fate' = [fate EXCEPT ![c].listed = v]
           \/ fate' = [fate EXCEPT ![c].running = v]
           \/ fate' = [fate EXCEPT ![c].silent = v]
           \/ fate' = [fate EXCEPT ![c].signals.hashed = 3 - @]
           \/ fate' = [fate EXCEPT ![c].signals.rest = 3 - @]
    PROVE  fate' \in [Sibling -> Fates]
<1>1. fate \in [Sibling -> Fates]
  BY DEF ShownIsTyped
<1>2. PICK l \in BOOLEAN, r \in BOOLEAN, s \in BOOLEAN, a \in 1 .. 2, b \in 1 .. 2 :
        fate[c] = [listed |-> l, running |-> r, silent |-> s,
                   signals |-> [hashed |-> a, rest |-> b]]
  BY <1>1 DEF Fates
<1> DEFINE Became(t, u, w, x, y) ==
             [listed |-> t, running |-> u, silent |-> w, signals |-> [hashed |-> x, rest |-> y]]
<1>3. \A t, u, w \in BOOLEAN, x, y \in 1 .. 2 : Became(t, u, w, x, y) \in Fates
  BY DEF Fates
<1>4. 3 - a \in 1 .. 2 /\ 3 - b \in 1 .. 2
  OBVIOUS
<1>5. PICK became \in Fates : fate' = [fate EXCEPT ![c] = became]
  <2>1. CASE fate' = [fate EXCEPT ![c].listed = v]
    <3>1. [fate[c] EXCEPT !.listed = v] = Became(v, r, s, a, b)
      BY <1>2
    <3>2. fate' = [fate EXCEPT ![c] = [fate[c] EXCEPT !.listed = v]]
      BY <2>1
    <3> HIDE DEF Became
    <3> QED BY <1>3, <3>1, <3>2
  <2>2. CASE fate' = [fate EXCEPT ![c].running = v]
    <3>1. [fate[c] EXCEPT !.running = v] = Became(l, v, s, a, b)
      BY <1>2
    <3>2. fate' = [fate EXCEPT ![c] = [fate[c] EXCEPT !.running = v]]
      BY <2>2
    <3> HIDE DEF Became
    <3> QED BY <1>3, <3>1, <3>2
  <2>3. CASE fate' = [fate EXCEPT ![c].silent = v]
    <3>1. [fate[c] EXCEPT !.silent = v] = Became(l, r, v, a, b)
      BY <1>2
    <3>2. fate' = [fate EXCEPT ![c] = [fate[c] EXCEPT !.silent = v]]
      BY <2>3
    <3> HIDE DEF Became
    <3> QED BY <1>3, <3>1, <3>2
  <2>4. CASE fate' = [fate EXCEPT ![c].signals.hashed = 3 - @]
    <3>1. [fate[c] EXCEPT !.signals.hashed = 3 - @] = Became(l, r, s, 3 - a, b)
      BY <1>2
    <3>2. fate' = [fate EXCEPT ![c] = [fate[c] EXCEPT !.signals.hashed = 3 - @]]
      BY <2>4
    <3> HIDE DEF Became
    <3> QED BY <1>3, <1>4, <3>1, <3>2
  <2>5. CASE fate' = [fate EXCEPT ![c].signals.rest = 3 - @]
    <3>1. [fate[c] EXCEPT !.signals.rest = 3 - @] = Became(l, r, s, a, 3 - b)
      BY <1>2
    <3>2. fate' = [fate EXCEPT ![c] = [fate[c] EXCEPT !.signals.rest = 3 - @]]
      BY <2>5
    <3> HIDE DEF Became
    <3> QED BY <1>3, <1>4, <3>1, <3>2
  <2> QED BY <2>1, <2>2, <2>3, <2>4, <2>5
<1> QED BY <1>1, <1>5

\* An action that ends keeps the marks of the page to a container or to none.
LEMMA ToldIsTyped ==
    ASSUME PageTypes, NEW f \in flights, f.about \in Sibling, Tell(f),
           fate' \in [Sibling -> Fates],
           UNCHANGED <<at, tab, page, mount, dialog, viewer, loading, answer, existing,
                       diagnoses, keyed>>
    PROVE  ShownIsTyped' /\ LivesAreTyped'
<1>1. banner'.of \in Sibling \cup {"none"} /\ busy'.of \in Sibling \cup {"none"}
  BY DEF Tell, NoOne, PageTypes, ShownIsTyped
<1> QED BY <1>1 DEF PageTypes, ShownIsTyped, LivesAreTyped

LEMMA ActionAnsweredIsTyped ==
    ASSUME PageTypes, NEW f \in flights, f.about \in Sibling, ActionAnswered(f)
    PROVE  ShownIsTyped' /\ SeenIsTyped' /\ LivesAreTyped'
<1>1. fate' \in [Sibling -> Fates]
  BY FateIsTyped DEF ActionAnswered, PageTypes, ShownIsTyped
<1>2. ShownIsTyped' /\ LivesAreTyped'
  BY <1>1, ToldIsTyped DEF ActionAnswered, place, mounted
<1>3. SeenIsTyped'
  <2>1. Look(f.about)' \in Seen
    BY <1>1 DEF Look, Fates, Seen
  <2>2. CASE seen' = [seen EXCEPT ![f.about] = Look(f.about)']
    BY <2>1, <2>2, LookedIsTyped
  <2> QED BY <2>2, SeenStays DEF ActionAnswered
<1> QED BY <1>2, <1>3

LEMMA RemovalAnsweredIsTyped ==
    ASSUME PageTypes, NEW f \in flights, f.about \in Sibling, RemovalAnswered(f)
    PROVE  ShownIsTyped' /\ SeenIsTyped' /\ LivesAreTyped'
<1>1. CASE Tell(f) /\ UNCHANGED <<fate, place, seen, mounted, dialog, keyed>>
  <2>1. fate' \in [Sibling -> Fates]
    BY <1>1 DEF PageTypes, ShownIsTyped
  <2>2. ShownIsTyped' /\ LivesAreTyped'
    BY <1>1, <2>1, ToldIsTyped DEF RemovalAnswered, place, mounted
  <2> QED BY <1>1, <2>2, SeenStays
<1>2. CASE /\ fate' = [fate EXCEPT ![f.about].listed = FALSE]
           /\ seen' = IF f.life = page THEN [seen EXCEPT ![f.about].failed = TRUE] ELSE seen
           /\ Opens("none")
  <2>1. fate' \in [Sibling -> Fates]
    BY <1>2, FateIsTyped DEF PageTypes
  <2>2. ShownIsTyped' /\ LivesAreTyped'
    BY <1>2, <2>1, OpensIsTyped DEF RemovalAnswered
  <2>3. SeenIsTyped'
    BY <1>2, FailedIsTyped, SeenStays
  <2> QED BY <2>2, <2>3
<1> QED BY <1>1, <1>2 DEF RemovalAnswered

LEMMA AnsweredIsTyped ==
    ASSUME PageTypes, NEW f \in flights,
           \/ ActionAnswered(f) \/ RemovalAnswered(f) \/ LogsAnswered(f) \/ DiagnosisAnswered(f)
    PROVE  PageTypes'
<1>1. IsFlight(f) /\ f.about \in Sibling
  BY DEF PageTypes, FlightsAreTyped, IsFlight
<1>2. flights' = flights \ {f} /\ UNCHANGED asked
  BY DEF ActionAnswered, RemovalAnswered, LogsAnswered, DiagnosisAnswered, counted
<1>3. FlightsAreTyped' /\ FlightsAreCounted'
  BY <1>1, <1>2, FlyingIsTyped
<1>4. CASE ActionAnswered(f) \/ RemovalAnswered(f)
  BY <1>1, <1>3, <1>4, ActionAnsweredIsTyped, RemovalAnsweredIsTyped DEF PageTypes
<1>5. CASE LogsAnswered(f)
  <2>1. /\ UNCHANGED <<fate, at, tab, page, seen, mount, dialog, busy, banner, answer, existing,
                       diagnoses, keyed>>
        /\ loading' \in {loading, FALSE} /\ viewer' \in {viewer, [of |-> f.about]}
    BY <1>5 DEF LogsAnswered, pageState, place
  <2>2. viewer'.of \in Sibling \cup {"none"}
    BY <1>1, <2>1 DEF PageTypes, ShownIsTyped
  <2>3. loading' \in BOOLEAN
    BY <2>1 DEF PageTypes, ShownIsTyped
  <2>4. ShownIsTyped' /\ LivesAreTyped'
    BY <2>1, <2>2, <2>3 DEF PageTypes, ShownIsTyped, LivesAreTyped
  <2> QED BY <1>3, <2>1, <2>4, SeenStays DEF PageTypes
<1>6. CASE DiagnosisAnswered(f)
  <2> DEFINE diagnosis == [of |-> f.about, signals |-> f.of, asked |-> f.signals]
  <2>1. /\ answer' \in {answer, diagnosis}
        /\ existing' = [existing EXCEPT ![f.about] = [of |-> f.about]]
        /\ UNCHANGED <<fate, at, tab, page, seen, mount, dialog, busy, banner, viewer, loading,
                       diagnoses, keyed>>
    BY <1>6 DEF DiagnosisAnswered, place
  <2>2. diagnosis.of \in Sibling
    BY <1>1
  <2> HIDE DEF diagnosis
  <2>3. ShownIsTyped' /\ LivesAreTyped'
    BY <1>1, <2>1, <2>2 DEF PageTypes, ShownIsTyped, LivesAreTyped
  <2> QED BY <1>3, <2>1, <2>3, SeenStays DEF PageTypes
<1> QED BY <1>4, <1>5, <1>6

LEMMA DiagnosingIsTyped ==
    ASSUME PageTypes, NEW f \in flights, Handle(f) \/ GeminiAnswers(f) \/ GeminiFails(f)
    PROVE  PageTypes'
<1>1. IsFlight(f) /\ f.about \in Sibling
  BY DEF PageTypes, FlightsAreTyped, IsFlight
<1>2. PICK g : IsFlight(g) /\ flights' \in {flights \ {f}, (flights \ {f}) \cup {g}}
  <2>1. CASE Handle(f)
    <3> DEFINE now == [f EXCEPT !.signals = fate[f.about].signals]
               answered == [now EXCEPT !.stage = "answered", !.of = diagnoses[f.about].signals]
               calling == [now EXCEPT !.stage = "calling"]
    <3>1. \/ flights' = (flights \ {f}) \cup {answered}
          \/ flights' = (flights \ {f}) \cup {calling}
          \/ flights' = flights \ {f}
      BY <2>1 DEF Handle
    <3>2. IsFlight(now)
      BY <1>1, ChangedIsFlight
    <3> HIDE DEF now
    <3>3. IsFlight(answered)
      BY <3>2, AnsweredIsFlight, Zenon
    <3>4. IsFlight(calling)
      BY <3>2, ChangedIsFlight, Zenon
    <3> HIDE DEF answered, calling
    <3> QED BY <1>1, <3>1, <3>3, <3>4
  <2>2. CASE GeminiAnswers(f)
    <3> DEFINE answered == [f EXCEPT !.stage = "answered", !.of = f.signals]
    <3>1. flights' = (flights \ {f}) \cup {answered}
      BY <2>2 DEF GeminiAnswers
    <3>2. IsFlight(answered)
      BY <1>1, AnsweredIsFlight, Zenon
    <3> HIDE DEF answered
    <3> QED BY <3>1, <3>2
  <2>3. CASE GeminiFails(f)
    BY <1>1, <2>3 DEF GeminiFails
  <2> QED BY <2>1, <2>2, <2>3
<1>3. FlightsAreTyped' /\ FlightsAreCounted'
  BY <1>2, FlyingIsTyped DEF Handle, GeminiAnswers, GeminiFails, counted
<1>4. UNCHANGED <<fate, at, tab, page, seen, mount, dialog, busy, banner, viewer, loading,
                  answer, existing, keyed>>
  BY DEF Handle, GeminiAnswers, GeminiFails, place, mounted
<1>5. \/ UNCHANGED diagnoses
      \/ diagnoses' = [diagnoses EXCEPT ![f.about] = [of |-> f.about, signals |-> f.signals]]
  BY DEF Handle, GeminiAnswers, GeminiFails
<1>6. ShownIsTyped' /\ LivesAreTyped'
  BY <1>1, <1>4, <1>5 DEF PageTypes, ShownIsTyped, LivesAreTyped
<1> QED BY <1>3, <1>4, <1>6, SeenStays DEF PageTypes

LEMMA OthersAreTyped ==
    ASSUME PageTypes, \/ FetchContainer \/ FetchDiagnosis
                      \/ \E c \in Sibling : OtherDiagnoses(c) \/ Change(c)
    PROVE  PageTypes'
<1>1. UNCHANGED <<at, tab, page, mount, dialog, busy, banner, viewer, loading, answer, keyed>>
  BY DEF FetchContainer, FetchDiagnosis, OtherDiagnoses, Change, place, mounted
<1>2. LivesAreTyped' /\ FlightsAreTyped' /\ FlightsAreCounted'
  <2>1. UNCHANGED <<asked, flights>>
    BY DEF FetchContainer, FetchDiagnosis, OtherDiagnoses, Change
  <2> QED BY <1>1, <2>1, NoFlightIsTyped DEF PageTypes, LivesAreTyped
<1>3. CASE FetchContainer
  <2>1. Look(at) \in Seen /\ at \in Sibling
    BY <1>3 DEF FetchContainer, Look, PageTypes, ShownIsTyped, Fates, Seen
  <2>2. SeenIsTyped'
    BY <1>3, <2>1 DEF FetchContainer, PageTypes, SeenIsTyped, Seen, Known
  <2>3. ShownIsTyped'
    BY <1>1, <1>3 DEF FetchContainer, PageTypes, ShownIsTyped, pageState
  <2> QED BY <1>2, <2>2, <2>3 DEF PageTypes
<1>4. CASE FetchDiagnosis
  <2>1. at \in Sibling
    BY <1>4, RenderedIsSibling DEF FetchDiagnosis, Mounted
  <2>2. ShownIsTyped'
    BY <1>1, <1>4, <2>1 DEF FetchDiagnosis, PageTypes, ShownIsTyped, pageState
  <2> QED BY <1>2, <1>4, <2>2, SeenStays DEF FetchDiagnosis, PageTypes
<1>5. ASSUME NEW c \in Sibling, OtherDiagnoses(c) PROVE PageTypes'
  <2>1. ShownIsTyped'
    BY <1>1, <1>5 DEF OtherDiagnoses, PageTypes, ShownIsTyped
  <2> QED BY <1>2, <1>5, <2>1, SeenStays DEF OtherDiagnoses, PageTypes
<1>6. ASSUME NEW c \in Sibling, Change(c) PROVE PageTypes'
  <2>1. fate' \in [Sibling -> Fates]
    <3>1. /\ [fate EXCEPT ![c].listed = ~@] = [fate EXCEPT ![c].listed = ~fate[c].listed]
          /\ [fate EXCEPT ![c].running = ~@] = [fate EXCEPT ![c].running = ~fate[c].running]
          /\ [fate EXCEPT ![c].silent = ~@] = [fate EXCEPT ![c].silent = ~fate[c].silent]
      OBVIOUS
    <3> QED BY <1>6, <3>1, FateIsTyped DEF Change, PageTypes
  <2>2. ShownIsTyped'
    BY <1>1, <1>6, <2>1 DEF Change, PageTypes, ShownIsTyped
  <2> QED BY <1>2, <1>6, <2>2, SeenStays DEF Change, PageTypes
<1> QED BY <1>3, <1>4, <1>5, <1>6

\* Of the invariant: the question of a dialog is of the container of the page.
LEMMA PageTypesNext ==
    PageTypes /\ PageInv /\ [ContainerPageNext]_containerPageVars => PageTypes'
<1> SUFFICES ASSUME PageTypes, PageInv, [ContainerPageNext]_containerPageVars PROVE PageTypes'
  OBVIOUS
<1>1. CASE UNCHANGED containerPageVars
  BY <1>1, NoFlightIsTyped, SeenStays
     DEF containerPageVars, PageTypes, ShownIsTyped, LivesAreTyped
<1>2. CASE ContainerPageNext
  BY <1>2, MovesAreTyped, ActionsAreTyped, AskingPageIsTyped, OthersAreTyped, AnsweredIsTyped,
     DiagnosingIsTyped DEF ContainerPageNext
<1> QED BY <1>1, <1>2

\* What the page shows, and what is under way, keeps to its types.
THEOREM ContainerPageTypeCorrect == ContainerPageSpec => []ContainerPageTypeOK
<1>1. ContainerPageInit => PageTypes /\ PageInv
  BY PageTypesInit, PageInvInit
<1>2. PageTypes /\ PageInv /\ [ContainerPageNext]_containerPageVars => (PageTypes /\ PageInv)'
  BY PageTypesNext, PageInvNext
<1> QED BY <1>1, <1>2, PageTypesHold, PTL DEF ContainerPageSpec

(***************************************************************************)
(* The program without a hub, for any number of cycles under way.          *)
(***************************************************************************)

\* Tables of the target that keep to their types.
IsStored(s) ==
    /\ Len(s[1]) <= 2 /\ \A i \in DOMAIN s[1] : s[1][i] \in {"good", "bad", "unmeasured"}
    /\ s[1] \in Seq({"good", "bad", "unmeasured"})
    /\ s[2] \in BOOLEAN /\ s[3] \in BOOLEAN

StandaloneInv == StandaloneTypeOK /\ values \in Seq({"good", "bad", "unmeasured"})

LEMMA ThingsOfSorts ==
    ASSUME NEW s \in Sorts
    PROVE  /\ s \in OfContainer => Things(s) = {"good", "bad", "gone", "silent"}
           /\ s = "disk_full" => Things(s) = {"good", "bad"}
           /\ s = "host_offline" => Things(s) = {"good", "silent"}
           /\ "good" \in Things(s)
BY DEF Sorts, Things, OfContainer

\* What a cycle leaves of what it was told.
LEMMA StoredIsTyped ==
    ASSUME StandaloneInv, NEW told \in Things(sort), NEW s \in Stored(told)
    PROVE  IsStored(s)
<1>1. IsStored(<<values, current, present>>) /\ IsStored(<<values, alone /\ current, FALSE>>)
  BY DEF StandaloneInv, StandaloneTypeOK, IsStored
<1>2. ASSUME NEW v \in {"good", "bad", "unmeasured"}, NEW there \in BOOLEAN
      PROVE  IsStored(<<LastTwo(v), TRUE, there>>)
  <2> DEFINE Values == {"good", "bad", "unmeasured"}
  <2>1. values \in Seq(Values) /\ v \in Values
    BY DEF StandaloneInv
  <2> HIDE DEF Values
  <2>2. values # << >> => values[1] \in Values
    BY <2>1
  <2>3. LastTwo(v) \in Seq(Values) /\ Len(LastTwo(v)) <= 2
    BY <2>1, <2>2 DEF LastTwo
  <2>4. \A i \in DOMAIN LastTwo(v) : LastTwo(v)[i] \in Values
    BY <2>3
  <2> QED BY <2>3, <2>4 DEF IsStored, Values
<1>3. CASE sort \in OfContainer /\ told # "silent"
  <2>1. s \in StoredListing(told)
    BY <1>3 DEF Stored, OfContainer
  <2>2. CASE told \in {"good", "bad"}
    BY <1>2, <2>1, <2>2 DEF StoredListing, Measured
  <2>3. CASE told \notin {"good", "bad"}
    BY <1>1, <2>1, <2>3 DEF StoredListing
  <2> QED BY <2>2, <2>3
<1>4. CASE sort = "disk_full" /\ told # "silent"
  <2>1. s = <<LastTwo(thing), TRUE, FALSE>>
    BY <1>4 DEF Stored, OfContainer
  <2>2. thing \in {"good", "bad"}
    BY <1>4, ThingsOfSorts DEF StandaloneInv, StandaloneTypeOK
  <2> QED BY <1>2, <2>1, <2>2
<1>5. CASE told = "silent" \/ (sort \notin OfContainer /\ sort # "disk_full")
  <2>1. sort = "disk_full" => told # "silent"
    BY ThingsOfSorts DEF StandaloneInv, StandaloneTypeOK
  <2>2. s = <<values, current, present>>
    BY <1>5, <2>1 DEF Stored
  <2> QED BY <1>1, <2>2
<1> QED BY <1>3, <1>4, <1>5

\* processAlerts leaves a row of alert_state or none.
LEMMA RowsAreTyped ==
    ASSUME open \in OpenRow \cup {NotOpen}, NEW triggered \in BOOLEAN, NEW resolved \in BOOLEAN
    PROVE  ProcessAlerts(triggered, resolved) \subseteq OpenRow \cup {NotOpen}
<1>1. 0 \in Ages /\ NoAge \notin Ages
  BY StandaloneAssumption DEF Ages, NoAge
<1>2. ASSUME NEW r \in OpenRow \cup {NotOpen} PROVE Sighted(r) \in OpenRow
  BY <1>1 DEF Sighted, OpenRow, NotOpen
<1>3. ASSUME NEW r \in OpenRow PROVE Reminded(r) \subseteq OpenRow
  BY <1>1 DEF Reminded, OpenRow
<1>4. ASSUME NEW r \in OpenRow PROVE Recovered(r) \in OpenRow \cup {NotOpen}
  BY <1>1 DEF Recovered, OpenRow, NotOpen
<1>5. ASSUME NEW r \in OpenRow PROVE r # NotOpen
  BY <1>5 DEF OpenRow, NotOpen
<1> DEFINE sighted == IF triggered THEN Reminded(Sighted(open)) ELSE {open}
<1>6. sighted \subseteq OpenRow \cup {NotOpen} /\ (open # NotOpen => sighted \subseteq OpenRow)
  BY <1>2, <1>3
<1>7. ProcessAlerts(triggered, resolved) =
        IF resolved /\ open # NotOpen THEN {Recovered(r) : r \in sighted} ELSE sighted
  BY DEF ProcessAlerts
<1> HIDE DEF sighted
<1> QED BY <1>4, <1>6, <1>7

LEMMA StandaloneInvInit == StandaloneInit => StandaloneInv
<1> SUFFICES ASSUME StandaloneInit PROVE StandaloneInv
  OBVIOUS
<1>1. sort \in Sorts /\ thing \in Things(sort) /\ alone \in BOOLEAN
  BY ThingsOfSorts DEF StandaloneInit
<1>2. cycles \in [Cycle -> Things(sort) \cup {Idle}] /\ current = FALSE /\ present = FALSE
  BY DEF StandaloneInit
<1>3. /\ values \in Seq({"good", "bad", "unmeasured"}) /\ Len(values) <= 2
      /\ \A i \in DOMAIN values : values[i] \in {"good", "bad", "unmeasured"}
  <2>1. values = << >>
    BY DEF StandaloneInit
  <2> QED BY <2>1
<1>4. unheard \in 0 .. OfflineAge + 1 /\ open = NotOpen
  BY StandaloneAssumption DEF StandaloneInit
<1> QED BY <1>1, <1>2, <1>3, <1>4 DEF StandaloneInv, StandaloneTypeOK

LEMMA OlderIsBounded ==
    ASSUME NEW bound \in Nat, NEW age \in 0 .. bound
    PROVE  Older(age, bound) \in 0 .. bound
BY DEF Older

LEMMA AgedIsTyped ==
    ASSUME NEW r \in OpenRow \cup {NotOpen}
    PROVE  Aged(r) \in OpenRow \cup {NotOpen}
<1>1. CASE r = NotOpen
  BY <1>1 DEF Aged
<1>2. CASE r \in OpenRow /\ r # NotOpen
  <2>1. WindowAge \in Nat /\ NoAge \notin Ages /\ Ages = 0 .. WindowAge
    BY StandaloneAssumption DEF Ages, NoAge
  <2>2. \A age \in Ages : Older(age, WindowAge) \in Ages
    BY <2>1, OlderIsBounded
  <2> QED BY <1>2, <2>1, <2>2 DEF Aged, OpenRow
<1> QED BY <1>1, <1>2

LEMMA StandaloneInvNext ==
    StandaloneInv /\ [StandaloneNext]_standaloneVars => StandaloneInv'
<1> SUFFICES ASSUME StandaloneInv, [StandaloneNext]_standaloneVars PROVE StandaloneInv'
  OBVIOUS
<1>1. ASSUME NEW c \in Cycle, StartCycle(c) PROVE StandaloneInv'
  <2>1. unheard' \in 0 .. OfflineAge + 1
    BY <1>1, StandaloneAssumption, OlderIsBounded DEF StartCycle, StandaloneInv, StandaloneTypeOK
  <2>2. open' \in OpenRow \cup {NotOpen}
    BY <1>1, AgedIsTyped DEF StartCycle, StandaloneInv, StandaloneTypeOK
  <2>3. cycles' \in [Cycle -> Things(sort) \cup {Idle}]
    BY <1>1 DEF StartCycle, StandaloneInv, StandaloneTypeOK
  <2> QED BY <1>1, <2>1, <2>2, <2>3 DEF StartCycle, StandaloneInv, StandaloneTypeOK, OpenRow, Ages
<1>2. ASSUME NEW c \in Cycle, FinishCycle(c) PROVE StandaloneInv'
  <2>1. cycles[c] \in Things(sort)
    BY <1>2 DEF FinishCycle, StandaloneInv, StandaloneTypeOK
  <2>2. PICK s \in Stored(cycles[c]) : values' = s[1] /\ current' = s[2] /\ present' = s[3]
    BY <1>2 DEF FinishCycle
  <2>3. IsStored(s)
    BY <2>1, <2>2, StoredIsTyped
  <2>4. unheard' \in 0 .. OfflineAge + 1
    BY <1>2, StandaloneAssumption DEF FinishCycle, StandaloneInv, StandaloneTypeOK
  <2>5. open' \in OpenRow \cup {NotOpen}
    <3>1. PICK triggered \in BOOLEAN, resolved \in BOOLEAN : open' \in ProcessAlerts(triggered, resolved)
      <4>1. Triggers(values', current', unheard') \in BOOLEAN
        BY <2>2, <2>3 DEF Triggers, DownTriggers, LevelTriggers, DiskTriggers, HostTriggers, IsStored
      <4>2. Resolves(values', present', unheard') \in BOOLEAN
        BY <2>2, <2>3 DEF Resolves, Vanished, LastGood, IsStored
      <4> QED BY <1>2, <4>1, <4>2 DEF FinishCycle
    <3> QED BY <3>1, RowsAreTyped DEF StandaloneInv, StandaloneTypeOK
  <2>6. cycles' \in [Cycle -> Things(sort) \cup {Idle}]
    BY <1>2 DEF FinishCycle, StandaloneInv, StandaloneTypeOK
  <2>7. UNCHANGED <<sort, alone, thing>>
    BY <1>2 DEF FinishCycle
  <2> QED BY <2>2, <2>3, <2>4, <2>5, <2>6, <2>7
          DEF IsStored, StandaloneInv, StandaloneTypeOK, OpenRow, Ages
<1>3. CASE ThingChanges
  BY <1>3 DEF ThingChanges, StandaloneInv, StandaloneTypeOK, OpenRow, Ages
<1>4. CASE Restart
  BY <1>4 DEF Restart, StandaloneInv, StandaloneTypeOK, OpenRow, Ages
<1>5. CASE UNCHANGED standaloneVars
  BY <1>5 DEF standaloneVars, StandaloneInv, StandaloneTypeOK, OpenRow, Ages
<1> QED BY <1>1, <1>2, <1>3, <1>4, <1>5 DEF StandaloneNext, CollectNext

\* The program without a hub keeps its rows and the table of its alerts to their types,
\* however its cycles overlap.
THEOREM StandaloneTypeCorrect == StandaloneSpec => []StandaloneTypeOK
<1>1. StandaloneInv => StandaloneTypeOK
  BY DEF StandaloneInv
<1> QED BY StandaloneInvInit, StandaloneInvNext, <1>1, PTL DEF StandaloneSpec

(***************************************************************************)
(* The parts together: the one that runs keeps to its types.               *)
(***************************************************************************)

ViewsInv ==
    /\ StandaloneInv /\ ScoresTypes /\ PagesInv /\ GroupsInv /\ SettingsInv
    /\ PageTypes /\ PageInv

LEMMA ViewsInvInit == ViewsInit => ViewsInv
BY StandaloneInvInit, ScoresTypesInit, PagesInvInit, GroupsInvInit, SettingsInvInit,
   PageTypesInit, PageInvInit DEF ViewsInit, ViewsInv

\* A step of the parts is a step of one and leaves the others alone.
LEMMA StepsOfViews ==
    ASSUME [ViewsNext]_viewVars
    PROVE  /\ [StandaloneNext]_standaloneVars /\ [ScoresNext]_scoreVars /\ [PagesNext]_pageVars
           /\ [GroupsNext]_groupVars /\ [SettingsNext]_settingVars
           /\ [ContainerPageNext]_containerPageVars
BY Zenon DEF ViewsNext, viewVars

LEMMA ViewsInvNext == ViewsInv /\ [ViewsNext]_viewVars => ViewsInv'
BY StepsOfViews, StandaloneInvNext, ScoresTypesNext, PagesInvNext, GroupsInvNext,
   SettingsInvNext, PageTypesNext, PageInvNext DEF ViewsInv

\* Whichever part of the program runs keeps to its types, for any hosts, containers,
\* names, settings, cycles and losses.
THEOREM ViewsTypeCorrect == ViewsSpec => []ViewsTypeOK
<1>1. ViewsInv => ViewsTypeOK
  BY SettingsInvHolds, PageTypesHold
     DEF ViewsInv, ViewsTypeOK, StandaloneInv, ScoresTypes, PagesInv, GroupsInv
<1> QED BY ViewsInvInit, ViewsInvNext, <1>1, PTL DEF ViewsSpec

\* What is promised of each part holds where they are put together: a behaviour of the
\* composition is one of each part that needs no fairness.
THEOREM ViewsAreSafe == ViewsSpec =>
    /\ [](ScoresAgree /\ PagesAgree /\ SettingsHold /\ GroupsStayGone)
    /\ [](ShownIsOwn /\ AnswerIsOfAsked /\ ActionsAreSingle)
<1>1. ViewsInit =>
        ScoresInit /\ PagesInit /\ SettingsInit /\ GroupsInit /\ ContainerPageInit
  BY DEF ViewsInit
<1>2. [ViewsNext]_viewVars =>
        [ScoresNext]_scoreVars /\ [PagesNext]_pageVars /\ [SettingsNext]_settingVars
  BY StepsOfViews
<1>3. ViewsSpec => ScoresSpec /\ PagesSpec /\ SettingsSpec
  BY <1>1, <1>2, PTL DEF ViewsSpec, ScoresSpec, PagesSpec, SettingsSpec
<1>4. ViewsInv => GroupsStayGone
  BY DEF ViewsInv, GroupsInv
<1>5. ViewsSpec => []GroupsStayGone
  BY <1>4, ViewsInvInit, ViewsInvNext, PTL DEF ViewsSpec
<1>6. ViewsInv => ShownIsOwn /\ AnswerIsOfAsked /\ ActionsAreSingle
  BY PageInvOwn, PageInvActions DEF ViewsInv, PageInv
<1>7. ViewsSpec => [](ShownIsOwn /\ AnswerIsOfAsked /\ ActionsAreSingle)
  BY <1>6, ViewsInvInit, ViewsInvNext, PTL DEF ViewsSpec
<1> QED BY <1>3, <1>5, <1>7, ScoresAreCurrent, PagesDoAgree, SettingsAreTrue, PTL
=============================================================================
