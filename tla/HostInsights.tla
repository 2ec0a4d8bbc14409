---------------------------- MODULE HostInsights ----------------------------
(***************************************************************************)
(* The insights about the containers of one host: what generateInsights,   *)
(* generatePredictions and enrichInsightsWithCorrelations                  *)
(* (hub/src/insights/detector.ts) make of the rows and of the registry     *)
(* that ingestContainers (hub/src/ingest.ts) keeps.  The table is emptied  *)
(* and written anew by every run of the cron, which the collections know   *)
(* nothing of.                                                             *)
(*                                                                         *)
(* Of a row: whether the container ran, and whether its use of processor   *)
(* and memory was high.  A container that was down and runs again has been *)
(* restarted.  Baselines and the arithmetic of the trend are left out: use *)
(* that was not high and is now is a trend.  No row is as old as the       *)
(* retention.  Left out too are the insights about hosts and workloads,    *)
(* weeks compared with each other, and respawn loops; Diagnosis and        *)
(* LogMining have those about health and logs.                             *)
(*                                                                         *)
(* An operator named ...Mutant is the definition below it with a plausible *)
(* mistake; nothing refers to it, a run that swaps it in must fail.        *)
(***************************************************************************)
EXTENDS Integers, Sequences, FiniteSets, SequencesExt

CONSTANTS
    Containers,  \* of the host
    Hot,         \* bound: those whose use may be high
    Sustained,   \* how many rows of high use are flagged
    Day, Week,   \* collections in a day and in a week
    Restarts     \* restarts in a day that are flagged

ASSUME InsightsAssumption ==
    /\ IsFiniteSet(Containers) /\ Hot \subseteq Containers
    /\ Sustained \in Nat \ {0} /\ Restarts \in Nat \ {0}
    /\ Day \in Nat \ {0} /\ Week \in Nat /\ Day <= Week

VARIABLES
    week,       \* container -> what the collections of the week found
    lastRuns,   \* the newest rows that say running of the hot, as many as are looked at
    registry,   \* the containers table: container -> its removed_at
    insights    \* the insights table

insightVars == <<week, lastRuns, registry, insights>>

\* "none": the collection did not list it, or did not arrive.
Rows == {"none", "down", "up", "high"}

Kinds == {"dip", "restarts", "sustained", "prediction", "host gone"}

InsightsTypeOK ==
    /\ \A c \in Containers : week[c] \in Seq(Rows) /\ Len(week[c]) = Week
    /\ \A c \in Hot : lastRuns[c] \in Seq({"up", "high"}) /\ Len(lastRuns[c]) <= Sustained
    /\ registry \in [Containers -> {"unknown", "listed", "removed"}]
    /\ \A i \in insights : i.kind \in Kinds /\ i.about \subseteq Containers /\ i.count \in Nat

InsightsInit ==
    /\ week = [c \in Containers |-> [i \in 1 .. Week |-> "none"]]
    /\ lastRuns = [c \in Hot |-> <<>>]
    /\ registry = [c \in Containers |-> "unknown"]
    /\ insights = {}

-----------------------------------------------------------------------------
(* Collections.                                                            *)

Listing == {l \in [Containers -> Rows] : \A c \in Containers \ Hot : l[c] # "high"}

NewestRows(s, n) == SubSeq(s, 1 + (IF Len(s) > n THEN Len(s) - n ELSE 0), Len(s))

Ran(row) == row \in {"up", "high"}

\* handleMessage: an empty listing is not ingested, and a host may be silent; then nothing
\* is removed.
Collection ==
    \E l \in Listing :
        /\ week' = [c \in Containers |-> NewestRows(Append(week[c], l[c]), Week)]
        /\ lastRuns' = [c \in Hot |->
            IF Ran(l[c]) THEN NewestRows(Append(lastRuns[c], l[c]), Sustained) ELSE lastRuns[c]]
        /\ registry' = [c \in Containers |->
            CASE l[c] # "none" -> "listed"
              [] registry[c] = "listed" /\ \E d \in Containers : l[d] # "none" -> "removed"
              [] OTHER -> registry[c]]
        /\ UNCHANGED insights

-----------------------------------------------------------------------------
(* generateInsights.                                                       *)

DayOf(c) == SelectSeq(NewestRows(week[c], Day), LAMBDA row : row # "none")
WeekOf(c) == SelectSeq(week[c], LAMBDA row : row # "none")

Has(s, P(_)) == \E i \in DOMAIN s : P(s[i])

\* The newest row of the container, of which there may be an older one than a week.
LatestRuns(c) == WeekOf(c) # <<>> /\ Ran(Last(WeekOf(c)))

Dipped(c) == LatestRuns(c) /\ Has(DayOf(c), Ran) /\ Has(DayOf(c), LAMBDA row : row = "down")

RestartCount(c) ==
    Cardinality({i \in 1 .. Len(DayOf(c)) - 1 : DayOf(c)[i] = "down" /\ Ran(DayOf(c)[i + 1])})

SustainedHigh(c) == lastRuns[c] = [i \in 1 .. Sustained |-> "high"]

\* computeMetricTrend, of rows that say running.
Growing(c) ==
    LET runs == SelectSeq(WeekOf(c), Ran) IN
    Len(runs) >= 2 /\ Head(runs) = "up" /\ Last(runs) = "high"

\* The removed are looked at like the others.
OfRegistryMutant == {c \in Containers : registry[c] # "unknown"}

\* "Only consider containers still present in the registry."
OfRegistry == {c \in Containers : registry[c] = "listed"}

About(kind, S) == {[kind |-> kind, about |-> {c}, count |-> 1] : c \in S}

Found ==
    About("dip", {c \in OfRegistry : Dipped(c)})
    \cup About("restarts", {c \in OfRegistry : RestartCount(c) >= Restarts})
    \cup About("sustained", {c \in OfRegistry \cap Hot : SustainedHigh(c)})
    \cup About("prediction", {c \in Containers : Growing(c)})

\* enrichInsightsWithCorrelations: the rows of category availability become one of the
\* host, if there are three and half as many as containers with rows of the day.
Enriched(found) ==
    LET availability == {i \in found : i.kind \in {"dip", "restarts"}}
        n == Cardinality(availability)
    IN  IF n >= 3 /\ 2 * n >= Cardinality({c \in Containers : DayOf(c) # <<>>})
        THEN (found \ availability)
             \cup {[kind |-> "host gone", about |-> UNION {i.about : i \in availability}, count |-> n]}
        ELSE found

GenerateInsights ==
    /\ insights' = Enriched(Found)
    /\ UNCHANGED <<week, lastRuns, registry>>

InsightsNext == Collection \/ GenerateInsights

\* Nothing changes any more if every collection finds what those of the week found.
Steady == \A c \in Containers : \A i \in 1 .. Week - 1 : week[c][i] = week[c][i + 1]

\* Hosts are collected and the cron fires.  Containers need not change.
InsightsFairness ==
    /\ WF_insightVars(~Steady /\ Collection)
    /\ WF_insightVars(GenerateInsights)

InsightsSpec == InsightsInit /\ [][InsightsNext]_insightVars /\ InsightsFairness

-----------------------------------------------------------------------------
(* Properties.                                                             *)

Says(c) == \E i \in insights : c \in i.about

Quiet(c) == registry[c] = "removed" \/ Last(week[c]) = "up"

\* Nothing is said for ever of a container that is gone for good or has recovered for good,
\* whatever it did before and whatever the others of its host do: its rows may stay, its
\* insights do not.
InsightsSettle == \A c \in Containers : (<>[]Quiet(c)) => <>[]~Says(c)

\* "... containers affected": as many as there are.  (Fails: README, findings.)
CascadeIsReal == \A i \in insights : i.kind = "host gone" => i.count <= Cardinality(i.about)

\* detector.ts:221 "stale ... insights stop regenerating one cycle after the container
\* disappears".  (Fails: README, findings.)
RemovedIsSilent ==
    [][GenerateInsights => \A i \in insights' : \A c \in i.about : registry[c] # "removed"]_insightVars

\* "has been above 50% for 30+ minutes. Current: ..." is said of a container that runs.
\* (Fails: README, findings.)
SustainedIsCurrent ==
    [][GenerateInsights => \A i \in insights' : i.kind = "sustained" =>
        \A c \in i.about : Ran(Last(week[c]))]_insightVars
=============================================================================
