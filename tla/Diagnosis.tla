------------------------------ MODULE Diagnosis ------------------------------
(***************************************************************************)
(* What the hub says of an unhealthy container: the signals and their      *)
(* priorities (hub/src/insights/diagnosis/signals, diagnosers/unified.ts), *)
(* the cache that keeps a finding as it was first worded (sticky.ts), the  *)
(* calibration of its confidence by the users' votes (calibration.ts), on  *)
(* the page of the container (web/handlers.ts) and in the insights         *)
(* (detector.ts), both through runDiagnosis (run.ts).                      *)
(*                                                                         *)
(* One container.  Evidence is the time it was gathered at: the episode of *)
(* bad health.  The log cache is what LogMining makes of it: there is an   *)
(* entry with some tags, or there is none.                                 *)
(*                                                                         *)
(* An operator named ...Mutant is the definition below it with a plausible *)
(* mistake; nothing refers to it, a run that swaps it in must fail.        *)
(***************************************************************************)
EXTENDS Integers, Sequences, FiniteSetsExt

CONSTANTS
    Situations,  \* what rows, baselines and neighbours can show at once
    Tags,        \* what classifyTemplate finds in lines; "error" is any tag but oom
    MinSamples,  \* MIN_SAMPLES_TO_OVERRIDE
    MaxVotes,    \* bound on the votes
    MaxEpisodes, \* bound on the episodes of bad health
    MaxReboots   \* bound on the restarts of the hub

Outputs == {"refused", "timed out", "other"}

Situation == [oomKilled : BOOLEAN, outOfMemory : BOOLEAN, restarts : 0 .. 2,
              cascade : BOOLEAN, pressure : BOOLEAN, output : Outputs]

ASSUME DiagnosisAssumption ==
    /\ Situations \subseteq Situation /\ Tags \subseteq {"oom", "error"}
    /\ MinSamples \in Nat \ {0} /\ MaxVotes \in Nat
    /\ MaxEpisodes \in Nat /\ MaxReboots \in Nat

VARIABLES
    situation, \* of the newest row and the two hours before it
    unhealthy, \* the newest row says unhealthy
    episode,   \* which episode of bad health it is, or was
    logTags,   \* errorPatterns of the log cache, or NoEntry: none, or expired
    sticky,    \* the cached finding
    finding,   \* history: the finding that was returned last, since the hub started
    insight,   \* the row of the insights table in category health
    votes,     \* confidence_calibration: kind of the conclusion -> the counts
    reboots

diagnosisVars == <<situation, unhealthy, episode, logTags, sticky, finding, insight, votes, reboots>>

\* The conclusions by priority; "oom_logged" is oom_confirmed when only the logs tell.
Conclusions == <<"oom_confirmed", "oom_logged", "oom_risk", "crash_loop", "cascade",
                 "host_pressure", "app_errors", "zombie_listener", "hung_service", "fallback">>

Conclusion == {Conclusions[i] : i \in DOMAIN Conclusions}

\* conclusionTag: what the votes are kept by.
KindOf(c) == IF c = "oom_logged" THEN "oom_confirmed" ELSE c

NoEntry == {"no entry"}

LogTags == {NoEntry} \cup SUBSET Tags

Confidences == {"high", "medium", "low"}

NoFinding == [conclusion |-> "none", confidence |-> "low", episode |-> 0, tags |-> NoEntry]

Findings == {NoFinding} \cup
    [conclusion : Conclusion, confidence : Confidences, episode : 1 .. MaxEpisodes, tags : LogTags]

DiagnosisTypeOK ==
    /\ situation \in Situations /\ unhealthy \in BOOLEAN /\ episode \in 0 .. MaxEpisodes
    /\ logTags \in LogTags
    /\ {sticky, finding, insight} \subseteq Findings
    /\ votes \in [Conclusion -> [helpful : 0 .. MaxVotes, unhelpful : 0 .. MaxVotes]]
    /\ reboots \in 0 .. MaxReboots

DiagnosisInit ==
    /\ situation \in Situations
    /\ unhealthy = FALSE /\ episode = 0
    /\ logTags = NoEntry
    /\ sticky = NoFinding /\ finding = NoFinding /\ insight = NoFinding
    /\ votes = [c \in Conclusion |-> [helpful |-> 0, unhelpful |-> 0]]
    /\ reboots = 0

-----------------------------------------------------------------------------
(* runDiagnosis.                                                           *)

Restarted == situation.restarts > 0

\* The detectors.
Fires(c, tags) ==
    CASE c = "oom_confirmed" -> situation.oomKilled
      [] c = "oom_logged" -> "oom" \in tags
      [] c = "oom_risk" -> situation.outOfMemory
      [] c = "crash_loop" -> situation.restarts >= 2
      [] c = "cascade" -> situation.cascade
      [] c = "host_pressure" -> situation.pressure
      [] c = "app_errors" -> {"oom", "error"} \cap tags # {} /\ ~Restarted
      [] c = "zombie_listener" -> situation.output = "refused" /\ ~situation.pressure /\ ~Restarted
      [] c = "hung_service" -> situation.output = "timed out" /\ ~situation.pressure
      [] c = "fallback" -> TRUE

\* diagnoseUnified: the most specific signal that fires.
PrimaryOf(tags) == Conclusions[CHOOSE i \in DOMAIN Conclusions :
    Fires(Conclusions[i], tags) /\ \A j \in 1 .. i - 1 : ~Fires(Conclusions[j], tags)]

Primary == PrimaryOf(logTags)

\* The confidence of the signal itself.
OwnConfidence(c) ==
    CASE c \in {"oom_confirmed", "oom_logged", "oom_risk", "crash_loop"} -> "high"
      [] c = "fallback" -> "low"
      [] OTHER -> "medium"

\* confidenceFromProbability of (helpful + 2) / (helpful + unhelpful + 4).
Posterior(v) ==
    LET p == 4 * (v.helpful + 2)
        all == v.helpful + v.unhelpful + 4
    IN  IF p >= 3 * all THEN "high" ELSE IF p >= 2 * all THEN "medium" ELSE "low"

Calibrated(c) ==
    LET v == votes[KindOf(c)] IN
    IF v.helpful + v.unhelpful >= MinSamples THEN Posterior(v) ELSE OwnConfidence(c)

\* diagnoseUnified, of the context as it is.
Raw == [conclusion |-> Primary, confidence |-> OwnConfidence(Primary), episode |-> episode, tags |-> logTags]

\* stickyFindings: of findings of the same conclusion and severity, the first.
\* (A conclusion has one severity.)
Sticky(next) == IF sticky.conclusion = next.conclusion THEN sticky ELSE next

\* calibrateFindings before stickyFindings: the confidence sticks too.
DiagnosedMutant ==
    LET f == Sticky([Raw EXCEPT !.confidence = Calibrated(Primary)]) IN
    [sticky |-> f, finding |-> f]

Diagnosed ==
    LET f == Sticky(Raw) IN
    [sticky |-> f, finding |-> [f EXCEPT !.confidence = Calibrated(f.conclusion)]]

RunDiagnosis ==
    /\ sticky' = Diagnosed.sticky
    /\ finding' = Diagnosed.finding

-----------------------------------------------------------------------------
(* Who runs it.                                                            *)

\* A row arrives.
NewRow ==
    /\ situation' \in Situations
    /\ unhealthy' \in BOOLEAN
    /\ episode' = IF unhealthy' /\ ~unhealthy THEN episode + 1 ELSE episode
    /\ episode' <= MaxEpisodes
    /\ UNCHANGED <<logTags, sticky, finding, insight, votes, reboots>>

\* setCachedLogs, and the end of the entry's life.
LogsChange ==
    /\ logTags' \in LogTags
    /\ UNCHANGED <<situation, unhealthy, episode, sticky, finding, insight, votes, reboots>>

\* handleContainerDetail.
ViewFinding ==
    /\ unhealthy
    /\ RunDiagnosis
    /\ UNCHANGED <<situation, unhealthy, episode, logTags, insight, votes, reboots>>

\* The health part of generateInsights, after the table was emptied; persistFindings.
InsightsCron ==
    /\ IF unhealthy THEN RunDiagnosis /\ insight' = finding'
       ELSE insight' = NoFinding /\ UNCHANGED <<sticky, finding>>
    /\ UNCHANGED <<situation, unhealthy, episode, logTags, votes, reboots>>

TotalVotes ==
    LET n == [c \in Conclusion |-> votes[c].helpful + votes[c].unhelpful]
    IN  MapThenSumSet(LAMBDA c : n[c], Conclusion)

\* handleInsightFeedback with the diagnoser and the tag of the finding: recordFeedback.
Feedback ==
    /\ finding # NoFinding
    /\ TotalVotes < MaxVotes
    /\ \E w \in {"helpful", "unhelpful"} : votes' = [votes EXCEPT ![KindOf(finding.conclusion)][w] = @ + 1]
    /\ UNCHANGED <<situation, unhealthy, episode, logTags, sticky, finding, insight, reboots>>

\* The caches are lost.
HubReboots ==
    /\ reboots < MaxReboots /\ reboots' = reboots + 1
    /\ sticky' = NoFinding /\ finding' = NoFinding /\ logTags' = NoEntry
    /\ UNCHANGED <<situation, unhealthy, episode, insight, votes>>

DiagnosisNext ==
    \/ NewRow \/ LogsChange \/ ViewFinding \/ InsightsCron \/ Feedback \/ HubReboots

DiagnosisSpec == DiagnosisInit /\ [][DiagnosisNext]_diagnosisVars

-----------------------------------------------------------------------------
(* Properties.                                                             *)

Diagnoses == ViewFinding \/ (InsightsCron /\ unhealthy)

\* However often the page is read and the cron runs between votes, rows and logs, a finding
\* draws the conclusion of the moment and has the confidence that the votes of the moment
\* give it, while its wording stays the same as long as the conclusion does: the cache
\* keeps neither an old conclusion nor an old confidence.
FindingsKeepUp ==
    [][Diagnoses =>
        /\ finding'.conclusion = Primary
        /\ finding'.confidence = Calibrated(Primary)
        /\ finding.conclusion = Primary =>
            finding'.episode = finding.episode /\ finding'.tags = finding.tags]_diagnosisVars

\* The evidence of a finding, "Health check failing for ..." first of all, is of the episode
\* it is shown in.  (Fails: README, findings.)
EvidenceIsOfEpisode == [][Diagnoses => finding'.episode = episode]_diagnosisVars

\* sticky.ts:6 "log-cache cycling can rewrite the reasoning text even when the underlying
\* diagnosis hasn't changed" is what the cache of findings is for: an entry of the log cache
\* that expires rewrites nothing.  (Fails: README, findings.)
LogsExpireQuietly ==
    [][Diagnoses /\ finding # NoFinding /\ logTags = NoEntry
        /\ finding.conclusion = PrimaryOf(finding.tags)
        => finding'.conclusion = finding.conclusion]_diagnosisVars
=============================================================================
