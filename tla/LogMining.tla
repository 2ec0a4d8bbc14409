------------------------------ MODULE LogMining ------------------------------
(***************************************************************************)
(* The lines of one container's log that match a log pattern: how the hub  *)
(* fetches the log's tail (hub/src/insights/diagnosis/periodicMine.ts,     *)
(* logCache.ts, the container page of web/handlers.ts, the pre-warming of  *)
(* hub/src/mqtt.ts), what it records of it                                 *)
(* (hub/src/log-patterns/matcher.ts, events.ts), and what the insights     *)
(* (insights/detector.ts), the explanation of an alert                     *)
(* (alerts/evaluator.ts) and the retention (db/schema.ts) make of the      *)
(* records.                                                                *)
(*                                                                         *)
(* The container is listed all along.  Of a fetch only its outcome matters *)
(* here; MqttRequests has the messages.  Time advances by the life of a    *)
(* cache entry, three of which make a period of the insights cron, and by  *)
(* days.                                                                   *)
(*                                                                         *)
(* An operator named ...Mutant is the definition below it with a plausible *)
(* mistake; nothing refers to it, a run that swaps it in must fail.        *)
(***************************************************************************)
EXTENDS Integers, Sequences, SequencesExt

CONSTANTS
    Text,      \* what lines say
    Matching,  \* what the pattern matches
    TailLines, \* how many lines a fetch returns
    Retention, \* the days after which events are deleted
    MaxLines,  \* bound on the lines that are written
    MaxMisses  \* bound on the fetches that fail and the restarts of the hub

ASSUME MiningAssumption ==
    /\ Matching \subseteq Text /\ IsFiniteSet(Text)
    /\ TailLines \in Nat \ {0} /\ Retention \in Nat \ {0}
    /\ MaxLines \in Nat /\ MaxMisses \in Nat

\* CACHE_TTL_MS, and the period of the cron, which is three times as long.
Period == 3

\* Bound: the counts of an event.
MaxOccurrences == MaxLines + 1

VARIABLES
    tail,      \* the last lines of the container's log
    written,   \* history: how often each text was written
    lastDay,   \* history: the days since each was written last
    sick,      \* the newest row says unhealthy
    phase,     \* how far the period of the cron has got
    cacheAge,  \* the age of the entry of the log cache; Period if there is none
    pending,   \* pendingFetches: no other fetch is begun
    fetch,     \* the fetch under way, and the lines it has brought
    events,    \* log_pattern_events: text -> the row, if any
    shown,     \* the count that the log pattern insight shows; 0: there is none
    misses

miningVars == <<tail, written, lastDay, sick, phase, cacheAge, pending, fetch, events, shown,
               misses>>

\* occurrences, and the days since fired_at and last_seen_at; no occurrences: no row.
NoEvent == [occurrences |-> 0, fired |-> 0, seen |-> 0]

NoFetch == [state |-> "no", lines |-> <<>>]

Days == 0 .. Retention + 1

EventRow == [occurrences : 0 .. MaxOccurrences, fired : Days, seen : Days]

MiningTypeOK ==
    /\ tail \in Seq(Text) /\ Len(tail) <= TailLines
    /\ written \in [Text -> 0 .. MaxLines] /\ lastDay \in [Matching -> Days]
    /\ sick \in BOOLEAN /\ phase \in 0 .. Period - 1 /\ cacheAge \in 0 .. Period
    /\ pending \in BOOLEAN /\ fetch.state \in {"no", "asked", "answered"} /\ fetch.lines \in Seq(Text)
    /\ events \in [Matching -> EventRow]
    /\ shown \in Nat /\ misses \in 0 .. MaxMisses

MiningInit ==
    /\ tail = <<>> /\ written = [t \in Text |-> 0] /\ lastDay = [t \in Matching |-> 0]
    /\ sick = FALSE /\ phase = 0 /\ cacheAge = Period
    /\ pending = FALSE /\ fetch = NoFetch
    /\ events = [t \in Matching |-> NoEvent]
    /\ shown = 0 /\ misses = 0

-----------------------------------------------------------------------------
(* The container.                                                          *)

Sum(f, S) == FoldSet(LAMBDA t, n : f[t] + n, 0, S)

WriteLine(t) ==
    /\ Sum(written, Text) < MaxLines
    /\ tail' = LET all == Append(tail, t) IN SubSeq(all, 1 + (IF Len(all) > TailLines THEN 1 ELSE 0), Len(all))
    /\ written' = [written EXCEPT ![t] = @ + 1]
    /\ lastDay' = [m \in Matching |-> IF m = t THEN 0 ELSE lastDay[m]]
    /\ UNCHANGED <<sick, phase, cacheAge, pending, fetch, events, shown, misses>>

-----------------------------------------------------------------------------
(* Fetching.                                                               *)

\* fetchLogsBackground: nothing while a fetch is pending.
Ask ==
    /\ pending' = TRUE
    /\ fetch' = IF pending THEN fetch ELSE [NoFetch EXCEPT !.state = "asked"]

\* handleMessage of a container that has become unhealthy, or is no longer.
HealthChanges ==
    /\ sick' = ~sick
    /\ IF sick' THEN Ask ELSE UNCHANGED <<pending, fetch>>
    /\ UNCHANGED <<tail, written, lastDay, phase, cacheAge, events, shown, misses>>

\* handleContainerDetail of an unhealthy container without cached logs: an entry of the
\* five minutes before may have expired.
ViewContainer ==
    /\ sick /\ cacheAge > 0
    /\ Ask
    /\ UNCHANGED <<tail, written, lastDay, sick, phase, cacheAge, events, shown, misses>>

AgentAnswers ==
    /\ fetch.state = "asked"
    /\ fetch' = [state |-> "answered", lines |-> tail]
    /\ UNCHANGED <<tail, written, lastDay, sick, phase, cacheAge, pending, events, shown, misses>>

\* recordMatch of every line that matches, one after the other: the first makes a row,
\* those after it count.  (Bound: the count.)
Recorded(lines) == [t \in Matching |->
    LET n == Cardinality({i \in DOMAIN lines : lines[i] = t})
        e == events[t]
        sum == e.occurrences + n
    IN  IF n = 0 THEN e
        ELSE [occurrences |-> IF sum > MaxOccurrences THEN MaxOccurrences ELSE sum,
              fired |-> IF e = NoEvent THEN 0 ELSE e.fired,
              seen |-> 0]]

\* setCachedLogs, and the finally block.
HandleLogs ==
    /\ fetch.state = "answered"
    /\ events' = Recorded(fetch.lines)
    /\ cacheAge' = 0
    /\ pending' = FALSE /\ fetch' = NoFetch
    /\ UNCHANGED <<tail, written, lastDay, sick, phase, shown, misses>>

\* The container is taken out of pendingFetches when there is an answer only.
PendingAfterFailureMutant == TRUE

PendingAfterFailure == FALSE

\* No answer within 15 seconds, or a refusal.
FetchFails ==
    /\ fetch.state = "asked" /\ misses < MaxMisses
    /\ misses' = misses + 1
    /\ pending' = PendingAfterFailure /\ fetch' = NoFetch
    /\ UNCHANGED <<tail, written, lastDay, sick, phase, cacheAge, events, shown>>

\* The events and the insights are in the database.
HubRestarts ==
    /\ misses < MaxMisses /\ misses' = misses + 1
    /\ pending' = FALSE /\ fetch' = NoFetch /\ cacheAge' = Period
    /\ UNCHANGED <<tail, written, lastDay, sick, phase, events, shown>>

-----------------------------------------------------------------------------
(* Time.                                                                   *)

\* The events of the last 24 hours.
Recent == {t \in Matching : events[t] # NoEvent /\ events[t].fired = 0}

Older(age) == IF age < Period THEN age + 1 ELSE age

\* A fetch ends within 15 seconds.  At the end of a period the cron makes the insights,
\* then dispatches the fetches; no reply can come in between.
FiveMinutes ==
    /\ fetch.state = "no"
    /\ phase' = (phase + 1) % Period
    /\ cacheAge' = Older(cacheAge)
    /\ IF phase' = 0
       THEN /\ shown' = Sum([t \in Recent |-> events[t].occurrences], Recent)
            /\ Ask
       ELSE UNCHANGED <<shown, pending, fetch>>
    /\ UNCHANGED <<tail, written, lastDay, sick, events, misses>>

\* 24 hours, with the nightly retention: events are deleted by fired_at.
DayPasses ==
    /\ phase = 0 /\ fetch.state = "no"
    /\ LET Aged(d) == IF d > Retention THEN d ELSE d + 1 IN
        /\ lastDay' = [t \in Matching |-> Aged(lastDay[t])]
        /\ events' = [t \in Matching |->
            IF events[t] = NoEvent \/ events[t].fired >= Retention THEN NoEvent
            ELSE [events[t] EXCEPT !.fired = Aged(@), !.seen = Aged(@)]]
    /\ cacheAge' = Period
    /\ UNCHANGED <<tail, written, sick, phase, pending, fetch, shown, misses>>

MiningNext ==
    \/ \E t \in Text : WriteLine(t)
    \/ HealthChanges \/ ViewContainer \/ AgentAnswers \/ HandleLogs
    \/ FetchFails \/ HubRestarts
    \/ FiveMinutes \/ DayPasses

\* The cron fires, and an agent that is asked answers unless the fetch fails.
MiningFairness ==
    /\ WF_miningVars(FiveMinutes)
    /\ WF_miningVars(AgentAnswers)
    /\ WF_miningVars(HandleLogs)

MiningSpec == MiningInit /\ [][MiningNext]_miningVars /\ MiningFairness

-----------------------------------------------------------------------------
(* Properties.                                                             *)

InTail(t) == \E i \in DOMAIN tail : tail[i] = t

\* A line that matches and stays in the tail is recorded again and again, whatever fetches
\* failed before, and although the retention deletes what was recorded: the mark of a
\* pending fetch blocks those after it for no longer than the fetch takes.
MatchesSettle == \A t \in Matching : []<>(InTail(t) => events[t] # NoEvent)

\* The insight says "Matched n x in last 24h" of the lines.  (Fails: README, findings.)
OccurrencesAreReal == shown <= Sum(written, Matching)

\* A pattern that has matched a line of the last 24 hours, and has recorded it, is shown and
\* can explain an alert.  (Fails: README, findings.)
RecurrenceIsShown == \A t \in Matching :
    events[t] # NoEvent /\ events[t].seen = 0 /\ lastDay[t] = 0 => t \in Recent

\* Conversely, what is shown as an event of the last 24 hours is one.
\* (Fails: README, findings.)
RecentIsRecent == \A t \in Recent : lastDay[t] = 0

\* The diagnoses of the insights cron read the lines that the cron before fetched.
\* (Fails: README, findings.)
CronSeesLogs ==
    [][phase' = 0 /\ phase # 0 /\ misses = 0 => cacheAge' <= 1]_miningVars
=============================================================================
