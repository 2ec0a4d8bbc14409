------------------------------ MODULE Rollups ------------------------------
(* Hourly rollups and retention (hub/src/db/rollups.ts, pruneOldData of
   hub/src/db/schema.ts).  A row of a snapshot table is rolled up into the
   bucket of its hour, and deleted when it is older than the raw retention.
   A row's time is written by SQLite with a space ("2026-01-05 01:10:00"),
   the end of a rollup by toISOString with a "T" ("2026-01-05T01:00:00"), and
   SQL compares the two as strings: Before below is that comparison.

   Time is counted in ticks.  A crash may fall between two days of a rollup,
   each statement being a transaction of its own. *)
EXTENDS Integers, FiniteSets

CONSTANTS
    TicksPerHour,
    HoursPerDay,
    PruneHour,      \* the hour of the daily run, 3 in the code
    Lookback,       \* days a first run goes back, 7 in the code
    RawDays,        \* days a row is kept
    Horizon         \* bound: the last tick

VARIABLES
    now,
    rows,           \* the snapshot table: the ticks a row was collected at
    buckets,        \* hour -> the rows counted in its rollup, {} when there is none
    lastRollup,     \* meta.last_rollup_at, a stamp, or None
    run,            \* the rollup being computed: its cursor and end, or Idle
    ranAt,          \* the tick of the last run, which the cron fires once
    lost            \* history: the rows deleted while no bucket counts them

rollupVars == <<now, rows, buckets, lastRollup, run, ranAt, lost>>

TicksPerDay == TicksPerHour * HoursPerDay
None == [at |-> -1, mark |-> 0]
Idle == [cursor |-> None, end |-> None]

HourOf(t) == t \div TicksPerHour
DayOf(t) == t \div TicksPerDay

\* "YYYY-MM-DD HH:MM:SS" of SQLite, and "YYYY-MM-DDTHH:MM:SS" of toISOString:
\* ' ' sorts before 'T'.
Spaced(t) == [at |-> t, mark |-> 0]
Iso(t) == [at |-> t, mark |-> 1]

\* s < t as strings: the day, then the mark, then the time of day.
Before(s, t) ==
    \/ DayOf(s.at) < DayOf(t.at)
    \/ /\ DayOf(s.at) = DayOf(t.at)
       /\ \/ s.mark < t.mark
          \/ s.mark = t.mark /\ s.at < t.at

AtMostOf(t, low) == IF t < low THEN low ELSE t

\* "Stop 2 hours ago", at a full hour, in the format of toISOString.
StopBefore == Iso((HourOf(now) - 2) * TicksPerHour)

\* Where a run starts: the end of the last one, or a few days ago.
StartFrom == IF lastRollup = None
             THEN Spaced(AtMostOf(now - Lookback * TicksPerDay, 0)) ELSE lastRollup

\* One day further, in SQLite's format again.
AdvanceDay(cursor, end) ==
    LET next == Spaced(cursor.at + TicksPerDay)
    IN  IF Before(next, end) THEN next ELSE end

\* WHERE collected_at >= from AND collected_at < to
RowsBetween(from, to) ==
    {t \in rows : ~Before(Spaced(t), from) /\ Before(Spaced(t), to)}

\* INSERT OR IGNORE ... GROUP BY bucket: a bucket that exists keeps its counts.
RollUp(from, to) ==
    [h \in DOMAIN buckets |->
        IF buckets[h] # {} THEN buckets[h]
        ELSE {t \in RowsBetween(from, to) : HourOf(t) = h}]

-----------------------------------------------------------------------------
RollupInit ==
    /\ now = 0
    /\ rows = {}
    /\ buckets = [h \in 0 .. HourOf(Horizon) |-> {}]
    /\ lastRollup = None
    /\ run = Idle
    /\ ranAt = -1
    /\ lost = {}

\* An agent's batch is ingested.
Collect ==
    /\ run = Idle
    /\ now \notin rows
    /\ rows' = rows \union {now}
    /\ UNCHANGED <<now, buckets, lastRollup, run, ranAt, lost>>

\* pruneOldData after computeRollups: the raw rows, then the timestamp.
Prune(rolled) ==
    LET kept == {t \in rows : t >= now - RawDays * TicksPerDay}
    IN  /\ rows' = kept
        /\ lost' = lost \union {t \in rows \ kept : t \notin rolled[HourOf(t)]}

\* The daily run, or the one of a start of the hub, which may be at any time.
StartRun ==
    /\ run = Idle
    /\ ranAt # now
    /\ ranAt' = now
    /\ IF Before(StartFrom, StopBefore)
       THEN /\ run' = [cursor |-> StartFrom, end |-> StopBefore]
            /\ UNCHANGED <<rows, lost>>
       ELSE run' = Idle /\ Prune(buckets)
    /\ UNCHANGED <<now, buckets, lastRollup>>

\* One turn of the loop; after the last one the cursor is kept in meta and the
\* old rows are deleted.
RollUpDay ==
    /\ run # Idle
    /\ LET next == AdvanceDay(run.cursor, run.end)
           rolled == RollUp(run.cursor, next)
       IN  /\ buckets' = rolled
           /\ IF Before(next, run.end)
              THEN /\ run' = [run EXCEPT !.cursor = next]
                   /\ UNCHANGED <<rows, lastRollup, lost>>
              ELSE /\ run' = Idle
                   /\ lastRollup' = run.end
                   /\ Prune(rolled)
    /\ UNCHANGED <<now, ranAt>>

\* The hub ends between two turns; it runs again at its next start.
RollupCrash ==
    /\ run # Idle
    /\ run' = Idle
    /\ ranAt' = -1
    /\ UNCHANGED <<now, rows, buckets, lastRollup, lost>>

\* Time passes; the daily run is not skipped.
RollupTick ==
    /\ run = Idle
    /\ now < Horizon
    /\ HourOf(now) % HoursPerDay = PruneHour => ranAt = now
    /\ now' = now + 1
    /\ UNCHANGED <<rows, buckets, lastRollup, run, ranAt, lost>>

RollupNext == Collect \/ StartRun \/ RollUpDay \/ RollupCrash \/ RollupTick

RollupSpec == RollupInit /\ [][RollupNext]_rollupVars

-----------------------------------------------------------------------------
(* A raw row is deleted only when the rollup of its hour counts it: "Roll up
   any un-rolled-up data before deleting" (hub/src/db/schema.ts:1550).  The end
   of a rollup, with its "T", sorts after every row of its own day: a run takes
   the rows of the day so far, the hours still running too, and the next one
   starts after the whole day, so the rest of that day never gets a bucket. *)
RolledUpBeforePruned == lost = {}
=============================================================================
