------------------------------ MODULE Candles -------------------------------
(***************************************************************************)
(* The candles of one instrument in the backend's table.  Four writers     *)
(* share it: the subscriber of the live snapshots, whose upserts are sent  *)
(* without waiting, the micro-backfill of each minute, the gap-filling     *)
(* jobs, and the retention.  Time is counted in minutes and a minute has   *)
(* two ticks, so a 1m candle is whole or part; of the six higher           *)
(* timeframes there is one, whose candles are the minutes they hold.  A    *)
(* snapshot is handled when it is published: what its delay would delay    *)
(* are its statements, which stay in flight as long as they like.          *)
(***************************************************************************)
EXTENDS Integers, Sequences, FiniteSets, SequencesExt

CONSTANTS FirstMinute, LastMinute,  \* bound: the minutes of a behaviour
          Width,        \* minutes of a candle of the higher timeframe
          Lookback,     \* MICRO_BACKFILL_LOOKBACK_MINUTES
          History,      \* BACKFILL_MONTHS
          Retention,    \* CANDLE_RETENTION_DAYS
          Chunk,        \* CHUNK_DAYS_1M
          Batch,        \* DERIV_BATCH_LIMIT
          HoleOver,     \* gapThresholdMinutes
          Pool,         \* connections to the database
          MaxInFlight,  \* bound: statements in flight when a tick comes
          Streams,      \* whether ticks are streamed at first
          MaxOutages,   \* bound: breaks of the stream
          MaxDeaths,    \* bound: deaths of the backend
          MaxGapJobs    \* bound: gap-filling jobs

VARIABLES
    now, ticks,     \* the minute and its ticks so far
    streaming,      \* ticks reach the streamer
    candle,         \* the streamer's candle in progress
    outages,
    serving,        \* the backend runs
    deaths,
    prev, bucket,   \* the subscriber's prev1mTimestamp and bucket
    statements,     \* its upserts that are in flight, in the order sent
    row, higher,    \* the table
    job, gapJobs    \* the backfill jobs of the backend

timeVars == <<now, ticks>>
liveVars == <<streaming, candle, outages>>
subscriberVars == <<prev, bucket, statements>>
tableVars == <<row, higher>>
jobVars == <<job, gapJobs>>
candleVars == <<timeVars, liveVars, serving, deaths, subscriberVars, tableVars, jobVars>>

Minutes == 1..LastMinute
BucketOf(m) == m - (m % Width)
Buckets == {BucketOf(m) : m \in Minutes}
NoRow == [q |-> "none", done |-> FALSE]
Whole == [q |-> "whole", done |-> TRUE]
NoCandle == [minute |-> 0, got |-> {}]
NoBucket == [start |-> -1, has |-> {}]
Idle == [todo |-> <<>>, put |-> {}, write |-> {}]
Quality(got) == IF got = {1, 2} THEN "whole" ELSE "part"

CandleInit ==
    /\ now = FirstMinute /\ ticks = 0
    /\ streaming \in Streams /\ candle = NoCandle /\ outages = 0
    /\ serving = TRUE /\ deaths \in 0..MaxDeaths /\ prev = 0 /\ bucket = NoBucket /\ statements = <<>>
    /\ \E old \in SUBSET (1..FirstMinute - 1) :
          row = [m \in Minutes |-> IF m \in old THEN Whole ELSE NoRow]
    /\ higher = [b \in Buckets |-> [has |-> {m \in Minutes : BucketOf(m) = b /\ row[m] = Whole},
                                    done |-> \E m \in Minutes : BucketOf(m) = b /\ row[m] = Whole]]
    /\ job = [j \in {"micro", "gap"} |-> Idle] /\ gapJobs \in 0..MaxGapJobs

-----------------------------------------------------------------------------
\* upsertCandle: a forced upsert replaces the candle and completes it, a live
\* one leaves a completed candle alone.
Upserted(old, new, force) ==
    IF ~force /\ old.done THEN old ELSE [new EXCEPT !.done = force]

Mark(m) == [do |-> "mark", at |-> m, new |-> NoRow, force |-> FALSE]
Row(m, q, force) == [do |-> "row", at |-> m, new |-> [q |-> q, done |-> FALSE], force |-> force]
Higher(b, force) ==
    [do |-> "higher", at |-> b.start, new |-> [has |-> b.has, done |-> FALSE], force |-> force]

\* handleCandleMessage of one snapshot: the statements it sends and the bucket
\* it leaves.  A final snapshot is forced.
MergedBucket(b, m) ==
    IF b.start = BucketOf(m) THEN [b EXCEPT !.has = @ \cup {m}]
    ELSE [start |-> BucketOf(m), has |-> {m}]

Sent(p, b, msg) ==
    (IF p \notin {0, msg.minute} THEN <<Mark(p)>> ELSE <<>>)
    \o <<Row(msg.minute, msg.q, msg.final)>>
    \o (IF b.start \notin {-1, BucketOf(msg.minute)} THEN <<Higher(b, TRUE)>> ELSE <<>>)
    \o <<Higher(MergedBucket(b, msg.minute), FALSE)>>

Hear(h, msg) ==
    [p |-> msg.minute, b |-> MergedBucket(h.b, msg.minute), s |-> h.s \o Sent(h.p, h.b, msg)]

\* One of the statements on a connection is executed.
ExecuteStatement ==
    /\ \E i \in 1..Len(statements) :
          /\ i <= Pool
          /\ LET s == statements[i] IN
             /\ row' = CASE s.do = "mark" /\ row[s.at].q # "none" -> [row EXCEPT ![s.at].done = TRUE]
                         [] s.do = "row" -> [row EXCEPT ![s.at] = Upserted(@, s.new, s.force)]
                         [] OTHER -> row
             /\ higher' = IF s.do = "higher"
                            THEN [higher EXCEPT ![s.at] = Upserted(@, s.new, s.force)] ELSE higher
          /\ statements' = RemoveAt(statements, i)
    /\ UNCHANGED <<timeVars, liveVars, serving, deaths, prev, bucket, jobVars>>

-----------------------------------------------------------------------------
\* on_tick.  The first tick of another minute publishes the final snapshot of
\* the candle in progress; it is published itself at once, a later one when the
\* last publication is a second old.
Snapshot(c, final) == [minute |-> c.minute, q |-> Quality(c.got), final |-> final]

OnTick(n, due) ==
    LET fresh == candle.minute # now
        c == [minute |-> now, got |-> IF fresh THEN {n} ELSE candle.got \cup {n}]
        before == [p |-> prev, b |-> bucket, s |-> statements]
        ended == IF fresh /\ candle # NoCandle THEN Hear(before, Snapshot(candle, TRUE)) ELSE before
        heard == IF fresh \/ due THEN Hear(ended, Snapshot(c, FALSE)) ELSE ended
    IN  /\ candle' = c
        /\ IF serving THEN prev' = heard.p /\ bucket' = heard.b /\ statements' = heard.s
           ELSE UNCHANGED subscriberVars

Tick ==
    /\ ticks < 2 /\ ticks' = ticks + 1 /\ Len(statements) <= MaxInFlight
    /\ IF streaming THEN \E due \in BOOLEAN : OnTick(ticks + 1, due)
       ELSE UNCHANGED <<candle, subscriberVars>>
    /\ UNCHANGED <<now, streaming, outages, serving, deaths, tableVars, jobVars>>

NextMinute ==
    /\ ticks = 2 /\ now < LastMinute /\ now' = now + 1 /\ ticks' = 0
    /\ UNCHANGED <<liveVars, serving, deaths, subscriberVars, tableVars, jobVars>>

\* A stream that comes back finds the candle of the minute it broke in.
StreamBreaks ==
    /\ streaming /\ outages < MaxOutages /\ streaming' = FALSE /\ outages' = outages + 1
    /\ UNCHANGED <<timeVars, candle, serving, deaths, subscriberVars, tableVars, jobVars>>
StreamResumes ==
    /\ ~streaming /\ outages > 0 /\ streaming' = TRUE
    /\ UNCHANGED <<timeVars, candle, outages, serving, deaths, subscriberVars, tableVars, jobVars>>

\* Buckets, jobs and statements are in memory.
BackendDies ==
    /\ serving /\ deaths < MaxDeaths /\ deaths' = deaths + 1 /\ serving' = FALSE
    /\ prev' = 0 /\ bucket' = NoBucket /\ statements' = <<>> /\ job' = [j \in DOMAIN job |-> Idle]
    /\ UNCHANGED <<timeVars, liveVars, tableVars, gapJobs>>

\* handleRetention, which deletes candles of every timeframe.
Retain ==
    /\ serving /\ \E m \in Minutes : m < now - Retention /\ row[m] # NoRow
    /\ row' = [m \in Minutes |-> IF m < now - Retention THEN NoRow ELSE row[m]]
    /\ higher' = [b \in Buckets |-> IF b < now - Retention THEN [has |-> {}, done |-> FALSE]
                                    ELSE higher[b]]
    /\ UNCHANGED <<timeVars, liveVars, serving, deaths, subscriberVars, jobVars>>

-----------------------------------------------------------------------------
\* The backfill jobs.  A job is a list of tasks over a range of minutes, the 1m
\* candles of the last answer it still has to write, and the candles of the
\* higher timeframe it still has to write.
Task(do, from, to) == [do |-> do, from |-> from, to |-> to]
Refill(from, to) == <<Task("fill", from, to), Task("aggregate", from, to)>>
Lists(S) == SetToSortSeq(S, <)
Lowest(S) == CHOOSE m \in S : \A n \in S : m <= n
Highest(S) == CHOOSE m \in S : \A n \in S : m >= n
Persisted == {m \in Minutes : row[m] # NoRow}

\* The 1m candles of the broker: of the current minute there is what was traded.
Traded == {m \in Minutes : m < now \/ (m = now /\ ticks > 0)}
Candle(m) == [at |-> m, q |-> IF m = now /\ ticks < 2 THEN "part" ELSE "whole"]

\* get_historical goes back in batches and ends with the first that fails.
Answers(t, works) ==
    {{Candle(m) : m \in {n \in Traded : t.from <= n /\ n <= t.to /\ n > cut}} :
        cut \in IF works THEN {t.from - 1} ELSE {t.to - k * Batch : k \in 0..t.to \div Batch}}

Running(j) == serving /\ job[j].todo # <<>> /\ job[j].put = {} /\ job[j].write = {}
At(j, do) == Running(j) /\ Head(job[j].todo).do = do
BeginJob(j, tasks) ==
    /\ serving /\ job[j] = Idle /\ job' = [job EXCEPT ![j].todo = tasks]
    /\ gapJobs' = gapJobs + (IF j = "gap" THEN 1 ELSE 0) /\ gapJobs' <= MaxGapJobs
    /\ UNCHANGED <<timeVars, liveVars, serving, deaths, subscriberVars, tableVars>>
Replace(j, tasks) == job' = [job EXCEPT ![j].todo = tasks \o Tail(@)]
JobStep == UNCHANGED <<timeVars, liveVars, serving, deaths, subscriberVars, gapJobs>>

\* Minutes between lookbackStart, which is no full minute, and now.
RecentFrom == now - Lookback + 1
MicroBackfill ==
    BeginJob("micro", <<Task("recent", RecentFrom, now), Task("aggregate", RecentFrom, now)>>)

PeriodicGapFill ==
    BeginJob("gap", <<Task("gap fill", 0, 0), Task("flat", 0, 0), Task("recover", 0, 0)>>)

\* A restarted backend: autoStartWithGapFill.
BackendStarts ==
    /\ ~serving /\ serving' = TRUE
    /\ job' = [job EXCEPT !["gap"].todo = <<Task("gap fill", 0, 0), Task("recover", 0, 0)>>]
    /\ UNCHANGED <<timeVars, liveVars, deaths, subscriberVars, tableVars, gapJobs>>

\* triggerBackfill, of a user or of an activated instrument: hasFreshData is
\* whether the last candle is recent.
Oldest == IF now > History THEN now - History ELSE 1
TriggerBackfill(force) ==
    /\ force \/ \A m \in Persisted : m <= now - Lookback
    /\ BeginJob("gap", Refill(Oldest, now))

\* The request of the micro-backfill: no answer ends it, before the aggregation.
AskRecent(works) ==
    /\ At("micro", "recent")
    /\ \E answer \in Answers(Head(job["micro"].todo), works) :
          job' = IF answer = {} THEN [job EXCEPT !["micro"] = Idle]
                 ELSE [job EXCEPT !["micro"].put = answer, !["micro"].todo = Tail(@)]
    /\ JobStep /\ UNCHANGED tableVars

\* backfill1mChunked: from the end of the range to its start, a failed chunk is
\* skipped.  An empty range is not asked for.
AskChunk(works) ==
    /\ At("gap", "fill")
    /\ LET t == Head(job["gap"].todo)
           from == IF t.to - Chunk < t.from THEN t.from ELSE t.to - Chunk
           rest == IF from > t.from THEN <<Task("fill", t.from, from)>> ELSE <<>>
       IN  \/ t.to <= t.from /\ works /\ Replace("gap", <<>>)
           \/ /\ t.to > t.from
              /\ \E answer \in Answers([t EXCEPT !.from = from], works) :
                    job' = [job EXCEPT !["gap"].put = answer, !["gap"].todo = rest \o Tail(@)]
    /\ JobStep /\ UNCHANGED tableVars

\* Fault: without force.
PutUnforced(j) ==
    /\ serving /\ job[j].put # {}
    /\ row' = [m \in Minutes |-> IF \E c \in job[j].put : c.at = m
                 THEN LET c == CHOOSE d \in job[j].put : d.at = m
                      IN  Upserted(row[m], [q |-> c.q, done |-> FALSE], FALSE)
                 ELSE row[m]]
    /\ job' = [job EXCEPT ![j].put = {}]
    /\ JobStep /\ UNCHANGED higher

\* The upserts of an answer, which concern different candles.
PutCandles(j) ==
    /\ serving /\ job[j].put # {}
    /\ row' = [m \in Minutes |-> IF \E c \in job[j].put : c.at = m
                 THEN LET c == CHOOSE d \in job[j].put : d.at = m
                      IN  Upserted(row[m], [q |-> c.q, done |-> FALSE], TRUE)
                 ELSE row[m]]
    /\ job' = [job EXCEPT ![j].put = {}]
    /\ JobStep /\ UNCHANGED higher

\* reaggregateHigherTimeframes and reaggregateSingleTimeframe: read the 1m
\* candles of the range, then write what was made of them.
Aggregated(from, to) ==
    LET read == {m \in Persisted : from <= m /\ m <= to}
    IN  {[at |-> b, has |-> {m \in read : BucketOf(m) = b}] : b \in {BucketOf(m) : m \in read}}

Aggregate(j) ==
    /\ At(j, "aggregate")
    /\ LET t == Head(job[j].todo)
       IN  job' = [job EXCEPT ![j].todo = Tail(@), ![j].write = Aggregated(t.from, t.to)]
    /\ JobStep /\ UNCHANGED tableVars

PutAggregates(j) ==
    /\ serving /\ job[j].write # {}
    /\ higher' = [b \in Buckets |-> IF \E w \in job[j].write : w.at = b
                    THEN LET w == CHOOSE v \in job[j].write : v.at = b
                         IN  Upserted(higher[b], [has |-> w.has, done |-> FALSE], TRUE)
                    ELSE higher[b]]
    /\ job' = [job EXCEPT ![j].write = {}]
    /\ JobStep /\ UNCHANGED row

\* gapFillInstrument: the ends of the history first, then its inside.
GapFill ==
    /\ At("gap", "gap fill")
    /\ LET first == Lowest(Persisted)  latest == Highest(Persisted)
           inside == <<Task("holes", 0, 0), Task("higher", 0, 0)>>
       IN  Replace("gap",
             IF Persisted = {} THEN Refill(Oldest, now)
             ELSE (IF first - Oldest > 1 THEN Refill(Oldest, first) ELSE <<>>)
                  \o (IF now - latest < 2 THEN <<>> ELSE Refill(latest, now))
                  \o inside)
    /\ JobStep /\ UNCHANGED tableVars

\* detectInternalGaps: pairs of consecutive candles that are too far apart.
Holes == {h \in Persisted \X Persisted :
             h[2] - h[1] > HoleOver /\ \A k \in Persisted : k <= h[1] \/ k >= h[2]}
DetectInternalGaps ==
    /\ At("gap", "holes")
    /\ LET starts == Lists({h[1] : h \in Holes})
           End(m) == CHOOSE n \in Persisted : <<m, n>> \in Holes
       IN  Replace("gap", FlattenSeq([i \in DOMAIN starts |-> Refill(starts[i], End(starts[i]))]))
    /\ JobStep /\ UNCHANGED tableVars

\* detectAndFillHigherTimeframeGaps: a missing timeframe, then one that starts
\* late or ends early, then one with less than half of its candles.
DetectHigherGaps ==
    /\ At("gap", "higher")
    /\ LET there == {b \in Buckets : higher[b].has # {}}
           first == Lowest(Persisted)  latest == Highest(Persisted)
           expected == (latest - first) \div Width
           Again(wanted, from, to) == IF wanted THEN <<Task("aggregate", from, to)>> ELSE <<>>
       IN  Replace("gap",
             IF Persisted = {} THEN <<>>
             ELSE IF there = {} THEN Again(TRUE, first, latest)
             ELSE Again(Lowest(there) - first > Width, first, Lowest(there))
                  \o Again(latest - Highest(there) > Width, Highest(there), latest)
                  \o Again(2 * Cardinality(there) < expected /\ expected > 10, first, latest))
    /\ JobStep /\ UNCHANGED tableVars

\* refillFlatCandles: of the candles that are part some are flat.  A flat answer
\* is not written.
RefillFlat ==
    /\ At("gap", "flat")
    /\ \E flat \in SUBSET {m \in Persisted : row[m].q = "part"} :
          Replace("gap", IF flat = {} THEN <<>>
                         ELSE <<Task("refill", Lowest(flat) - 1, Highest(flat) + 1),
                                Task("aggregate", Lowest(flat), Highest(flat))>>)
    /\ JobStep /\ UNCHANGED tableVars

\* The request of a range of flat candles: no answer, no aggregation.
AskFlat(works) ==
    /\ At("gap", "refill")
    /\ \E answer \in Answers(Head(job["gap"].todo), works) :
          job' = [job EXCEPT !["gap"].put = {c \in answer : c.q = "whole"},
                             !["gap"].todo = IF answer = {} THEN Tail(Tail(@)) ELSE Tail(@)]
    /\ JobStep /\ UNCHANGED tableVars

\* recoverIncompleteCandles: buckets that are over and not completed.
RecoverIncomplete ==
    /\ At("gap", "recover")
    /\ LET open == Lists({b \in Buckets : higher[b].has # {} /\ ~higher[b].done /\ b + Width < now})
       IN  Replace("gap", [i \in DOMAIN open |-> Task("aggregate", open[i], open[i] + Width)])
    /\ JobStep /\ UNCHANGED tableVars

-----------------------------------------------------------------------------
JobNext(j) == PutCandles(j) \/ Aggregate(j) \/ PutAggregates(j)

CandleNext ==
    \/ Tick \/ NextMinute \/ StreamBreaks \/ StreamResumes \/ ExecuteStatement
    \/ BackendDies \/ BackendStarts \/ Retain
    \/ MicroBackfill \/ PeriodicGapFill \/ JobNext("micro") \/ JobNext("gap")
    \/ \E b \in BOOLEAN : TriggerBackfill(b) \/ AskRecent(b) \/ AskChunk(b) \/ AskFlat(b)
    \/ GapFill \/ DetectInternalGaps \/ DetectHigherGaps \/ RefillFlat \/ RecoverIncomplete

-----------------------------------------------------------------------------
\* Whatever the stream, its statements and the other jobs left in the table, the
\* candles of the last minutes become whole and stay so.
RecentIsRepaired ==
    <>[](now = LastMinute /\ \A m \in Minutes : m >= RecentFrom => row[m] = Whole)

\* A completed candle of the higher timeframe keeps the minutes it holds
\* (backfill.service.ts: "Re-aggregate higher timeframes from persisted 1m candles").
AggregateIsKept ==
    [][\A b \in Buckets : higher[b].done /\ higher'[b].done =>
                              higher[b].has \subseteq higher'[b].has]_candleVars
=============================================================================
