---------------------------- MODULE MCMarketData ----------------------------
(***************************************************************************)
(* The way of the market data for TLC, three components side by side: the  *)
(* breaker that guards the backend's calls of the engine, the stream of    *)
(* ticks, and the table of candles.  One of them runs in a behaviour and   *)
(* the others rest, so that their state graphs add up.                     *)
(***************************************************************************)
EXTENDS CircuitBreaker

CONSTANTS Starts, MaxRetries, MaxRestarts,
          FirstMinute, LastMinute, Width, Lookback, History, Retention, Chunk, Batch,
          HoleOver, Pool, MaxInFlight, Streams, MaxOutages, MaxDeaths, MaxGapJobs

VARIABLES part,
          stConnected, stErrors, stRecorded, stOrphans, stStart, stChecked, stRecovering,
          stRestarts,
          cdNow, cdTicks, cdStreaming, cdCandle, cdOutages, cdUp, cdDeaths, cdPrev, cdBucket,
          cdStatements, cdRow, cdHigher, cdJob, cdGapJobs

ST == INSTANCE CandleStream WITH
      connected <- stConnected, errors <- stErrors, recorded <- stRecorded,
      orphans <- stOrphans, start <- stStart, checked <- stChecked,
      recovering <- stRecovering, restarts <- stRestarts

CD == INSTANCE Candles WITH
      now <- cdNow, ticks <- cdTicks, streaming <- cdStreaming, candle <- cdCandle,
      outages <- cdOutages, serving <- cdUp, deaths <- cdDeaths, prev <- cdPrev,
      bucket <- cdBucket, statements <- cdStatements, row <- cdRow, higher <- cdHigher,
      job <- cdJob, gapJobs <- cdGapJobs

stVars == <<stConnected, stErrors, stRecorded, stOrphans, stStart, stChecked, stRecovering,
            stRestarts>>
cdVars == <<cdNow, cdTicks, cdStreaming, cdCandle, cdOutages, cdUp, cdDeaths, cdPrev, cdBucket,
            cdStatements, cdRow, cdHigher, cdJob, cdGapJobs>>
marketVars == <<part, vars, stVars, cdVars>>

Breaker(A) == part = "breaker" /\ A /\ UNCHANGED <<part, stVars, cdVars>>
Stream(A) == part = "stream" /\ A /\ UNCHANGED <<part, vars, cdVars>>
Table(A) == part = "candles" /\ A /\ UNCHANGED <<part, vars, stVars>>

-----------------------------------------------------------------------------
\* The candles are streamed without gap-filling jobs and deaths of the backend,
\* or not streamed and with one of the two.
MarketInit ==
    /\ part \in {"breaker", "stream", "candles"}
    /\ Init /\ ST!StreamInit /\ CD!CandleInit
    /\ part # "breaker" => up
    /\ part # "candles" => cdStreaming /\ \A m \in 1..FirstMinute - 1 : cdRow[m] = CD!Whole
    /\ cdDeaths + cdGapJobs = IF cdStreaming THEN MaxDeaths + MaxGapJobs
                               ELSE MaxDeaths + MaxGapJobs - 1

MarketNext == Breaker(Next) \/ Stream(ST!StreamNext) \/ Table(CD!CandleNext)

\* The fairness of the breaker's FairSpec.  The health check and the
\* micro-backfill run on timers, coroutines and statements go on, and neither the
\* engine nor the broker fails for ever; time passes.
MarketSpec ==
    /\ MarketInit /\ [][MarketNext]_marketVars
    /\ \A c \in Callers : WF_marketVars(Breaker(Return(c))) /\ WF_marketVars(Breaker(Execute(c)))
    /\ WF_marketVars(Breaker(Elapse))
    /\ WF_marketVars(Stream(ST!HealthCheck(TRUE))) /\ WF_marketVars(Stream(ST!RecoveryEnds))
    /\ SF_marketVars(Stream(\E s \in Starts : ST!RecoverStream(s, TRUE)))
    /\ \A s \in Starts :
          /\ WF_marketVars(Stream(ST!Record(s)))
          /\ WF_marketVars(Stream(\E b \in BOOLEAN : ST!Reconnect(s, b)))
          /\ SF_marketVars(Stream(ST!Subscribe(s, TRUE, TRUE)))
    /\ WF_marketVars(Table(CD!Tick \/ CD!NextMinute)) /\ WF_marketVars(Table(CD!ExecuteStatement))
    /\ WF_marketVars(Table(CD!BackendStarts)) /\ WF_marketVars(Table(CD!MicroBackfill))
    /\ WF_marketVars(Table(CD!JobNext("micro"))) /\ SF_marketVars(Table(CD!AskRecent(TRUE)))

-----------------------------------------------------------------------------
\* The properties of the components, under their names there, in the behaviours
\* in which the component runs.
StreamRestarts == part = "stream" => ST!StreamRestarts
RecentIsRepaired == part = "candles" => CD!RecentIsRepaired
AggregateIsKept == CD!AggregateIsKept
=============================================================================
