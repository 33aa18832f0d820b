--------------------------- MODULE StrategyRunner ---------------------------
(***************************************************************************)
(* The live signal pipeline of the strategy engine: StrategyRunner turns   *)
(* candle updates into analysis cycles of the strategies that are on,      *)
(* publishes their signals, hands them to the SignalPersister and          *)
(* remembers their zones.  A signal stands for the zone (order block) it   *)
(* comes from; the instrument is fixed.  ConfigLoader and AlgorithmManager *)
(* have how the configurations and the algorithms come about.              *)
(***************************************************************************)
EXTENDS Naturals, Sequences

CONSTANTS Strategies,
          Zones,          \* order blocks the algorithm may find
          MaxProcessed,   \* MAX_PROCESSED_PER_STRATEGY
          ResultFields,   \* top-level fields of a trade_exit message on trades:results
          MaxCandles,     \* bound: candle updates
          MaxLosses,      \* bound: trades that end with a loss
          MaxModes,       \* bound: changes of the configurations
          MaxBreaks       \* bound: Redis and connection failures

ASSUME RunnerAssumption ==
    /\ MaxProcessed \in Nat \ {0}
    /\ MaxCandles \in Nat /\ MaxLosses \in Nat /\ MaxModes \in Nat /\ MaxBreaks \in Nat

VARIABLES
    active,      \* the configurations the loader gives: off, live or forward_test
    modes,       \* changes of active so far
    subscribed,  \* listeners with a connection: "candles", "results"
    inbox,       \* candle updates on their way to the candle thread
    results,     \* losing trade exits on their way to the result thread
    candles,     \* candle updates so far
    losses,      \* losing trade exits so far
    run,         \* the candle thread
    throttled,   \* strategies that ran within their entry timeframe
    processed,   \* _processed_obs of each strategy, oldest first
    invalidated, \* _invalidated_zones of each strategy
    mapped,      \* _signal_ob_map, as pairs of strategy and zone
    stream,      \* pairs in signals:stream
    persisted,   \* pairs handed to the SignalPersister
    breaks,      \* failures so far
    sent,        \* history: entries in the stream of a pair within its expiry
    excused      \* history: pairs evicted, or in the stream when their cycle failed

configVars == <<active, modes>>
linkVars == <<subscribed, inbox, results, losses>>
zoneVars == <<processed, invalidated, mapped>>
outVars == <<stream, persisted, sent, excused>>
runnerVars == <<configVars, linkVars, candles, run, throttled, zoneVars, outVars, breaks>>

Pairs == Strategies \X Zones
RunModes == {"off", "live", "forward_test"}
Resting == [pc |-> "idle", todo |-> {}, at |-> "none", mode |-> "off", found |-> {}, zone |-> "none"]

Entries(seq) == {seq[i] : i \in DOMAIN seq}

RunnerTypeOK ==
    /\ active \in [Strategies -> RunModes] /\ modes \in 0 .. MaxModes
    /\ candles \in 0 .. MaxCandles /\ losses \in 0 .. MaxLosses /\ breaks \in 0 .. MaxBreaks
    /\ subscribed \subseteq {"candles", "results"}
    /\ inbox \in 0 .. MaxCandles /\ results \subseteq Pairs
    /\ run.pc \in {"idle", "config", "next", "analyze", "signal", "overlay"}
    /\ throttled \subseteq Strategies
    /\ \A s \in Strategies : /\ Entries(processed[s]) \subseteq Zones
                             /\ Len(processed[s]) <= MaxProcessed
                             /\ \A i, j \in DOMAIN processed[s] :
                                    processed[s][i] = processed[s][j] => i = j
    /\ invalidated \in [Strategies -> SUBSET Zones]
    /\ mapped \subseteq Pairs /\ stream \subseteq Pairs /\ persisted \subseteq Pairs
    /\ excused \subseteq Pairs

RunnerInit ==
    /\ active \in [Strategies -> {"live", "forward_test"}] /\ modes = 0
    /\ subscribed = {} /\ inbox = 0 /\ results = {} /\ candles = 0 /\ losses = 0
    /\ run = Resting /\ throttled = {}
    /\ processed = [s \in Strategies |-> <<>>] /\ invalidated = [s \in Strategies |-> {}]
    /\ mapped = {} /\ stream = {} /\ persisted = {} /\ breaks = 0
    /\ sent = [p \in Pairs |-> 0] /\ excused = {}

Break == /\ breaks < MaxBreaks
         /\ breaks' = breaks + 1

-----------------------------------------------------------------------------
\* The loader's cache changes under the runner (ConfigLoader has how).
Reconfigured(s, mode) ==
    /\ modes < MaxModes /\ active[s] # mode
    /\ modes' = modes + 1
    /\ active' = [active EXCEPT ![s] = mode]
    /\ UNCHANGED <<linkVars, candles, run, throttled, zoneVars, outVars, breaks>>

-----------------------------------------------------------------------------
\* The two pub/sub listeners reconnect; what is published meanwhile is lost.

Subscribe(l) ==
    /\ l \notin subscribed
    /\ subscribed' = subscribed \cup {l}
    /\ UNCHANGED <<configVars, inbox, results, losses, candles, run, throttled, zoneVars,
                   outVars, breaks>>

\* The candle thread notices a broken connection when it polls again.
ConnectionBreaks(l) ==
    /\ l \in subscribed /\ (l = "candles" => run.pc = "idle")
    /\ Break
    /\ subscribed' = subscribed \ {l}
    /\ inbox' = IF l = "candles" THEN 0 ELSE inbox
    /\ results' = IF l = "results" THEN {} ELSE results
    /\ UNCHANGED <<configVars, losses, candles, run, throttled, zoneVars, outVars>>

CandleUpdate ==
    /\ candles < MaxCandles
    /\ candles' = candles + 1
    /\ inbox' = IF "candles" \in subscribed THEN inbox + 1 ELSE inbox
    /\ UNCHANGED <<configVars, subscribed, results, losses, run, throttled, zoneVars, outVars,
                   breaks>>

\* The trade of a signal ends with a loss and the execution engine publishes it.
TradeLoses(p) ==
    /\ losses < MaxLosses /\ losses' = losses + 1
    /\ p \in stream /\ p \notin results /\ "results" \in subscribed
    /\ results' = results \cup {p}
    /\ UNCHANGED <<configVars, subscribed, inbox, candles, run, throttled, zoneVars,
                   outVars, breaks>>

\* _handle_trade_result looks for the signal and its result at the top level.
Understood == {"signal_id", "profit_loss"} \subseteq ResultFields

HandleResult(p) ==
    /\ p \in results
    /\ results' = results \ {p}
    /\ invalidated' = IF Understood /\ p \in mapped
                      THEN [invalidated EXCEPT ![p[1]] = @ \cup {p[2]}] ELSE invalidated
    /\ UNCHANGED <<configVars, subscribed, inbox, losses, candles, run, throttled, processed,
                   mapped, stream, persisted, sent, excused, breaks>>

-----------------------------------------------------------------------------
\* _on_candle_update and _run_analysis_cycle, on the candle thread.

Continue(r) == /\ run' = r
               /\ UNCHANGED <<configVars, subscribed, results, candles, losses>>

TakeUpdate ==
    /\ run.pc = "idle" /\ inbox > 0
    /\ inbox' = inbox - 1
    /\ Continue([run EXCEPT !.pc = "config"])
    /\ UNCHANGED <<throttled, zoneVars, outVars, breaks>>

\* get_active_strategies: the update is served with the configurations of this moment.
StartStrategies ==
    /\ run.pc = "config"
    /\ Continue([run EXCEPT !.pc = "next",
                           !.todo = {<<s, active[s]>> : s \in {t \in Strategies : active[t] # "off"}}])
    /\ UNCHANGED <<inbox, throttled, zoneVars, outVars, breaks>>

\* A strategy that ran within its entry timeframe is passed over.
NextStrategy(c) ==
    /\ run.pc = "next" /\ c \in run.todo
    /\ Continue(IF c[1] \in throttled THEN [run EXCEPT !.todo = @ \ {c}]
                ELSE [run EXCEPT !.pc = "analyze", !.todo = @ \ {c}, !.at = c[1], !.mode = c[2]])
    /\ UNCHANGED <<inbox, throttled, zoneVars, outVars, breaks>>

UpdateServed ==
    /\ run.pc = "next" /\ run.todo = {}
    /\ Continue(Resting)
    /\ UNCHANGED <<inbox, throttled, zoneVars, outVars, breaks>>

\* Signals of sufficient confidence from zones that are not invalidated; without
\* candles, as after failed requests, there are none.
Analyze ==
    /\ run.pc = "analyze"
    /\ \E found \in SUBSET (Zones \ invalidated[run.at]) :
         Continue([run EXCEPT !.pc = "signal", !.found = found])
    /\ UNCHANGED <<inbox, throttled, zoneVars, outVars, breaks>>

\* A cycle that raises is counted, not throttled, and the next strategy is taken.
Abandon == Continue([Resting EXCEPT !.pc = "next", !.todo = run.todo])

\* The registry does not know the algorithm, or the algorithm raises.
AnalysisFails ==
    /\ run.pc = "analyze"
    /\ Break
    /\ Abandon
    /\ UNCHANGED <<inbox, throttled, zoneVars, outVars>>

Pair(z) == <<run.at, z>>
IsDuplicate(z) == z \in Entries(processed[run.at])

SkipDuplicate(z) ==
    /\ run.pc = "signal" /\ z \in run.found /\ IsDuplicate(z)
    /\ Continue([run EXCEPT !.found = @ \ {z}])
    /\ UNCHANGED <<inbox, throttled, zoneVars, outVars, breaks>>

\* _mark_processed: the oldest entry makes room for the new one.
Room(seq) == IF Len(seq) >= MaxProcessed THEN Tail(seq) ELSE seq
Evicted(seq) == Entries(seq) \ Entries(Room(seq))

\* Fault: a strategy at its cap remembers nothing new.
RememberBelowCap(seq, z) == IF Len(seq) >= MaxProcessed THEN Tail(seq) ELSE Append(seq, z)

Remember(seq, z) == Append(Room(seq), z)

\* Fault: only signals that were not traded are handed to the persister.
TradedOnly(p) == persisted' = IF run.mode = "live" THEN persisted ELSE persisted \cup {p}

HandOver(p) == persisted' = persisted \cup {p}

\* persist, _mark_processed and _signal_ob_map, none of which can fail.
Mark(z) ==
    /\ HandOver(Pair(z))
    /\ processed' = [processed EXCEPT ![run.at] = Remember(@, z)]
    /\ mapped' = mapped \cup {Pair(z)}
    /\ excused' = excused \cup {<<run.at, old>> : old \in Evicted(processed[run.at])}
    /\ UNCHANGED invalidated

\* A forward-test signal is recorded, not published.
RecordOnly(z) ==
    /\ run.pc = "signal" /\ z \in run.found /\ ~IsDuplicate(z) /\ run.mode = "forward_test"
    /\ Mark(z)
    /\ Continue([run EXCEPT !.found = @ \ {z}])
    /\ UNCHANGED <<inbox, throttled, stream, sent, breaks>>

Enters(p) == /\ stream' = stream \cup {p}
             /\ sent' = [sent EXCEPT ![p] = @ + 1]

\* _publish_live adds the signal to the stream, then publishes its overlay.
Publish(z) ==
    /\ run.pc = "signal" /\ z \in run.found /\ ~IsDuplicate(z) /\ run.mode = "live"
    /\ Enters(Pair(z))
    /\ Continue([run EXCEPT !.pc = "overlay", !.zone = z])
    /\ UNCHANGED <<inbox, throttled, zoneVars, persisted, excused, breaks>>

\* XADD raises, perhaps after Redis has added the entry.
PublishFails(z) ==
    /\ run.pc = "signal" /\ z \in run.found /\ ~IsDuplicate(z) /\ run.mode = "live"
    /\ Break
    /\ \/ UNCHANGED <<stream, sent, excused>>
       \/ Enters(Pair(z)) /\ excused' = excused \cup {Pair(z)}
    /\ Abandon
    /\ UNCHANGED <<inbox, throttled, zoneVars, persisted>>

OverlayPublished ==
    /\ run.pc = "overlay"
    /\ Mark(run.zone)
    /\ Continue([run EXCEPT !.pc = "signal", !.found = @ \ {run.zone}, !.zone = "none"])
    /\ UNCHANGED <<inbox, throttled, stream, sent, breaks>>

\* The overlay raises: the signal is in the stream, but neither persisted nor remembered.
OverlayFails ==
    /\ run.pc = "overlay"
    /\ Break
    /\ excused' = excused \cup {Pair(run.zone)}
    /\ Abandon
    /\ UNCHANGED <<inbox, throttled, zoneVars, stream, persisted, sent>>

CycleDone ==
    /\ run.pc = "signal" /\ run.found = {}
    /\ throttled' = throttled \cup {run.at}
    /\ Continue([Resting EXCEPT !.pc = "next", !.todo = run.todo])
    /\ UNCHANGED <<inbox, zoneVars, outVars, breaks>>

\* The entry timeframe of a strategy passes.
IntervalPasses(s) ==
    /\ s \in throttled
    /\ throttled' = throttled \ {s}
    /\ UNCHANGED <<configVars, linkVars, candles, run, zoneVars, outVars, breaks>>

\* The 24 hours of the oldest entry of a strategy are over.
ExpireOldest(s) ==
    /\ processed[s] # <<>>
    /\ processed' = [processed EXCEPT ![s] = Tail(@)]
    /\ sent' = [sent EXCEPT ![<<s, Head(processed[s])>>] = 0]
    /\ UNCHANGED <<configVars, linkVars, candles, run, throttled, invalidated, mapped,
                   stream, persisted, excused, breaks>>

CandleThread ==
    \/ TakeUpdate \/ StartStrategies \/ UpdateServed \/ Analyze
    \/ AnalysisFails \/ OverlayPublished \/ OverlayFails \/ CycleDone
    \/ \E c \in run.todo : NextStrategy(c)
    \/ \E z \in run.found : SkipDuplicate(z) \/ RecordOnly(z) \/ Publish(z) \/ PublishFails(z)

RunnerNext ==
    \/ CandleThread \/ CandleUpdate
    \/ \E s \in Strategies : IntervalPasses(s) \/ ExpireOldest(s)
    \/ \E s \in Strategies, mode \in RunModes : Reconfigured(s, mode)
    \/ \E l \in {"candles", "results"} : Subscribe(l) \/ ConnectionBreaks(l)
    \/ \E p \in Pairs : TradeLoses(p) \/ HandleResult(p)

\* The threads run; what they call ends within its timeouts.
RunnerSpec == /\ RunnerInit /\ [][RunnerNext]_runnerVars
              /\ WF_runnerVars(CandleThread) /\ \A p \in Pairs : WF_runnerVars(HandleResult(p))

-----------------------------------------------------------------------------
\* Within the 24 hours of its entry a zone of a strategy is put into the stream once,
\* unless it was evicted or its cycle failed after the entry.
OncePerZone == \A p \in Pairs : sent[p] <= 1 \/ p \in excused

\* Between two updates every signal in the stream has been handed to the persister, but
\* for those whose cycle failed after the entry.
PublishedIsPersisted == run.pc = "idle" => stream \subseteq persisted \cup excused

===============================================================================
