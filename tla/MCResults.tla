------------------------------ MODULE MCResults ------------------------------
(***************************************************************************)
(* What became of trades, for TLC, three components side by side: the      *)
(* trades row of a live contract, a backtest, and the rows of requests for *)
(* backtests.  One of them runs in a behaviour and the others rest, so     *)
(* that their state graphs add up.                                         *)
(***************************************************************************)
EXTENDS Backtest, BacktestRuns, TradeBook

VARIABLE part   \* the component that runs

resultVars == <<part, bkVars, btVars, rqVars>>

Book(A) == part = "book" /\ A /\ UNCHANGED <<part, btVars, rqVars>>
OneBacktest(A) == part = "backtest" /\ A /\ UNCHANGED <<part, bkVars, rqVars>>
Requested(A) == part = "requests" /\ A /\ UNCHANGED <<part, bkVars, btVars>>

-----------------------------------------------------------------------------
\* Candles that stand still, rise, rise again, fall through a stop, and reach both levels.
Candle(open, low, high, close) == [open |-> open, low |-> low, high |-> high, close |-> close]
SomeCandles == {Candle(10, 10, 10, 10), Candle(10, 10, 13, 13), Candle(13, 13, 14, 14),
                Candle(10, 7, 10, 8), Candle(9, 7, 14, 10)}
SomeProposals ==
    {[direction |-> "BUY", entry |-> 10, stop |-> 8, target |-> 16, zone |-> "b"],
     [direction |-> "SELL", entry |-> 10, stop |-> 12, target |-> 7, zone |-> "s"]}

\* No exit rule beside the stop and the target, and rules that meet in one trade; structural
\* trailing goes without break-even, which may undo it.
NoRule == [time |-> 0, breakEven |-> 0, buffer |-> 1, activation |-> 0, distance |-> 1,
           partial |-> 0, structural |-> FALSE]
SomeRules == {NoRule, [NoRule EXCEPT !.time = 2],
              [NoRule EXCEPT !.breakEven = 2, !.buffer = 0, !.partial = 2],
              [NoRule EXCEPT !.breakEven = 3, !.buffer = 0, !.activation = 2],
              [NoRule EXCEPT !.breakEven = 1, !.activation = 3],
              [NoRule EXCEPT !.structural = TRUE]}

\* Limits that a few trades reach, and none but the floor.
Tight == [capital |-> 40, floor |-> 1, drawdown |-> 15, daily |-> 8, risk |-> 10]
Loose == [capital |-> 8, floor |-> 1, drawdown |-> 100, daily |-> 100, risk |-> 10]
BothLimits == {Tight, Loose}
SomeCharges == [spread |-> 1, slippage |-> 0, commission |-> 0, cooldown |-> 2,
                minLot |-> 1, maxLot |-> 2]

-----------------------------------------------------------------------------
\* A part that rests has one initial state.  Two requests are made where only a process
\* may die, one where a call of Redis may fail, too.
ResultsInit ==
    /\ part \in {"book", "backtest", "requests"}
    /\ BookInit
    /\ part = "book" \/ (~bkTimed /\ ~bkSaved)
    /\ BacktestInit
    /\ part = "backtest" \/ btSettings = [limits |-> Tight, rules |-> NoRule, minutes |-> FALSE]
    /\ RequestsInit
    /\ IF part # "requests" THEN rqFaults = MaxFaults /\ \A r \in Requests : rqRoute[r] = "never"
       ELSE rqFaults = MaxFaults <=> \A r \in Requests : rqRoute[r] = "unsent"

ResultsNext == Book(BookNext) \/ OneBacktest(BacktestNext) \/ Requested(RequestsNext)

\* The fairness of BookSpec and of RequestsSpec.
ResultsSpec ==
    /\ ResultsInit /\ [][ResultsNext]_resultVars
    /\ WF_resultVars(Book(\E b \in BOOLEAN : FetchProfit(b) \/ PublishExternalClose(b)))
    /\ WF_resultVars(Book(\E b \in BOOLEAN : FetchClosed(b) \/ RecordExternalExit(b)))
    /\ SF_resultVars(Book(MissesPosition(TRUE)))
    /\ SF_resultVars(Book(FetchClosed(TRUE)))
    /\ SF_resultVars(Book(RecordExternalExit(TRUE)))
    /\ \A r \in Requests : WF_resultVars(Requested(Route(r)))
    /\ WF_resultVars(Requested(EngineRuns)) /\ WF_resultVars(Requested(PollerRuns))
    /\ WF_resultVars(Requested(\E h \in rqHandlers : Handler(h)))
    /\ WF_resultVars(Requested(BackendStarts))

=============================================================================
