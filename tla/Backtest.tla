------------------------------- MODULE Backtest -------------------------------
(***************************************************************************)
(* BacktestEngine.run (backtesting/backtest_engine.py): a strategy is run  *)
(* over past candles, at most one trade is open at a time, and no trade is *)
(* opened beyond the limits of the strategy's risk settings.               *)
(*                                                                         *)
(* The candles and the signals of the algorithm are chosen bar by bar.     *)
(* The prices of a trade are counted in its direction (those of a SELL are *)
(* negated), so that more is better for both; sizes are in half lots, so   *)
(* that a partial close can halve them, and money goes with them.          *)
(***************************************************************************)
EXTENDS Integers, Sequences, FiniteSets

CONSTANTS Bars,        \* number of bars the engine walks through
          BarsPerDay,
          Candles,     \* the candles a bar, or a minute of it, may have
          Proposals,   \* what the algorithm may return first: direction, entry, stop, target, zone
          Blocks,      \* the order blocks of the signals
          Rules,       \* the exit rules to choose from; 0 switches a rule off
          Limits,      \* the risk settings to choose from, with the capital
          Charges      \* spread, slippage, commission, cooldown, min_lot, max_lot

ASSUME BacktestAssumption ==
  /\ Bars \in Nat /\ BarsPerDay \in Nat \ {0}
  /\ Candles \subseteq [open : Int, low : Int, high : Int, close : Int]
  /\ Proposals \subseteq [direction : {"BUY", "SELL"}, entry : Int, stop : Int, target : Int, zone : Blocks]
  /\ Rules \subseteq [time : Nat, breakEven : Nat, buffer : Nat, activation : Nat, distance : Nat,
                     partial : Nat, structural : BOOLEAN]
  /\ Limits \subseteq [capital : Nat \ {0}, floor : Nat, drawdown : 1..100, daily : Nat \ {0}, risk : Nat]
  /\ Charges \in [spread : Nat, slippage : Nat, commission : Nat, cooldown : Nat, minLot : Nat, maxLot : Nat]

VARIABLES btBar,        \* i: the bar to process next
          btSettings,   \* exit rules, limits and whether minutes are there: fixed
          btTrade,      \* open_trade, a sequence of at most one
          btTrades,     \* the trades closed
          btEquity,
          btHwm,        \* equity_hwm
          btBreached,   \* trailing_dd_breached
          btBlown,      \* account_blown
          btDay,        \* current_day, with day_start_equity and daily_pnl
          btZones,      \* invalidated_zones
          btSignalled,  \* zone_cooldowns: bar of a zone's last trade, 0 if none
          btLast        \* close of the last bar processed

btVars == <<btBar, btSettings, btTrade, btTrades, btEquity, btHwm, btBreached, btBlown,
            btDay, btZones, btSignalled, btLast>>

Limit == btSettings.limits
ExitRules == btSettings.rules
Sign(d) == IF d = "BUY" THEN 1 ELSE -1
Magnitude(n) == IF n < 0 THEN -n ELSE n
Higher(a, b) == IF a > b THEN a ELSE b
Lower(a, b) == IF a < b THEN a ELSE b

BacktestInit ==
  /\ btBar = 1
  /\ btSettings \in [limits : Limits, rules : Rules, minutes : BOOLEAN]
  /\ btTrade = <<>> /\ btTrades = <<>>
  /\ btEquity = Limit.capital /\ btHwm = Limit.capital
  /\ btBreached = FALSE /\ btBlown = FALSE
  /\ btDay = [day |-> 0, start |-> Limit.capital, pnl |-> 0]
  /\ btZones = {}
  /\ btSignalled = [z \in Blocks |-> 0]
  /\ btLast = 0

(***************************************************************************)
(* _check_exit.  The prices of a candle as a trade sees them: the one that *)
(* is worst for it, the best one, and any other.                           *)
(***************************************************************************)
Worst(d, c) == IF d = "BUY" THEN c.low ELSE -c.high
Best(d, c) == IF d = "BUY" THEN c.high ELSE -c.low
BestPrice(t, c) == Best(t.direction, c) - Charges.spread

Exit(t, price) == [t EXCEPT !.exit = <<price>>]

StopHit(t, c) == Worst(t.direction, c) - Charges.spread <= t.stop
TargetHit(t, c) == BestPrice(t, c) >= t.target

\* both within one candle: the one nearer to the open is taken to have come first
StopFirst(t, c) ==
  LET open == Sign(t.direction) * c.open - Charges.spread
  IN  Magnitude(open - t.stop) <= Magnitude(open - t.target)

TimeExit(t, age) == ExitRules.time > 0 /\ age >= ExitRules.time

BreakEvenStop(t, c) ==
  IF ExitRules.breakEven > 0 /\ ~t.evened /\ BestPrice(t, c) - t.entry >= ExitRules.breakEven
  THEN [t EXCEPT !.stop = t.entry + ExitRules.buffer, !.evened = TRUE] ELSE t

Tightened(t, price) == [t EXCEPT !.stop = Higher(@, price)]

\* the trailing stop in pips and, with its distances in ATRs, the one in ATRs
TrailingStop(t, c) ==
  LET active == t.trailing \/ BestPrice(t, c) - t.entry >= ExitRules.activation
      u == [t EXCEPT !.trailing = active]
  IN  IF ExitRules.activation = 0 THEN t
      ELSE IF active THEN Tightened(u, BestPrice(t, c) - ExitRules.distance) ELSE u

\* the closed part just goes
PartialClose(t, c) ==
  IF ExitRules.partial > 0 /\ ~t.partial /\ BestPrice(t, c) - t.entry >= ExitRules.partial
  THEN [t EXCEPT !.size = @ \div 2, !.partial = TRUE] ELSE t

\* the latest aligned fractal is the low (a SELL's high) of an earlier candle of the trade
StructuralStop(t, swing) ==
  IF ExitRules.structural /\ swing # <<>> THEN Tightened(t, swing[1] - ExitRules.buffer) ELSE t

Seen(t, c) == [t EXCEPT !.swings = IF ExitRules.structural THEN @ \cup {Worst(t.direction, c)} ELSE @]

\* Fault: the stop is moved to break-even after it was trailed
CheckExitBreakEvenLast(t, c, age, swing) ==
  IF StopHit(t, c) /\ (TargetHit(t, c) => StopFirst(t, c)) THEN Exit(t, t.stop)
  ELSE IF TargetHit(t, c) THEN Exit(t, t.target)
  ELSE IF TimeExit(t, age) THEN Exit(t, Sign(t.direction) * c.close)
  ELSE Seen(BreakEvenStop(StructuralStop(PartialClose(TrailingStop(t, c), c), swing), c), c)

CheckExit(t, c, age, swing) ==
  IF StopHit(t, c) /\ (TargetHit(t, c) => StopFirst(t, c)) THEN Exit(t, t.stop)
  ELSE IF TargetHit(t, c) THEN Exit(t, t.target)
  ELSE IF TimeExit(t, age) THEN Exit(t, Sign(t.direction) * c.close)
  ELSE Seen(StructuralStop(PartialClose(TrailingStop(BreakEvenStop(t, c), c), c), swing), c)

Swings(t) == {<<>>} \cup {<<p>> : p \in t.swings}

\* what a candle may leave of a trade, whichever swing is the latest
After(t, c, age) ==
  IF t.exit # <<>> THEN {t}
  ELSE {CheckExit(t, c, age, s) : s \in IF ExitRules.structural THEN Swings(t) ELSE {<<>>}}

\* bound: a bar is checked with its own candle or, with minutes, with up to two of those
\* since the bar before
Walk(t, c) ==
  LET age == btBar - t.opened
  IN  IF ~btSettings.minutes THEN After(t, c, age)
      ELSE {t} \cup After(t, c, age)
           \cup UNION {After(u, c, age) : u \in UNION {After(t, b, age - 1) : b \in Candles}}

(***************************************************************************)
(* run: every bar begins with a new day's accounts and with the halts.     *)
(***************************************************************************)
Day(b) == b \div BarsPerDay

\* Fault: the profit of the day before is kept
TodayCarriedOver ==
  IF Day(btBar) = btDay.day THEN btDay ELSE [btDay EXCEPT !.day = Day(btBar), !.start = btEquity]

Today == IF Day(btBar) = btDay.day THEN btDay ELSE [day |-> Day(btBar), start |-> btEquity, pnl |-> 0]
Peak == IF btBreached THEN btHwm ELSE Higher(btHwm, btEquity)
Breached == btBreached \/ (Peak - btEquity) * 100 >= Limit.drawdown * Peak
Blown == btBlown \/ btEquity <= Limit.floor
Halted == Breached \/ Blown

BarBegins(c) ==
  /\ btBar <= Bars
  /\ btBar' = btBar + 1
  /\ btLast' = c.close
  /\ btBreached' = Breached
  /\ btBlown' = Blown
  /\ UNCHANGED btSettings

\* _compute_pnl, and the result of a trade that ends at a price
Pnl(t, price) == (price - t.entry) * t.size - Charges.commission

Ended(t, price) ==
  [opened |-> t.opened, closed |-> btBar, after |-> btEquity + Pnl(t, price)]

\* the stop was hit, wherever it had got to: _compute_rr is -1 or less
Lost(t, price) == t.entry # t.stop /\ price - t.entry <= -Magnitude(t.entry - t.stop)

TradeEnds ==
  /\ btTrade # <<>>
  /\ \E c \in Candles : \E t \in Walk(btTrade[1], c) :
       /\ t.exit # <<>>
       /\ BarBegins(c)
       /\ btTrades' = Append(btTrades, Ended(t, t.exit[1]))
       /\ btEquity' = btEquity + Pnl(t, t.exit[1])
       /\ btHwm' = Higher(Peak, btEquity')
       /\ btDay' = [Today EXCEPT !.pnl = @ + Pnl(t, t.exit[1])]
       /\ btZones' = IF Lost(t, t.exit[1]) THEN btZones \cup {t.zone} ELSE btZones
  /\ btTrade' = <<>>
  /\ UNCHANGED btSignalled

TradeGoesOn ==
  /\ btTrade # <<>>
  /\ \E c \in Candles : \E t \in Walk(btTrade[1], c) :
       /\ t.exit = <<>>
       /\ BarBegins(c)
       /\ btTrade' = <<t>>
  /\ btHwm' = Peak
  /\ btDay' = Today
  /\ UNCHANGED <<btTrades, btEquity, btZones, btSignalled>>

(***************************************************************************)
(* No trade is open: a signal opens one, unless a halt or the day's losses *)
(* forbid it.  The algorithm leaves out invalidated zones and those of a   *)
(* recent signal.                                                          *)
(***************************************************************************)
DayIsLost == Today.pnl < 0 /\ -Today.pnl * 100 >= Today.start * Limit.daily

Cooling(z) == btSignalled[z] # 0 /\ btBar - 1 - btSignalled[z] < Charges.cooldown

\* _compute_position_size, in half lots
PositionSize(entry, stop) ==
  LET distance == Magnitude(entry - stop)
      lots == IF distance = 0 THEN 0 ELSE (btEquity * Limit.risk) \div (100 * 2 * distance)
  IN  2 * Lower(Higher(Charges.minLot, lots), Charges.maxLot)

Opened(s, c) ==
  LET sign == Sign(s.direction)
      asked == sign * s.entry + Charges.slippage + Charges.spread
      entry == Higher(Worst(s.direction, c), Lower(Best(s.direction, c), asked))
  IN  [direction |-> s.direction, entry |-> entry, stop |-> sign * s.stop,
       initial |-> sign * s.stop, target |-> sign * s.target, size |-> PositionSize(entry, sign * s.stop),
       zone |-> s.zone, opened |-> btBar, swings |-> {}, partial |-> FALSE, trailing |-> FALSE, evened |-> FALSE, exit |-> <<>>]

TradeBegins ==
  /\ btTrade = <<>> /\ ~Halted /\ ~DayIsLost
  /\ \E c \in Candles, s \in Proposals :
       /\ s.zone \notin btZones /\ ~Cooling(s.zone)
       /\ BarBegins(c)
       /\ btTrade' = <<Opened(s, c)>>
       /\ btSignalled' = [btSignalled EXCEPT ![s.zone] = btBar]
  /\ btHwm' = Peak
  /\ btDay' = Today
  /\ UNCHANGED <<btTrades, btEquity, btZones>>

NothingBegins ==
  /\ btTrade = <<>>
  /\ \E c \in Candles : BarBegins(c)
  /\ btHwm' = Peak
  /\ btDay' = Today
  /\ UNCHANGED <<btTrade, btTrades, btEquity, btZones, btSignalled>>

\* the trade open at the end of the data is closed at its last price
DataEnd ==
  /\ btBar > Bars /\ btTrade # <<>>
  /\ LET t == btTrade[1]  price == Sign(t.direction) * btLast IN
       /\ btTrades' = Append(btTrades, Ended(t, price))
       /\ btEquity' = btEquity + Pnl(t, price)
  /\ btTrade' = <<>>
  /\ UNCHANGED <<btBar, btSettings, btHwm, btBreached, btBlown, btDay, btZones, btSignalled, btLast>>

BacktestNext == TradeEnds \/ TradeGoesOn \/ TradeBegins \/ NothingBegins \/ DataEnd

BacktestSpec == BacktestInit /\ [][BacktestNext]_btVars

(***************************************************************************)
(* Properties.                                                             *)
(***************************************************************************)
Equity(j) == IF j = 0 THEN Limit.capital ELSE btTrades[j].after

\* the bars at which trades were opened, the open one's last
Openings == [k \in DOMAIN btTrades |-> btTrades[k].opened] \o
            (IF btTrade = <<>> THEN <<>> ELSE <<btTrade[1].opened>>)

\* equity at the start of the day on which the k-th trade was opened
DayStart(k) ==
  Equity(Cardinality({i \in 1..(k - 1) : Day(btTrades[i].closed) < Day(Openings[k])}))

\* The trades alone tell that the risk settings were kept (run): none was opened once
\* the equity had ever fallen to the floor or by the drawdown limit from one of its
\* highs, or after the losses of its day had reached the daily limit.
LimitsHold ==
  \A k \in DOMAIN Openings :
    /\ \A j \in 0..(k - 1) :
         /\ Equity(j) > Limit.floor
         /\ \A i \in 0..j : (Equity(i) - Equity(j)) * 100 < Limit.drawdown * Equity(i)
    /\ (DayStart(k) - Equity(k - 1)) * 100 < DayStart(k) * Limit.daily

\* From bar to bar the stop of an open trade only moves towards profit, whichever of
\* the rules move it and in whatever order they come to apply (_check_exit), unless a gap
\* had put its entry beyond its stop.
StopOnlyTightens ==
  [][(btTrade # <<>> /\ btTrade' # <<>> /\ btTrade[1].initial < btTrade[1].entry)
       => btTrade'[1].stop >= btTrade[1].stop]_btVars

=============================================================================
