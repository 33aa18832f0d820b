--------------------------- MODULE PositionMonitor ---------------------------
(***************************************************************************)
(* The PositionMonitor of the execution engine, for one filled position:   *)
(* its loop evaluates the exit rules against a price it reads once, moves  *)
(* the stop loss at the broker, closes the position when its time is up,   *)
(* and records the exit of a position the broker has closed.  Between any  *)
(* two calls of the loop the broker may close the position, a worker       *)
(* rehydrate it from the trades table, or the engine restart.              *)
(***************************************************************************)
EXTENDS Integers

CONSTANTS Prices,       \* bound: prices
          Entry, Risk,  \* fill price, and distance of the signal's stop loss
          RuleSets,     \* exit rules
          Outcomes,     \* of a change of the stop loss: "done", "refused", or
                        \* "unknown" when it is made but the answer gets lost
          MaxRestarts   \* bound: restarts of the engine

Level == [on : BOOLEAN, act : Nat, dist : Nat]
Rules == [be : Level, trail : Level, atr : Level, partial : Level, time : BOOLEAN]

ASSUME MonitorAssumption ==
    /\ Prices \subseteq Int /\ Entry \in Prices /\ Risk \in Nat
    /\ RuleSets \subseteq Rules
    /\ Outcomes \subseteq {"done", "refused", "unknown"}
    /\ MaxRestarts \in Nat

VARIABLES
    long,      \* direction is BUY
    rules,     \* TrackedPosition.exit_rules; the dist of break-even is its buffer
    due,       \* max_duration_minutes have passed since entry_time
    open, stop,  \* the position at the broker, and its stop loss
    row,       \* trades row: absent (record_entry failed), filled, closed
    pending,   \* the worker has yet to call track_position
    monitored,   \* the position is in _positions
    pos,       \* its TrackedPosition
    loop,      \* where the monitor's loop is
    tick,      \* the price it read
    remove,    \* the position is in to_remove
    listed,    \* a starting worker has fetched the row and not yet registered it
    restarts,
    partials   \* history: partial closes asked for

worldVars == <<long, rules, due>>
brokerVars == <<open, stop>>
trackVars == <<pending, monitored, pos, listed>>
loopVars == <<loop, tick, remove>>
monitorVars == <<worldVars, brokerVars, row, trackVars, loopVars, restarts, partials>>

Points == {"idle", "price", "time", "close", "persist", "breakEven", "trail", "atr",
           "partial", "ask", "details", "record", "remove"}

\* Profit distance of a price, and the price d further towards the loss.
Profit(p) == IF long THEN p - Entry ELSE Entry - p
Behind(p, d) == IF long THEN p - d ELSE p + d
Original == Behind(Entry, Risk)

Tracked(done) == [sl |-> Original, be |-> FALSE, trail |-> FALSE, atr |-> FALSE,
                  partial |-> done]

MonitorTypeOK ==
    /\ long \in BOOLEAN /\ rules \in RuleSets /\ due \in BOOLEAN
    /\ open \in BOOLEAN /\ stop \in Int
    /\ row \in {"absent", "filled", "closed"}
    /\ pending \in BOOLEAN /\ monitored \in BOOLEAN /\ listed \in BOOLEAN
    /\ pos \in [sl : Int, be : BOOLEAN, trail : BOOLEAN, atr : BOOLEAN, partial : BOOLEAN]
    /\ loop \in Points /\ tick \in Prices /\ remove \in BOOLEAN
    /\ restarts \in 0 .. MaxRestarts /\ partials \in Nat

\* The order is filled, and the worker has tried to record its entry.
MonitorInit ==
    /\ long \in BOOLEAN /\ rules \in RuleSets
    /\ due = FALSE
    /\ open = TRUE /\ stop = Original
    /\ row \in {"absent", "filled"}
    /\ pending = TRUE /\ monitored = FALSE /\ pos = Tracked(FALSE)
    /\ loop = "idle" /\ tick = Entry /\ remove = FALSE
    /\ listed = FALSE /\ restarts = 0 /\ partials = 0

-----------------------------------------------------------------------------
\* The market and the broker.

TimePasses ==
    /\ ~due /\ due' = TRUE
    /\ UNCHANGED <<long, rules, brokerVars, row, trackVars, loopVars, restarts, partials>>

\* Stop loss, take profit or a stop-out: the broker closes by itself.
BrokerCloses ==
    /\ open /\ open' = FALSE
    /\ UNCHANGED <<worldVars, stop, row, trackVars, loopVars, restarts, partials>>

-----------------------------------------------------------------------------
\* Registration by the workers.

\* track_position, in the worker that got the fill.
TrackPosition ==
    /\ pending
    /\ pending' = FALSE
    /\ monitored' = TRUE /\ pos' = Tracked(FALSE)
    /\ UNCHANGED <<worldVars, brokerVars, row, loopVars, listed, restarts, partials>>

\* A worker that starts fetches the rows of its account that are still filled.
FetchOpenPosition ==
    /\ ~pending /\ ~listed /\ row = "filled"
    /\ listed' = TRUE
    /\ UNCHANGED <<worldVars, brokerVars, row, pending, monitored, pos, loopVars,
                   restarts, partials>>

\* It then registers them, unless they are monitored, with the signal's stop loss
\* and with the partial close taken for done.
RehydratePosition ==
    /\ listed
    /\ listed' = FALSE
    /\ IF monitored THEN UNCHANGED <<monitored, pos>>
                  ELSE monitored' = TRUE /\ pos' = Tracked(TRUE)
    /\ UNCHANGED <<worldVars, brokerVars, row, pending, loopVars, restarts, partials>>

Restart ==
    /\ restarts < MaxRestarts
    /\ restarts' = restarts + 1
    /\ pending' = FALSE /\ monitored' = FALSE /\ listed' = FALSE
    /\ loop' = "idle" /\ remove' = FALSE
    /\ pos' = Tracked(FALSE) /\ tick' = Entry
    /\ UNCHANGED <<worldVars, brokerVars, row, partials>>

-----------------------------------------------------------------------------
\* One round of the loop: _evaluate_position in the order of its priorities.

At(here, there) == loop = here /\ loop' = there

Begin ==
    /\ monitored /\ At("idle", "price")
    /\ UNCHANGED <<worldVars, brokerVars, row, trackVars, tick, remove, restarts, partials>>

\* The price may be any at each round.
ReadTick(p) ==
    /\ At("price", "time")
    /\ tick' = p
    /\ UNCHANGED <<worldVars, brokerVars, row, trackVars, remove, restarts, partials>>

\* Without specs or a price the evaluation ends.
NoTick ==
    /\ At("price", "ask")
    /\ UNCHANGED <<worldVars, brokerVars, row, trackVars, tick, remove, restarts, partials>>

TimeExit ==
    /\ At("time", IF rules.time /\ due THEN "close" ELSE "breakEven")
    /\ UNCHANGED <<worldVars, brokerVars, row, trackVars, tick, remove, restarts, partials>>

\* _close_position: whatever comes of it, the position is to be removed.  A
\* close whose answer is lost reads as failed.
ClosePosition(answered) ==
    /\ At("close", IF open /\ answered THEN "persist" ELSE "remove")
    /\ open' \in IF answered THEN {FALSE} ELSE {FALSE, open}
    /\ remove' = TRUE
    /\ tick' = Entry
    /\ UNCHANGED <<worldVars, stop, row, trackVars, restarts, partials>>

\* record_exit finds no row when the entry was never recorded.
Recorded(works) == IF works /\ row # "absent" THEN "closed" ELSE row

PersistExit(works) ==
    /\ At("persist", "remove")
    /\ row' = Recorded(works)
    /\ UNCHANGED <<worldVars, brokerVars, trackVars, tick, remove, restarts, partials>>

\* _modify_sl: pos.current_sl and flags follow only an answer that says done.
ModifyStop(new, outcome, flagged) ==
    /\ outcome = "refused" \/ open
    /\ stop' = IF outcome = "refused" THEN stop ELSE new
    /\ pos' = IF outcome = "done" THEN [flagged EXCEPT !.sl = new] ELSE flagged

Keep == UNCHANGED <<stop, pos>>

Rest == UNCHANGED <<worldVars, open, row, pending, monitored, listed, tick, remove,
                    restarts, partials>>

\* Fault: break-even is taken for applied although the stop was not moved.
BreakEvenTried(outcome) ==
    /\ At("breakEven", "trail")
    /\ IF rules.be.on /\ ~pos.be /\ Profit(tick) >= rules.be.act
       THEN ModifyStop(Behind(Entry, -rules.be.dist), outcome, [pos EXCEPT !.be = TRUE])
       ELSE Keep
    /\ Rest

\* Once, and without regard to where the stop is.
BreakEven(outcome) ==
    /\ At("breakEven", "trail")
    /\ IF rules.be.on /\ ~pos.be /\ Profit(tick) >= rules.be.act
       THEN ModifyStop(Behind(Entry, -rules.be.dist), outcome,
                       [pos EXCEPT !.be = (outcome = "done")])
       ELSE Keep
    /\ Rest

Better(new) == Profit(new) > Profit(pos.sl)

\* The first time the stop is moved without regard to where it is; the flag
\* says so even if the move fails.
TrailingStop(outcome) ==
    /\ At("trail", "atr")
    /\ LET new == Behind(tick, rules.trail.dist) IN
       IF /\ rules.trail.on /\ Profit(tick) >= rules.trail.act
          /\ ~pos.trail \/ Better(new)
       THEN ModifyStop(new, outcome, [pos EXCEPT !.trail = TRUE])
       ELSE Keep
    /\ Rest

\* Activated once, it follows the price whatever the profit is, but only upward.
AtrTrailingStop(outcome) ==
    /\ At("atr", "partial")
    /\ LET new == Behind(tick, rules.atr.dist)
           activated == pos.atr \/ Profit(tick) >= rules.atr.act
       IN IF rules.atr.on /\ activated
          THEN IF Better(new) THEN ModifyStop(new, outcome, [pos EXCEPT !.atr = TRUE])
               ELSE pos' = [pos EXCEPT !.atr = TRUE] /\ UNCHANGED stop
          ELSE Keep
    /\ Rest

\* _partial_close changes nothing at the broker.
PartialClose ==
    /\ At("partial", "ask")
    /\ IF rules.partial.on /\ ~pos.partial /\ Profit(tick) >= rules.partial.act
       THEN pos' = [pos EXCEPT !.partial = TRUE] /\ partials' = partials + 1
       ELSE UNCHANGED <<pos, partials>>
    /\ tick' = Entry                                  \* a local variable
    /\ UNCHANGED <<worldVars, brokerVars, row, pending, monitored, listed, remove, restarts>>

\* _reconcile_external_closes: the broker's list may lack an open position (an
\* error reads as an empty list) or not be had at all.
AskBroker(honest) ==
    /\ At("ask", IF honest = open THEN "remove" ELSE "details")
    /\ UNCHANGED <<worldVars, brokerVars, row, trackVars, tick, remove, restarts, partials>>

\* Fault: a position missing from the list is taken for closed.
DetailsAssumed(works) ==
    /\ At("details", IF works THEN "record" ELSE "remove")
    /\ UNCHANGED <<worldVars, brokerVars, row, trackVars, tick, remove, restarts, partials>>

\* fetch_closed_contract has nothing for a contract that is open.
FetchDetails(works) ==
    /\ At("details", IF works /\ ~open THEN "record" ELSE "remove")
    /\ UNCHANGED <<worldVars, brokerVars, row, trackVars, tick, remove, restarts, partials>>

\* Only a recorded exit has the position removed.
RecordExit(works) ==
    /\ At("record", "remove")
    /\ row' = Recorded(works)
    /\ remove' = (row' = "closed" /\ works)
    /\ UNCHANGED <<worldVars, brokerVars, trackVars, tick, restarts, partials>>

Remove ==
    /\ At("remove", "idle")
    /\ monitored' = (monitored /\ ~remove)
    /\ pos' = IF remove THEN Tracked(FALSE) ELSE pos
    /\ remove' = FALSE
    /\ UNCHANGED <<worldVars, brokerVars, row, pending, listed, tick, restarts, partials>>

Step ==
    \/ Begin \/ NoTick \/ TimeExit \/ PartialClose \/ Remove
    \/ \E b \in BOOLEAN : ClosePosition(b) \/ PersistExit(b)
                       \/ AskBroker(b) \/ FetchDetails(b) \/ RecordExit(b)
    \/ \E p \in Prices : ReadTick(p)
    \/ \E o \in Outcomes : BreakEven(o) \/ TrailingStop(o) \/ AtrTrailingStop(o)

MonitorNext ==
    \/ TimePasses
    \/ BrokerCloses
    \/ TrackPosition \/ FetchOpenPosition \/ RehydratePosition
    \/ Restart
    \/ Step

MonitorSpec == MonitorInit /\ [][MonitorNext]_monitorVars

-----------------------------------------------------------------------------
\* Rules whose trailing stop, when it is activated, is not behind the stop that
\* break-even has set, or without break-even the original one.  The defaults of
\* exit_rules.py are (20 - 10 >= 2 pips).
WellFormed(r) ==
    r.trail.on => r.trail.act >= r.trail.dist + (IF r.be.on THEN r.be.dist ELSE -Risk)

\* A position that was moved to break-even stays there: no later rule, failed
\* change or lost answer takes the stop at the broker behind entry and buffer.
BreakEvenHolds ==
    monitored /\ pos.be /\ WellFormed(rules) => Profit(stop) >= rules.be.dist

\* "The SL can never be pushed below the original protective level": also not
\* by the rules of a position that was rehydrated with its signal's stop loss.
NeverBelowOriginal == WellFormed(rules) => Profit(stop) >= -Risk

\* No exit is recorded for a position that is open at the broker, although an
\* error of get_positions reads as an empty list.
NoFalseExit == row = "closed" => ~open

\* "We never risk a DOUBLE partial close", restarts included.
PartialOnce == partials <= 1

\* "Returns True if the position was closed (should be untracked)": a position
\* leaves the monitor of a running engine only when it is closed.
UntrackedIsClosed == [][monitored /\ ~monitored' /\ restarts' = restarts => ~open]_monitorVars
=============================================================================
