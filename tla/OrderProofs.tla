---------------------------- MODULE OrderProofs ----------------------------
(***************************************************************************)
(* Proofs about what the execution engine asks of a broker.                *)
(*                                                                         *)
(* PositionMonitor, for any prices, exit rules, risk, outcomes of the      *)
(* broker's answers and number of restarts: the stops, and the exits that  *)
(* are recorded.                                                           *)
(*                                                                         *)
(* Broker, for any callers, accounts and number of retries: how many       *)
(* positions a call opens, and at whose account.  A call is charged one    *)
(* position for every time its order was sent (CallsInv follows from       *)
(* JobsInv, which counts while the call goes on); Deriv's client opens     *)
(* nothing before the call ends; and a client that no two accounts share   *)
(* is logged in as its account or as nobody (OwnSession), whatever the     *)
(* calls of the other clients do.                                          *)
(***************************************************************************)
EXTENDS PositionMonitor, Broker, FiniteSetTheorems, TLAPS

USE MonitorAssumption DEF Rules, Level

TrackedPosition ==
    [sl : Int, be : BOOLEAN, trail : BOOLEAN, atr : BOOLEAN, partial : BOOLEAN]

(* The least profit at which a stop may stand: behind break-even its buffer, *)
(* otherwise the risk of the signal.                                         *)
Least == IF pos.be THEN rules.be.dist ELSE -Risk

(* A stop secures at least that, both the one at the broker and the one the *)
(* monitor compares with; and break-even is only applied where it is on.    *)
StopInv ==
    /\ pos.be => rules.be.on
    /\ WellFormed(rules) => Profit(stop) >= Least /\ Profit(pos.sl) >= Least

(* An exit is recorded, or about to be, only for a closed position. *)
ExitInv ==
    /\ row = "closed" => ~open
    /\ loop \in {"persist", "record"} => ~open

(* While the worker has yet to hand the position over nobody monitors it;   *)
(* and when the partial close was asked for, the position knows, or is not   *)
(* monitored.                                                                *)
PartialInv ==
    /\ pending => ~monitored /\ ~listed /\ loop = "idle" /\ partials = 0
    /\ \/ partials = 0
       \/ partials = 1 /\ (pos.partial \/ (~monitored /\ loop = "idle"))

(* The position d behind a price secures d less. *)
LEMMA ProfitBehind ==
    ASSUME MonitorTypeOK, NEW p \in Int, NEW d \in Int
    PROVE  Behind(p, d) \in Int /\ Profit(Behind(p, d)) = Profit(p) - d
  BY DEF MonitorTypeOK, Profit, Behind

LEMMA ProfitFrame ==
    ASSUME UNCHANGED long, NEW p
    PROVE  Profit(p)' = Profit(p')
  BY DEF Profit

(* A fresh TrackedPosition stands at the signal's stop loss. *)
LEMMA FreshPosition ==
    ASSUME MonitorTypeOK, NEW done \in BOOLEAN
    PROVE  /\ Tracked(done) \in TrackedPosition
           /\ ~Tracked(done).be
           /\ Profit(Tracked(done).sl) = -Risk
  BY ProfitBehind DEF Tracked, TrackedPosition, Original, Profit, Behind, MonitorTypeOK

LEMMA InitInv == MonitorInit => MonitorTypeOK /\ StopInv /\ ExitInv
  <1> SUFFICES ASSUME MonitorInit PROVE MonitorTypeOK /\ StopInv /\ ExitInv
    OBVIOUS
  <1>1. Original \in Int
    <2>1. Entry - Risk \in Int /\ Entry + Risk \in Int
      OBVIOUS
    <2> QED
      BY <2>1, Zenon DEF Original, Behind
  <1>2. /\ long \in BOOLEAN /\ rules \in RuleSets /\ due \in BOOLEAN /\ open \in BOOLEAN
        /\ pending \in BOOLEAN /\ monitored \in BOOLEAN /\ listed \in BOOLEAN
        /\ remove \in BOOLEAN
    BY Zenon DEF MonitorInit
  <1>3. pos \in TrackedPosition
    <2>1. pos = Tracked(FALSE)
      BY DEF MonitorInit
    <2> QED
      BY <1>1, <2>1 DEF Tracked, TrackedPosition
  <1>4. /\ stop \in Int /\ row \in {"absent", "filled", "closed"} /\ loop \in Points
        /\ tick \in Prices /\ restarts \in 0 .. MaxRestarts /\ partials \in Nat
    BY <1>1 DEF MonitorInit, Points
  <1>5. MonitorTypeOK
    BY <1>2, <1>3, <1>4, Zenon DEF MonitorTypeOK, TrackedPosition
  <1>6. StopInv
    <2>1. pos = Tracked(FALSE) /\ stop = pos.sl
      BY DEF MonitorInit, Tracked
    <2>2. ~pos.be /\ Profit(pos.sl) = -Risk
      BY <1>5, <2>1, FreshPosition
    <2>3. Least = -Risk /\ Profit(stop) = -Risk
      BY <2>1, <2>2, Zenon DEF Least
    <2>4. Profit(stop) >= Least /\ Profit(pos.sl) >= Least
      BY <2>2, <2>3
    <2> QED
      BY <2>2, <2>4, Zenon DEF StopInv
  <1>7. ExitInv
    BY DEF MonitorInit, ExitInv
  <1> QED
    BY <1>5, <1>6, <1>7

(* What the changes of the stop have in common. *)
LEMMA ModifyTypes ==
    ASSUME MonitorTypeOK, NEW new \in Int, NEW o \in Outcomes, NEW flagged,
           flagged \in TrackedPosition,
           ModifyStop(new, o, flagged)
    PROVE  /\ stop' \in Int
           /\ pos' \in TrackedPosition
           /\ pos'.be = flagged.be
           /\ stop' \in {stop, new}
           /\ pos'.sl = flagged.sl \/ (pos'.sl = new /\ stop' = new)
           /\ o = "done" => stop' = new /\ pos'.sl = new
  BY DEF ModifyStop, MonitorTypeOK, TrackedPosition

(* MonitorTypeOK in two parts, as flags and as data. *)
Flags ==
    /\ long \in BOOLEAN /\ due \in BOOLEAN /\ open \in BOOLEAN /\ pending \in BOOLEAN
    /\ monitored \in BOOLEAN /\ listed \in BOOLEAN /\ remove \in BOOLEAN

Data ==
    /\ rules \in RuleSets /\ stop \in Int /\ row \in {"absent", "filled", "closed"}
    /\ pos \in TrackedPosition
    /\ loop \in Points /\ tick \in Prices
    /\ restarts \in 0 .. MaxRestarts /\ partials \in Nat

LEMMA Parts == MonitorTypeOK <=> Flags /\ Data
  BY Zenon DEF MonitorTypeOK, Flags, Data, TrackedPosition

LEMMA StopSteps ==
    ASSUME MonitorTypeOK, NEW o \in Outcomes, BreakEven(o) \/ TrailingStop(o) \/ AtrTrailingStop(o)
    PROVE  stop' \in Int /\ pos' \in TrackedPosition
  <1>1. tick \in Int /\ rules \in Rules
    BY DEF MonitorTypeOK
  <1>2. ASSUME BreakEven(o) PROVE stop' \in Int /\ pos' \in TrackedPosition
    <2>1. CASE Keep
      BY <2>1 DEF Keep, MonitorTypeOK, TrackedPosition
    <2>2. CASE ModifyStop(Behind(Entry, -rules.be.dist), o, [pos EXCEPT !.be = (o = "done")])
      <3>1. Behind(Entry, -rules.be.dist) \in Int
        BY <1>1, ProfitBehind
      <3>2. [pos EXCEPT !.be = (o = "done")] \in TrackedPosition
        BY DEF MonitorTypeOK, TrackedPosition
      <3> QED
        BY <2>2, <3>1, <3>2, ModifyTypes
    <2> QED
      BY <1>2, <2>1, <2>2 DEF BreakEven
  <1>3. ASSUME TrailingStop(o) PROVE stop' \in Int /\ pos' \in TrackedPosition
    <2>1. CASE Keep
      BY <2>1 DEF Keep, MonitorTypeOK, TrackedPosition
    <2>2. CASE ModifyStop(Behind(tick, rules.trail.dist), o, [pos EXCEPT !.trail = TRUE])
      <3>1. Behind(tick, rules.trail.dist) \in Int
        BY <1>1, ProfitBehind
      <3>2. [pos EXCEPT !.trail = TRUE] \in TrackedPosition
        BY DEF MonitorTypeOK, TrackedPosition
      <3> QED
        BY <2>2, <3>1, <3>2, ModifyTypes
    <2> QED
      BY <1>3, <2>1, <2>2 DEF TrailingStop
  <1>4. ASSUME AtrTrailingStop(o) PROVE stop' \in Int /\ pos' \in TrackedPosition
    <2>1. CASE Keep
      BY <2>1 DEF Keep, MonitorTypeOK, TrackedPosition
    <2>2. CASE pos' = [pos EXCEPT !.atr = TRUE] /\ UNCHANGED stop
      BY <2>2 DEF MonitorTypeOK, TrackedPosition
    <2>3. CASE ModifyStop(Behind(tick, rules.atr.dist), o, [pos EXCEPT !.atr = TRUE])
      <3>1. Behind(tick, rules.atr.dist) \in Int
        BY <1>1, ProfitBehind
      <3>2. [pos EXCEPT !.atr = TRUE] \in TrackedPosition
        BY DEF MonitorTypeOK, TrackedPosition
      <3> QED
        BY <2>3, <3>1, <3>2, ModifyTypes
    <2> QED
      BY <1>4, <2>1, <2>2, <2>3 DEF AtrTrailingStop
  <1> QED
    BY <1>2, <1>3, <1>4

LEMMA NextTypes == MonitorTypeOK /\ [MonitorNext]_monitorVars => MonitorTypeOK'
  <1> SUFFICES ASSUME MonitorTypeOK, [MonitorNext]_monitorVars PROVE MonitorTypeOK'
    OBVIOUS
  <1> USE DEF At, worldVars, brokerVars, trackVars, loopVars
  <1>0. Flags /\ Data
    BY Parts
  <1>100. (Flags /\ Data)' => MonitorTypeOK'
    BY Zenon DEF MonitorTypeOK, Flags, Data, TrackedPosition
  <1>1. CASE TimePasses
    <2>1. Flags'
      BY <1>0, <1>1, Zenon DEF Flags, TimePasses
    <2>2. Data'
      BY <1>0, <1>1 DEF Data, Points, TrackedPosition, TimePasses
    <2> QED
      BY <1>100, <2>1, <2>2
  <1>2. CASE BrokerCloses
    <2>1. Flags'
      BY <1>0, <1>2, Zenon DEF Flags, BrokerCloses
    <2>2. Data'
      BY <1>0, <1>2 DEF Data, Points, TrackedPosition, BrokerCloses
    <2> QED
      BY <1>100, <2>1, <2>2
  <1>3. CASE TrackPosition
    <2>1. Flags'
      BY <1>0, <1>3, Zenon DEF Flags, TrackPosition
    <2>2. Data'
      BY <1>0, <1>3, FreshPosition DEF Data, Points, TrackedPosition, TrackPosition
    <2> QED
      BY <1>100, <2>1, <2>2
  <1>4. CASE FetchOpenPosition
    <2>1. Flags'
      BY <1>0, <1>4, Zenon DEF Flags, FetchOpenPosition
    <2>2. Data'
      BY <1>0, <1>4 DEF Data, Points, TrackedPosition, FetchOpenPosition
    <2> QED
      BY <1>100, <2>1, <2>2
  <1>5. CASE RehydratePosition
    <2>1. Flags'
      BY <1>0, <1>5, Zenon DEF Flags, RehydratePosition
    <2>2. Data'
      BY <1>0, <1>5, FreshPosition DEF Data, Points, TrackedPosition, RehydratePosition
    <2> QED
      BY <1>100, <2>1, <2>2
  <1>6. CASE Restart
    <2>1. Flags'
      BY <1>0, <1>6, Zenon DEF Flags, Restart
    <2>2. Data'
      <3>1. pos' \in TrackedPosition
        BY <1>6, FreshPosition DEF Restart
      <3>2. restarts' \in 0 .. MaxRestarts
        BY <1>0, <1>6 DEF Data, Restart
      <3> QED
        BY <1>0, <1>6, <3>1, <3>2 DEF Data, Points, Restart
    <2> QED
      BY <1>100, <2>1, <2>2
  <1>7. CASE Begin
    <2>1. Flags'
      BY <1>0, <1>7, Zenon DEF Flags, Begin
    <2>2. Data'
      BY <1>0, <1>7 DEF Data, Points, TrackedPosition, Begin
    <2> QED
      BY <1>100, <2>1, <2>2
  <1>8. CASE NoTick
    <2>1. Flags'
      BY <1>0, <1>8, Zenon DEF Flags, NoTick
    <2>2. Data'
      BY <1>0, <1>8 DEF Data, Points, TrackedPosition, NoTick
    <2> QED
      BY <1>100, <2>1, <2>2
  <1>9. CASE TimeExit
    <2>1. Flags'
      BY <1>0, <1>9, Zenon DEF Flags, TimeExit
    <2>2. Data'
      BY <1>0, <1>9 DEF Data, Points, TrackedPosition, TimeExit
    <2> QED
      BY <1>100, <2>1, <2>2
  <1>10. CASE PartialClose
    <2>1. Flags'
      BY <1>0, <1>10, Zenon DEF Flags, PartialClose
    <2>2. Data'
      <3>1. pos' \in TrackedPosition
        BY <1>0, <1>10 DEF Data, TrackedPosition, PartialClose
      <3>2. partials' \in Nat
        BY <1>0, <1>10 DEF Data, PartialClose
      <3> QED
        BY <1>0, <1>10, <3>1, <3>2 DEF Data, Points, PartialClose
    <2> QED
      BY <1>100, <2>1, <2>2
  <1>11. CASE Remove
    <2>1. Flags'
      BY <1>0, <1>11, Zenon DEF Flags, Remove
    <2>2. Data'
      BY <1>0, <1>11, FreshPosition DEF Data, Points, TrackedPosition, Remove
    <2> QED
      BY <1>100, <2>1, <2>2
  <1>12. ASSUME NEW p \in Prices, ReadTick(p) PROVE MonitorTypeOK'
    <2>1. Flags'
      BY <1>0, <1>12, Zenon DEF Flags, ReadTick
    <2>2. Data'
      BY <1>0, <1>12 DEF Data, Points, TrackedPosition, ReadTick
    <2> QED
      BY <1>100, <2>1, <2>2
  <1>13. ASSUME NEW b \in BOOLEAN, ClosePosition(b) PROVE MonitorTypeOK'
    <2>1. Flags'
      BY <1>0, <1>13, Zenon DEF Flags, ClosePosition
    <2>2. Data'
      BY <1>0, <1>13 DEF Data, Points, TrackedPosition, ClosePosition
    <2> QED
      BY <1>100, <2>1, <2>2
  <1>14. ASSUME NEW b \in BOOLEAN, PersistExit(b) PROVE MonitorTypeOK'
    <2>1. Flags'
      BY <1>0, <1>14, Zenon DEF Flags, PersistExit, Recorded
    <2>2. Data'
      BY <1>0, <1>14 DEF Data, Points, TrackedPosition, PersistExit, Recorded
    <2> QED
      BY <1>100, <2>1, <2>2
  <1>15. ASSUME NEW b \in BOOLEAN, AskBroker(b) PROVE MonitorTypeOK'
    <2>1. Flags'
      BY <1>0, <1>15, Zenon DEF Flags, AskBroker
    <2>2. Data'
      BY <1>0, <1>15 DEF Data, Points, TrackedPosition, AskBroker
    <2> QED
      BY <1>100, <2>1, <2>2
  <1>16. ASSUME NEW b \in BOOLEAN, FetchDetails(b) PROVE MonitorTypeOK'
    <2>1. Flags'
      BY <1>0, <1>16, Zenon DEF Flags, FetchDetails
    <2>2. Data'
      BY <1>0, <1>16 DEF Data, Points, TrackedPosition, FetchDetails
    <2> QED
      BY <1>100, <2>1, <2>2
  <1>17. ASSUME NEW b \in BOOLEAN, RecordExit(b) PROVE MonitorTypeOK'
    <2>1. Flags'
      BY <1>0, <1>17, Zenon DEF Flags, RecordExit, Recorded
    <2>2. Data'
      BY <1>0, <1>17 DEF Data, Points, TrackedPosition, RecordExit, Recorded
    <2> QED
      BY <1>100, <2>1, <2>2
  <1>18. ASSUME NEW o \in Outcomes, BreakEven(o) \/ TrailingStop(o) \/ AtrTrailingStop(o)
        PROVE MonitorTypeOK'
    <2>1. Rest /\ loop' \in Points
      BY <1>18 DEF BreakEven, TrailingStop, AtrTrailingStop, Points
    <2>2. Flags'
      BY <1>0, <2>1, Zenon DEF Flags, Rest
    <2>3. Data'
      BY <1>0, <1>18, <2>1, StopSteps DEF Data, Rest
    <2> QED
      BY <1>100, <2>2, <2>3
  <1>19. CASE UNCHANGED monitorVars
    <2>1. Flags'
      BY <1>0, <1>19, Zenon DEF Flags, monitorVars
    <2>2. Data'
      BY <1>0, <1>19, Zenon DEF Data, monitorVars
    <2> QED
      BY <1>100, <2>1, <2>2
  <1>20. CASE Step
    <2>1. CASE Begin \/ NoTick \/ TimeExit \/ PartialClose \/ Remove
      BY <1>7, <1>8, <1>9, <1>10, <1>11, <2>1
    <2>2. CASE \E b \in BOOLEAN : ClosePosition(b) \/ PersistExit(b)
                              \/ AskBroker(b) \/ FetchDetails(b) \/ RecordExit(b)
      BY <1>13, <1>14, <1>15, <1>16, <1>17, <2>2, Zenon
    <2>3. CASE \E p \in Prices : ReadTick(p)
      BY <1>12, <2>3
    <2>4. CASE \E o \in Outcomes : BreakEven(o) \/ TrailingStop(o) \/ AtrTrailingStop(o)
      BY <1>18, <2>4
    <2> QED
      BY <1>20, <2>1, <2>2, <2>3, <2>4 DEF Step
  <1> QED
    BY <1>1, <1>2, <1>3, <1>4, <1>5, <1>6, <1>19, <1>20 DEF MonitorNext

(* A rule that moves the stop keeps StopInv if its new stop, and the flag of *)
(* break-even that goes with it, secure what the invariant asks for.         *)
LEMMA ModifyKeeps ==
    ASSUME MonitorTypeOK, StopInv, NEW o \in Outcomes, NEW new \in Int,
           NEW flagged \in TrackedPosition, ModifyStop(new, o, flagged), UNCHANGED <<long, rules>>,
           flagged.sl = pos.sl, flagged.be => rules.be.on,
           WellFormed(rules) => Profit(new) >= Least,
           flagged.be /\ WellFormed(rules) =>
               pos.be \/ (o = "done" /\ Profit(new) >= rules.be.dist),
           pos.be => flagged.be
    PROVE  StopInv'
  <1>1. pos' \in TrackedPosition /\ pos'.be = flagged.be
    BY ModifyTypes
  <1>2. (pos.be => rules.be.on)'
    BY <1>1
  <1>3. Profit(stop)' = Profit(stop') /\ Profit(pos.sl)' = Profit(pos'.sl)
    BY DEF Profit
  <1>4. ASSUME WellFormed(rules) PROVE Profit(stop') >= Least' /\ Profit(pos'.sl) >= Least'
    <2>1. Profit(stop) >= Least /\ Profit(pos.sl) >= Least /\ Profit(new) >= Least
      BY <1>4 DEF StopInv
    <2>2. /\ stop' \in {stop, new}
          /\ pos'.sl \in {pos.sl, new}
          /\ o = "done" => stop' = new /\ pos'.sl = new
      BY ModifyTypes
    <2>3. CASE ~flagged.be \/ pos.be
      <3>1. Least' = Least
        BY <1>1, <2>3 DEF Least
      <3> QED
        BY <2>1, <2>2, <3>1
    <2>4. CASE flagged.be /\ ~pos.be
      <3>1. Least' = rules.be.dist
        BY <1>1, <2>4 DEF Least
      <3>2. o = "done" /\ Profit(new) >= rules.be.dist
        BY <1>4, <2>4
      <3> QED
        BY <2>2, <3>1, <3>2
    <2> QED
      BY <2>3, <2>4
  <1>5. WellFormed(rules)' = WellFormed(rules)
    BY DEF WellFormed
  <1> QED
    BY <1>2, <1>3, <1>4, <1>5 DEF StopInv

(* A step that leaves the broker's stop alone keeps it, if the position stays *)
(* where it was or is registered anew.                                        *)
LEMMA FrameKeeps ==
    ASSUME MonitorTypeOK, StopInv, UNCHANGED <<long, rules, stop>>,
           \/ pos'.sl = pos.sl /\ pos'.be = pos.be
           \/ pos' \in {Tracked(TRUE), Tracked(FALSE)}
    PROVE  StopInv'
  <1>1. WellFormed(rules)' = WellFormed(rules)
    BY DEF WellFormed
  <1>2. Profit(stop)' = Profit(stop) /\ Profit(pos.sl)' = Profit(pos'.sl)
    BY DEF Profit
  <1>3. CASE pos'.sl = pos.sl /\ pos'.be = pos.be
    <2>1. Least' = Least /\ Profit(pos'.sl) = Profit(pos.sl)
      BY <1>3 DEF Least, Profit
    <2> QED
      BY <1>1, <1>2, <1>3, <2>1 DEF StopInv
  <1>4. CASE pos' \in {Tracked(TRUE), Tracked(FALSE)}
    <2>1. ~pos'.be /\ Profit(pos'.sl) = -Risk
      BY <1>4, FreshPosition
    <2>2. Least' = -Risk
      BY <2>1, Zenon DEF Least
    <2>3. ASSUME WellFormed(rules) PROVE Profit(stop) >= -Risk
      <3>1. rules.be.dist \in Nat /\ Profit(stop) \in Int
        BY DEF MonitorTypeOK, Profit
      <3>2. Profit(stop) >= Least /\ Least >= -Risk
        BY <2>3, <3>1 DEF StopInv, Least
      <3> QED
        BY <3>1, <3>2 DEF Least
    <2> QED
      BY <1>1, <1>2, <2>1, <2>2, <2>3 DEF StopInv
  <1> QED
    BY <1>3, <1>4

(* The three rules that move the stop. *)
LEMMA RulesKeep ==
    ASSUME MonitorTypeOK, StopInv, NEW o \in Outcomes,
           BreakEven(o) \/ TrailingStop(o) \/ AtrTrailingStop(o)
    PROVE  StopInv'
  <1>1. /\ tick \in Int /\ stop \in Int /\ pos \in TrackedPosition /\ rules \in Rules
        /\ Profit(tick) \in Int /\ Profit(pos.sl) \in Int
    BY DEF MonitorTypeOK, TrackedPosition, Profit
  <1>2. UNCHANGED <<long, rules>>
    BY DEF BreakEven, TrailingStop, AtrTrailingStop, Rest, worldVars
  <1>3. CASE Keep
    BY <1>2, <1>3, FrameKeeps DEF Keep
  <1>4. ASSUME BreakEven(o), ~Keep PROVE StopInv'
    <2> DEFINE new == Behind(Entry, -rules.be.dist)
               flagged == [pos EXCEPT !.be = (o = "done")]
    <2>1. rules.be.on /\ ~pos.be /\ ModifyStop(new, o, flagged)
      BY <1>4 DEF BreakEven
    <2>2. new \in Int /\ Profit(new) = rules.be.dist
      <3>1. Profit(Entry) = 0 /\ rules.be.dist \in Int
        BY <1>1 DEF Profit
      <3>2. -rules.be.dist \in Int
        BY <3>1
      <3>3. new \in Int /\ Profit(new) = Profit(Entry) - (-rules.be.dist)
        BY <3>2, ProfitBehind
      <3> QED
        BY <3>1, <3>3
    <2>3. flagged \in TrackedPosition /\ flagged.sl = pos.sl /\ (flagged.be <=> o = "done")
      BY <1>1 DEF TrackedPosition
    <2>4. Profit(new) >= Least
      BY <1>1, <2>1, <2>2 DEF Least
    <2>5. Profit(new) >= rules.be.dist
      BY <1>1, <2>2
    <2> HIDE DEF new, flagged
    <2> QED
      BY <1>2, <2>1, <2>2, <2>3, <2>4, <2>5, ModifyKeeps
  <1>5. ASSUME TrailingStop(o), ~Keep PROVE StopInv'
    <2> DEFINE new == Behind(tick, rules.trail.dist)
               flagged == [pos EXCEPT !.trail = TRUE]
    <2>1. /\ rules.trail.on /\ Profit(tick) >= rules.trail.act
          /\ ModifyStop(new, o, flagged)
      BY <1>5 DEF TrailingStop
    <2>2. new \in Int /\ Profit(new) = Profit(tick) - rules.trail.dist
      <3>1. rules.trail.dist \in Int
        BY <1>1
      <3> QED
        BY <1>1, <3>1, ProfitBehind, Zenon
    <2>3. flagged \in TrackedPosition /\ flagged.sl = pos.sl /\ flagged.be = pos.be
      BY <1>1 DEF TrackedPosition
    <2>4. ASSUME WellFormed(rules) PROVE Profit(new) >= Least
      <3>1. Least <= (IF rules.be.on THEN rules.be.dist ELSE -Risk)
        BY <1>1 DEF StopInv, Least
      <3>2. rules.trail.act >= rules.trail.dist
                               + (IF rules.be.on THEN rules.be.dist ELSE -Risk)
        BY <2>1, <2>4 DEF WellFormed
      <3>3. Least \in Int
        BY <1>1 DEF Least
      <3> QED
        BY <1>1, <2>1, <2>2, <3>1, <3>2, <3>3
    <2>5. pos.be => rules.be.on
      BY DEF StopInv
    <2> HIDE DEF new, flagged
    <2> QED
      BY <1>2, <2>1, <2>2, <2>3, <2>4, <2>5, ModifyKeeps
  <1>6. ASSUME AtrTrailingStop(o), ~Keep PROVE StopInv'
    <2> DEFINE new == Behind(tick, rules.atr.dist)
               flagged == [pos EXCEPT !.atr = TRUE]
    <2>0. flagged \in TrackedPosition /\ flagged.sl = pos.sl /\ flagged.be = pos.be
      BY <1>1 DEF TrackedPosition
    <2>1. CASE Better(new) /\ ModifyStop(new, o, flagged)
      <3>1. new \in Int /\ Profit(new) \in Int
        <4>1. rules.atr.dist \in Int
          BY <1>1
        <4>2. new \in Int /\ Profit(new) = Profit(tick) - rules.atr.dist
          BY <1>1, <4>1, ProfitBehind, Zenon
        <4> QED
          BY <1>1, <4>1, <4>2
      <3>2. ASSUME WellFormed(rules) PROVE Profit(new) >= Least
        <4>1. Profit(pos.sl) >= Least /\ Profit(new) > Profit(pos.sl) /\ Least \in Int
          BY <1>1, <2>1, <3>2 DEF StopInv, Better, Least
        <4> QED
          BY <1>1, <3>1, <4>1
      <3>3. pos.be => rules.be.on
        BY DEF StopInv
      <3> HIDE DEF new, flagged
      <3> QED
        BY <1>2, <2>0, <2>1, <3>1, <3>2, <3>3, ModifyKeeps
    <2>2. CASE pos' = flagged /\ UNCHANGED stop
      BY <1>2, <2>0, <2>2, FrameKeeps
    <2> QED
      BY <1>6, <2>1, <2>2 DEF AtrTrailingStop
  <1> QED
    BY <1>3, <1>4, <1>5, <1>6

LEMMA NextKeepsStops == MonitorTypeOK /\ StopInv /\ [MonitorNext]_monitorVars => StopInv'
  <1> SUFFICES ASSUME MonitorTypeOK, StopInv, [MonitorNext]_monitorVars PROVE StopInv'
    OBVIOUS
  <1> USE DEF worldVars, brokerVars, trackVars, loopVars
  <1>1. CASE TrackPosition \/ RehydratePosition \/ Restart \/ Remove
    BY <1>1, FrameKeeps DEF TrackPosition, RehydratePosition, Restart, Remove
  <1>2. CASE TimePasses \/ BrokerCloses \/ FetchOpenPosition
    BY <1>2, FrameKeeps DEF TimePasses, BrokerCloses, FetchOpenPosition
  <1>3. CASE Begin \/ NoTick \/ TimeExit \/ \E p \in Prices : ReadTick(p)
    BY <1>3, FrameKeeps DEF Begin, NoTick, TimeExit, ReadTick
  <1>4. ASSUME NEW b \in BOOLEAN,
               \/ ClosePosition(b) \/ PersistExit(b)
               \/ AskBroker(b) \/ FetchDetails(b) \/ RecordExit(b)
        PROVE  StopInv'
    BY <1>4, FrameKeeps DEF ClosePosition, PersistExit, AskBroker, FetchDetails, RecordExit
  <1>5. CASE PartialClose
    <2>1. pos \in TrackedPosition
      BY DEF MonitorTypeOK, TrackedPosition
    <2>2. pos'.sl = pos.sl /\ pos'.be = pos.be /\ UNCHANGED <<long, rules, stop>>
      BY <1>5, <2>1 DEF PartialClose, TrackedPosition
    <2> QED
      BY <2>2, FrameKeeps
  <1>6. CASE UNCHANGED monitorVars
    BY <1>6, FrameKeeps DEF monitorVars
  <1> QED
    BY <1>1, <1>2, <1>3, <1>4, <1>5, <1>6, RulesKeep, Zenon DEF MonitorNext, Step

LEMMA NextKeepsExits == ExitInv /\ [MonitorNext]_monitorVars => ExitInv'
  <1> SUFFICES ASSUME ExitInv, [MonitorNext]_monitorVars PROVE ExitInv'
    OBVIOUS
  <1> USE DEF ExitInv, At, worldVars, brokerVars, trackVars, loopVars
  <1>1. CASE TimePasses \/ BrokerCloses \/ TrackPosition \/ FetchOpenPosition
             \/ RehydratePosition \/ Restart
    <2>1. UNCHANGED row /\ (loop' = loop \/ loop' = "idle")
      BY <1>1 DEF TimePasses, BrokerCloses, TrackPosition, FetchOpenPosition,
                  RehydratePosition, Restart
    <2>2. ~open => ~open'
      BY <1>1, Zenon DEF TimePasses, BrokerCloses, TrackPosition, FetchOpenPosition,
                         RehydratePosition, Restart
    <2> QED
      BY <2>1, <2>2
  <1>2. CASE Begin \/ NoTick \/ TimeExit \/ PartialClose \/ Remove
    <2>1. UNCHANGED row /\ loop' \notin {"persist", "record"}
      BY <1>2 DEF Begin, NoTick, TimeExit, PartialClose, Remove
    <2>2. ~open => ~open'
      BY <1>2, Zenon DEF Begin, NoTick, TimeExit, PartialClose, Remove
    <2> QED
      BY <2>1, <2>2
  <1>3. ASSUME NEW p \in Prices, ReadTick(p) PROVE ExitInv'
    BY <1>3 DEF ReadTick
  <1>4. ASSUME NEW b \in BOOLEAN, ClosePosition(b) PROVE ExitInv'
    <2>1. ~open => ~open'
      BY <1>4 DEF ClosePosition
    <2>2. loop' = "persist" => ~open'
      BY <1>4 DEF ClosePosition
    <2> QED
      BY <1>4, <2>1, <2>2 DEF ClosePosition
  <1>5. ASSUME NEW b \in BOOLEAN, PersistExit(b) \/ RecordExit(b) PROVE ExitInv'
    BY <1>5 DEF PersistExit, RecordExit, Recorded
  <1>6. ASSUME NEW b \in BOOLEAN, AskBroker(b) \/ FetchDetails(b) PROVE ExitInv'
    BY <1>6 DEF AskBroker, FetchDetails
  <1>7. ASSUME NEW o \in Outcomes, BreakEven(o) \/ TrailingStop(o) \/ AtrTrailingStop(o)
        PROVE  ExitInv'
    BY <1>7 DEF BreakEven, TrailingStop, AtrTrailingStop, Rest
  <1>8. CASE UNCHANGED monitorVars
    BY <1>8 DEF monitorVars
  <1> QED
    BY <1>1, <1>2, <1>3, <1>4, <1>5, <1>6, <1>7, <1>8, Zenon DEF MonitorNext, Step

(* Moving a stop, or leaving it, does not undo the flag of the partial close. *)
LEMMA ModifyLeavesPartials ==
    ASSUME MonitorTypeOK, NEW new, NEW o, NEW flagged, flagged \in TrackedPosition,
           pos.partial => flagged.partial, ModifyStop(new, o, flagged), pos.partial
    PROVE  pos'.partial
  <1>1. flagged.partial /\ [flagged EXCEPT !.sl = new].partial
    BY DEF TrackedPosition
  <1>2. CASE pos' = flagged
    BY <1>1, <1>2
  <1>3. CASE pos' = [flagged EXCEPT !.sl = new]
    BY <1>1, <1>3
  <1> QED
    BY <1>2, <1>3 DEF ModifyStop

LEMMA StopsLeavePartials ==
    ASSUME MonitorTypeOK, NEW o \in Outcomes, BreakEven(o) \/ TrailingStop(o) \/ AtrTrailingStop(o),
           pos.partial
    PROVE  pos'.partial
  <1>1. ASSUME NEW flagged,
               \/ flagged = [pos EXCEPT !.be = (o = "done")]
               \/ flagged = [pos EXCEPT !.trail = TRUE]
               \/ flagged = [pos EXCEPT !.atr = TRUE]
        PROVE  flagged \in TrackedPosition /\ flagged.partial
    BY <1>1 DEF MonitorTypeOK, TrackedPosition
  <1>2. CASE Keep
    BY <1>2 DEF Keep
  <1>3. CASE \E new : ModifyStop(new, o, [pos EXCEPT !.be = (o = "done")])
    BY <1>3, <1>1, ModifyLeavesPartials
  <1>4. CASE \E new : ModifyStop(new, o, [pos EXCEPT !.trail = TRUE])
    BY <1>4, <1>1, ModifyLeavesPartials
  <1>5. CASE \E new : ModifyStop(new, o, [pos EXCEPT !.atr = TRUE])
    BY <1>5, <1>1, ModifyLeavesPartials
  <1>6. CASE pos' = [pos EXCEPT !.atr = TRUE]
    BY <1>6, <1>1
  <1>7. CASE BreakEven(o)
    BY <1>7, <1>2, <1>3, Zenon DEF BreakEven
  <1>8. CASE TrailingStop(o)
    BY <1>8, <1>2, <1>4, Zenon DEF TrailingStop
  <1>9. CASE AtrTrailingStop(o)
    BY <1>9, <1>2, <1>5, <1>6, Zenon DEF AtrTrailingStop
  <1> QED
    BY <1>7, <1>8, <1>9

LEMMA NextKeepsPartials == MonitorTypeOK /\ PartialInv /\ [MonitorNext]_monitorVars => PartialInv'
  <1> SUFFICES ASSUME MonitorTypeOK, PartialInv, [MonitorNext]_monitorVars PROVE PartialInv'
    OBVIOUS
  <1> USE DEF PartialInv, At, worldVars, brokerVars, trackVars, loopVars
  <1>1. CASE TimePasses \/ BrokerCloses \/ FetchOpenPosition
    BY <1>1 DEF TimePasses, BrokerCloses, FetchOpenPosition
  <1>2. CASE TrackPosition \/ RehydratePosition
    <2>1. CASE TrackPosition
      BY <2>1 DEF TrackPosition
    <2>2. CASE RehydratePosition /\ monitored
      BY <2>2 DEF RehydratePosition
    <2>3. CASE RehydratePosition /\ ~monitored
      <3>1. Tracked(TRUE).partial
        BY DEF Tracked
      <3>2. pos'.partial /\ ~pending' /\ UNCHANGED partials
        BY <2>3, <3>1 DEF RehydratePosition
      <3> QED
        BY <3>2
    <2> QED
      BY <1>2, <2>1, <2>2, <2>3
  <1>3. CASE Restart
    BY <1>3 DEF Restart
  <1>4. CASE Begin \/ NoTick \/ TimeExit
    BY <1>4 DEF Begin, NoTick, TimeExit
  <1>5. CASE PartialClose
    <2>1. CASE UNCHANGED <<pos, partials>>
      BY <1>5, <2>1 DEF PartialClose
    <2>2. CASE ~pos.partial /\ pos' = [pos EXCEPT !.partial = TRUE] /\ partials' = partials + 1
      <3>1. partials = 0
        BY <1>5, <2>2 DEF PartialClose
      <3>2. pos'.partial
        BY <2>2 DEF MonitorTypeOK, PartialInv
      <3>3. partials' = 1 /\ ~pending'
        BY <1>5, <2>2, <3>1 DEF PartialClose
      <3> QED
        BY <3>2, <3>3
    <2> QED
      BY <1>5, <2>1, <2>2 DEF PartialClose
  <1>6. CASE Remove
    BY <1>6 DEF Remove
  <1>7. ASSUME NEW p \in Prices, ReadTick(p) PROVE PartialInv'
    BY <1>7 DEF ReadTick
  <1>8. ASSUME NEW b \in BOOLEAN, ClosePosition(b) \/ PersistExit(b) \/ AskBroker(b)
                                 \/ FetchDetails(b) \/ RecordExit(b)
        PROVE  PartialInv'
    <2>1. UNCHANGED <<pending, monitored, pos, listed, partials>> /\ loop # "idle"
      BY <1>8 DEF ClosePosition, PersistExit, AskBroker, FetchDetails, RecordExit
    <2> QED
      BY <2>1
  <1>9. ASSUME NEW o \in Outcomes, BreakEven(o) \/ TrailingStop(o) \/ AtrTrailingStop(o)
        PROVE  PartialInv'
    <2>1. UNCHANGED <<pending, monitored, partials>> /\ loop # "idle"
      BY <1>9 DEF BreakEven, TrailingStop, AtrTrailingStop, Rest
    <2>2. pos.partial => pos'.partial
      BY <1>9, StopsLeavePartials
    <2> QED
      BY <2>1, <2>2
  <1>10. CASE UNCHANGED monitorVars
    BY <1>10 DEF monitorVars
  <1> QED
    BY <1>1, <1>2, <1>3, <1>4, <1>5, <1>6, <1>7, <1>8, <1>9, <1>10, Zenon DEF MonitorNext, Step

-----------------------------------------------------------------------------
(* The state of the monitor, of the broker and of the trades table keep their *)
(* types, for any rules and prices.                                           *)
THEOREM TypeCorrect == MonitorSpec => []MonitorTypeOK
  BY InitInv, NextTypes, PTL DEF MonitorSpec

LEMMA StopsSecured == MonitorSpec => [](MonitorTypeOK /\ StopInv)
  <1>1. MonitorInit => MonitorTypeOK /\ StopInv
    BY InitInv
  <1>2. (MonitorTypeOK /\ StopInv) /\ [MonitorNext]_monitorVars => (MonitorTypeOK /\ StopInv)'
    BY NextTypes, NextKeepsStops
  <1> QED
    BY <1>1, <1>2, PTL DEF MonitorSpec

(* A position that break-even has moved stays at or above entry plus buffer,  *)
(* whatever _evaluate_position and the broker's answers do afterwards.        *)
THEOREM BreakEvenStays == MonitorSpec => []BreakEvenHolds
  <1>1. MonitorTypeOK /\ StopInv => BreakEvenHolds
    BY DEF MonitorTypeOK, StopInv, Least, BreakEvenHolds
  <1> QED
    BY <1>1, StopsSecured, PTL

(* No rule, restart or rehydration takes the stop loss at the broker behind   *)
(* the one of the signal.                                                     *)
THEOREM StopIsNeverLowered == MonitorSpec => []NeverBelowOriginal
  <1>1. MonitorTypeOK /\ StopInv => NeverBelowOriginal
    <2> SUFFICES ASSUME MonitorTypeOK, StopInv, WellFormed(rules) PROVE Profit(stop) >= -Risk
      BY DEF NeverBelowOriginal
    <2>1. Profit(stop) \in Int /\ rules.be.dist \in Nat
      BY DEF MonitorTypeOK, Profit
    <2>2. Profit(stop) >= Least /\ Least >= -Risk /\ Least \in Int
      BY <2>1 DEF StopInv, Least
    <2> QED
      BY <2>1, <2>2
  <1> QED
    BY <1>1, StopsSecured, PTL

(* _persist_exit and _reconcile_external_closes record an exit only of a      *)
(* position the broker has closed.                                            *)
THEOREM ExitsAreTrue == MonitorSpec => []NoFalseExit
  <1>1. MonitorInit => ExitInv
    BY InitInv
  <1>2. ExitInv => NoFalseExit
    BY DEF ExitInv, NoFalseExit
  <1> QED
    BY <1>1, <1>2, NextKeepsExits, PTL DEF MonitorSpec

(* A partial close is asked for at most once, across failed trackings and any *)
(* number of restarts (_partial_close, rehydrate_position).                   *)
THEOREM PartialCloseOnce == MonitorSpec => []PartialOnce
  <1>1. MonitorInit => MonitorTypeOK /\ PartialInv
    <2>1. MonitorInit => PartialInv
      BY DEF MonitorInit, PartialInv
    <2> QED
      BY <2>1, InitInv
  <1>2. (MonitorTypeOK /\ PartialInv) /\ [MonitorNext]_monitorVars => (MonitorTypeOK /\ PartialInv)'
    BY NextTypes, NextKeepsPartials
  <1>3. MonitorTypeOK /\ PartialInv => PartialOnce
    BY DEF PartialInv, PartialOnce
  <1> QED
    BY <1>1, <1>2, <1>3, PTL DEF MonitorSpec

-----------------------------------------------------------------------------
(* Broker. *)

HIDE MonitorAssumption DEF Rules, Level


Kinds == {"open", "modify", "close"}
JobRecords == [step : {"idle", "connect", "request", "send"}, kind : Kinds,
               tries : 0..(MaxRetries - 1), call : Nat, target : Nat]
OrderRecords == [thread : Callers, call : Nat, account : BrokerAccounts, open : BOOLEAN, moved : BOOLEAN]
Sessions == BrokerAccounts \cup {GlobalToken, "closed", "anonymous"}

BrokerTyped ==
    /\ brJob \in [Callers -> JobRecords] /\ brCalls \in [Callers -> Nat]
    /\ brOrders \in Seq(OrderRecords) /\ brSession \in [Clients -> Sessions]

\* What a call has opened so far: nothing before it is connected, and at Deriv nothing before
\* it ends; at MetaApi at most one position for each time the order was sent.
CallOpened(job, opened) ==
    /\ (job.kind = "open" /\ job.step = "connect") => opened = 0
    /\ (job.kind = "open" /\ job.step \in {"request", "send"}) => opened <= job.tries

JobsInv ==
    \A t \in Callers : brJob[t].step # "idle" =>
        /\ brJob[t].call = brCalls[t]
        /\ brJob[t].kind # "open" => brJob[t].target \in DOMAIN brOrders
        /\ CallOpened(brJob[t], Cardinality(OrdersOf(t, brCalls[t])))
        /\ (brJob[t].kind = "open" /\ Home(AccountOf[t]) = "deriv") => OrdersOf(t, brCalls[t]) = {}

Limited(t) == IF Home(AccountOf[t]) = "deriv" THEN 1 ELSE MaxRetries
CallsInv ==
    \A t \in Callers, n \in Nat :
        /\ n > brCalls[t] => OrdersOf(t, n) = {}
        /\ Cardinality(OrdersOf(t, n)) <= Limited(t)

\* The client of an account that shares it with no other serves that account or nobody.
Own(a) == Unshared(a) /\ GlobalToken \in {None, a}
OwnSession == \A a \in BrokerAccounts : Own(a) => brSession[Home(a)] \in {a, "closed", "anonymous"}

BrokerInv == BrokerTyped /\ JobsInv /\ CallsInv /\ OwnSession /\ RightAccount

-----------------------------------------------------------------------------
(* Clients and sessions. *)

LEMMA Homes ==
    ASSUME NEW a \in BrokerAccounts
    PROVE  /\ Home(a) \in Providers /\ Home(a) \in Clients /\ Kind(Home(a)) = Home(a)
           /\ Home(a) # "legacy"
  BY BrokerAssumption DEF Home, Providers, Clients, Kind

LEMMA Routes ==
    ASSUME NEW t \in Callers
    PROVE  /\ AccountOf[t] \in BrokerAccounts /\ Route(t) \in Clients
           /\ Route(t) # "legacy" => brJob[t].kind = "open"
           /\ brJob[t].kind = "open" => Route(t) = Home(AccountOf[t]) /\ Route(t) \in Providers
  <1>1. AccountOf[t] \in BrokerAccounts
    BY BrokerAssumption
  <1> QED
    BY <1>1, Homes DEF Route, Clients

LEMMA SessionChanges ==
    ASSUME BrokerTyped, OwnSession, NEW t \in Callers,
           NEW s \in {AccountOf[t], "closed", "anonymous", brSession[Route(t)]} \cup ({GlobalToken} \ {None}),
           brSession' = [brSession EXCEPT ![Route(t)] = s]
    PROVE  brSession' \in [Clients -> Sessions] /\ OwnSession'
  <1>1. AccountOf[t] \in BrokerAccounts /\ Route(t) \in Clients
    BY Routes
  <1>2. brSession' \in [Clients -> Sessions]
    BY <1>1 DEF BrokerTyped, Sessions
  <1>3. ASSUME NEW a \in BrokerAccounts, Own(a)
        PROVE  brSession'[Home(a)] \in {a, "closed", "anonymous"}
    <2>1. Home(a) \in Clients /\ Home(a) # "legacy" /\ brSession[Home(a)] \in {a, "closed", "anonymous"}
      BY <1>3, Homes DEF OwnSession
    <2>2. CASE Route(t) # Home(a)
      BY <1>1, <2>1, <2>2 DEF BrokerTyped
    <2>3. CASE Route(t) = Home(a)
      <3>1. AccountOf[t] = a
        BY <1>1, <1>3, <2>1, <2>3, Routes DEF Own, Unshared
      <3>2. s \in {a, "closed", "anonymous"}
        BY <1>3, <2>1, <2>3, <3>1 DEF Own
      <3> QED
        BY <1>1, <2>3, <3>2 DEF BrokerTyped
    <2> QED
      BY <2>2, <2>3
  <1> QED
    BY <1>2, <1>3 DEF OwnSession

LEMMA Relinks ==
    ASSUME BrokerTyped, NEW t \in Callers, ConnectClient(t) \/ Prepare(t)
    PROVE  \E s \in {AccountOf[t], "closed", "anonymous", brSession[Route(t)]} \cup ({GlobalToken} \ {None}) :
               brSession' = [brSession EXCEPT ![Route(t)] = s]
  <1> DEFINE c == Route(t)
             Some == {AccountOf[t], "closed", "anonymous", brSession[c]} \cup ({GlobalToken} \ {None})
             Goal == \E s \in Some : brSession' = [brSession EXCEPT ![c] = s]
  <1>1. AccountOf[t] \in BrokerAccounts /\ c \in Clients
    BY Routes
  <1>2. ASSUME Unlinked PROVE Goal
    <2>1. brSession' = [brSession EXCEPT ![c] = brSession[c]]
      BY <1>1, <1>2 DEF Unlinked, BrokerTyped
    <2> QED
      BY <2>1
  <1>3. ASSUME NEW x, NEW s \in Some, Link(c, x, s) PROVE Goal
    BY <1>3 DEF Link
  <1>4. ASSUME NEW token \in {AccountOf[t], GlobalToken}, NEW ok \in BOOLEAN, EnsureConnected(c, token, ok)
        PROVE  Goal
    <2>1. token # None => token \in Some
      OBVIOUS
    <2> HIDE DEF Goal, c
    <2>2. ASSUME token # None, NEW s \in {token, "anonymous"}, NEW x, Link(c, x, s) PROVE Goal
      <3>1. s \in Some
        BY <2>1, <2>2
      <3> QED
        BY <1>3, <2>2, <3>1
    <2>3. \A x : Link(c, x, "anonymous") \/ Link(c, x, "closed") => Goal
      BY <1>3
    <2> QED
      BY <1>2, <1>4, <2>2, <2>3 DEF EnsureConnected
  <1>5. ASSUME NEW ok \in BOOLEAN, Authorize(c, AccountOf[t], ok) PROVE Goal
    <2>1. AccountOf[t] \in Some /\ brSession[c] \in Some
      OBVIOUS
    <2> HIDE DEF Goal, c, Some
    <2> QED
      BY <1>3, <1>5, <2>1 DEF Authorize
  <1>6. ASSUME NEW ok \in BOOLEAN, DerivLogin(c, AccountOf[t], ok) PROVE Goal
    <2> HIDE DEF Goal, c
    <2> QED
      BY <1>4, <1>5, <1>6 DEF DerivLogin
  <1>7. ASSUME MetaConnects(t, c, AccountOf[t]) \/ MetaFails(t, c, AccountOf[t]) PROVE Goal
    <2>1. AccountOf[t] \in Some /\ brSession[c] \in Some
      OBVIOUS
    <2> HIDE DEF Goal, c, Some
    <2> QED
      BY <1>2, <1>3, <1>7, <2>1 DEF MetaConnects, MetaFails
  <1> HIDE DEF Goal
  <1>8. ASSUME ConnectClient(t) PROVE Goal
    BY <1>2, <1>6, <1>7, <1>8 DEF ConnectClient, MetaConnect, DerivConnect
  <1>9. ASSUME Prepare(t) PROVE Goal
    BY <1>2, <1>4, <1>9 DEF Prepare
  <1> QED
    BY <1>8, <1>9 DEF Goal

-----------------------------------------------------------------------------
(* What a step makes of the call of a thread. *)

\* The call goes on: it connects for the first time or again, or it asks again.
CallGoes(t, j) ==
    /\ brJob[t].step # "idle" /\ j.step # "idle"
    /\ j.call = brJob[t].call /\ j.kind = brJob[t].kind /\ j.target = brJob[t].target
    /\ j.step = "connect" => brJob[t].step = "connect"
    /\ brJob[t].step # "connect" => j.tries >= brJob[t].tries

LEMMA OrdersStay ==
    ASSUME UNCHANGED brOrders
    PROVE  \A u, n : OrdersOf(u, n)' = OrdersOf(u, n)
  BY DEF OrdersOf

LEMMA Counts ==
    ASSUME BrokerTyped, NEW t \in Callers, NEW n
    PROVE  /\ OrdersOf(t, n) \subseteq 1..Len(brOrders) /\ IsFiniteSet(OrdersOf(t, n))
           /\ Cardinality(OrdersOf(t, n)) \in Nat
  <1>1. Len(brOrders) \in Nat /\ OrdersOf(t, n) \subseteq 1..Len(brOrders)
    BY DEF BrokerTyped, OrdersOf
  <1>2. IsFiniteSet(1..Len(brOrders))
    BY <1>1, FS_Interval
  <1>3. IsFiniteSet(OrdersOf(t, n))
    BY <1>1, <1>2, FS_Subset
  <1> QED
    BY <1>1, <1>3, FS_CardinalityType

LEMMA NoOrderStep ==
    ASSUME BrokerInv, NEW t \in Callers, NEW j \in JobRecords, UNCHANGED <<brOrders, brCalls>>,
           brJob' = [brJob EXCEPT ![t] = j], CallGoes(t, j) \/ j.step = "idle",
           brSession' \in [Clients -> Sessions], OwnSession'
    PROVE  BrokerInv'
  <1>1. /\ brJob' \in [Callers -> JobRecords] /\ brJob'[t] = j
        /\ \A u \in Callers \ {t} : brJob'[u] = brJob[u]
    BY DEF BrokerInv, BrokerTyped
  <1>2. BrokerTyped'
    BY <1>1 DEF BrokerInv, BrokerTyped
  <1>3. JobsInv'
    <2> SUFFICES ASSUME NEW u \in Callers, brJob'[u].step # "idle"
                 PROVE  /\ brJob'[u].call = brCalls[u]
                        /\ brJob'[u].kind # "open" => brJob'[u].target \in DOMAIN brOrders
                        /\ CallOpened(brJob'[u], Cardinality(OrdersOf(u, brCalls[u])))
                        /\ (brJob'[u].kind = "open" /\ Home(AccountOf[u]) = "deriv") => OrdersOf(u, brCalls[u]) = {}
      BY OrdersStay DEF JobsInv
    <2>1. CASE u # t
      BY <1>1, <2>1 DEF BrokerInv, JobsInv
    <2>2. CASE u = t
      <3>1. CallGoes(t, j)
        BY <1>1, <2>2
      <3>2. /\ brJob[t].call = brCalls[t]
            /\ brJob[t].kind # "open" => brJob[t].target \in DOMAIN brOrders
            /\ CallOpened(brJob[t], Cardinality(OrdersOf(t, brCalls[t])))
            /\ (brJob[t].kind = "open" /\ Home(AccountOf[t]) = "deriv") => OrdersOf(t, brCalls[t]) = {}
        BY <3>1 DEF CallGoes, BrokerInv, JobsInv
      <3>3. CallOpened(j, Cardinality(OrdersOf(t, brCalls[t])))
        <4> DEFINE k == Cardinality(OrdersOf(t, brCalls[t]))
        <4>1. /\ brJob[t] \in JobRecords /\ CallOpened(brJob[t], k) /\ k \in Nat
              /\ j.tries \in Nat /\ brJob[t].tries \in Nat /\ brJob[t].step \in {"connect", "request", "send"}
          BY <3>1, <3>2, Counts DEF BrokerInv, BrokerTyped, JobRecords, MaxRetries, CallGoes
        <4> HIDE DEF k
        <4>2. CallOpened(j, k)
          BY <3>1, <4>1 DEF CallOpened, CallGoes
        <4> QED
          BY <4>2 DEF k
      <3> QED
        BY <1>1, <2>2, <3>1, <3>2, <3>3 DEF CallGoes
    <2> QED
      BY <2>1, <2>2
  <1>4. CallsInv' /\ RightAccount'
    BY OrdersStay DEF BrokerInv, CallsInv, RightAccount
  <1> QED
    BY <1>2, <1>3, <1>4 DEF BrokerInv

\* An order, or one position touched.
LEMMA OrderSteps ==
    ASSUME BrokerInv, NEW t \in Callers, brJob[t].step = "send", CarriedOut(t), NEW l, l = Len(brOrders) + 1
    PROVE  /\ brOrders' \in Seq(OrderRecords) /\ DOMAIN brOrders \subseteq DOMAIN brOrders'
           /\ RightAccount'
           /\ \A u \in Callers, n \in Nat :
                  OrdersOf(u, n)' = IF brJob[t].kind = "open" /\ u = t /\ n = brCalls[t]
                                    THEN OrdersOf(u, n) \cup {l} ELSE OrdersOf(u, n)
  <1>1. /\ brJob[t] \in JobRecords /\ brJob[t].call = brCalls[t] /\ brCalls[t] \in Nat
        /\ brOrders \in Seq(OrderRecords) /\ Len(brOrders) \in Nat /\ RightAccount
        /\ brSession[Route(t)] \in BrokerAccounts
        /\ brJob[t].kind # "open" => brJob[t].target \in DOMAIN brOrders
    BY DEF BrokerInv, BrokerTyped, JobsInv, CarriedOut
  <1>2. CASE brJob[t].kind = "open"
    <2> DEFINE q == [thread |-> t, call |-> brJob[t].call, account |-> brSession[Route(t)],
                     open |-> TRUE, moved |-> FALSE]
    <2>1. q \in OrderRecords /\ q.thread = t /\ q.call = brCalls[t] /\ q.account = brSession[Route(t)]
      BY <1>1 DEF OrderRecords
    <2>2. brOrders' = Append(brOrders, q)
      BY <1>2 DEF CarriedOut, Opens
    <2> HIDE DEF q
    <2>3. /\ brOrders' \in Seq(OrderRecords) /\ brOrders'[l] = q
          /\ DOMAIN brOrders' = DOMAIN brOrders \cup {l} /\ l \notin DOMAIN brOrders
          /\ \A i \in DOMAIN brOrders : brOrders'[i] = brOrders[i]
      BY <1>1, <2>1, <2>2
    <2>4. \A u \in Callers, n \in Nat :
              OrdersOf(u, n)' = IF u = t /\ n = brCalls[t] THEN OrdersOf(u, n) \cup {l} ELSE OrdersOf(u, n)
      BY <2>1, <2>3 DEF OrdersOf
    <2>5. (Unshared(AccountOf[t]) /\ GlobalToken \in {None, AccountOf[t]}) => q.account = AccountOf[t]
      <3>1. AccountOf[t] \in BrokerAccounts /\ Route(t) = Home(AccountOf[t])
        BY <1>2, Routes
      <3>2. Own(AccountOf[t]) => brSession[Route(t)] \in {AccountOf[t], "closed", "anonymous"}
        BY <3>1 DEF BrokerInv, OwnSession
      <3>3. "closed" \notin BrokerAccounts /\ "anonymous" \notin BrokerAccounts
        BY BrokerAssumption
      <3> QED
        BY <1>1, <2>1, <3>2, <3>3 DEF Own
    <2>6. RightAccount'
      BY <1>1, <2>1, <2>3, <2>5 DEF RightAccount
    <2> QED
      BY <1>2, <2>3, <2>4, <2>6
  <1>3. CASE brJob[t].kind # "open"
    <2> DEFINE i == brJob[t].target
    <2>1. i \in DOMAIN brOrders /\ brOrders[i] \in OrderRecords
      BY <1>1, <1>3
    <2>2. PICK q \in OrderRecords : /\ brOrders' = [brOrders EXCEPT ![i] = q]
                                    /\ q.thread = brOrders[i].thread /\ q.call = brOrders[i].call
                                    /\ q.account = brOrders[i].account
      <3>1. CASE brJob[t].kind = "close"
        <4> DEFINE p == [brOrders[i] EXCEPT !.open = FALSE]
        <4>1. /\ p \in OrderRecords /\ p.thread = brOrders[i].thread /\ p.call = brOrders[i].call
              /\ p.account = brOrders[i].account
          BY <2>1 DEF OrderRecords
        <4>2. brOrders' = [brOrders EXCEPT ![i] = p]
          BY <1>1, <1>3, <3>1 DEF CarriedOut, Touches
        <4> HIDE DEF p, i
        <4> QED
          BY <4>1, <4>2
      <3>2. CASE brJob[t].kind # "close"
        <4> DEFINE p == [brOrders[i] EXCEPT !.moved = TRUE]
        <4>1. /\ p \in OrderRecords /\ p.thread = brOrders[i].thread /\ p.call = brOrders[i].call
              /\ p.account = brOrders[i].account
          BY <2>1 DEF OrderRecords
        <4>2. brOrders' = [brOrders EXCEPT ![i] = p]
          BY <1>1, <1>3, <3>2 DEF CarriedOut, Touches
        <4> HIDE DEF p, i
        <4> QED
          BY <4>1, <4>2
      <3> QED
        BY <3>1, <3>2
    <2> HIDE DEF i
    <2>3. /\ brOrders' \in Seq(OrderRecords) /\ DOMAIN brOrders' = DOMAIN brOrders
          /\ \A k \in DOMAIN brOrders : /\ brOrders'[k].thread = brOrders[k].thread
                                        /\ brOrders'[k].call = brOrders[k].call
                                        /\ brOrders'[k].account = brOrders[k].account
      BY <1>1, <2>1, <2>2
    <2>4. \A u \in Callers, n \in Nat : OrdersOf(u, n)' = OrdersOf(u, n)
      BY <2>3 DEF OrdersOf
    <2>5. RightAccount'
      BY <1>1, <2>3 DEF RightAccount
    <2> QED
      BY <1>3, <2>3, <2>4, <2>5
  <1> QED
    BY <1>2, <1>3

LEMMA CarriedStep ==
    ASSUME BrokerInv, NEW t \in Callers, brJob[t].step = "send", CarriedOut(t), NEW j \in JobRecords,
           UNCHANGED <<brCalls, brSession>>, brJob' = [brJob EXCEPT ![t] = j],
           \/ j.step = "idle"
           \/ SendsAgain(t) /\ CallGoes(t, j) /\ j.step = "request" /\ j.tries = brJob[t].tries + 1
    PROVE  BrokerInv'
  <1> DEFINE l == Len(brOrders) + 1
             n == brCalls[t]
             k == Cardinality(OrdersOf(t, n))
  <1>1. /\ brOrders' \in Seq(OrderRecords) /\ DOMAIN brOrders \subseteq DOMAIN brOrders' /\ RightAccount'
        /\ \A u \in Callers, m \in Nat :
               OrdersOf(u, m)' = IF brJob[t].kind = "open" /\ u = t /\ m = n
                                 THEN OrdersOf(u, m) \cup {l} ELSE OrdersOf(u, m)
    BY OrderSteps
  <1>2. /\ brJob' \in [Callers -> JobRecords] /\ brJob'[t] = j
        /\ \A u \in Callers \ {t} : brJob'[u] = brJob[u]
    BY DEF BrokerInv, BrokerTyped
  <1>3. /\ BrokerTyped /\ brJob[t] \in JobRecords /\ brJob[t].tries \in 0..2 /\ n \in Nat
        /\ brCalls \in [Callers -> Nat] /\ Len(brOrders) \in Nat
    BY DEF BrokerInv, BrokerTyped, JobRecords, MaxRetries
  <1>4. /\ brJob[t].call = n
        /\ brJob[t].kind = "open" => k <= brJob[t].tries
        /\ (brJob[t].kind = "open" /\ Home(AccountOf[t]) = "deriv") => k = 0
    <2>1. /\ brJob[t].call = n /\ CallOpened(brJob[t], k)
          /\ (brJob[t].kind = "open" /\ Home(AccountOf[t]) = "deriv") => OrdersOf(t, n) = {}
      BY DEF BrokerInv, JobsInv
    <2> QED
      BY <2>1, FS_EmptySet DEF CallOpened
  <1>5. k \in Nat /\ (brJob[t].kind = "open" => Cardinality(OrdersOf(t, n)') = k + 1)
    <2>1. OrdersOf(t, n) \subseteq 1..Len(brOrders) /\ IsFiniteSet(OrdersOf(t, n)) /\ k \in Nat
      BY <1>3, Counts
    <2>2. l \notin OrdersOf(t, n)
      BY <1>3, <2>1
    <2>3. Cardinality(OrdersOf(t, n) \cup {l}) = k + 1
      BY <2>1, <2>2, FS_AddElement
    <2> QED
      BY <1>1, <1>3, <2>1, <2>3
  <1>6. BrokerTyped'
    BY <1>1, <1>2 DEF BrokerInv, BrokerTyped
  <1> HIDE DEF l, k
  <1>7. CallsInv'
    <2>1. ASSUME NEW u \in Callers, NEW m \in Nat
          PROVE  /\ m > brCalls[u] => OrdersOf(u, m)' = {}
                 /\ Cardinality(OrdersOf(u, m)') <= Limited(u)
      <3>1. CASE brJob[t].kind = "open" /\ u = t /\ m = n
        <4>1. Cardinality(OrdersOf(t, n)') <= Limited(t)
          BY <1>3, <1>4, <1>5, <3>1 DEF Limited, MaxRetries
        <4> QED
          BY <1>3, <3>1, <4>1
      <3>2. CASE ~(brJob[t].kind = "open" /\ u = t /\ m = n)
        BY <1>1, <3>2 DEF BrokerInv, CallsInv
      <3> QED
        BY <3>1, <3>2
    <2> QED
      BY <2>1 DEF CallsInv, Limited
  <1>8. JobsInv'
    <2> SUFFICES ASSUME NEW u \in Callers, brJob'[u].step # "idle", NEW m, m = brCalls[u]
                 PROVE  /\ brJob'[u].call = m
                        /\ brJob'[u].kind # "open" => brJob'[u].target \in DOMAIN brOrders'
                        /\ CallOpened(brJob'[u], Cardinality(OrdersOf(u, m)'))
                        /\ (brJob'[u].kind = "open" /\ Home(AccountOf[u]) = "deriv") => OrdersOf(u, m)' = {}
      BY DEF JobsInv
    <2>1. CASE u # t
      <3>1. OrdersOf(u, m)' = OrdersOf(u, m)
        BY <1>1, <1>3, <2>1
      <3> QED
        BY <1>1, <1>2, <2>1, <3>1 DEF BrokerInv, JobsInv
    <2>2. CASE u = t
      <3>1. SendsAgain(t) /\ CallGoes(t, j) /\ j.step = "request" /\ j.tries = brJob[t].tries + 1
        BY <1>2, <2>2
      <3>2. brJob[t].kind = "open" /\ Home(AccountOf[t]) # "deriv"
        <4>1. brJob[t].kind = "open" /\ Kind(Route(t)) = "metaapi"
          BY <3>1 DEF SendsAgain
        <4> QED
          BY <4>1, Routes, Homes
      <3>3. CallOpened(j, k + 1)
        BY <1>3, <1>4, <1>5, <3>1, <3>2 DEF CallOpened
      <3> QED
        <4>1. CallOpened(j, Cardinality(OrdersOf(t, n)'))
          BY <1>5, <3>2, <3>3
        <4> QED
          BY <1>2, <1>4, <2>2, <3>1, <3>2, <4>1 DEF CallGoes
    <2> QED
      BY <2>1, <2>2
  <1>9. OwnSession'
    BY DEF BrokerInv, OwnSession
  <1> QED
    BY <1>1, <1>6, <1>7, <1>8, <1>9 DEF BrokerInv

LEMMA BeginStep ==
    ASSUME BrokerInv, NEW t \in Callers, NEW kind \in Kinds, NEW target \in Nat,
           kind # "open" => target \in DOMAIN brOrders, BeginJob(t, kind, target)
    PROVE  BrokerInv'
  <1> DEFINE n == brCalls[t] + 1
             j == [step |-> "connect", kind |-> kind, tries |-> 0, call |-> n, target |-> target]
  <1>1. BrokerTyped /\ brCalls[t] \in Nat
    BY DEF BrokerInv, BrokerTyped
  <1>2. j \in JobRecords /\ j.step = "connect" /\ j.kind = kind /\ j.call = n /\ j.target = target
    BY <1>1 DEF JobRecords, Kinds, MaxRetries
  <1>3. /\ brJob' = [brJob EXCEPT ![t] = j] /\ brCalls' = [brCalls EXCEPT ![t] = n]
        /\ UNCHANGED <<brChosen, brSession, brOrders, brAnswers>>
    BY DEF BeginJob
  <1> HIDE DEF j
  <1>4. /\ brJob' \in [Callers -> JobRecords] /\ brJob'[t] = j
        /\ \A u \in Callers \ {t} : brJob'[u] = brJob[u]
        /\ brCalls' \in [Callers -> Nat] /\ brCalls'[t] = n
        /\ \A u \in Callers \ {t} : brCalls'[u] = brCalls[u]
    BY <1>1, <1>2, <1>3 DEF BrokerTyped
  <1>5. OrdersOf(t, n) = {} /\ Cardinality(OrdersOf(t, n)) = 0
    <2>1. OrdersOf(t, n) = {}
      BY <1>1 DEF BrokerInv, CallsInv
    <2> QED
      BY <2>1, FS_EmptySet
  <1>6. BrokerTyped'
    BY <1>1, <1>3, <1>4 DEF BrokerTyped
  <1>7. JobsInv'
    <2> SUFFICES ASSUME NEW u \in Callers, brJob'[u].step # "idle", NEW m, m = brCalls'[u]
                 PROVE  /\ brJob'[u].call = m
                        /\ brJob'[u].kind # "open" => brJob'[u].target \in DOMAIN brOrders
                        /\ CallOpened(brJob'[u], Cardinality(OrdersOf(u, m)))
                        /\ (brJob'[u].kind = "open" /\ Home(AccountOf[u]) = "deriv") => OrdersOf(u, m) = {}
      BY <1>3, OrdersStay DEF JobsInv
    <2>1. CASE u # t
      BY <1>4, <2>1 DEF BrokerInv, JobsInv
    <2>2. CASE u = t
      BY <1>2, <1>4, <1>5, <2>2 DEF CallOpened
    <2> QED
      BY <2>1, <2>2
  <1>8. CallsInv'
    <2>1. ASSUME NEW u \in Callers, NEW m \in Nat, m > brCalls'[u] PROVE m > brCalls[u]
      BY <1>1, <1>4, <2>1
    <2>2. \A u, m : OrdersOf(u, m)' = OrdersOf(u, m)
      BY <1>3, OrdersStay
    <2> QED
      BY <2>1, <2>2 DEF BrokerInv, CallsInv, Limited
  <1>9. OwnSession' /\ RightAccount'
    BY <1>3 DEF BrokerInv, OwnSession, RightAccount
  <1> QED
    BY <1>6, <1>7, <1>8, <1>9 DEF BrokerInv

\* The ways a call moves without an order.
LEMMA JobForms ==
    ASSUME BrokerTyped, NEW t \in Callers, brJob[t].step # "idle"
    PROVE  /\ (\E status, order : Answer(t, status, order)) =>
                  \E j \in JobRecords : j.step = "idle" /\ brJob' = [brJob EXCEPT ![t] = j] /\ UNCHANGED brCalls
           /\ (Raises(t) /\ brJob[t].step # "send") =>
                  \E j \in JobRecords : /\ CallGoes(t, j) \/ j.step = "idle"
                                        /\ brJob' = [brJob EXCEPT ![t] = j] /\ UNCHANGED brCalls
           /\ (Connected(t) /\ brJob[t].step = "connect") =>
                  \E j \in JobRecords : /\ CallGoes(t, j) /\ brJob' = [brJob EXCEPT ![t] = j]
                                        /\ UNCHANGED brCalls
           /\ (JobTo(t, "send") /\ brJob[t].step = "request") =>
                  \E j \in JobRecords : CallGoes(t, j) /\ brJob' = [brJob EXCEPT ![t] = j]
  <1> DEFINE old == brJob[t]
  <1>1. old \in JobRecords /\ old.tries \in 0..2 /\ brJob \in [Callers -> JobRecords]
    BY DEF BrokerTyped, JobRecords, MaxRetries
  <1>2. ASSUME NEW status, NEW order, Answer(t, status, order)
        PROVE  \E j \in JobRecords : j.step = "idle" /\ brJob' = [brJob EXCEPT ![t] = j] /\ UNCHANGED brCalls
    <2>1. Idle \in JobRecords /\ Idle.step = "idle"
      BY DEF Idle, JobRecords, Kinds, MaxRetries
    <2> QED
      BY <1>2, <2>1 DEF Answer
  <1>3. ASSUME Raises(t), old.step # "send"
        PROVE  \E j \in JobRecords : /\ CallGoes(t, j) \/ j.step = "idle"
                                     /\ brJob' = [brJob EXCEPT ![t] = j] /\ UNCHANGED brCalls
    <2>1. CASE old.tries + 1 < MaxRetries
      <3> DEFINE j == [old EXCEPT !.tries = old.tries + 1]
      <3>1. /\ j \in JobRecords /\ j.step = old.step /\ j.kind = old.kind /\ j.call = old.call
            /\ j.target = old.target /\ j.tries = old.tries + 1
        BY <1>1, <2>1 DEF JobRecords, MaxRetries
      <3>2. brJob' = [brJob EXCEPT ![t] = j] /\ UNCHANGED brCalls
        BY <1>1, <1>3, <2>1 DEF Raises
      <3> HIDE DEF j
      <3>3. CallGoes(t, j)
        BY <1>1, <1>3, <3>1 DEF CallGoes
      <3> QED
        BY <3>1, <3>2, <3>3
    <2>2. CASE ~(old.tries + 1 < MaxRetries)
      BY <1>2, <1>3, <2>2 DEF Raises
    <2> QED
      BY <2>1, <2>2
  <1>4. ASSUME Connected(t), old.step = "connect"
        PROVE  \E j \in JobRecords : /\ CallGoes(t, j) /\ brJob' = [brJob EXCEPT ![t] = j]
                                     /\ UNCHANGED brCalls
    <2> DEFINE j == [old EXCEPT !.step = "request", !.tries = 0]
    <2>1. /\ j \in JobRecords /\ j.step = "request" /\ j.kind = old.kind /\ j.call = old.call
          /\ j.target = old.target /\ j.tries = 0
      <3>1. 0 \in 0..(MaxRetries - 1)
        BY DEF MaxRetries
      <3> HIDE DEF old
      <3> QED
        BY <1>1, <3>1 DEF JobRecords
    <2>2. brJob' = [brJob EXCEPT ![t] = j] /\ UNCHANGED brCalls
      BY <1>1, <1>4 DEF Connected
    <2> HIDE DEF j
    <2> QED
      BY <1>4, <2>1, <2>2 DEF CallGoes
  <1>5. ASSUME JobTo(t, "send"), old.step = "request"
        PROVE  \E j \in JobRecords : CallGoes(t, j) /\ brJob' = [brJob EXCEPT ![t] = j]
    <2> DEFINE j == [old EXCEPT !.step = "send"]
    <2>1. /\ j \in JobRecords /\ j.step = "send" /\ j.kind = old.kind /\ j.call = old.call
          /\ j.target = old.target /\ j.tries = old.tries
      BY <1>1 DEF JobRecords
    <2>2. brJob' = [brJob EXCEPT ![t] = j]
      BY <1>1, <1>5 DEF JobTo
    <2> HIDE DEF j
    <2>3. j.tries >= old.tries
      BY <1>1, <2>1
    <2>4. CallGoes(t, j)
      BY <1>5, <2>1, <2>3 DEF CallGoes
    <2> QED
      BY <2>1, <2>2, <2>4
  <1> QED
    BY <1>2, <1>3, <1>4, <1>5

LEMMA RelinkStep ==
    ASSUME BrokerInv, NEW t \in Callers, ConnectClient(t) \/ Prepare(t)
    PROVE  BrokerInv'
  <1>1. BrokerTyped /\ UNCHANGED brOrders /\ brJob[t].step # "idle"
    BY DEF BrokerInv, ConnectClient, Prepare, JobAt, NoOrder
  <1>2. brSession' \in [Clients -> Sessions] /\ OwnSession'
    BY <1>1, Relinks, SessionChanges DEF BrokerInv
  <1>3. \E j \in JobRecords : /\ CallGoes(t, j) \/ j.step = "idle"
                              /\ brJob' = [brJob EXCEPT ![t] = j] /\ UNCHANGED brCalls
    <2>1. CASE ConnectClient(t)
      <3>1. brJob[t].step = "connect" /\ (Connected(t) \/ Raises(t) \/ ConnectRefused(t))
        BY <2>1 DEF ConnectClient, JobAt, MetaConnect, MetaConnects, MetaFails, DerivConnect
      <3> QED
        BY <1>1, <3>1, JobForms DEF ConnectRefused
    <2>2. CASE Prepare(t)
      <3>1. /\ brJob[t].step = "request"
            /\ \/ JobTo(t, "send") /\ UNCHANGED brCalls
               \/ Raises(t)
               \/ Answer(t, "error", 0)
        BY <2>2 DEF Prepare, JobAt
      <3> QED
        BY <1>1, <3>1, JobForms
    <2> QED
      BY <2>1, <2>2
  <1> QED
    BY <1>1, <1>2, <1>3, NoOrderStep

LEMMA SendStep ==
    ASSUME BrokerInv, NEW t \in Callers, Succeeds(t) \/ BrokerRejects(t) \/ GetsNoAnswer(t)
    PROVE  BrokerInv'
  <1>1. BrokerTyped /\ brJob[t].step = "send" /\ UNCHANGED brSession
    BY DEF BrokerInv, Succeeds, BrokerRejects, GetsNoAnswer, JobAt, Unlinked
  <1>2. brSession' \in [Clients -> Sessions] /\ OwnSession'
    BY <1>1 DEF BrokerInv, BrokerTyped, OwnSession
  <1>3. ASSUME NEW status, NEW order, Answer(t, status, order), CarriedOut(t) \/ NoOrder
        PROVE  BrokerInv'
    <2>1. PICK j \in JobRecords : j.step = "idle" /\ brJob' = [brJob EXCEPT ![t] = j] /\ UNCHANGED brCalls
      BY <1>1, <1>3, JobForms
    <2> QED
      BY <1>1, <1>2, <1>3, <2>1, CarriedStep, NoOrderStep DEF NoOrder
  <1>4. ASSUME SendsAgain(t), CarriedOut(t) \/ NoOrder, UNCHANGED brCalls,
               brJob' = [brJob EXCEPT ![t].step = "request", ![t].tries = @ + 1]
        PROVE  BrokerInv'
    <2> DEFINE old == brJob[t]
               j == [old EXCEPT !.step = "request", !.tries = old.tries + 1]
    <2>1. old \in JobRecords /\ old.tries \in 0..2 /\ old.tries + 1 < 3 /\ brJob \in [Callers -> JobRecords]
      BY <1>1, <1>4 DEF BrokerTyped, JobRecords, MaxRetries, SendsAgain
    <2>2. /\ j \in JobRecords /\ j.step = "request" /\ j.kind = old.kind /\ j.call = old.call
          /\ j.target = old.target /\ j.tries = old.tries + 1
      <3>1. old.tries + 1 \in 0..(MaxRetries - 1)
        BY <2>1 DEF MaxRetries
      <3> HIDE DEF old
      <3> QED
        BY <2>1, <3>1 DEF JobRecords
    <2>3. brJob' = [brJob EXCEPT ![t] = j]
      BY <1>4, <2>1
    <2> HIDE DEF j
    <2>4. CallGoes(t, j)
      BY <1>1, <2>1, <2>2 DEF CallGoes
    <2> QED
      BY <1>1, <1>2, <1>4, <2>2, <2>3, <2>4, CarriedStep, NoOrderStep DEF NoOrder
  <1> QED
    BY <1>3, <1>4 DEF Succeeds, BrokerRejects, GetsNoAnswer

LEMMA BrokerBegins == BrokerInit => BrokerInv
  <1> SUFFICES ASSUME BrokerInit PROVE BrokerInv
    OBVIOUS
  <1>1. BrokerTyped
    BY DEF BrokerInit, BrokerTyped, Idle, JobRecords, Kinds, MaxRetries, Sessions
  <1>2. \A t \in Callers : brJob[t].step = "idle"
    BY DEF BrokerInit, Idle
  <1>3. \A t, n : OrdersOf(t, n) = {}
    BY DEF BrokerInit, OrdersOf
  <1>4. CallsInv
    BY <1>3, FS_EmptySet DEF CallsInv, Limited, MaxRetries
  <1>5. OwnSession
    BY Homes DEF BrokerInit, OwnSession
  <1> QED
    BY <1>1, <1>2, <1>4, <1>5 DEF BrokerInv, JobsInv, RightAccount, BrokerInit

LEMMA BrokerStep == BrokerInv /\ [BrokerNext]_brVars => BrokerInv'
  <1> SUFFICES ASSUME BrokerInv, [BrokerNext]_brVars PROVE BrokerInv'
    OBVIOUS
  <1>1. \A i \in DOMAIN brOrders : i \in Nat
    BY DEF BrokerInv, BrokerTyped
  <1>2. ASSUME NEW t \in Callers, ExecuteOrder(t) \/ ModifyOrder(t) \/ CloseOrder(t) PROVE BrokerInv'
    BY <1>1, <1>2, BeginStep DEF ExecuteOrder, ModifyOrder, CloseOrder, Kinds
  <1>3. ASSUME NEW t \in Callers, ThreadSteps(t) PROVE BrokerInv'
    BY <1>3, RelinkStep, SendStep DEF ThreadSteps
  <1>4. ASSUME NEW c \in Clients, SocketCloses(c) PROVE BrokerInv'
    <2>1. /\ UNCHANGED <<brJob, brCalls, brOrders>> /\ brSession' = [brSession EXCEPT ![c] = "closed"]
          /\ brSession \in [Clients -> Sessions]
      BY <1>4 DEF SocketCloses, BrokerInv, BrokerTyped
    <2>2. \A u, n : OrdersOf(u, n)' = OrdersOf(u, n)
      BY <2>1, OrdersStay
    <2>3. BrokerTyped' /\ OwnSession'
      BY <2>1, Homes DEF BrokerInv, BrokerTyped, OwnSession, Sessions
    <2>4. JobsInv' /\ CallsInv' /\ RightAccount'
      BY <2>1, <2>2 DEF BrokerInv, JobsInv, CallsInv, RightAccount
    <2> QED
      BY <2>3, <2>4 DEF BrokerInv
  <1>5. CASE UNCHANGED brVars
    <2>1. \A u, n : OrdersOf(u, n)' = OrdersOf(u, n)
      BY <1>5, OrdersStay DEF brVars
    <2> QED
      BY <1>5, <2>1 DEF brVars, BrokerInv, BrokerTyped, JobsInv, CallsInv, OwnSession, RightAccount
  <1> QED
    BY <1>2, <1>3, <1>4, <1>5 DEF BrokerNext

LEMMA BrokerInvariant == BrokerSpec => []BrokerInv
  BY BrokerBegins, BrokerStep, PTL DEF BrokerSpec

(* TradeExecutor.execute and the clients: a signal has at most one position at Deriv, and at *)
(* most as many at MetaApi as the order may be sent, whatever answers are lost.              *)
THEOREM PositionsAreBounded == BrokerSpec => []BoundedPositions
  <1>1. BrokerInv => BoundedPositions
    BY DEF BrokerInv, CallsInv, BoundedPositions, Limited
  <1> QED
    BY <1>1, BrokerInvariant, PTL

(* connect, connect_with_token and _ensure_connected: orders of an account that shares its    *)
(* provider's client with no other go to that account.                                        *)
THEOREM OrdersGoHome == BrokerSpec => []RightAccount
  <1>1. BrokerInv => RightAccount
    BY DEF BrokerInv
  <1> QED
    BY <1>1, BrokerInvariant, PTL

=============================================================================
