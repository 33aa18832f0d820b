----------------------------- MODULE TradeBook ------------------------------
(***************************************************************************)
(* The trades row of one Deriv contract and everybody who writes it: the   *)
(* account worker (record_entry), the PositionMonitor (record_exit), the   *)
(* backend's handlers of the trades:results channel, which read and save   *)
(* across awaits, and the reconciliation sweep a user asks for.  Workers   *)
(* that start read it to find the positions to watch.                      *)
(***************************************************************************)
EXTENDS Naturals, Sequences, FiniteSets

CONSTANTS MaxRestarts,   \* bound: restarts of the engine and of the backend
          MaxSweeps      \* bound: sweeps

VARIABLES
    bkContract,   \* at the broker: open or sold
    bkTimed,      \* the exit rules have a deadline
    bkSaved,      \* the signals row exists
    bkRow,        \* the trades row
    bkWorker,     \* the next step of the worker that got the fill
    bkListed,     \* a starting worker has fetched the row and not yet registered it
    bkTracked,    \* the position is in the monitor
    bkMonitor,    \* where the monitor's loop is
    bkFigure,     \* the profit it is about to record
    bkChannel,    \* trades:results
    bkHandlers,   \* of the backend, in flight: message and the row found
    bkSweep,      \* where the sweep is
    bkRestarts, bkSweeps

bkEngineVars == <<bkWorker, bkListed, bkTracked, bkMonitor, bkFigure>>
bkBackendVars == <<bkChannel, bkHandlers>>
bkSweepVars == <<bkSweep, bkSweeps>>

bkVars == <<bkContract, bkTimed, bkSaved, bkRow, bkEngineVars, bkBackendVars, bkSweepVars,
            bkRestarts>>

NoTrade == [there |-> FALSE, signal |-> FALSE, closed |-> FALSE, status |-> "none",
            profit |-> "none"]
Filled(signal) == [NoTrade EXCEPT !.there = TRUE, !.signal = signal, !.status = "filled"]

\* The backend's trade_entry and the two kinds of trade_exit.
EntryEvent == [kind |-> "entry", status |-> "filled", profit |-> "none"]
ExitEvent == [kind |-> "exit", status |-> "filled", profit |-> "local"]
ExternalCloseEvent == [kind |-> "exit", status |-> "sold", profit |-> "broker"]

BookInit ==
    /\ bkContract = "open" /\ bkTimed \in BOOLEAN /\ bkSaved \in BOOLEAN
    /\ bkRow = NoTrade
    /\ bkWorker = "publish" /\ bkListed = FALSE /\ bkTracked = FALSE
    /\ bkMonitor = "idle" /\ bkFigure = "none"
    /\ bkChannel = <<>> /\ bkHandlers = {}
    /\ bkSweep = "idle" /\ bkRestarts = 0 /\ bkSweeps = 0

\* Publishing is best effort.
Publish(event, works) == bkChannel' = IF works THEN Append(bkChannel, event) ELSE bkChannel

\* record_exit: by order id; a row that is not there stays so.
RecordExit(profit, works) ==
    bkRow' = IF works /\ bkRow.there
           THEN [bkRow EXCEPT !.closed = TRUE, !.status = "closed", !.profit = profit]
           ELSE bkRow

\* Fault: an open contract has details, too.
DetailsOfOpen(works) == works

\* _async_fetch_closed_contract: none for a contract that is not sold.
HasDetails(works) == works /\ bkContract = "sold"

-----------------------------------------------------------------------------
\* The broker, and the strategy engine's persister.

BrokerSells ==
    /\ bkContract = "open" /\ bkContract' = "sold"
    /\ UNCHANGED <<bkTimed, bkSaved, bkRow, bkEngineVars, bkBackendVars, bkSweepVars, bkRestarts>>

SignalLands ==
    /\ ~bkSaved /\ bkSaved' = TRUE
    /\ UNCHANGED <<bkContract, bkTimed, bkRow, bkEngineVars, bkBackendVars, bkSweepVars, bkRestarts>>

-----------------------------------------------------------------------------
\* The worker, after the fill.

PublishEntry(works) ==
    /\ bkWorker = "publish" /\ bkWorker' = "record"
    /\ Publish(EntryEvent, works)
    /\ UNCHANGED <<bkContract, bkTimed, bkSaved, bkRow, bkListed, bkTracked, bkMonitor, bkFigure, bkHandlers,
                   bkSweepVars, bkRestarts>>

\* ON CONFLICT DO NOTHING; without the signals row, signal_id is NULL.
RecordEntry(works) ==
    /\ bkWorker = "record" /\ bkWorker' = "track"
    /\ bkRow' = IF works /\ ~bkRow.there THEN Filled(bkSaved) ELSE bkRow
    /\ UNCHANGED <<bkContract, bkTimed, bkSaved, bkListed, bkTracked, bkMonitor, bkFigure, bkBackendVars,
                   bkSweepVars, bkRestarts>>

Track ==
    /\ bkWorker = "track" /\ bkWorker' = "done"
    /\ bkTracked' = TRUE
    /\ UNCHANGED <<bkContract, bkTimed, bkSaved, bkRow, bkListed, bkMonitor, bkFigure, bkBackendVars,
                   bkSweepVars, bkRestarts>>

EngineRestarts ==
    /\ bkRestarts < MaxRestarts /\ bkRestarts' = bkRestarts + 1
    /\ bkWorker' = "done" /\ bkListed' = FALSE /\ bkTracked' = FALSE
    /\ bkMonitor' = "idle" /\ bkFigure' = "none" /\ bkSweep' = "idle"
    /\ UNCHANGED <<bkContract, bkTimed, bkSaved, bkRow, bkBackendVars, bkSweeps>>

\* fetch_open_positions joins the signals.
FetchOpen ==
    /\ bkWorker = "done" /\ ~bkListed
    /\ bkRow.signal /\ bkRow.status = "filled" /\ ~bkRow.closed
    /\ bkListed' = TRUE
    /\ UNCHANGED <<bkContract, bkTimed, bkSaved, bkRow, bkWorker, bkTracked, bkMonitor, bkFigure,
                   bkBackendVars, bkSweepVars, bkRestarts>>

Rehydrate ==
    /\ bkListed /\ bkListed' = FALSE
    /\ bkTracked' = TRUE
    /\ UNCHANGED <<bkContract, bkTimed, bkSaved, bkRow, bkWorker, bkMonitor, bkFigure, bkBackendVars,
                   bkSweepVars, bkRestarts>>

-----------------------------------------------------------------------------
\* The monitor.

Loop(from, to) ==
    /\ bkMonitor = from /\ bkMonitor' = to
    /\ UNCHANGED <<bkTimed, bkSaved, bkWorker, bkListed, bkSweepVars, bkRestarts>>

\* _close_position, when the time is up.  Filled or not, the position is
\* untracked at the end of the round.
CloseOnTime(answered) ==
    /\ bkTracked /\ bkTimed
    /\ bkContract' \in IF answered THEN {"sold"} ELSE {bkContract, "sold"}
    /\ Loop("idle", IF answered /\ bkContract = "open" THEN "publish" ELSE "idle")
    /\ bkTracked' = FALSE
    /\ UNCHANGED <<bkRow, bkFigure, bkBackendVars>>

PublishExit(works) ==
    /\ Loop("publish", "fetch")
    /\ Publish(ExitEvent, works)
    /\ UNCHANGED <<bkContract, bkRow, bkTracked, bkFigure, bkHandlers>>

\* The broker's profit if it is to be had, the local estimate otherwise.
FetchProfit(works) ==
    /\ Loop("fetch", "record")
    /\ bkFigure' = IF HasDetails(works) THEN "broker" ELSE "local"
    /\ UNCHANGED <<bkContract, bkRow, bkTracked, bkBackendVars>>

RecordOwnExit(works) ==
    /\ Loop("record", "idle")
    /\ RecordExit(bkFigure, works)
    /\ bkFigure' = "none"
    /\ UNCHANGED <<bkContract, bkTracked, bkBackendVars>>

\* _reconcile_external_closes: the position is not in the broker's list, which
\* an error of get_positions leaves empty.
MissesPosition(listWorks) ==
    /\ bkTracked /\ (listWorks => bkContract = "sold")
    /\ Loop("idle", "details")
    /\ UNCHANGED <<bkContract, bkRow, bkTracked, bkFigure, bkBackendVars>>

FetchClosed(works) ==
    /\ Loop("details", IF HasDetails(works) THEN "recordExternal" ELSE "idle")
    /\ UNCHANGED <<bkContract, bkRow, bkTracked, bkFigure, bkBackendVars>>

\* Fault: the position is dropped although its exit has no row yet.
ForgetsUnrecorded(works) ==
    /\ Loop("recordExternal", IF works /\ bkRow.there THEN "publishExternal" ELSE "idle")
    /\ RecordExit("broker", works)
    /\ bkTracked' = (works /\ bkRow.there)
    /\ UNCHANGED <<bkContract, bkFigure, bkBackendVars>>

\* Only an exit that found its row ends the watch.
RecordExternalExit(works) ==
    /\ Loop("recordExternal", IF works /\ bkRow.there THEN "publishExternal" ELSE "idle")
    /\ RecordExit("broker", works)
    /\ UNCHANGED <<bkContract, bkTracked, bkFigure, bkBackendVars>>

PublishExternalClose(works) ==
    /\ Loop("publishExternal", "idle")
    /\ Publish(ExternalCloseEvent, works)
    /\ bkTracked' = FALSE
    /\ UNCHANGED <<bkContract, bkRow, bkFigure, bkHandlers>>

-----------------------------------------------------------------------------
\* The backend's handlers: each finds the row, awaits, and saves.

Backend == UNCHANGED <<bkContract, bkTimed, bkSaved, bkEngineVars, bkSweepVars, bkRestarts>>

\* Pub/sub: what arrives while nobody listens is gone.
Deliver(heard) ==
    /\ bkChannel # <<>>
    /\ bkChannel' = Tail(bkChannel)
    /\ LET new == [event |-> Head(bkChannel), read |-> FALSE, found |-> NoTrade] IN
       /\ new \notin bkHandlers
       /\ bkHandlers' = IF heard THEN bkHandlers \cup {new} ELSE bkHandlers
    /\ UNCHANGED bkRow /\ Backend

\* An entry goes on when there is no row, an exit when there is one.
FindRow(h) ==
    /\ h \in bkHandlers /\ ~h.read
    /\ bkHandlers' = (bkHandlers \ {h}) \cup
          (IF bkRow.there = (h.event.kind = "exit")
           THEN {[h EXCEPT !.read = TRUE, !.found = bkRow]} ELSE {})
    /\ UNCHANGED <<bkChannel, bkRow>> /\ Backend

\* save: an insert, or an update of the columns an entry has.
EntrySaved ==
    IF bkRow.there THEN [bkRow EXCEPT !.signal = TRUE, !.status = "filled"] ELSE Filled(TRUE)

\* save of the entity found before: the exit's columns, and what else it had.
ExitSaved(h) == [bkRow EXCEPT !.signal = h.found.signal, !.closed = TRUE,
                            !.status = h.event.status, !.profit = h.event.profit]

\* A foreign key that does not exist, a unique one that does, or a lost
\* connection make it fail; the error is logged.
SaveRow(h, works) ==
    /\ h \in bkHandlers /\ h.read
    /\ bkHandlers' = bkHandlers \ {h}
    /\ bkRow' = IF ~works THEN bkRow
              ELSE IF h.event.kind = "exit" THEN ExitSaved(h)
              ELSE IF bkSaved THEN EntrySaved ELSE bkRow
    /\ UNCHANGED bkChannel /\ Backend

BackendRestarts ==
    /\ bkRestarts < MaxRestarts /\ bkRestarts' = bkRestarts + 1
    /\ bkChannel' = <<>> /\ bkHandlers' = {}
    /\ UNCHANGED <<bkContract, bkTimed, bkSaved, bkRow, bkEngineVars, bkSweepVars>>

-----------------------------------------------------------------------------
\* The sweep: deriv_sweep, for this contract.

Sweep(from, to) ==
    /\ bkSweep = from /\ bkSweep' = to
    /\ UNCHANGED <<bkContract, bkTimed, bkSaved, bkEngineVars, bkBackendVars, bkRestarts>>

\* With refresh_closed_hours it takes exits it can write again, too.
ListOpenTrades(refresh) ==
    /\ bkSweeps < MaxSweeps /\ bkSweeps' = bkSweeps + 1
    /\ bkRow.status = "filled" \/ (refresh /\ bkRow.status = "closed")
    /\ ~refresh => ~bkRow.closed
    /\ Sweep("idle", "positions")
    /\ UNCHANGED bkRow

\* A list that is not to be had is taken for empty.
GetPositions(works) ==
    /\ Sweep("positions", IF works /\ bkContract = "open" THEN "idle" ELSE "details")
    /\ UNCHANGED <<bkRow, bkSweeps>>

\* proposal_open_contract, or else the profit table: neither has an open one.
FetchExit(works) ==
    /\ Sweep("details", IF HasDetails(works) THEN "record" ELSE "idle")
    /\ UNCHANGED <<bkRow, bkSweeps>>

RecordSweptExit(works) ==
    /\ Sweep("record", "idle")
    /\ RecordExit("broker", works)
    /\ UNCHANGED bkSweeps

-----------------------------------------------------------------------------
BookNext ==
    \/ BrokerSells \/ SignalLands \/ Track \/ EngineRestarts \/ FetchOpen \/ Rehydrate
    \/ BackendRestarts
    \/ \E works \in BOOLEAN :
          \/ PublishEntry(works) \/ RecordEntry(works)
          \/ CloseOnTime(works) \/ PublishExit(works) \/ FetchProfit(works)
          \/ RecordOwnExit(works) \/ MissesPosition(works) \/ FetchClosed(works)
          \/ RecordExternalExit(works) \/ PublishExternalClose(works)
          \/ Deliver(works)
          \/ \E h \in bkHandlers : SaveRow(h, works)
          \/ ListOpenTrades(works) \/ GetPositions(works) \/ FetchExit(works)
          \/ RecordSweptExit(works)
    \/ \E h \in bkHandlers : FindRow(h)

\* The monitor's thread goes round, and neither the broker nor the table fails
\* for ever.
BookSpec ==
    /\ BookInit /\ [][BookNext]_bkVars
    /\ WF_bkVars(\E works \in BOOLEAN : FetchProfit(works) \/ PublishExternalClose(works))
    /\ WF_bkVars(\E works \in BOOLEAN : FetchClosed(works) \/ RecordExternalExit(works))
    /\ SF_bkVars(MissesPosition(TRUE)) /\ SF_bkVars(FetchClosed(TRUE))
    /\ SF_bkVars(RecordExternalExit(TRUE))

-----------------------------------------------------------------------------
Abstract == INSTANCE Ledger WITH
    sold <- bkContract = "sold",
    entry <- IF ~bkRow.there THEN "none" ELSE IF bkRow.closed THEN "closed" ELSE "open"

\* The table implements the ledger: whoever writes, in whatever order, an exit
\* is booked only for a sold contract and never taken back.
BooksAreLedger == Abstract!LedgerSpec

\* A position without a deadline that is watched gets the exit of its contract
\* booked, also if its row comes late, from the backend instead of
\* record_entry, unless the engine restarts.
ExitIsBooked == \A n \in 0 .. MaxRestarts :
    <>[](bkRow.there /\ bkRestarts = n)
        => (bkTracked /\ ~bkTimed /\ bkContract = "sold" /\ bkRestarts = n ~> bkRow.closed)
=============================================================================
