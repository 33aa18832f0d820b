----------------------------- MODULE BacktestRuns -----------------------------
(***************************************************************************)
(* The life of a backtest request: StrategiesService.runBacktest saves a   *)
(* pending row and appends the request to backtest:requests, the engine's  *)
(* BacktestConsumer runs one request at a time and reports on two ways, a  *)
(* message on the channel backtest:status and an entry of the stream       *)
(* backtest:results, and BacktestResultConsumer writes what both bring to  *)
(* the row: a handler for each status message, started as it arrives, and  *)
(* one poller for the results.                                             *)
(*                                                                         *)
(* A save writes every column that differs from the row as it is by then   *)
(* (TypeORM), so that it also writes back what the entity held when it was *)
(* read.                                                                   *)
(***************************************************************************)
EXTENDS Naturals, Sequences

CONSTANTS Requests,
          MaxFaults,   \* bound: calls of Redis that fail
          MaxDeaths    \* bound: deaths of the backend and of the engine

ASSUME RequestsAssumption == MaxFaults \in Nat /\ MaxDeaths \in Nat

VARIABLES rqRow,       \* the row of backtest_results: status, whether it has metrics and trades
          rqRoute,     \* runBacktest of each request
          rqQueue,     \* entries of backtest:requests not delivered yet
          rqEngine,    \* the request the engine works on, and how far it is
          rqHandlers,  \* handleStatusMessage calls of the backend
          rqResults,   \* entries of backtest:results not delivered yet
          rqBatch,     \* entries the poller has been given
          rqPoller,    \* handleResultMessage of the first of them
          rqUp,        \* the backend runs
          rqFaults, rqDeaths,
          rqExcused    \* history: requests whose reports a death or a stale save undid

rqVars == <<rqRow, rqRoute, rqQueue, rqEngine, rqHandlers, rqResults, rqBatch, rqPoller, rqUp,
            rqFaults, rqDeaths, rqExcused>>

rqBackend == <<rqRow, rqRoute, rqBatch, rqPoller, rqUp, rqDeaths, rqExcused>>
rqEngineSide == <<rqQueue, rqEngine, rqFaults, rqDeaths>>

Terminal == {"completed", "failed"}
NoRow == [status |-> "none", metrics |-> FALSE, trades |-> FALSE]
Pending == [NoRow EXCEPT !.status = "pending"]
NoWork == [pc |-> "idle", req |-> "none"]

RequestsInit ==
  /\ rqRow = [r \in Requests |-> NoRow]
  /\ rqRoute \in [Requests -> {"unsent", "never"}]   \* which ones are made
  /\ rqQueue = <<>> /\ rqEngine = NoWork
  /\ rqHandlers = {}
  /\ rqResults = <<>> /\ rqBatch = <<>> /\ rqPoller = [pc |-> "idle", snap |-> NoRow]
  /\ rqUp = TRUE /\ rqFaults \in 0..MaxFaults /\ rqDeaths = 0
  /\ rqExcused = {}

\* Redis answers, or it does not (and the call may have had its effect).
Answered == UNCHANGED rqFaults
NotAnswered == rqFaults < MaxFaults /\ rqFaults' = rqFaults + 1

\* save: a status and metrics, and the request whose row was not the one read any more
Saved(r, status, metrics, snap) ==
  /\ rqRow' = [rqRow EXCEPT ![r].status = status, ![r].metrics = metrics]
  /\ rqExcused' = IF rqRow[r].status = snap.status /\ rqRow[r].metrics = snap.metrics
                  THEN rqExcused ELSE rqExcused \cup {r}

-----------------------------------------------------------------------------
\* runBacktest.

Create(r) ==
  /\ rqUp /\ rqRoute[r] = "unsent"
  /\ rqRow' = [rqRow EXCEPT ![r] = Pending]
  /\ rqRoute' = [rqRoute EXCEPT ![r] = "saved"]
  /\ UNCHANGED <<rqEngineSide, rqHandlers, rqResults, rqBatch, rqPoller, rqUp, rqExcused>>

\* publishRequest: getConsumerLag reads a field XINFO GROUPS does not have, so that it
\* never finds the stream full
PublishRequest(r) ==
  /\ rqRoute[r] = "saved"
  /\ \/ /\ Answered
        /\ rqQueue' = Append(rqQueue, r)
        /\ rqRoute' = [rqRoute EXCEPT ![r] = "sent"]
     \/ /\ NotAnswered
        /\ rqQueue' \in {rqQueue, Append(rqQueue, r)}
        /\ rqRoute' = [rqRoute EXCEPT ![r] = "refused"]
  /\ UNCHANGED <<rqRow, rqEngine, rqDeaths, rqHandlers, rqResults, rqBatch, rqPoller, rqUp,
                 rqExcused>>

\* the catch block saves the entity as it was created, as failed
MarkFailed(r) ==
  /\ rqRoute[r] = "refused"
  /\ Saved(r, "failed", FALSE, Pending)
  /\ rqRoute' = [rqRoute EXCEPT ![r] = "sent"]
  /\ UNCHANGED <<rqEngineSide, rqHandlers, rqResults, rqBatch, rqPoller, rqUp>>

-----------------------------------------------------------------------------
\* BacktestConsumer of the engine: an entry is delivered once and always acknowledged.

Report(r, to) == [req |-> r, to |-> to, read |-> <<>>]

\* _publish_status: what nobody subscribes to is gone, and an exception is swallowed
PublishStatus(r, to) ==
  \/ /\ Answered
     /\ rqHandlers' = IF rqUp THEN rqHandlers \cup {Report(r, to)} ELSE rqHandlers
  \/ NotAnswered /\ UNCHANGED rqHandlers

Take ==
  /\ rqEngine.pc = "idle" /\ rqQueue # <<>>
  /\ PublishStatus(Head(rqQueue), "running")
  /\ rqQueue' = Tail(rqQueue)
  /\ rqEngine' = [pc |-> "runs", req |-> Head(rqQueue)]
  /\ UNCHANGED <<rqBackend, rqResults>>

\* candles are fetched, the backtest runs and its result is appended, or one of them raises
Execute ==
  /\ rqEngine.pc = "runs"
  /\ \/ /\ Answered
        /\ rqResults' = Append(rqResults, [req |-> rqEngine.req, to |-> "completed"])
        /\ rqEngine' = [rqEngine EXCEPT !.pc = "completed"]
     \/ /\ Answered
        /\ UNCHANGED rqResults
        /\ rqEngine' = [rqEngine EXCEPT !.pc = "raised"]
     \/ /\ NotAnswered
        /\ rqResults' \in {rqResults, Append(rqResults, [req |-> rqEngine.req, to |-> "completed"])}
        /\ rqEngine' = [rqEngine EXCEPT !.pc = "raised"]
  /\ UNCHANGED <<rqBackend, rqQueue, rqHandlers>>

\* the failure is appended; another exception is swallowed
AppendFailure ==
  /\ rqEngine.pc = "raised"
  /\ \/ Answered /\ rqResults' = Append(rqResults, [req |-> rqEngine.req, to |-> "failed"])
     \/ NotAnswered /\ UNCHANGED rqResults
  /\ rqEngine' = [rqEngine EXCEPT !.pc = "failed"]
  /\ UNCHANGED <<rqBackend, rqQueue, rqHandlers>>

Finish ==
  /\ rqEngine.pc \in Terminal
  /\ PublishStatus(rqEngine.req, rqEngine.pc)
  /\ rqEngine' = NoWork
  /\ UNCHANGED <<rqBackend, rqQueue, rqResults>>

\* the entry it works on stays with the dead consumer: only new ones are read
EngineDies ==
  /\ rqEngine.pc # "idle" /\ rqDeaths < MaxDeaths
  /\ rqDeaths' = rqDeaths + 1
  /\ rqExcused' = rqExcused \cup {rqEngine.req}
  /\ rqEngine' = NoWork
  /\ UNCHANGED <<rqRow, rqRoute, rqQueue, rqHandlers, rqResults, rqBatch, rqPoller, rqUp, rqFaults>>

-----------------------------------------------------------------------------
\* updateBacktestStatus, called by handleStatusMessage: reads the row, leaves a finished
\* one alone, saves.

ReadForStatus(h) ==
  /\ h.read = <<>>
  /\ rqHandlers' = (rqHandlers \ {h}) \cup
                   (IF rqRow[h.req].status \in Terminal THEN {} ELSE {[h EXCEPT !.read = <<rqRow[h.req]>>]})
  /\ UNCHANGED <<rqEngineSide, rqRow, rqRoute, rqResults, rqBatch, rqPoller, rqUp, rqExcused>>

SaveStatus(h) ==
  /\ h.read # <<>>
  /\ Saved(h.req, h.to, h.read[1].metrics, h.read[1])
  /\ rqHandlers' = rqHandlers \ {h}
  /\ UNCHANGED <<rqEngineSide, rqRoute, rqResults, rqBatch, rqPoller, rqUp>>

-----------------------------------------------------------------------------
\* pollResults and handleResultMessage, one entry after another.

Poll ==
  /\ rqUp /\ rqBatch = <<>> /\ rqResults # <<>>
  /\ rqBatch' = rqResults /\ rqResults' = <<>>
  /\ UNCHANGED <<rqEngineSide, rqRow, rqRoute, rqHandlers, rqPoller, rqUp, rqExcused>>

Polled == Head(rqBatch)
Goes(pc, snap) == rqPoller' = [pc |-> pc, snap |-> snap]
Done == rqBatch' = Tail(rqBatch) /\ Goes("idle", NoRow)
PollerOnly == UNCHANGED <<rqEngineSide, rqRoute, rqHandlers, rqResults, rqUp>>

\* updateBacktestResult reads the row and leaves a failed one alone; updateBacktestStatus
\* leaves a completed one alone, too
LeftAlone == IF Polled.to = "completed" THEN {"failed"} ELSE Terminal

ReadForResult ==
  /\ rqBatch # <<>> /\ rqPoller.pc = "idle"
  /\ IF rqRow[Polled.req].status \notin LeftAlone
     THEN Goes("save", rqRow[Polled.req]) /\ UNCHANGED rqBatch
     ELSE IF Polled.to = "completed" THEN Goes("trades", NoRow) /\ UNCHANGED rqBatch ELSE Done
  /\ UNCHANGED <<rqRow, rqExcused>> /\ PollerOnly

SaveResult ==
  /\ rqPoller.pc = "save"
  /\ Saved(Polled.req, Polled.to, Polled.to = "completed", rqPoller.snap)
  /\ IF Polled.to = "completed" THEN Goes("trades", NoRow) /\ UNCHANGED rqBatch ELSE Done
  /\ PollerOnly

\* saveBacktestTrades, whether or not the result was taken
SaveTrades ==
  /\ rqPoller.pc = "trades"
  /\ rqRow' = [rqRow EXCEPT ![Polled.req].trades = TRUE]
  /\ Done
  /\ UNCHANGED rqExcused /\ PollerOnly

-----------------------------------------------------------------------------
\* A death of the backend ends its handlers; entries its poller had been given are never
\* delivered again.
BackendDies ==
  /\ rqUp /\ rqDeaths < MaxDeaths
  /\ rqDeaths' = rqDeaths + 1
  /\ rqUp' = FALSE
  /\ rqHandlers' = {} /\ rqBatch' = <<>>
  /\ rqPoller' = [pc |-> "idle", snap |-> NoRow]
  /\ rqRoute' = [r \in Requests |-> IF rqRoute[r] \in {"saved", "refused"} THEN "sent" ELSE rqRoute[r]]
  /\ rqExcused' = rqExcused \cup {rqBatch[i].req : i \in DOMAIN rqBatch}
  /\ UNCHANGED <<rqRow, rqQueue, rqEngine, rqResults, rqFaults>>

\* Fault: failStaleBacktests forgets those that have not begun
StaleRunning == {"running"}
Stale == {"pending", "running"}

\* onModuleInit: cleanupStaleBacktests, then the poller and the subscriber start
BackendStarts ==
  /\ ~rqUp
  /\ rqUp' = TRUE
  /\ rqRow' = [r \in Requests |-> IF rqRow[r].status \in Stale
                                  THEN [rqRow[r] EXCEPT !.status = "failed"] ELSE rqRow[r]]
  /\ UNCHANGED <<rqEngineSide, rqRoute, rqHandlers, rqResults, rqBatch, rqPoller, rqExcused>>

-----------------------------------------------------------------------------
EngineRuns == Take \/ Execute \/ AppendFailure \/ Finish
PollerRuns == Poll \/ ReadForResult \/ SaveResult \/ SaveTrades
Handler(h) == ReadForStatus(h) \/ SaveStatus(h)
Route(r) == PublishRequest(r) \/ MarkFailed(r)

RequestsNext ==
  \/ \E r \in Requests : Create(r) \/ Route(r)
  \/ EngineRuns \/ EngineDies
  \/ \E h \in rqHandlers : Handler(h)
  \/ PollerRuns
  \/ BackendDies \/ BackendStarts

\* Threads and event loops go on, and the backend is started again.
RequestsSpec ==
  /\ RequestsInit /\ [][RequestsNext]_rqVars
  /\ \A r \in Requests : WF_rqVars(Route(r))
  /\ WF_rqVars(EngineRuns) /\ WF_rqVars(PollerRuns) /\ WF_rqVars(\E h \in rqHandlers : Handler(h))
  /\ WF_rqVars(BackendStarts)

-----------------------------------------------------------------------------
Settled(r) == \/ rqRow[r].status = "failed"
              \/ rqRow[r].status = "completed" /\ rqRow[r].metrics

\* A saved request becomes failed, or completed with its metrics, though one report may be
\* lost, Redis may have taken a call it did not answer, and the backend may restart at any
\* point: the two ways make up for each other (_process_request, updateBacktestStatus,
\* updateBacktestResult, failStaleBacktests).  Excused are the requests the engine or the
\* poller had in hand when it died, and those a stale save changed.
RequestsSettle ==
  \A r \in Requests : rqRow[r].status # "none" ~> Settled(r) \/ r \in rqExcused

=============================================================================
