------------------------------ MODULE Autopilot ------------------------------
(***************************************************************************)
(* The autopilot of one account.  AutopilotService of the backend saves    *)
(* the state to PostgreSQL, then to a Redis key and channel, and has the   *)
(* execution engine start or stop the account's worker; AutopilotMonitor   *)
(* of the engine caches the key and follows the channel; an engine that    *)
(* starts fetches the enabled accounts and restores their workers.         *)
(***************************************************************************)
EXTENDS Naturals, Sequences

CONSTANTS MaxChanges,  \* bound: enables and disables
          MaxStarts,   \* bound: start calls at work in the engine
          MaxKills,    \* bound: changes of the kill switch
          MaxDeaths    \* bound: restarts of the engine, and of the backend

VARIABLES
    apKill,          \* the kill-switch key in Redis
    apFlips,
    apDb,            \* AutopilotState.enabled in PostgreSQL
    apKey,           \* the Redis key autopilot:<account>
    apReq,           \* the request under way in the backend
    apRequests,
    apBackendCrashes,
    apChan,          \* messages on their way to the listener
    apListener,      \* the listener thread: off, on or dead
    apView,          \* AutopilotMonitor._states[account]: unknown, enabled, disabled
    apStarts,        \* /workers/start calls waiting for the account snapshot
    apWorker,        \* the supervisor has a worker for the account
    apReconcile,     \* _reconcile_workers: fetch, start (account listed), done
    apEngineCrashes,
    apFault,         \* history: Redis and the row, or the view, may have come apart
    apLost           \* history: a call for the worker got lost since the engine started

apBackendVars == <<apKill, apFlips, apDb, apKey, apReq, apRequests, apBackendCrashes>>
apMonitorVars == <<apChan, apListener, apView>>
apWorkerVars == <<apStarts, apWorker, apReconcile>>
apVars == <<apBackendVars, apMonitorVars, apWorkerVars, apEngineCrashes, apFault, apLost>>

State(on) == IF on THEN "enabled" ELSE "disabled"
NoChange == [pc |-> "idle", on |-> FALSE, good |-> TRUE]

AutopilotTypeOK ==
    /\ apKill \in BOOLEAN /\ apFlips \in 0 .. MaxKills
    /\ apDb \in BOOLEAN /\ apKey \in {"enabled", "disabled"}
    /\ apReq \in [pc : {"idle", "save", "set", "publish", "sync"}, on : BOOLEAN, good : BOOLEAN]
    /\ apRequests \in 0 .. MaxChanges
    /\ apBackendCrashes \in 0 .. MaxDeaths /\ apEngineCrashes \in 0 .. MaxDeaths
    /\ apChan \in Seq(BOOLEAN)
    /\ apListener \in {"off", "on", "dead"}
    /\ apView \in {"unknown", "enabled", "disabled"}
    /\ apStarts \in 0 .. MaxStarts /\ apWorker \in BOOLEAN
    /\ apReconcile \in {"fetch", "start", "done"}
    /\ apFault \in BOOLEAN /\ apLost \in BOOLEAN

AutopilotInit ==
    /\ apKill = FALSE /\ apFlips = 0
    /\ apDb \in BOOLEAN /\ apKey = State(apDb)      \* syncStatesToRedis has run
    /\ apReq = NoChange /\ apRequests = 0 /\ apBackendCrashes = 0
    /\ apChan = <<>> /\ apListener = "off" /\ apView = "unknown"
    /\ apStarts = 0 /\ apWorker = FALSE /\ apReconcile = "fetch"
    /\ apEngineCrashes = 0
    /\ apFault = FALSE /\ apLost = FALSE

-----------------------------------------------------------------------------
\* AutopilotService.setAutopilotState, one await after the other.

\* Enabling is refused while the kill switch is active.
RequestState(on) ==
    /\ apReq.pc = "idle" /\ apRequests < MaxChanges
    /\ on => ~apKill
    /\ apRequests' = apRequests + 1
    /\ apReq' = [NoChange EXCEPT !.pc = "save", !.on = on]
    /\ UNCHANGED <<apKill, apFlips, apDb, apKey, apBackendCrashes, apMonitorVars, apWorkerVars,
                   apEngineCrashes, apFault, apLost>>

Save ==
    /\ apReq.pc = "save"
    /\ apDb' = apReq.on
    /\ apReq' = [apReq EXCEPT !.pc = "set"]
    /\ UNCHANGED <<apKill, apFlips, apKey, apRequests, apBackendCrashes, apMonitorVars, apWorkerVars,
                   apEngineCrashes, apFault, apLost>>

\* redisSetWithRetry swallows the third failure; the key may have been set.
SetStateKey(works) ==
    /\ apReq.pc = "set"
    /\ apKey' \in IF works THEN {State(apReq.on)} ELSE {apKey, State(apReq.on)}
    /\ apReq' = [apReq EXCEPT !.pc = "publish", !.good = works]
    /\ apFault' = (apFault \/ ~works)
    /\ UNCHANGED <<apKill, apFlips, apDb, apRequests, apBackendCrashes, apMonitorVars, apWorkerVars,
                   apEngineCrashes, apLost>>

\* So does redisPublishWithRetry.  A message with nobody subscribed is gone,
\* which matters to an engine that has read the key.
PublishState(works) ==
    /\ apReq.pc = "publish"
    /\ \/ apListener = "on" /\ apChan' = Append(apChan, apReq.on)
       \/ (apListener # "on" \/ ~works) /\ UNCHANGED apChan
    /\ apReq' = [apReq EXCEPT !.pc = "sync"]
    /\ apFault' = IF works /\ apReq.good /\ apListener = "on" THEN FALSE
                ELSE apFault \/ ~works \/ apView # "unknown"
    /\ UNCHANGED <<apKill, apFlips, apDb, apKey, apRequests, apBackendCrashes, apListener, apView,
                   apWorkerVars, apEngineCrashes, apLost>>

\* supervisor.stop_worker: start calls that still wait are not affected.
SupervisorStops == apWorker' = FALSE /\ UNCHANGED apStarts

\* The engine takes a start call, and awaits the snapshot of the account, for
\* longer, maybe, than the five seconds the backend gives it.
CallStart == apStarts < MaxStarts /\ apStarts' = apStarts + 1 /\ UNCHANGED apWorker

\* syncWorkerState: a call that fails is logged and forgotten.
SyncWorker(works) ==
    /\ apReq.pc = "sync"
    /\ IF works THEN IF apReq.on THEN CallStart ELSE SupervisorStops
                ELSE UNCHANGED <<apStarts, apWorker>>
    /\ apReq' = NoChange
    /\ apLost' = (apLost \/ ~works)
    /\ UNCHANGED <<apKill, apFlips, apDb, apKey, apRequests, apBackendCrashes, apMonitorVars, apReconcile,
                   apEngineCrashes, apFault>>

\* The backend restarts and syncStatesToRedis writes the rows to the keys.
BackendRestart(works) ==
    /\ apBackendCrashes < MaxDeaths
    /\ apBackendCrashes' = apBackendCrashes + 1
    /\ apReq' = NoChange
    /\ apKey' = IF works THEN State(apDb) ELSE apKey
    /\ apFault' = (apFault \/ ~works \/ apReq.pc \in {"set", "publish"})
    /\ apLost' = (apLost \/ apReq.pc # "idle")
    /\ UNCHANGED <<apKill, apFlips, apDb, apRequests, apMonitorVars, apWorkerVars, apEngineCrashes>>

FlipSwitch ==
    /\ apFlips < MaxKills
    /\ apFlips' = apFlips + 1
    /\ apKill' = ~apKill
    /\ UNCHANGED <<apDb, apKey, apReq, apRequests, apBackendCrashes, apMonitorVars, apWorkerVars,
                   apEngineCrashes, apFault, apLost>>

-----------------------------------------------------------------------------
\* AutopilotMonitor of the engine.

SubscribeState ==
    /\ apListener = "off"
    /\ apListener' = "on"
    /\ UNCHANGED <<apBackendVars, apChan, apView, apWorkerVars, apEngineCrashes, apFault, apLost>>

\* Fault: a message does not reach an account the monitor already knows.
HearStateOnce ==
    /\ apListener = "on" /\ apChan # <<>>
    /\ apView' = IF apView = "unknown" THEN State(Head(apChan)) ELSE apView
    /\ apChan' = Tail(apChan)
    /\ UNCHANGED <<apBackendVars, apListener, apWorkerVars, apEngineCrashes, apFault, apLost>>

\* The loop of _listen: the state is kept, and callbacks is set on either branch.
HearState ==
    /\ apListener = "on" /\ apChan # <<>>
    /\ apView' = State(Head(apChan))
    /\ apChan' = Tail(apChan)
    /\ UNCHANGED <<apBackendVars, apListener, apWorkerVars, apEngineCrashes, apFault, apLost>>

\* The connection breaks and the listener thread ends.
StateListenFails ==
    /\ apListener # "dead"
    /\ apListener' = "dead" /\ apChan' = <<>>
    /\ apFault' = TRUE
    /\ UNCHANGED <<apBackendVars, apView, apWorkerVars, apEngineCrashes, apLost>>

\* The worker's first is_enabled reads the key; a failed read counts as
\* disabled, and is kept.
LoadState(works) ==
    /\ apWorker /\ apView = "unknown"
    /\ apView' = IF works THEN apKey ELSE "disabled"
    /\ apFault' = (apFault \/ ~works \/ apListener # "on")
    /\ UNCHANGED <<apBackendVars, apChan, apListener, apWorkerVars, apEngineCrashes, apLost>>

-----------------------------------------------------------------------------
\* The workers of the engine.

\* A start call gets its snapshot: start_worker replaces a worker there is.
SupervisorStarts ==
    /\ apStarts > 0
    /\ apStarts' = apStarts - 1
    /\ apWorker' = TRUE
    /\ UNCHANGED <<apBackendVars, apMonitorVars, apReconcile, apEngineCrashes, apFault, apLost>>

\* _reconcile_workers lists the enabled accounts, or gives up after its retries.
Fetch(works) ==
    /\ apReconcile = "fetch"
    /\ apReconcile' = IF works /\ apDb THEN "start" ELSE "done"
    /\ apLost' = (apLost \/ ~works)
    /\ UNCHANGED <<apBackendVars, apMonitorVars, apStarts, apWorker, apEngineCrashes, apFault>>

\* It posts a start for each account of the list, which may be out of date.
Reconcile(works) ==
    /\ apReconcile = "start"
    /\ apReconcile' = "done"
    /\ IF works THEN CallStart ELSE UNCHANGED <<apStarts, apWorker>>
    /\ apLost' = (apLost \/ ~works)
    /\ UNCHANGED <<apBackendVars, apMonitorVars, apEngineCrashes, apFault>>

\* Fault: nothing restores the workers after a restart.
RestartBare ==
    /\ apEngineCrashes < MaxDeaths
    /\ apEngineCrashes' = apEngineCrashes + 1
    /\ apChan' = <<>> /\ apListener' = "off" /\ apView' = "unknown"
    /\ apStarts' = 0 /\ apWorker' = FALSE /\ apReconcile' = "done"
    /\ apLost' = FALSE
    /\ UNCHANGED <<apBackendVars, apFault>>

\* Workers, cached states and calls under way are gone with the process.
EngineRestart ==
    /\ apEngineCrashes < MaxDeaths
    /\ apEngineCrashes' = apEngineCrashes + 1
    /\ apChan' = <<>> /\ apListener' = "off" /\ apView' = "unknown"
    /\ apStarts' = 0 /\ apWorker' = FALSE /\ apReconcile' = "fetch"
    /\ apLost' = FALSE
    /\ UNCHANGED <<apBackendVars, apFault>>

AutopilotNext ==
    \/ \E b \in BOOLEAN :
          \/ RequestState(b) \/ SetStateKey(b) \/ PublishState(b) \/ SyncWorker(b)
          \/ BackendRestart(b) \/ LoadState(b) \/ Fetch(b) \/ Reconcile(b)
    \/ Save
    \/ FlipSwitch
    \/ SubscribeState \/ HearState \/ StateListenFails
    \/ SupervisorStarts
    \/ EngineRestart

AutopilotSpec == AutopilotInit /\ [][AutopilotNext]_apVars

\* The backend's requests, the engine's start calls and its reconciliation all
\* have time limits, so each of their steps is taken or fails.
AutopilotFairSpec ==
    /\ AutopilotSpec
    /\ WF_apVars(Save)
    /\ WF_apVars(\E b \in BOOLEAN : SetStateKey(b) \/ PublishState(b) \/ SyncWorker(b))
    /\ WF_apVars(\E b \in BOOLEAN : Fetch(b) \/ Reconcile(b))
    /\ WF_apVars(SupervisorStarts)

-----------------------------------------------------------------------------
AutopilotQuiet == apReq.pc = "idle" /\ apChan = <<>>

\* An account whose row says disabled is not traded: at rest, a worker whose
\* cached state is enabled has an enabled row, late starts, crashes of both
\* sides and reconciliation notwithstanding, if Redis did not fail it
\* (setAutopilotState: "Persist to PostgreSQL first (source of truth)").
DisabledIsNotTraded == AutopilotQuiet /\ ~apFault /\ apWorker /\ apView = "enabled" => apDb

\* "Here we pull every autopilot-enabled account from the backend's internal
\* endpoint and (re)start its worker": an account that stays enabled gets its
\* worker, whenever it was enabled relative to the engine's restarts.
EnabledGetsWorker == <>[](apDb /\ ~apLost) => <>[]apWorker
=============================================================================
