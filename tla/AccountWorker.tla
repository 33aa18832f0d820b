--------------------------- MODULE AccountWorker ---------------------------
(***************************************************************************)
(* The worker threads of the execution engine.  Every trading account has  *)
(* a consumer group on the one Redis stream signals:stream and, normally,  *)
(* one AccountWorker thread that takes signals from the group and turns    *)
(* them into broker orders.  The supervisor gives a stopped thread five    *)
(* seconds to exit and then starts its successor anyway, so two threads of *)
(* one account can run side by side: Workers is the set of threads, Owner  *)
(* the account of each.                                                    *)
(*                                                                         *)
(* A cycle of _process_one_cycle is cut where another thread, Redis, the   *)
(* broker or a crash can come in between:                                  *)
(*                                                                         *)
(*   gate -> (drain <-> drainAck) -> auto -> read -> judge -> exec ->      *)
(*   ack -> persist -> track -> gate                                       *)
(***************************************************************************)
EXTENDS Naturals, FiniteSets, Sequences

CONSTANTS Workers,       \* worker threads
          Accounts,      \* trading accounts
          Owner,         \* the account a worker thread serves
          Strategies,    \* strategy ids a signal can carry
          Malformed,     \* body of a stream entry that does not parse
          NoWorker,      \* "no worker registered"
          MaxPositions,  \* RiskManager.max_positions
          MaxMsgs,       \* bound: entries published to the stream
          MaxFlips,      \* bound: kill switch and autopilot changes
          MaxCrashes     \* bound: engine crashes

ASSUME WorkersAssumption ==
    /\ Owner \in [Workers -> Accounts]
    /\ NoWorker \notin Workers
    /\ Malformed \notin Strategies
    /\ MaxPositions \in Nat
    /\ MaxMsgs \in Nat /\ MaxFlips \in Nat /\ MaxCrashes \in Nat

VARIABLES
    log,         \* signals:stream: the entries published so far
    cursor,      \* per account group: index of the last entry delivered
    pel,         \* per account group: entries delivered and not acknowledged
    kill,        \* what KillSwitchMonitor.is_active() answers
    auto,        \* what AutopilotMonitor.is_enabled(account) answers
    registered,  \* WorkerSupervisor._workers
    orders,      \* per account: executions of each entry that placed an order
    recorded,    \* per account: entries with a row in the trades table
    tracked      \* per account: entries whose position is monitored

VARIABLES
    pc,          \* where a worker thread is
    msg,         \* the entry a worker thread holds
    wasKilled,   \* AccountWorker._was_kill_switched
    assigned,    \* AccountWorker._assigned_strategy_ids
    room,        \* the account-level risk rules pass on the account as it was
                 \* when the worker was built (nothing updates it later)
    stopReq,     \* AccountWorker._stop_event
    filled       \* the held entry's execution result is FILLED

VARIABLES
    sinceKill,   \* history: executions of a worker since kill became TRUE
    sinceOff,    \* history: executions of a worker since its autopilot went off
    lost,        \* history: orders whose record was lost, and why it may be
    flips, crashes

redisVars == <<log, cursor, pel>>
gateVars == <<kill, auto>>
tradeVars == <<orders, recorded, tracked>>
threadVars == <<pc, msg, wasKilled, assigned, room, stopReq, filled>>
histVars == <<sinceKill, sinceOff, lost, flips, crashes>>
vars == <<redisVars, gateVars, registered, tradeVars, threadVars, histVars>>

Running == {"gate", "drain", "drainAck", "auto", "read", "skip", "judge",
            "exec", "ack", "persist", "track"}
\* A worker at one of these points holds the entry it last took.
Holding == {"drainAck", "skip", "judge", "exec", "ack", "persist", "track"}

LogEntry == Strategies \cup {Malformed}
Index == 1 .. MaxMsgs

RedisOK ==
    /\ log \in Seq(LogEntry) /\ Len(log) <= MaxMsgs
    /\ cursor \in [Accounts -> 0 .. MaxMsgs]
    /\ pel \in [Accounts -> SUBSET Index]

EngineOK ==
    /\ kill \in BOOLEAN
    /\ auto \in [Accounts -> BOOLEAN]
    /\ registered \in [Accounts -> Workers \cup {NoWorker}]
    /\ orders \in [Accounts -> [Index -> Nat]]
    /\ recorded \in [Accounts -> SUBSET Index]
    /\ tracked \in [Accounts -> SUBSET Index]

ThreadsOK ==
    /\ pc \in [Workers -> Running \cup {"off"}]
    /\ msg \in [Workers -> 0 .. MaxMsgs]
    /\ wasKilled \in [Workers -> BOOLEAN]
    /\ assigned \in [Workers -> SUBSET Strategies]
    /\ room \in [Workers -> BOOLEAN]
    /\ stopReq \in [Workers -> BOOLEAN]
    /\ filled \in [Workers -> BOOLEAN]

HistoryOK ==
    /\ sinceKill \in [Workers -> Nat]
    /\ sinceOff \in [Workers -> Nat]
    /\ lost \in [Accounts -> SUBSET Index]
    /\ flips \in 0 .. MaxFlips
    /\ crashes \in 0 .. MaxCrashes

\* Every variable has the values the code can give it.
TypeOK == RedisOK /\ EngineOK /\ ThreadsOK /\ HistoryOK

Init ==
    /\ log = <<>>
    /\ cursor = [a \in Accounts |-> 0]
    /\ pel = [a \in Accounts |-> {}]
    /\ kill = FALSE
    /\ auto = [a \in Accounts |-> TRUE]
    /\ registered = [a \in Accounts |-> NoWorker]
    /\ orders = [a \in Accounts |-> [i \in Index |-> 0]]
    /\ recorded = [a \in Accounts |-> {}]
    /\ tracked = [a \in Accounts |-> {}]
    /\ pc = [w \in Workers |-> "off"]
    /\ msg = [w \in Workers |-> 0]
    /\ wasKilled = [w \in Workers |-> FALSE]
    /\ assigned = [w \in Workers |-> {}]
    /\ room = [w \in Workers |-> FALSE]
    /\ stopReq = [w \in Workers |-> FALSE]
    /\ filled = [w \in Workers |-> FALSE]
    /\ sinceKill = [w \in Workers |-> 0]
    /\ sinceOff = [w \in Workers |-> 0]
    /\ lost = [a \in Accounts |-> {}]
    /\ flips = 0
    /\ crashes = 0

----------------------------------------------------------------------------
(* The engine around the workers *)

\* The strategy engine appends a signal, or somebody else an entry that does
\* not parse.
PublishSignal(body) ==
    /\ Len(log) < MaxMsgs
    /\ log' = Append(log, body)
    /\ UNCHANGED <<cursor, pel, gateVars, registered, tradeVars, threadVars,
                   histVars>>

\* The kill switch, as the engine's monitor sees it, changes.
FlipKill ==
    /\ flips < MaxFlips
    /\ kill' = ~kill
    /\ sinceKill' = IF kill THEN sinceKill ELSE [w \in Workers |-> 0]
    /\ flips' = flips + 1
    /\ UNCHANGED <<redisVars, auto, registered, tradeVars, threadVars,
                   sinceOff, lost, crashes>>

\* The autopilot of an account, as the engine's monitor sees it, changes.
FlipAutopilot(a) ==
    /\ flips < MaxFlips
    /\ auto' = [auto EXCEPT ![a] = ~@]
    /\ sinceOff' = [w \in Workers |-> IF Owner[w] = a /\ auto[a]
                                      THEN 0 ELSE sinceOff[w]]
    /\ flips' = flips + 1
    /\ UNCHANGED <<redisVars, kill, registered, tradeVars, threadVars,
                   sinceKill, lost, crashes>>

OpenOrders(a) == {i \in Index : orders[a][i] > 0}

\* POST /workers/start for account a: the registered worker is asked to stop
\* and, whether or not its thread exits in time, thread w runs a new worker.
\* The broker snapshot gives the open positions, or its list of them fails and
\* the account counts none, or it fails as a whole and leaves no equity, on
\* which the risk manager rejects everything.  The assigned strategies are
\* those of the Redis key, or none; rehydration puts the recorded positions
\* back under monitoring unless the query fails.
StartWorker(a, w) ==
    /\ Owner[w] = a /\ pc[w] = "off"
    /\ \E S \in SUBSET Strategies,
          ok \in {Cardinality(OpenOrders(a)) < MaxPositions, 0 < MaxPositions, FALSE},
          rows \in {{}, recorded[a]} :
            /\ assigned' = [assigned EXCEPT ![w] = S]
            /\ room' = [room EXCEPT ![w] = ok]
            /\ tracked' = [tracked EXCEPT ![a] = @ \cup rows]
    /\ stopReq' = [v \in Workers |-> IF v = w THEN FALSE
                                     ELSE stopReq[v] \/ v = registered[a]]
    /\ registered' = [registered EXCEPT ![a] = w]
    /\ pc' = [pc EXCEPT ![w] = "gate"]
    /\ wasKilled' = [wasKilled EXCEPT ![w] = FALSE]
    /\ UNCHANGED <<redisVars, gateVars, orders, recorded, msg, filled, histVars>>

\* POST /workers/{id}/stop: the worker is told to stop and forgotten.
StopWorker(a) ==
    /\ registered[a] # NoWorker
    /\ stopReq' = [stopReq EXCEPT ![registered[a]] = TRUE]
    /\ registered' = [registered EXCEPT ![a] = NoWorker]
    /\ UNCHANGED <<redisVars, gateVars, tradeVars, pc, msg, wasKilled,
                   assigned, room, filled, histVars>>

\* The strategy listener of w installs the list of a pub/sub message.
UpdateStrategies(w) ==
    /\ pc[w] \in Running
    /\ \E S \in SUBSET Strategies : assigned' = [assigned EXCEPT ![w] = S]
    /\ UNCHANGED <<redisVars, gateVars, registered, tradeVars, pc, msg,
                   wasKilled, room, stopReq, filled, histVars>>

\* The engine process dies: every thread and the position monitor's memory
\* are gone.  Orders that were placed but not yet recorded lose their record.
EngineCrash ==
    /\ crashes < MaxCrashes
    /\ crashes' = crashes + 1
    /\ pc' = [w \in Workers |-> "off"]
    /\ msg' = [w \in Workers |-> 0]
    /\ wasKilled' = [w \in Workers |-> FALSE]
    /\ stopReq' = [w \in Workers |-> FALSE]
    /\ filled' = [w \in Workers |-> FALSE]
    /\ registered' = [a \in Accounts |-> NoWorker]
    /\ tracked' = [a \in Accounts |-> {}]
    /\ lost' = [a \in Accounts |-> lost[a] \cup (OpenOrders(a) \ recorded[a])]
    /\ UNCHANGED <<redisVars, gateVars, orders, recorded, assigned, room,
                   sinceKill, sinceOff, flips>>

----------------------------------------------------------------------------
(* One cycle of a worker *)

Goto(w, there) == pc' = [pc EXCEPT ![w] = there]

\* Fault: the loop goes on without passing the kill switch check again.
EndCycleSkipsKillCheck(w, there) ==
    /\ Goto(w, IF there = "gate" THEN "auto" ELSE there)
    /\ msg' = [msg EXCEPT ![w] = 0]
    /\ filled' = [filled EXCEPT ![w] = FALSE]

\* Fault: the loop goes on reading without passing either check again.
EndCycleKeepsReading(w, there) ==
    /\ Goto(w, IF there = "gate" THEN "read" ELSE there)
    /\ msg' = [msg EXCEPT ![w] = 0]
    /\ filled' = [filled EXCEPT ![w] = FALSE]

\* The cycle ends and its local variables with it.
EndCycle(w, there) ==
    /\ Goto(w, there)
    /\ msg' = [msg EXCEPT ![w] = 0]
    /\ filled' = [filled EXCEPT ![w] = FALSE]

\* Fault: xreadgroup("0") delivers what is pending for the consumer name, which
\* all threads of the account share, before anything new.
DeliverPending(w) ==
    LET a == Owner[w] IN
    \/ /\ \E i \in pel[a] : msg' = [msg EXCEPT ![w] = i]
       /\ UNCHANGED <<cursor, pel>>
    \/ /\ pel[a] = {} /\ cursor[a] < Len(log)
       /\ cursor' = [cursor EXCEPT ![a] = @ + 1]
       /\ pel' = [pel EXCEPT ![a] = @ \cup {cursor[a] + 1}]
       /\ msg' = [msg EXCEPT ![w] = cursor[a] + 1]

\* xreadgroup(">") delivers the group's next entry to w.
Deliver(w) ==
    LET a == Owner[w] IN
    /\ cursor[a] < Len(log)
    /\ cursor' = [cursor EXCEPT ![a] = @ + 1]
    /\ pel' = [pel EXCEPT ![a] = @ \cup {cursor[a] + 1}]
    /\ msg' = [msg EXCEPT ![w] = cursor[a] + 1]

\* xack of the entry w holds.
Acknowledge(w) == pel' = [pel EXCEPT ![Owner[w]] = @ \ {msg[w]}]

Body(w) == log[msg[w]]

\* Top of the loop: stop if asked to; remember an active kill switch and wait;
\* on the way out of one, drain first.
Gate(w) ==
    /\ pc[w] = "gate"
    /\ \/ stopReq[w] /\ Goto(w, "off") /\ UNCHANGED wasKilled
       \/ /\ ~stopReq[w] /\ kill
          /\ wasKilled' = [wasKilled EXCEPT ![w] = TRUE]
          /\ UNCHANGED pc
       \/ /\ ~stopReq[w] /\ ~kill
          /\ wasKilled' = [wasKilled EXCEPT ![w] = FALSE]
          /\ Goto(w, IF wasKilled[w] THEN "drain" ELSE "auto")
    /\ UNCHANGED <<redisVars, gateVars, registered, tradeVars, msg, assigned,
                   room, stopReq, filled, histVars>>

\* _drain_pending_signals reads with block_ms=0, which xreadgroup passes on as
\* BLOCK 0: with nothing to read the call waits for the next entry.
DrainRead(w) ==
    /\ pc[w] = "drain"
    /\ Deliver(w)
    /\ Goto(w, "drainAck")
    /\ UNCHANGED <<log, gateVars, registered, tradeVars, wasKilled, assigned,
                   room, stopReq, filled, histVars>>

\* Each drained signal is acknowledged and dropped; an entry that does not
\* parse is acknowledged by consume, which returns None and ends the drain.
DrainAck(w) ==
    /\ pc[w] = "drainAck"
    /\ Acknowledge(w)
    /\ EndCycle(w, IF Body(w) = Malformed THEN "auto" ELSE "drain")
    /\ UNCHANGED <<log, cursor, gateVars, registered, tradeVars, wasKilled,
                   assigned, room, stopReq, histVars>>

CheckAutopilot(w) ==
    /\ pc[w] = "auto"
    /\ Goto(w, IF auto[Owner[w]] THEN "read" ELSE "gate")
    /\ UNCHANGED <<redisVars, gateVars, registered, tradeVars, msg, wasKilled,
                   assigned, room, stopReq, filled, histVars>>

\* consume: the next entry, or None when the poll times out.  An entry that
\* does not parse, and one of a strategy the account does not trade (an empty
\* assignment means all), is only acknowledged.
Read(w) ==
    /\ pc[w] = "read"
    /\ \/ Deliver(w) /\ Goto(w, "judge")
       \/ cursor[Owner[w]] = Len(log) /\ Goto(w, "gate")
          /\ UNCHANGED <<cursor, pel, msg>>
    /\ UNCHANGED <<log, gateVars, registered, tradeVars, wasKilled, assigned,
                   room, stopReq, filled, histVars>>

Accepted(w) ==
    /\ Body(w) # Malformed
    /\ assigned[w] = {} \/ Body(w) \in assigned[w]

\* RiskManager.validate on the account as it was when the worker was built:
\* without room it rejects; otherwise the remaining rules decide on the
\* signal's numbers.
Judge(w) ==
    /\ pc[w] = "judge"
    /\ \/ /\ Accepted(w)
          /\ room[w]
          /\ Goto(w, "exec")
       \/ Goto(w, "skip")
    /\ UNCHANGED <<redisVars, gateVars, registered, tradeVars, msg, wasKilled,
                   assigned, room, stopReq, filled, histVars>>

\* A filtered or rejected entry is acknowledged and nothing else happens.
Skip(w) ==
    /\ pc[w] = "skip"
    /\ Acknowledge(w)
    /\ EndCycle(w, "gate")
    /\ UNCHANGED <<log, cursor, gateVars, registered, tradeVars, wasKilled,
                   assigned, room, stopReq, histVars>>

\* executor.execute: the order is placed and reported filled; or placed while
\* the client reports a failure (the reply was lost); or refused; or the call
\* raises before the order and takes the thread down, the entry unacknowledged.
\* A client that raises when the reply is lost (MetaAPI; Deriv's reports a
\* rejection) has execute submit the order again, up to MAX_RETRIES times: the
\* orders of the earlier attempts are lost even if the last one is filled.
PlaceOrder(w) ==
    /\ orders' = [orders EXCEPT ![Owner[w]][msg[w]] = @ + 1]
    /\ sinceKill' = [sinceKill EXCEPT ![w] = IF kill THEN @ + 1 ELSE @]
    /\ sinceOff' = [sinceOff EXCEPT ![w] = IF auto[Owner[w]] THEN @ ELSE @ + 1]

Execute(w) ==
    /\ pc[w] = "exec"
    /\ \/ /\ PlaceOrder(w)
          /\ filled' = [filled EXCEPT ![w] = TRUE]
          /\ lost' \in {lost, [lost EXCEPT ![Owner[w]] = @ \cup {msg[w]}]}
          /\ Goto(w, "ack") /\ UNCHANGED msg
       \/ /\ PlaceOrder(w)
          /\ lost' = [lost EXCEPT ![Owner[w]] = @ \cup {msg[w]}]
          /\ Goto(w, "ack") /\ UNCHANGED <<msg, filled>>
       \/ /\ Goto(w, "ack")
          /\ UNCHANGED <<orders, sinceKill, sinceOff, lost, msg, filled>>
       \/ /\ EndCycle(w, "off")
          /\ UNCHANGED <<orders, sinceKill, sinceOff, lost>>
    /\ UNCHANGED <<redisVars, gateVars, registered, recorded, tracked,
                   wasKilled, assigned, room, stopReq, flips, crashes>>

\* Fault: the cycle ends at the acknowledgement, filled or not.
AckEndsCycle(w) ==
    /\ pc[w] = "ack"
    /\ Acknowledge(w)
    /\ EndCycle(w, "gate")
    /\ UNCHANGED <<log, cursor, gateVars, registered, tradeVars, wasKilled,
                   assigned, room, stopReq, histVars>>

\* The entry is acknowledged before the trade is recorded.
Ack(w) ==
    /\ pc[w] = "ack"
    /\ Acknowledge(w)
    /\ \/ filled[w] /\ Goto(w, "persist") /\ UNCHANGED <<msg, filled>>
       \/ ~filled[w] /\ EndCycle(w, "gate")
    /\ UNCHANGED <<log, cursor, gateVars, registered, tradeVars, wasKilled,
                   assigned, room, stopReq, histVars>>

\* Fault: a failed insert ends the cycle before track_position.
PersistOrGiveUp(w) ==
    LET a == Owner[w] IN
    /\ pc[w] = "persist"
    /\ \/ recorded' = [recorded EXCEPT ![a] = @ \cup {msg[w]}] /\ UNCHANGED lost
          /\ Goto(w, "track") /\ UNCHANGED <<msg, filled>>
       \/ lost' = [lost EXCEPT ![a] = @ \cup {msg[w]}] /\ UNCHANGED recorded
          /\ EndCycle(w, "gate")
    /\ UNCHANGED <<redisVars, gateVars, registered, orders, tracked,
                   wasKilled, assigned, room, stopReq, sinceKill, sinceOff,
                   flips, crashes>>

\* TradePersister.record_entry writes the row, or logs a database error and
\* returns False, which nobody looks at.
Persist(w) ==
    LET a == Owner[w] IN
    /\ pc[w] = "persist"
    /\ \/ recorded' = [recorded EXCEPT ![a] = @ \cup {msg[w]}] /\ UNCHANGED lost
       \/ lost' = [lost EXCEPT ![a] = @ \cup {msg[w]}] /\ UNCHANGED recorded
    /\ Goto(w, "track")
    /\ UNCHANGED <<redisVars, gateVars, registered, orders, tracked, msg,
                   wasKilled, assigned, room, stopReq, filled, sinceKill,
                   sinceOff, flips, crashes>>

\* PositionMonitor.track_position.
Track(w) ==
    /\ pc[w] = "track"
    /\ tracked' = [tracked EXCEPT ![Owner[w]] = @ \cup {msg[w]}]
    /\ EndCycle(w, "gate")
    /\ UNCHANGED <<redisVars, gateVars, registered, orders, recorded,
                   wasKilled, assigned, room, stopReq, histVars>>

----------------------------------------------------------------------------

Cycle(w) ==
    \/ Gate(w) \/ DrainRead(w) \/ DrainAck(w) \/ CheckAutopilot(w)
    \/ Read(w) \/ Judge(w) \/ Skip(w) \/ Execute(w) \/ Ack(w)
    \/ Persist(w) \/ Track(w)

Next ==
    \/ \E body \in Strategies \cup {Malformed} : PublishSignal(body)
    \/ FlipKill
    \/ \E a \in Accounts : FlipAutopilot(a) \/ StopWorker(a)
    \/ \E a \in Accounts, w \in Workers : StartWorker(a, w)
    \/ \E w \in Workers : UpdateStrategies(w) \/ Cycle(w)
    \/ EngineCrash

Spec == Init /\ [][Next]_vars

\* Threads are scheduled, polls time out and broker calls return or raise.
FairSpec == Spec /\ \A w \in Workers : WF_vars(Cycle(w))
----------------------------------------------------------------------------
(* Safety *)

Holds(w, i) == pc[w] \in Holding /\ msg[w] = i

\* An entry is in the hands of at most one worker thread of its account, also
\* while a thread that missed the supervisor's five-second join still runs next
\* to its successor (signal_consumer.py: one consumer group per account).
ExclusiveDelivery ==
    \A v, w \in Workers :
        v # w /\ Owner[v] = Owner[w] /\ pc[v] \in Holding /\ pc[w] \in Holding
            => msg[v] # msg[w]

\* No entry is executed twice by an account, over restarts, crashes, threads
\* that outlive their replacement, and entries left unacknowledged: consume
\* reads only undelivered entries.  Two orders of one entry can only come from
\* the retries of one execution.
ExecutedOnce ==
    \A a \in Accounts, i \in Index : orders[a][i] <= 1

\* Once the kill switch is active a worker executes at most the one entry whose
\* cycle had already passed the check at the top of _process_one_cycle.
AtMostOneAfterKill ==
    \A w \in Workers : sinceKill[w] <= 1

\* The same for the account's autopilot, which is checked at another point of
\* the cycle, after the drain.
AtMostOneAfterDisable ==
    \A w \in Workers : sinceOff[w] <= 1

\* An order is on record, or a worker is on its way from execute to
\* record_entry with it, or its record was lost in one of the ways the code
\* has: a crash in between, a failed insert, a fill reported as a failure.
OrdersAccounted ==
    \A a \in Accounts : \A i \in OpenOrders(a) :
        \/ i \in recorded[a] \cup lost[a]
        \/ \E w \in Workers : /\ Owner[w] = a /\ msg[w] = i /\ filled[w]
                              /\ pc[w] \in {"ack", "persist"}

\* An entry that no thread holds and that was never acknowledged stays so:
\* consume passes ">" and nothing claims pending entries, so a signal a dead
\* worker had taken is given up, neither retried nor acknowledged.
OrphansAreGivenUp ==
    [][\A a \in Accounts : \A i \in pel[a] :
          (\A w \in Workers : Owner[w] = a => ~Holds(w, i))
              => /\ i \in pel'[a]
                 /\ \A w \in Workers : Owner[w] = a => ~Holds(w, i)']_vars

----------------------------------------------------------------------------
(* Liveness *)

\* An order the broker reported filled ends up on record and monitored, unless
\* its record is lost (see OrdersAccounted) or the engine crashes.
FillIsFollowedUp ==
    \A w \in Workers, i \in Index :
        (pc[w] = "ack" /\ filled[w] /\ msg[w] = i) ~>
            \/ i \in tracked[Owner[w]] \cap (recorded[Owner[w]] \cup lost[Owner[w]])
            \/ crashes > 0

----------------------------------------------------------------------------
(* What the code says of itself and does not do *)

\* "block_ms=0,  # non-blocking": a drain comes to an end by itself.
DrainEnds ==
    \A w \in Workers : pc[w] \in {"drain", "drainAck"} ~> pc[w] \notin {"drain", "drainAck"}
============================================================================
