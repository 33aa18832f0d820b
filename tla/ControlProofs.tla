---------------------------- MODULE ControlProofs ----------------------------
(***************************************************************************)
(* Proofs about the controls of trading.                                   *)
(*                                                                         *)
(* AccountWorker, for any accounts, threads and bounds: an entry is        *)
(* executed once however workers, crashes and redeliveries interleave, and *)
(* after the kill switch or a disable at most the order in flight.         *)
(*                                                                         *)
(* KillSwitch, for any administrators and accounts.  What the monitor      *)
(* holds, or will hold once it has heard the messages on their way, is     *)
(* what the key says, and the key what the row says, unless a request is   *)
(* between its writes, a Redis call failed or requests overlapped, and no  *)
(* request since was undisturbed (SwitchInv); an account that was swept    *)
(* has one position in flight at most, or a sweep at it that has found     *)
(* all its positions but one (SweepInv).                                   *)
(*                                                                         *)
(* Autopilot, of one account: the same relation of row, key, messages and  *)
(* cached state, with restarts of the backend and of the engine at any     *)
(* step (AutopilotInv).                                                    *)
(***************************************************************************)
EXTENDS AccountWorker, KillSwitch, Autopilot, SequenceTheorems, TLAPS

(* AccountWorker. *)

(* A worker that holds an entry holds one its group has delivered. *)
HeldDelivered ==
    \A w \in Workers : pc[w] \in Holding => msg[w] \in 1 .. cursor[Owner[w]]

TypeInv == TypeOK /\ HeldDelivered

LEMMA InitTypeInv == Init => TypeInv
  <1> SUFFICES ASSUME Init PROVE TypeInv
    OBVIOUS
  <1> USE WorkersAssumption DEF Init
  <1>1. RedisOK
    BY DEF RedisOK
  <1>2. EngineOK
    <2>1. orders \in [Accounts -> [Index -> Nat]]
      OBVIOUS
    <2>2. kill \in BOOLEAN /\ auto \in [Accounts -> BOOLEAN]
      OBVIOUS
    <2> QED
      BY <2>1, <2>2 DEF EngineOK
  <1>3. ThreadsOK
    BY DEF ThreadsOK
  <1>4. HistoryOK
    BY DEF HistoryOK
  <1>5. HeldDelivered
    BY DEF HeldDelivered, Holding
  <1> QED
    BY <1>1, <1>2, <1>3, <1>4, <1>5 DEF TypeInv, TypeOK

(* The entry a worker holds is one of the stream, its account one there is. *)
LEMMA HeldIndex ==
    ASSUME TypeInv, NEW w \in Workers, pc[w] \in Holding
    PROVE  msg[w] \in Index /\ Owner[w] \in Accounts
  BY WorkersAssumption DEF TypeInv, TypeOK, RedisOK, ThreadsOK, HeldDelivered, Index

(* What consume changes when it returns an entry. *)
LEMMA DeliverTypes ==
    ASSUME TypeInv, NEW w \in Workers, Deliver(w), log' = log
    PROVE  /\ RedisOK'
           /\ msg' \in [Workers -> 0 .. MaxMsgs]
           /\ msg'[w] = cursor'[Owner[w]] /\ cursor'[Owner[w]] >= 1
           /\ \A v \in Workers \ {w} : msg'[v] = msg[v]
           /\ \A a \in Accounts : cursor[a] <= cursor'[a]
  <1> USE WorkersAssumption DEF TypeInv, TypeOK, RedisOK, ThreadsOK, Deliver
  <1>1. cursor[Owner[w]] + 1 \in Index /\ Owner[w] \in Accounts
    <2>1. Owner[w] \in Accounts
      OBVIOUS
    <2>2. cursor[Owner[w]] \in Nat /\ Len(log) \in Nat
      BY <2>1
    <2>3. cursor[Owner[w]] < Len(log) /\ Len(log) <= MaxMsgs
      OBVIOUS
    <2> QED
      BY <2>1, <2>2, <2>3 DEF Index
  <1>2. cursor' \in [Accounts -> 0 .. MaxMsgs]
    BY <1>1 DEF Index
  <1>3. pel' \in [Accounts -> SUBSET Index]
    BY <1>1
  <1>4. msg' \in [Workers -> 0 .. MaxMsgs]
    BY <1>1 DEF Index
  <1>5. msg'[w] = cursor'[Owner[w]] /\ cursor'[Owner[w]] >= 1
    BY <1>1
  <1>6. \A v \in Workers \ {w} : msg'[v] = msg[v]
    OBVIOUS
  <1>7. \A a \in Accounts : cursor[a] <= cursor'[a]
    BY <1>1
  <1> QED
    BY <1>2, <1>3, <1>4, <1>5, <1>6, <1>7

(* The next control point of a thread leaves the others where they are. *)
LEMMA GotoTypes ==
    ASSUME TypeInv, NEW w \in Workers, NEW there \in Running \cup {"off"},
           Goto(w, there)
    PROVE  /\ pc' \in [Workers -> Running \cup {"off"}]
           /\ pc'[w] = there
           /\ \A v \in Workers \ {w} : pc'[v] = pc[v]
  BY DEF TypeInv, TypeOK, ThreadsOK, Goto

LEMMA EndCycleTypes ==
    ASSUME TypeInv, NEW w \in Workers, NEW there \in Running \cup {"off"},
           EndCycle(w, there)
    PROVE  /\ pc' \in [Workers -> Running \cup {"off"}]
           /\ pc'[w] = there
           /\ \A v \in Workers \ {w} : pc'[v] = pc[v]
           /\ msg' \in [Workers -> 0 .. MaxMsgs]
           /\ \A v \in Workers \ {w} : msg'[v] = msg[v]
           /\ filled' \in [Workers -> BOOLEAN]
  BY GotoTypes, WorkersAssumption DEF TypeInv, TypeOK, ThreadsOK, EndCycle

(* Parts of the state a step leaves alone keep their types. *)
LEMMA Frame ==
    /\ RedisOK /\ UNCHANGED redisVars => RedisOK'
    /\ EngineOK /\ UNCHANGED <<gateVars, registered, tradeVars>> => EngineOK'
    /\ ThreadsOK /\ UNCHANGED threadVars => ThreadsOK'
    /\ HistoryOK /\ UNCHANGED histVars => HistoryOK'
    /\ HeldDelivered /\ UNCHANGED <<pc, msg, cursor>> => HeldDelivered'
  BY DEF RedisOK, EngineOK, ThreadsOK, HistoryOK, HeldDelivered, redisVars,
     gateVars, tradeVars, threadVars, histVars

----------------------------------------------------------------------------
(* The steps of the engine around the workers *)

LEMMA EnvTypeInv ==
    ASSUME TypeInv,
           \/ \E body \in Strategies \cup {Malformed} : PublishSignal(body)
           \/ FlipKill
           \/ \E a \in Accounts : FlipAutopilot(a) \/ StopWorker(a)
           \/ \E a \in Accounts, w \in Workers : StartWorker(a, w)
           \/ \E w \in Workers : UpdateStrategies(w)
           \/ EngineCrash
    PROVE  TypeInv'
  <1> USE WorkersAssumption, Frame DEF TypeInv, TypeOK
  <1>1. ASSUME NEW body \in Strategies \cup {Malformed}, PublishSignal(body)
        PROVE TypeInv'
    <2>1. body \in LogEntry
      BY DEF LogEntry
    <2>2. log' \in Seq(LogEntry) /\ Len(log') = Len(log) + 1
      BY <1>1, <2>1 DEF PublishSignal, RedisOK
    <2>3. RedisOK'
      BY <1>1, <2>2 DEF PublishSignal, RedisOK
    <2> QED
      BY <1>1, <2>3 DEF PublishSignal, gateVars, tradeVars, threadVars, histVars
  <1>2. CASE FlipKill
    <2>1. EngineOK'
      BY <1>2 DEF FlipKill, EngineOK, tradeVars
    <2>2. HistoryOK'
      BY <1>2 DEF FlipKill, HistoryOK
    <2> QED
      BY <1>2, <2>1, <2>2 DEF FlipKill, redisVars, threadVars
  <1>3. ASSUME NEW a \in Accounts, FlipAutopilot(a) PROVE TypeInv'
    <2>1. EngineOK'
      BY <1>3 DEF FlipAutopilot, EngineOK, tradeVars
    <2>2. HistoryOK'
      BY <1>3 DEF FlipAutopilot, HistoryOK
    <2> QED
      BY <1>3, <2>1, <2>2 DEF FlipAutopilot, redisVars, threadVars
  <1>4. ASSUME NEW a \in Accounts, StopWorker(a) PROVE TypeInv'
    <2>1. EngineOK' /\ ThreadsOK'
      BY <1>4 DEF StopWorker, EngineOK, ThreadsOK, gateVars, tradeVars
    <2> QED
      BY <1>4, <2>1 DEF StopWorker, redisVars
  <1>5. ASSUME NEW a \in Accounts, NEW w \in Workers, StartWorker(a, w)
        PROVE TypeInv'
    <2>1. EngineOK'
      BY <1>5 DEF StartWorker, EngineOK, gateVars
    <2>2. stopReq' \in [Workers -> BOOLEAN]
      <3>1. stopReq' = [v \in Workers |-> IF v = w THEN FALSE
                                          ELSE stopReq[v] \/ v = registered[a]]
        BY <1>5, Zenon DEF StartWorker
      <3> QED
        BY <3>1, Zenon
    <2>3. room' \in [Workers -> BOOLEAN]
      <3>1. /\ (Cardinality(OpenOrders(a)) < MaxPositions) \in BOOLEAN
            /\ (0 < MaxPositions) \in BOOLEAN
        OBVIOUS
      <3>2. PICK ok \in BOOLEAN : room' = [room EXCEPT ![w] = ok]
        BY <1>5, <3>1, Zenon DEF StartWorker
      <3> QED
        BY <3>2 DEF ThreadsOK
    <2>4. assigned' \in [Workers -> SUBSET Strategies]
      <3>1. PICK S \in SUBSET Strategies : assigned' = [assigned EXCEPT ![w] = S]
        BY <1>5, Zenon DEF StartWorker
      <3> QED
        BY <3>1 DEF ThreadsOK
    <2>5. /\ pc' \in [Workers -> Running \cup {"off"}]
          /\ wasKilled' \in [Workers -> BOOLEAN]
          /\ msg' = msg /\ filled' = filled
      BY <1>5 DEF StartWorker, ThreadsOK, Running
    <2>6. ThreadsOK'
      BY <2>2, <2>3, <2>4, <2>5 DEF ThreadsOK
    <2>7. HeldDelivered'
      BY <1>5 DEF StartWorker, HeldDelivered, Holding, ThreadsOK, redisVars
    <2> QED
      BY <1>5, <2>1, <2>6, <2>7 DEF StartWorker
  <1>6. ASSUME NEW w \in Workers, UpdateStrategies(w) PROVE TypeInv'
    <2>1. ThreadsOK'
      BY <1>6 DEF UpdateStrategies, ThreadsOK
    <2> QED
      BY <1>6, <2>1 DEF UpdateStrategies, redisVars
  <1>7. CASE EngineCrash
    <2>1. EngineOK'
      BY <1>7 DEF EngineCrash, EngineOK, gateVars
    <2>2. ThreadsOK'
      BY <1>7 DEF EngineCrash, ThreadsOK
    <2>3. HistoryOK'
      BY <1>7 DEF EngineCrash, HistoryOK, OpenOrders, EngineOK
    <2>4. HeldDelivered'
      BY <1>7 DEF EngineCrash, HeldDelivered, Holding
    <2> QED
      BY <1>7, <2>1, <2>2, <2>3, <2>4 DEF EngineCrash
  <1> QED
    BY <1>1, <1>2, <1>3, <1>4, <1>5, <1>6, <1>7

----------------------------------------------------------------------------
(* The steps of a worker *)

(* HeldDelivered is a matter of the thread that moves. *)
LEMMA HeldByMover ==
    ASSUME TypeInv, NEW w \in Workers, TypeOK',
           \A v \in Workers \ {w} : pc'[v] = pc[v] /\ msg'[v] = msg[v],
           \A a \in Accounts : cursor[a] <= cursor'[a],
           pc'[w] \in Holding => msg'[w] \in 1 .. cursor'[Owner[w]]
    PROVE  TypeInv'
  <1> USE WorkersAssumption
  <1> SUFFICES ASSUME NEW v \in Workers, pc'[v] \in Holding
               PROVE  msg'[v] \in 1 .. cursor'[Owner[v]]
    BY DEF TypeInv, HeldDelivered
  <1>1. CASE v = w
    BY <1>1
  <1>2. CASE v # w
    <2>1. msg[v] \in 1 .. cursor[Owner[v]] /\ msg'[v] = msg[v]
      BY <1>2 DEF TypeInv, HeldDelivered
    <2>2. Owner[v] \in Accounts
      OBVIOUS
    <2>3. cursor[Owner[v]] \in Nat /\ cursor'[Owner[v]] \in Nat
      BY <2>2 DEF TypeInv, TypeOK, RedisOK
    <2> QED
      BY <2>1, <2>2, <2>3
  <1> QED
    BY <1>1, <1>2

(* xack leaves the group's bookkeeping well formed. *)
LEMMA AcknowledgeTypes ==
    ASSUME TypeInv, NEW w \in Workers, Acknowledge(w), UNCHANGED <<log, cursor>>
    PROVE  RedisOK'
  BY WorkersAssumption DEF TypeInv, TypeOK, RedisOK, Acknowledge

LEMMA CycleTypeInv ==
    ASSUME TypeInv, NEW w \in Workers, Cycle(w)
    PROVE  TypeInv'
  <1> USE WorkersAssumption, Frame
  <1>0. TypeOK /\ RedisOK /\ EngineOK /\ ThreadsOK /\ HistoryOK /\ HeldDelivered
    BY DEF TypeInv, TypeOK
  <1>a. \A a \in Accounts : cursor[a] \in Nat
    BY <1>0 DEF RedisOK
  <1>1. CASE Gate(w)
    <2>1. /\ pc' \in [Workers -> Running \cup {"off"}]
          /\ wasKilled' \in [Workers -> BOOLEAN]
          /\ \A v \in Workers \ {w} : pc'[v] = pc[v]
          /\ pc'[w] \notin Holding
      BY <1>0, <1>1 DEF Gate, Goto, ThreadsOK, Running, Holding
    <2>2. ThreadsOK'
      BY <1>0, <1>1, <2>1 DEF Gate, ThreadsOK
    <2>3. TypeOK'
      BY <1>0, <1>1, <2>2 DEF Gate, TypeOK
    <2> QED
      BY <1>1, <1>a, <2>1, <2>3, HeldByMover DEF Gate, redisVars
  <1>2. CASE DrainRead(w)
    <2>1. /\ pc' \in [Workers -> Running \cup {"off"}]
          /\ \A v \in Workers \ {w} : pc'[v] = pc[v]
      BY <1>2, GotoTypes DEF DrainRead, Running
    <2>2. ThreadsOK'
      BY <1>0, <1>2, <2>1, DeliverTypes DEF DrainRead, ThreadsOK
    <2>3. TypeOK'
      BY <1>0, <1>2, <2>2, DeliverTypes DEF DrainRead, TypeOK
    <2>4. msg'[w] \in 1 .. cursor'[Owner[w]]
      BY <1>2, <2>3, DeliverTypes DEF DrainRead, TypeOK, RedisOK
    <2> QED
      BY <1>2, <2>1, <2>3, <2>4, DeliverTypes, HeldByMover DEF DrainRead
  <1>3. CASE DrainAck(w)
    <2>1. TypeOK'
      <3>1. RedisOK'
        BY <1>3, AcknowledgeTypes DEF DrainAck
      <3>2. ThreadsOK'
        BY <1>0, <1>3, EndCycleTypes DEF DrainAck, ThreadsOK, Running
      <3> QED
        BY <1>0, <1>3, <3>1, <3>2 DEF DrainAck, TypeOK
    <2>2. pc'[w] \notin Holding
      BY <1>3, EndCycleTypes DEF DrainAck, Running, Holding
    <2>3. \A v \in Workers \ {w} : pc'[v] = pc[v] /\ msg'[v] = msg[v]
      BY <1>3, EndCycleTypes DEF DrainAck, Running
    <2> QED
      BY <1>3, <1>a, <2>1, <2>2, <2>3, HeldByMover DEF DrainAck
  <1>4. CASE CheckAutopilot(w)
    <2>1. /\ pc' \in [Workers -> Running \cup {"off"}]
          /\ \A v \in Workers \ {w} : pc'[v] = pc[v]
          /\ pc'[w] \notin Holding
      BY <1>4, GotoTypes DEF CheckAutopilot, Running, Holding
    <2>2. ThreadsOK'
      BY <1>0, <1>4, <2>1 DEF CheckAutopilot, ThreadsOK
    <2>3. TypeOK'
      BY <1>0, <1>4, <2>2 DEF CheckAutopilot, TypeOK
    <2> QED
      BY <1>4, <1>a, <2>1, <2>3, HeldByMover DEF CheckAutopilot, redisVars
  <1>5. CASE Read(w)
    <2>1. /\ pc' \in [Workers -> Running \cup {"off"}]
          /\ \A v \in Workers \ {w} : pc'[v] = pc[v]
      BY <1>5, GotoTypes DEF Read, Running
    <2>2. CASE Deliver(w)
      <3>1. TypeOK'
        BY <1>0, <1>5, <2>1, <2>2, DeliverTypes DEF Read, ThreadsOK, TypeOK
      <3>2. msg'[w] \in 1 .. cursor'[Owner[w]]
        BY <1>5, <2>2, <3>1, DeliverTypes DEF Read, TypeOK, RedisOK
      <3> QED
        BY <1>5, <2>1, <2>2, <3>1, <3>2, DeliverTypes, HeldByMover DEF Read
    <2>3. CASE Goto(w, "gate") /\ UNCHANGED <<cursor, pel, msg>>
      <3>1. TypeOK'
        BY <1>0, <1>5, <2>1, <2>3 DEF Read, ThreadsOK, TypeOK, redisVars
      <3>2. pc'[w] \notin Holding
        BY <2>3, GotoTypes DEF Running, Holding
      <3> QED
        BY <1>a, <2>1, <2>3, <3>1, <3>2, HeldByMover
    <2> QED
      BY <1>5, <2>2, <2>3 DEF Read
  <1>6. CASE Judge(w)
    <2>1. /\ pc' \in [Workers -> Running \cup {"off"}]
          /\ \A v \in Workers \ {w} : pc'[v] = pc[v]
      BY <1>6, GotoTypes DEF Judge, Running
    <2>2. TypeOK'
      BY <1>0, <1>6, <2>1 DEF Judge, ThreadsOK, TypeOK
    <2>3. UNCHANGED <<msg, cursor>> /\ msg[w] \in 1 .. cursor[Owner[w]]
      BY <1>0, <1>6 DEF Judge, HeldDelivered, Holding, redisVars
    <2> QED
      BY <1>a, <2>1, <2>2, <2>3, HeldByMover
  <1>7. CASE Skip(w)
    <2>1. TypeOK'
      <3>1. RedisOK'
        BY <1>7, AcknowledgeTypes DEF Skip
      <3>2. ThreadsOK'
        BY <1>0, <1>7, EndCycleTypes DEF Skip, ThreadsOK, Running
      <3> QED
        BY <1>0, <1>7, <3>1, <3>2 DEF Skip, TypeOK
    <2>2. pc'[w] \notin Holding
      BY <1>7, EndCycleTypes DEF Skip, Running, Holding
    <2>3. \A v \in Workers \ {w} : pc'[v] = pc[v] /\ msg'[v] = msg[v]
      BY <1>7, EndCycleTypes DEF Skip, Running
    <2> QED
      BY <1>7, <1>a, <2>1, <2>2, <2>3, HeldByMover DEF Skip
  <1>8. CASE Execute(w)
    <2>1. msg[w] \in Index /\ Owner[w] \in Accounts
      BY <1>8, HeldIndex DEF Execute, Holding
    <2>2. /\ \/ Goto(w, "ack") /\ UNCHANGED msg
             \/ EndCycle(w, "off")
          /\ UNCHANGED <<redisVars, gateVars, registered, recorded, tracked,
                         wasKilled, assigned, room, stopReq, flips, crashes>>
      BY <1>8 DEF Execute
    <2>3. filled' \in [Workers -> BOOLEAN]
      <3>1. filled' = filled \/ filled' = [filled EXCEPT ![w] = TRUE] \/ EndCycle(w, "off")
        BY <1>8 DEF Execute
      <3> QED
        BY <1>0, <3>1, EndCycleTypes DEF ThreadsOK, Running
    <2>4. ThreadsOK'
      BY <1>0, <2>2, <2>3, GotoTypes, EndCycleTypes DEF ThreadsOK, Running
    <2>5. orders' \in [Accounts -> [Index -> Nat]]
      <3>1. orders' = orders \/ PlaceOrder(w)
        BY <1>8 DEF Execute
      <3>2. orders[Owner[w]] \in [Index -> Nat] /\ orders[Owner[w]][msg[w]] + 1 \in Nat
        BY <1>0, <2>1 DEF EngineOK
      <3>3. [orders[Owner[w]] EXCEPT ![msg[w]] = @ + 1] \in [Index -> Nat]
        BY <3>2
      <3> QED
        BY <1>0, <2>1, <3>1, <3>3 DEF PlaceOrder, EngineOK
    <2>6. sinceKill' \in [Workers -> Nat] /\ sinceOff' \in [Workers -> Nat]
      <3>1. UNCHANGED <<sinceKill, sinceOff>> \/ PlaceOrder(w)
        BY <1>8 DEF Execute
      <3> QED
        BY <1>0, <3>1 DEF PlaceOrder, HistoryOK
    <2>7. lost' \in [Accounts -> SUBSET Index]
      <3>1. lost' = lost \/ lost' = [lost EXCEPT ![Owner[w]] = @ \cup {msg[w]}]
        BY <1>8 DEF Execute
      <3> QED
        BY <1>0, <2>1, <3>1 DEF HistoryOK
    <2>8. TypeOK'
      BY <1>0, <2>2, <2>4, <2>5, <2>6, <2>7 DEF TypeOK, EngineOK, HistoryOK, gateVars
    <2>9. \A v \in Workers \ {w} : pc'[v] = pc[v] /\ msg'[v] = msg[v]
      BY <2>2, GotoTypes, EndCycleTypes DEF Running
    <2>10. pc'[w] \in Holding => msg'[w] \in 1 .. cursor'[Owner[w]]
      <3>1. pc[w] \in Holding /\ UNCHANGED cursor
        BY <1>8, <2>2 DEF Execute, Holding, redisVars
      <3>2. CASE UNCHANGED msg
        BY <1>0, <3>1, <3>2 DEF HeldDelivered
      <3>3. CASE EndCycle(w, "off")
        BY <3>3, EndCycleTypes DEF Running, Holding
      <3> QED
        BY <2>2, <3>2, <3>3
    <2> QED
      BY <1>a, <2>2, <2>8, <2>9, <2>10, HeldByMover DEF redisVars
  <1>9. CASE Ack(w)
    <2>1. /\ \/ Goto(w, "persist") /\ UNCHANGED <<msg, filled>>
             \/ EndCycle(w, "gate")
          /\ Acknowledge(w)
          /\ UNCHANGED <<log, cursor, gateVars, registered, tradeVars, wasKilled,
                         assigned, room, stopReq, histVars>>
      BY <1>9 DEF Ack
    <2>2. ThreadsOK'
      BY <1>0, <2>1, GotoTypes, EndCycleTypes DEF ThreadsOK, Running
    <2>3. RedisOK'
      BY <2>1, AcknowledgeTypes
    <2>4. TypeOK'
      BY <1>0, <2>1, <2>2, <2>3 DEF TypeOK
    <2>5. \A v \in Workers \ {w} : pc'[v] = pc[v] /\ msg'[v] = msg[v]
      BY <2>1, GotoTypes, EndCycleTypes DEF Running
    <2>6. pc'[w] \in Holding => msg'[w] \in 1 .. cursor'[Owner[w]]
      <3>1. CASE UNCHANGED msg
        BY <1>0, <1>9, <2>1, <3>1 DEF Ack, HeldDelivered, Holding
      <3>2. CASE EndCycle(w, "gate")
        BY <3>2, EndCycleTypes DEF Running, Holding
      <3> QED
        BY <2>1, <3>1, <3>2
    <2> QED
      BY <1>a, <2>1, <2>4, <2>5, <2>6, HeldByMover
  <1>10. CASE Persist(w)
    <2>1. msg[w] \in Index /\ Owner[w] \in Accounts
      BY <1>10, HeldIndex DEF Persist, Holding
    <2>2. ThreadsOK'
      BY <1>0, <1>10, GotoTypes DEF Persist, ThreadsOK, Running
    <2>3. recorded' \in [Accounts -> SUBSET Index] /\ lost' \in [Accounts -> SUBSET Index]
      <3>1. /\ recorded' = recorded \/ recorded' = [recorded EXCEPT ![Owner[w]] = @ \cup {msg[w]}]
            /\ lost' = lost \/ lost' = [lost EXCEPT ![Owner[w]] = @ \cup {msg[w]}]
        BY <1>10 DEF Persist
      <3>2. recorded' \in [Accounts -> SUBSET Index]
        BY <1>0, <2>1, <3>1 DEF EngineOK
      <3>3. lost' \in [Accounts -> SUBSET Index]
        BY <1>0, <2>1, <3>1 DEF HistoryOK
      <3> QED
        BY <3>2, <3>3
    <2>4. EngineOK' /\ HistoryOK'
      BY <1>0, <1>10, <2>3 DEF Persist, EngineOK, HistoryOK, gateVars
    <2>5. TypeOK'
      BY <1>0, <1>10, <2>2, <2>4 DEF Persist, TypeOK
    <2>6. msg[w] \in 1 .. cursor[Owner[w]] /\ UNCHANGED <<msg, cursor>>
      BY <1>0, <1>10 DEF Persist, HeldDelivered, Holding, redisVars
    <2> QED
      BY <1>10, <1>a, <2>5, <2>6, GotoTypes, HeldByMover DEF Persist, Running
  <1>11. CASE Track(w)
    <2>1. msg[w] \in Index /\ Owner[w] \in Accounts
      BY <1>11, HeldIndex DEF Track, Holding
    <2>2. ThreadsOK'
      BY <1>0, <1>11, EndCycleTypes DEF Track, ThreadsOK, Running
    <2>3. EngineOK'
      BY <1>0, <1>11, <2>1 DEF Track, EngineOK, gateVars
    <2>4. TypeOK'
      BY <1>0, <1>11, <2>2, <2>3 DEF Track, TypeOK
    <2>5. /\ pc'[w] \notin Holding
          /\ \A v \in Workers \ {w} : pc'[v] = pc[v] /\ msg'[v] = msg[v]
      BY <1>11, EndCycleTypes DEF Track, Running, Holding
    <2> QED
      BY <1>11, <1>a, <2>4, <2>5, HeldByMover DEF Track, redisVars
  <1> QED
    BY <1>1, <1>2, <1>3, <1>4, <1>5, <1>6, <1>7, <1>8, <1>9, <1>10, <1>11 DEF Cycle

LEMMA NextTypeInv == TypeInv /\ [Next]_vars => TypeInv'
  <1>1. ASSUME TypeInv, UNCHANGED vars PROVE TypeInv'
    BY <1>1, Frame DEF vars, TypeInv, TypeOK, redisVars, threadVars
  <1> QED
    BY <1>1, EnvTypeInv, CycleTypeInv DEF Next

(* Every variable keeps the values the code can give it, and a thread that is *)
(* past a successful xreadgroup holds an entry its group has delivered.       *)
THEOREM TypeCorrect == Spec => []TypeInv
  BY InitTypeInv, NextTypeInv, PTL DEF Spec

----------------------------------------------------------------------------
(* What a step can do to the entries threads hold and the orders they place: *)
(* take an entry, place an order, flip a gate, or none of these.             *)

PreKill == {"drain", "drainAck", "auto", "read", "judge", "exec"}
PreOff == {"read", "judge", "exec"}
PreOrder == {"judge", "exec"}

Others(w) == \A v \in Workers \ {w} : pc'[v] = pc[v] /\ msg'[v] = msg[v]

Takes(w) ==
    /\ Deliver(w) /\ Others(w)
    /\ \/ pc[w] = "read" /\ pc'[w] = "judge"
       \/ pc[w] = "drain" /\ pc'[w] = "drainAck"
    /\ UNCHANGED <<log, orders, kill, auto, sinceKill, sinceOff>>

Orders(w) ==
    /\ PlaceOrder(w) /\ Others(w)
    /\ pc[w] = "exec" /\ pc'[w] = "ack" /\ msg'[w] = msg[w]
    /\ UNCHANGED <<log, cursor, kill, auto>>

Flips ==
    /\ FlipKill \/ \E a \in Accounts : FlipAutopilot(a)
    /\ UNCHANGED <<orders, cursor, pc, msg>>

Moves(v) ==
    /\ pc'[v] \in Holding => pc[v] \in Holding /\ msg'[v] = msg[v]
    /\ pc'[v] \in PreOrder => pc[v] \in PreOrder
    /\ pc'[v] \in PreOff => pc[v] \in PreOff \/ auto[Owner[v]]
    /\ pc'[v] \in PreKill => pc[v] \in PreKill \/ ~kill

Keeps ==
    /\ \A v \in Workers : Moves(v)
    /\ UNCHANGED <<orders, cursor, kill, auto, sinceKill, sinceOff>>

LEMMA MoverKeeps ==
    ASSUME NEW w \in Workers, Others(w), Moves(w),
           UNCHANGED <<orders, cursor, kill, auto, sinceKill, sinceOff>>
    PROVE  Keeps
  BY DEF Keeps, Others, Moves

LEMMA StepKinds ==
    ASSUME TypeInv, [Next]_vars
    PROVE  Keeps \/ Flips \/ \E w \in Workers : Takes(w) \/ Orders(w)
  <1> USE WorkersAssumption
  <1>1. ASSUME NEW w \in Workers, Cycle(w)
        PROVE  Keeps \/ Takes(w) \/ Orders(w)
    <2> USE DEF Running, Holding, PreKill, PreOff, PreOrder
    <2>1. CASE Gate(w)
      <3>1. Others(w) /\ Moves(w)
        BY <2>1 DEF Gate, Goto, Others, Moves, TypeInv, TypeOK, ThreadsOK
      <3> QED
        BY <2>1, <3>1, MoverKeeps DEF Gate, redisVars, gateVars, tradeVars, histVars
    <2>2. CASE DrainRead(w)
      BY <2>2, GotoTypes, DeliverTypes
      DEF DrainRead, Takes, Others, gateVars, tradeVars, histVars
    <2>3. CASE DrainAck(w)
      <3>1. Others(w) /\ Moves(w)
        BY <2>3, EndCycleTypes DEF DrainAck, Others, Moves
      <3> QED
        BY <2>3, <3>1, MoverKeeps DEF DrainAck, gateVars, tradeVars, histVars
    <2>4. CASE CheckAutopilot(w)
      <3>1. Others(w) /\ Moves(w)
        BY <2>4, GotoTypes DEF CheckAutopilot, Others, Moves
      <3> QED
        BY <2>4, <3>1, MoverKeeps
        DEF CheckAutopilot, redisVars, gateVars, tradeVars, histVars
    <2>5. CASE Read(w)
      <3>1. CASE Deliver(w) /\ Goto(w, "judge")
        BY <2>5, <3>1, GotoTypes, DeliverTypes
        DEF Read, Takes, Others, gateVars, tradeVars, histVars
      <3>2. CASE Goto(w, "gate") /\ UNCHANGED <<cursor, pel, msg>>
        <4>1. Others(w) /\ Moves(w)
          BY <3>2, GotoTypes DEF Others, Moves
        <4> QED
          BY <2>5, <3>2, <4>1, MoverKeeps DEF Read, gateVars, tradeVars, histVars
      <3> QED
        BY <2>5, <3>1, <3>2 DEF Read
    <2>6. CASE Judge(w)
      <3>1. Others(w) /\ Moves(w)
        BY <2>6, GotoTypes DEF Judge, Others, Moves
      <3> QED
        BY <2>6, <3>1, MoverKeeps DEF Judge, redisVars, gateVars, tradeVars, histVars
    <2>7. CASE Skip(w)
      <3>1. Others(w) /\ Moves(w)
        BY <2>7, EndCycleTypes DEF Skip, Others, Moves
      <3> QED
        BY <2>7, <3>1, MoverKeeps DEF Skip, gateVars, tradeVars, histVars
    <2>8. CASE Execute(w)
      <3>1. CASE PlaceOrder(w) /\ Goto(w, "ack") /\ UNCHANGED msg
        BY <2>8, <3>1, GotoTypes DEF Execute, Orders, Others, redisVars, gateVars
      <3>2. CASE UNCHANGED <<orders, sinceKill, sinceOff>>
        <4>1. Others(w) /\ Moves(w)
          BY <2>8, GotoTypes, EndCycleTypes DEF Execute, Others, Moves
        <4> QED
          BY <2>8, <3>2, <4>1, MoverKeeps DEF Execute, redisVars, gateVars
      <3> QED
        BY <2>8, <3>1, <3>2 DEF Execute
    <2>9. CASE Ack(w)
      <3>1. Others(w) /\ Moves(w)
        BY <2>9, GotoTypes, EndCycleTypes DEF Ack, Others, Moves
      <3> QED
        BY <2>9, <3>1, MoverKeeps DEF Ack, gateVars, tradeVars, histVars
    <2>10. CASE Persist(w)
      <3>1. Others(w) /\ Moves(w)
        BY <2>10, GotoTypes DEF Persist, Others, Moves
      <3> QED
        BY <2>10, <3>1, MoverKeeps DEF Persist, redisVars, gateVars
    <2>11. CASE Track(w)
      <3>1. Others(w) /\ Moves(w)
        BY <2>11, EndCycleTypes DEF Track, Others, Moves
      <3> QED
        BY <2>11, <3>1, MoverKeeps DEF Track, redisVars, gateVars, histVars
    <2> QED
      BY <1>1, <2>1, <2>2, <2>3, <2>4, <2>5, <2>6, <2>7, <2>8, <2>9, <2>10, <2>11
      DEF Cycle
  <1>2. ASSUME NEW body, PublishSignal(body) PROVE Keeps
    BY <1>2 DEF PublishSignal, Keeps, Moves, gateVars, tradeVars, threadVars, histVars
  <1>3. CASE FlipKill \/ \E a \in Accounts : FlipAutopilot(a)
    BY <1>3 DEF FlipKill, FlipAutopilot, Flips, redisVars, tradeVars, threadVars
  <1>4. ASSUME NEW a \in Accounts, StopWorker(a) PROVE Keeps
    BY <1>4 DEF StopWorker, Keeps, Moves, redisVars, gateVars, tradeVars, histVars
  <1>5. ASSUME NEW a \in Accounts, NEW w \in Workers, StartWorker(a, w) PROVE Keeps
    <2>1. /\ pc' = [pc EXCEPT ![w] = "gate"] /\ msg' = msg
          /\ UNCHANGED <<orders, cursor, kill, auto, sinceKill, sinceOff>>
      BY <1>5 DEF StartWorker, redisVars, gateVars, histVars
    <2>2. Others(w) /\ Moves(w)
      BY <2>1 DEF Others, Moves, TypeInv, TypeOK, ThreadsOK, Holding, PreKill,
                  PreOff, PreOrder
    <2> QED
      BY <2>1, <2>2, MoverKeeps
  <1>6. ASSUME NEW w \in Workers, UpdateStrategies(w) PROVE Keeps
    BY <1>6 DEF UpdateStrategies, Keeps, Moves, redisVars, gateVars, tradeVars, histVars
  <1>7. CASE EngineCrash
    BY <1>7 DEF EngineCrash, Keeps, Moves, redisVars, gateVars, Holding, PreKill,
                PreOff, PreOrder
  <1>8. CASE UNCHANGED vars
    BY <1>8 DEF vars, Keeps, Moves, redisVars, gateVars, tradeVars, threadVars, histVars
  <1> QED
    BY <1>1, <1>2, <1>3, <1>4, <1>5, <1>6, <1>7, <1>8 DEF Next

----------------------------------------------------------------------------
(* One order for an entry *)

(* An account has ordered only entries its group has delivered, *)
OrderedDelivered ==
    \A a \in Accounts, i \in Index : orders[a][i] > 0 => i <= cursor[a]

(* and a worker about to order an entry is the first to. *)
NotYetOrdered ==
    \A w \in Workers : pc[w] \in PreOrder => orders[Owner[w]][msg[w]] = 0

OrderInv ==
    ExclusiveDelivery /\ OrderedDelivered /\ NotYetOrdered /\ ExecutedOnce

LEMMA InitOrderInv == Init => OrderInv
  BY WorkersAssumption
  DEF Init, OrderInv, ExclusiveDelivery, OrderedDelivered, NotYetOrdered,
      ExecutedOnce, Holding, PreOrder, Index

LEMMA TakesOrderInv ==
    ASSUME TypeInv, TypeInv', OrderInv, NEW w \in Workers, Takes(w)
    PROVE  OrderInv'
  <1> USE WorkersAssumption DEF PreOrder, Holding
  <1>1. /\ msg'[w] = cursor[Owner[w]] + 1 /\ msg'[w] \in Index
        /\ Owner[w] \in Accounts /\ cursor[Owner[w]] \in Nat
    <2>1. Owner[w] \in Accounts
      OBVIOUS
    <2>2. cursor[Owner[w]] \in 0 .. MaxMsgs /\ cursor'[Owner[w]] \in 0 .. MaxMsgs
      BY <2>1 DEF TypeInv, TypeOK, RedisOK
    <2>3. msg'[w] = cursor[Owner[w]] + 1 /\ cursor'[Owner[w]] = cursor[Owner[w]] + 1
      BY <2>1 DEF Takes, Deliver, TypeInv, TypeOK, RedisOK, ThreadsOK
    <2> QED
      BY <2>1, <2>2, <2>3 DEF Index
  <1>2. \A v \in Workers \ {w} : pc'[v] = pc[v] /\ msg'[v] = msg[v]
    BY DEF Takes, Others
  <1>3. \A v \in Workers \ {w} :
            pc[v] \in Holding /\ Owner[v] = Owner[w] => msg[v] # msg'[w]
    <2> SUFFICES ASSUME NEW v \in Workers \ {w}, pc[v] \in Holding, Owner[v] = Owner[w]
                 PROVE  msg[v] # msg'[w]
      OBVIOUS
    <2>1. msg[v] \in 1 .. cursor[Owner[w]]
      BY DEF TypeInv, HeldDelivered
    <2> QED
      BY <1>1, <2>1
  <1>4. ExclusiveDelivery'
    BY <1>2, <1>3 DEF OrderInv, ExclusiveDelivery
  <1>5. OrderedDelivered'
    <2>1. \A a \in Accounts : cursor[a] \in Nat /\ cursor'[a] \in Nat /\ cursor[a] <= cursor'[a]
      BY DeliverTypes DEF Takes, TypeInv, TypeOK, RedisOK
    <2> QED
      BY <2>1 DEF Takes, OrderInv, OrderedDelivered, Index
  <1>6. NotYetOrdered'
    <2>1. orders[Owner[w]][msg'[w]] = 0
      <3>1. ~(orders[Owner[w]][msg'[w]] > 0)
        BY <1>1 DEF OrderInv, OrderedDelivered
      <3>2. orders[Owner[w]][msg'[w]] \in Nat
        BY <1>1 DEF TypeInv, TypeOK, EngineOK
      <3> QED
        BY <3>1, <3>2
    <2> QED
      BY <1>2, <2>1 DEF Takes, OrderInv, NotYetOrdered
  <1> QED
    BY <1>4, <1>5, <1>6 DEF Takes, OrderInv, ExecutedOnce

LEMMA OrdersOrderInv ==
    ASSUME TypeInv, OrderInv, NEW w \in Workers, Orders(w)
    PROVE  OrderInv'
  <1> USE WorkersAssumption DEF PreOrder, Holding
  <1> DEFINE a0 == Owner[w]
             i0 == msg[w]
  <1>1. a0 \in Accounts /\ i0 \in Index /\ i0 <= cursor[a0] /\ orders[a0][i0] = 0
    <2>1. a0 \in Accounts /\ i0 \in Index
      BY HeldIndex DEF Orders
    <2>2. i0 \in 1 .. cursor[a0]
      BY DEF Orders, TypeInv, HeldDelivered
    <2>3. orders[a0][i0] = 0
      BY DEF Orders, OrderInv, NotYetOrdered
    <2> QED
      BY <2>1, <2>2, <2>3
  <1>2. /\ orders'[a0][i0] = 1
        /\ \A a \in Accounts, i \in Index :
               a # a0 \/ i # i0 => orders'[a][i] = orders[a][i]
    <2>1. orders \in [Accounts -> [Index -> Nat]]
      BY DEF TypeInv, TypeOK, EngineOK
    <2>2. orders[a0] \in [Index -> Nat]
      BY <1>1, <2>1
    <2>3. orders' = [orders EXCEPT ![a0] = [orders[a0] EXCEPT ![i0] = orders[a0][i0] + 1]]
      BY <1>1, <2>1, <2>2 DEF Orders, PlaceOrder
    <2> QED
      BY <1>1, <2>1, <2>2, <2>3
  <1> HIDE DEF a0, i0
  <1>3. \A v \in Workers : pc'[v] \in Holding => pc[v] \in Holding /\ msg'[v] = msg[v]
    BY DEF Orders, Others
  <1>4. ExclusiveDelivery'
    BY <1>3 DEF OrderInv, ExclusiveDelivery
  <1>5. OrderedDelivered'
    BY <1>1, <1>2 DEF Orders, OrderInv, OrderedDelivered
  <1>6. NotYetOrdered'
    <2> SUFFICES ASSUME NEW v \in Workers, pc'[v] \in PreOrder
                 PROVE  orders'[Owner[v]][msg'[v]] = 0
      BY DEF NotYetOrdered
    <2>1. v # w /\ pc[v] \in PreOrder /\ msg'[v] = msg[v]
      BY DEF Orders, Others
    <2>2. Owner[v] # a0 \/ msg[v] # i0
      BY <2>1 DEF Orders, OrderInv, ExclusiveDelivery, a0, i0
    <2>3. Owner[v] \in Accounts /\ msg[v] \in Index
      BY <2>1, HeldIndex
    <2> QED
      BY <1>2, <2>1, <2>2, <2>3 DEF OrderInv, NotYetOrdered
  <1>7. ExecutedOnce'
    BY <1>1, <1>2 DEF OrderInv, ExecutedOnce
  <1> QED
    BY <1>4, <1>5, <1>6, <1>7 DEF OrderInv

LEMMA NextOrderInv == TypeInv /\ TypeInv' /\ OrderInv /\ [Next]_vars => OrderInv'
  <1> SUFFICES ASSUME TypeInv, TypeInv', OrderInv, [Next]_vars PROVE OrderInv'
    OBVIOUS
  <1> USE DEF OrderInv, ExclusiveDelivery, OrderedDelivered, NotYetOrdered, ExecutedOnce
  <1>1. CASE Keeps
    BY <1>1 DEF Keeps, Moves, PreOrder, Holding
  <1>2. CASE Flips
    BY <1>2 DEF Flips
  <1> QED
    BY <1>1, <1>2, StepKinds, TakesOrderInv, OrdersOrderInv

(* No entry is executed twice by an account, for any number of threads of the *)
(* account and any restarts, crashes and stop requests.  ExclusiveDelivery      *)
(* carries the induction: two threads that held one entry would both order it.  *)
THEOREM OneExecutionPerEntry == Spec => []ExecutedOnce
  <1>1. Init => TypeInv /\ OrderInv
    BY InitTypeInv, InitOrderInv
  <1>2. TypeInv /\ OrderInv /\ [Next]_vars => (TypeInv /\ OrderInv)'
    BY NextTypeInv, NextOrderInv
  <1>3. OrderInv => ExecutedOnce
    BY DEF OrderInv
  <1> QED
    BY <1>1, <1>2, <1>3, PTL DEF Spec

(* An entry is in the hands of at most one thread of its account, also while a *)
(* thread that missed the supervisor's join runs next to its successor.        *)
THEOREM OneHolder == Spec => []ExclusiveDelivery
  <1>1. Init => TypeInv /\ OrderInv
    BY InitTypeInv, InitOrderInv
  <1>2. TypeInv /\ OrderInv /\ [Next]_vars => (TypeInv /\ OrderInv)'
    BY NextTypeInv, NextOrderInv
  <1>3. OrderInv => ExclusiveDelivery
    BY DEF OrderInv
  <1> QED
    BY <1>1, <1>2, <1>3, PTL DEF Spec

----------------------------------------------------------------------------
(* One order after a gate closes *)

(* A worker between the kill switch check and its order has placed none since *)
(* the switch became active; likewise for the autopilot check.                *)
GateInv ==
    \A w \in Workers :
        /\ sinceKill[w] <= 1 /\ sinceOff[w] <= 1
        /\ kill /\ pc[w] \in PreKill => sinceKill[w] = 0
        /\ ~auto[Owner[w]] /\ pc[w] \in PreOff => sinceOff[w] = 0

LEMMA InitGateInv == Init => GateInv
  BY DEF Init, GateInv, PreKill, PreOff

LEMMA NextGateInv == TypeInv /\ TypeInv' /\ GateInv /\ [Next]_vars => GateInv'
  <1> SUFFICES ASSUME TypeInv, TypeInv', GateInv, [Next]_vars,
                      NEW w \in Workers
               PROVE  /\ sinceKill'[w] <= 1 /\ sinceOff'[w] <= 1
                      /\ kill' /\ pc'[w] \in PreKill => sinceKill'[w] = 0
                      /\ ~auto'[Owner[w]] /\ pc'[w] \in PreOff => sinceOff'[w] = 0
    BY DEF GateInv
  <1>0. /\ sinceKill \in [Workers -> Nat] /\ sinceOff \in [Workers -> Nat]
        /\ auto \in [Accounts -> BOOLEAN] /\ kill \in BOOLEAN
        /\ Owner[w] \in Accounts
    BY WorkersAssumption DEF TypeInv, TypeOK, EngineOK, HistoryOK
  <1>1. CASE Keeps
    BY <1>1 DEF Keeps, Moves, GateInv
  <1>2. CASE Flips
    <2>1. CASE FlipKill
      BY <1>0, <1>2, <2>1 DEF FlipKill, Flips, GateInv
    <2>2. ASSUME NEW a \in Accounts, FlipAutopilot(a)
          PROVE  /\ sinceKill' = sinceKill /\ kill' = kill
                 /\ \/ sinceOff'[w] = 0
                    \/ sinceOff'[w] = sinceOff[w] /\ (auto'[Owner[w]] \/ ~auto[Owner[w]])
      BY <1>0, <2>2 DEF FlipAutopilot
    <2> QED
      BY <1>2, <2>1, <2>2 DEF Flips, GateInv
  <1>3. ASSUME NEW v \in Workers, Takes(v)
        PROVE  /\ UNCHANGED <<kill, auto, sinceKill, sinceOff>>
               /\ pc'[w] \in PreKill => pc[w] \in PreKill
               /\ pc'[w] \in PreOff => pc[w] \in PreOff
    BY <1>3 DEF Takes, Others, PreKill, PreOff
  <1>4. ASSUME NEW v \in Workers, Orders(v), v # w
        PROVE  UNCHANGED <<kill, auto, sinceKill[w], sinceOff[w], pc[w]>>
    BY <1>0, <1>4 DEF Orders, Others, PlaceOrder
  <1>5. CASE Orders(w)
    <2>1. /\ pc[w] \in PreKill \cap PreOff /\ pc'[w] \notin PreKill \cup PreOff
          /\ sinceKill'[w] = IF kill THEN sinceKill[w] + 1 ELSE sinceKill[w]
          /\ sinceOff'[w] = IF auto[Owner[w]] THEN sinceOff[w] ELSE sinceOff[w] + 1
      BY <1>0, <1>5 DEF Orders, PlaceOrder, PreKill, PreOff
    <2> QED
      BY <1>0, <2>1 DEF GateInv
  <1> QED
    BY <1>1, <1>2, <1>3, <1>4, <1>5, StepKinds DEF GateInv

(* After the kill switch becomes active, a worker executes at most the one *)
(* entry whose cycle had passed the check at the top of _process_one_cycle. *)
THEOREM OneAfterKill == Spec => []AtMostOneAfterKill
  <1>1. Init => TypeInv /\ GateInv
    BY InitTypeInv, InitGateInv
  <1>2. TypeInv /\ GateInv /\ [Next]_vars => (TypeInv /\ GateInv)'
    BY NextTypeInv, NextGateInv
  <1>3. GateInv => AtMostOneAfterKill
    BY DEF GateInv, AtMostOneAfterKill
  <1> QED
    BY <1>1, <1>2, <1>3, PTL DEF Spec

(* The same when an account's autopilot is disabled. *)
THEOREM OneAfterDisable == Spec => []AtMostOneAfterDisable
  <1>1. Init => TypeInv /\ GateInv
    BY InitTypeInv, InitGateInv
  <1>2. TypeInv /\ GateInv /\ [Next]_vars => (TypeInv /\ GateInv)'
    BY NextTypeInv, NextGateInv
  <1>3. GateInv => AtMostOneAfterDisable
    BY DEF GateInv, AtMostOneAfterDisable
  <1> QED
    BY <1>1, <1>2, <1>3, PTL DEF Spec

----------------------------------------------------------------------------
(* An order and its record *)

(* A worker on its way from execute to record_entry with a filled order. *)
Carries(w, a, i) ==
    /\ Owner[w] = a /\ msg[w] = i /\ filled[w]
    /\ pc[w] \in {"ack", "persist"}

(* What accounts for an order stays: no record is deleted, and a worker that *)
(* carries the order on carries it or has settled it.                        *)
CarriesOn ==
    /\ \A a \in Accounts : recorded[a] \subseteq recorded'[a] /\ lost[a] \subseteq lost'[a]
    /\ \A a \in Accounts, i \in Index, w \in Workers :
           Carries(w, a, i) => Carries(w, a, i)' \/ i \in recorded'[a] \cup lost'[a]

LEMMA WorkerCarriesOn ==
    ASSUME TypeInv, NEW w \in Workers, Cycle(w)
    PROVE  CarriesOn
  <1> USE WorkersAssumption DEF Running
  <1>0. /\ recorded \in [Accounts -> SUBSET Index] /\ lost \in [Accounts -> SUBSET Index]
        /\ ThreadsOK /\ Owner[w] \in Accounts
    BY DEF TypeInv, TypeOK, EngineOK, HistoryOK
  <1>1. ASSUME UNCHANGED <<recorded, lost>>, pc[w] \notin {"ack", "persist"},
               \A v \in Workers \ {w} : pc'[v] = pc[v] /\ msg'[v] = msg[v] /\ filled'[v] = filled[v]
        PROVE  CarriesOn
    BY <1>1 DEF CarriesOn, Carries
  <1>2. ASSUME NEW there \in Running \cup {"off"}, EndCycle(w, there)
        PROVE  \A v \in Workers \ {w} : pc'[v] = pc[v] /\ msg'[v] = msg[v] /\ filled'[v] = filled[v]
    BY <1>0, <1>2, EndCycleTypes DEF EndCycle, ThreadsOK
  <1>3. CASE Gate(w)
    BY <1>0, <1>1, <1>3 DEF Gate, Goto, ThreadsOK, tradeVars, histVars
  <1>4. CASE DrainRead(w)
    BY <1>1, <1>4, GotoTypes, DeliverTypes DEF DrainRead, tradeVars, histVars
  <1>5. CASE DrainAck(w)
    BY <1>1, <1>2, <1>5 DEF DrainAck, tradeVars, histVars
  <1>6. CASE CheckAutopilot(w)
    BY <1>1, <1>6, GotoTypes DEF CheckAutopilot, tradeVars, histVars
  <1>7. CASE Read(w)
    BY <1>1, <1>7, GotoTypes, DeliverTypes DEF Read, tradeVars, histVars
  <1>8. CASE Judge(w)
    BY <1>1, <1>8, GotoTypes DEF Judge, tradeVars, histVars
  <1>9. CASE Skip(w)
    BY <1>1, <1>2, <1>9 DEF Skip, tradeVars, histVars
  <1>10. CASE Execute(w)
    <2>1. UNCHANGED recorded /\ pc[w] = "exec"
          /\ (lost' = lost \/ lost' = [lost EXCEPT ![Owner[w]] = @ \cup {msg[w]}])
      BY <1>10 DEF Execute
    <2>2. \A a \in Accounts : lost[a] \subseteq lost'[a]
      BY <1>0, <2>1
    <2>3. \A v \in Workers \ {w} : pc'[v] = pc[v] /\ msg'[v] = msg[v]
      BY <1>10, GotoTypes, EndCycleTypes DEF Execute
    <2>4. \A v \in Workers \ {w} : filled'[v] = filled[v]
      <3>1. filled' = filled \/ filled' = [filled EXCEPT ![w] = TRUE] \/ EndCycle(w, "off")
        BY <1>10 DEF Execute
      <3> QED
        BY <1>0, <1>2, <3>1 DEF ThreadsOK
    <2> QED
      BY <2>1, <2>2, <2>3, <2>4 DEF CarriesOn, Carries
  <1>11. CASE Ack(w)
    <2>1. UNCHANGED <<recorded, lost>>
      BY <1>11 DEF Ack, tradeVars, histVars
    <2>2. CASE filled[w] /\ Goto(w, "persist") /\ UNCHANGED <<msg, filled>>
      BY <2>1, <2>2, GotoTypes DEF CarriesOn, Carries
    <2>3. CASE ~filled[w] /\ EndCycle(w, "gate")
      BY <1>2, <2>1, <2>3 DEF CarriesOn, Carries
    <2> QED
      BY <1>11, <2>2, <2>3 DEF Ack
  <1>12. CASE Persist(w)
    <2>1. /\ \A a \in Accounts : recorded[a] \subseteq recorded'[a] /\ lost[a] \subseteq lost'[a]
          /\ msg[w] \in recorded'[Owner[w]] \cup lost'[Owner[w]]
      BY <1>0, <1>12 DEF Persist
    <2>2. \A v \in Workers \ {w} : pc'[v] = pc[v]
      BY <1>12, GotoTypes DEF Persist
    <2>3. UNCHANGED <<msg, filled>>
      BY <1>12 DEF Persist
    <2> QED
      BY <2>1, <2>2, <2>3 DEF CarriesOn, Carries
  <1>13. CASE Track(w)
    BY <1>1, <1>2, <1>13 DEF Track, histVars
  <1> QED
    BY <1>3, <1>4, <1>5, <1>6, <1>7, <1>8, <1>9, <1>10, <1>11, <1>12, <1>13 DEF Cycle

(* OrdersAccounted once more, with Carries. *)
Accounted ==
    \A a \in Accounts : \A i \in OpenOrders(a) :
        i \in recorded[a] \cup lost[a] \/ \E w \in Workers : Carries(w, a, i)

LEMMA AccountedSame == Accounted <=> OrdersAccounted
  BY DEF Accounted, OrdersAccounted, Carries

LEMMA InitAccounted == Init => Accounted
  BY DEF Init, Accounted, OpenOrders

(* Steps that place no order. *)
LEMMA CarriedAccounted ==
    ASSUME Accounted, CarriesOn, UNCHANGED orders
    PROVE  Accounted'
  BY DEF Accounted, CarriesOn, OpenOrders

LEMMA NextAccounted == TypeInv /\ Accounted /\ [Next]_vars => Accounted'
  <1> SUFFICES ASSUME TypeInv, Accounted, [Next]_vars PROVE Accounted'
    OBVIOUS
  <1> USE WorkersAssumption
  <1>0. /\ orders \in [Accounts -> [Index -> Nat]] /\ ThreadsOK
        /\ recorded \in [Accounts -> SUBSET Index] /\ lost \in [Accounts -> SUBSET Index]
    BY DEF TypeInv, TypeOK, EngineOK, HistoryOK
  <1>1. ASSUME UNCHANGED <<orders, recorded, lost, pc, msg, filled>> PROVE Accounted'
    BY <1>1, CarriedAccounted DEF CarriesOn, Carries
  <1>2. ASSUME NEW body, PublishSignal(body) PROVE Accounted'
    BY <1>1, <1>2 DEF PublishSignal, tradeVars, threadVars, histVars
  <1>3. CASE FlipKill
    BY <1>1, <1>3 DEF FlipKill, tradeVars, threadVars
  <1>4. ASSUME NEW a \in Accounts, FlipAutopilot(a) PROVE Accounted'
    BY <1>1, <1>4 DEF FlipAutopilot, tradeVars, threadVars
  <1>5. ASSUME NEW a \in Accounts, StopWorker(a) PROVE Accounted'
    BY <1>1, <1>5 DEF StopWorker, tradeVars, histVars
  <1>6. ASSUME NEW a \in Accounts, NEW w \in Workers, StartWorker(a, w) PROVE Accounted'
    <2>1. /\ UNCHANGED <<orders, recorded, lost, msg, filled>>
          /\ pc[w] = "off" /\ pc' = [pc EXCEPT ![w] = "gate"]
      BY <1>6 DEF StartWorker, histVars
    <2>2. CarriesOn
      BY <1>0, <2>1 DEF CarriesOn, Carries, ThreadsOK
    <2> QED
      BY <2>1, <2>2, CarriedAccounted
  <1>7. ASSUME NEW w \in Workers, UpdateStrategies(w) PROVE Accounted'
    BY <1>1, <1>7 DEF UpdateStrategies, tradeVars, histVars
  <1>8. CASE EngineCrash
    <2>1. /\ UNCHANGED <<orders, recorded>>
          /\ \A a \in Accounts : lost'[a] = lost[a] \cup (OpenOrders(a) \ recorded[a])
      BY <1>8 DEF EngineCrash
    <2> QED
      BY <2>1 DEF Accounted, OpenOrders
  <1>9. ASSUME NEW w \in Workers, Cycle(w) PROVE Accounted'
    <2>1. CarriesOn
      BY <1>9, WorkerCarriesOn
    <2>2. CASE UNCHANGED orders
      BY <2>1, <2>2, CarriedAccounted
    <2>3. CASE Execute(w) /\ PlaceOrder(w)
      <3>1. Owner[w] \in Accounts /\ msg[w] \in Index
        BY <2>3, HeldIndex DEF Execute, Holding
      <3>2. \A a \in Accounts, i \in Index :
                a # Owner[w] \/ i # msg[w] => orders'[a][i] = orders[a][i]
        <4>1. orders[Owner[w]] \in [Index -> Nat]
          BY <1>0, <3>1
        <4>2. orders' = [orders EXCEPT ![Owner[w]] =
                             [orders[Owner[w]] EXCEPT ![msg[w]] = orders[Owner[w]][msg[w]] + 1]]
          BY <1>0, <2>3, <3>1, <4>1 DEF PlaceOrder
        <4> QED
          BY <1>0, <3>1, <4>1, <4>2
      <3>3. msg[w] \in lost'[Owner[w]] \/ (msg'[w] = msg[w] /\ filled'[w] /\ pc'[w] = "ack")
        <4>1. CASE filled' = [filled EXCEPT ![w] = TRUE] /\ Goto(w, "ack") /\ UNCHANGED msg
          BY <1>0, <4>1, GotoTypes DEF ThreadsOK, Running
        <4>2. CASE lost' = [lost EXCEPT ![Owner[w]] = @ \cup {msg[w]}]
          BY <1>0, <3>1, <4>2
        <4>3. ASSUME UNCHANGED orders PROVE FALSE
          <5>1. orders'[Owner[w]][msg[w]] = orders[Owner[w]][msg[w]] + 1
            BY <1>0, <2>3, <3>1 DEF PlaceOrder
          <5>2. orders[Owner[w]][msg[w]] \in Nat
            BY <1>0, <3>1
          <5> QED
            BY <4>3, <5>1, <5>2
        <4> QED
          BY <2>3, <4>1, <4>2, <4>3 DEF Execute
      <3>4. ASSUME NEW a \in Accounts, NEW i \in Index, orders'[a][i] > 0
            PROVE  i \in recorded'[a] \cup lost'[a] \/ \E v \in Workers : Carries(v, a, i)'
        <4>1. CASE a = Owner[w] /\ i = msg[w]
          BY <3>3, <4>1 DEF Carries
        <4>2. CASE a # Owner[w] \/ i # msg[w]
          <5>1. i \in recorded[a] \cup lost[a] \/ \E v \in Workers : Carries(v, a, i)
            BY <3>2, <3>4, <4>2 DEF Accounted, OpenOrders
          <5> QED
            BY <2>1, <5>1 DEF CarriesOn
        <4> QED
          BY <4>1, <4>2
      <3> QED
        BY <3>4 DEF Accounted, OpenOrders
    <2>4. UNCHANGED orders \/ (Execute(w) /\ PlaceOrder(w))
      <3>1. CASE Execute(w)
        BY <3>1 DEF Execute
      <3>2. CASE Persist(w) \/ Track(w)
        BY <3>2 DEF Persist, Track
      <3>3. CASE Gate(w) \/ DrainRead(w) \/ DrainAck(w) \/ CheckAutopilot(w) \/ Read(w)
                 \/ Judge(w) \/ Skip(w) \/ Ack(w)
        BY <3>3 DEF Gate, DrainRead, DrainAck, CheckAutopilot, Read, Judge, Skip, Ack, tradeVars
      <3> QED
        BY <1>9, <3>1, <3>2, <3>3 DEF Cycle
    <2> QED
      BY <2>2, <2>3, <2>4
  <1>10. CASE UNCHANGED vars
    BY <1>1, <1>10 DEF vars, tradeVars, threadVars, histVars
  <1> QED
    BY <1>2, <1>3, <1>4, <1>5, <1>6, <1>7, <1>8, <1>9, <1>10 DEF Next

(* An order is live at the broker before anything is recorded: it is on record, *)
(* on its way there, or lost in one of the ways the code has, through any crash *)
(* and for any number of threads.                                               *)
THEOREM NoOrderForgotten == Spec => []OrdersAccounted
  <1>1. Init => TypeInv /\ Accounted
    BY InitTypeInv, InitAccounted
  <1>2. TypeInv /\ Accounted /\ [Next]_vars => (TypeInv /\ Accounted)'
    BY NextTypeInv, NextAccounted
  <1>3. Accounted => OrdersAccounted
    BY AccountedSame
  <1> QED
    BY <1>1, <1>2, <1>3, PTL DEF Spec

----------------------------------------------------------------------------
(* Entries that are given up *)

(* What is pending was delivered. *)
PendingDelivered == \A a \in Accounts : \A i \in pel[a] : i <= cursor[a]

(* A step that touches what is pending: an entry is taken or one is acknowledged. *)
Acknowledges(w) ==
    /\ pc[w] \in Holding /\ Acknowledge(w) /\ UNCHANGED cursor

LEMMA PendingSteps ==
    ASSUME TypeInv, [Next]_vars
    PROVE  \/ UNCHANGED <<pel, cursor>>
           \/ \E w \in Workers : Takes(w)
           \/ \E w \in Workers : Acknowledges(w)
  <1> USE DEF redisVars
  <1>1. ASSUME NEW w \in Workers, Cycle(w)
        PROVE  UNCHANGED <<pel, cursor>> \/ Takes(w) \/ Acknowledges(w)
    <2>1. CASE DrainRead(w)
      BY <2>1, GotoTypes, DeliverTypes
      DEF DrainRead, Takes, Others, gateVars, tradeVars, histVars, Running
    <2>2. CASE Read(w)
      BY <2>2, GotoTypes, DeliverTypes
      DEF Read, Takes, Others, gateVars, tradeVars, histVars, Running
    <2>3. CASE DrainAck(w) \/ Skip(w) \/ Ack(w)
      BY <2>3 DEF DrainAck, Skip, Ack, Acknowledges, Holding
    <2> QED
      BY <1>1, <2>1, <2>2, <2>3 DEF Cycle, Gate, CheckAutopilot, Judge, Execute, Persist, Track
  <1>2. CASE UNCHANGED vars
    BY <1>2 DEF vars
  <1> QED
    BY <1>1, <1>2 DEF Next, PublishSignal, FlipKill, FlipAutopilot, StopWorker, StartWorker,
                      UpdateStrategies, EngineCrash

LEMMA InitPending == Init => PendingDelivered
  BY DEF Init, PendingDelivered

LEMMA NextPending ==
    ASSUME TypeInv, TypeInv', PendingDelivered, [Next]_vars
    PROVE  PendingDelivered'
  <1> USE WorkersAssumption
  <1>0. /\ pel \in [Accounts -> SUBSET Index] /\ cursor \in [Accounts -> 0 .. MaxMsgs]
        /\ cursor' \in [Accounts -> 0 .. MaxMsgs]
    BY DEF TypeInv, TypeOK, RedisOK
  <1>1. CASE UNCHANGED <<pel, cursor>>
    BY <1>1 DEF PendingDelivered
  <1>2. ASSUME NEW w \in Workers, Takes(w) PROVE PendingDelivered'
    <2>1. /\ cursor' = [cursor EXCEPT ![Owner[w]] = @ + 1]
          /\ pel' = [pel EXCEPT ![Owner[w]] = @ \cup {cursor[Owner[w]] + 1}]
          /\ Owner[w] \in Accounts
      BY <1>2 DEF Takes, Deliver
    <2> QED
      BY <1>0, <2>1 DEF PendingDelivered, Index
  <1>3. ASSUME NEW w \in Workers, Acknowledges(w) PROVE PendingDelivered'
    BY <1>0, <1>3 DEF Acknowledges, Acknowledge, PendingDelivered
  <1> QED
    BY <1>1, <1>2, <1>3, PendingSteps

GivenUp ==
    \A a \in Accounts : \A i \in pel[a] :
        (\A w \in Workers : Owner[w] = a => ~Holds(w, i))
            => /\ i \in pel'[a]
               /\ \A w \in Workers : Owner[w] = a => ~Holds(w, i)'

LEMMA StepGivesUp ==
    ASSUME TypeInv, PendingDelivered, [Next]_vars
    PROVE  GivenUp
  <1> USE WorkersAssumption
  <1> SUFFICES ASSUME NEW a \in Accounts, NEW i \in pel[a],
                      \A w \in Workers : Owner[w] = a => ~Holds(w, i)
               PROVE  i \in pel'[a] /\ \A w \in Workers : Owner[w] = a => ~Holds(w, i)'
    BY DEF GivenUp
  <1>0. /\ pel \in [Accounts -> SUBSET Index] /\ cursor \in [Accounts -> 0 .. MaxMsgs]
        /\ i <= cursor[a] /\ i \in Index
    BY DEF TypeInv, TypeOK, RedisOK, PendingDelivered
  <1>1. i \in pel'[a]
    <2>1. CASE UNCHANGED <<pel, cursor>>
      BY <2>1
    <2>2. ASSUME NEW w \in Workers, Takes(w) PROVE i \in pel'[a]
      BY <1>0, <2>2 DEF Takes, Deliver
    <2>3. ASSUME NEW w \in Workers, Acknowledges(w) PROVE i \in pel'[a]
      BY <1>0, <2>3 DEF Acknowledges, Acknowledge, Holds
    <2> QED
      BY <2>1, <2>2, <2>3, PendingSteps
  <1>2. ASSUME NEW v \in Workers, Owner[v] = a PROVE ~Holds(v, i)'
    <2>1. CASE Keeps
      BY <1>2, <2>1 DEF Keeps, Moves, Holds
    <2>2. CASE Flips
      BY <1>2, <2>2 DEF Flips, Holds
    <2>3. ASSUME NEW w \in Workers, Takes(w) PROVE ~Holds(v, i)'
      <3>1. CASE v = w
        <4>1. msg'[v] = cursor'[a] /\ cursor'[a] = cursor[a] + 1
          BY <1>0, <1>2, <2>3, <3>1, DeliverTypes DEF Takes, Deliver
        <4> QED
          BY <1>0, <4>1 DEF Holds, Index
      <3>2. CASE v # w
        BY <1>2, <2>3, <3>2 DEF Takes, Others, Holds
      <3> QED
        BY <3>1, <3>2
    <2>4. ASSUME NEW w \in Workers, Orders(w) PROVE ~Holds(v, i)'
      BY <1>2, <2>4 DEF Orders, Others, Holds, Holding
    <2> QED
      BY <2>1, <2>2, <2>3, <2>4, StepKinds
  <1> QED
    BY <1>1, <1>2

(* A signal that a dead thread had taken stays pending and is never executed:   *)
(* consume passes ">", and only its holder acknowledges an entry.               *)
THEOREM OrphansStay == Spec => OrphansAreGivenUp
  <1>1. Init => TypeInv /\ PendingDelivered
    BY InitTypeInv, InitPending
  <1>2. TypeInv /\ PendingDelivered /\ [Next]_vars => (TypeInv /\ PendingDelivered)'
    BY NextTypeInv, NextPending
  <1>3. TypeInv /\ PendingDelivered /\ [Next]_vars => [GivenUp]_vars
    BY StepGivesUp
  <1>4. OrphansAreGivenUp <=> [][GivenUp]_vars
    BY DEF OrphansAreGivenUp, GivenUp
  <1> QED
    BY <1>1, <1>2, <1>3, <1>4, PTL DEF Spec

-----------------------------------------------------------------------------
(* KillSwitch. *)

SwitchRequests == [pc : {"idle", "set", "publish", "sweep", "close"}, on : BOOLEAN, hard : BOOLEAN,
                   todo : SUBSET TradedAccounts, found : Nat]

SwitchTyped ==
    /\ ksDb \in BOOLEAN /\ ksKey \in BOOLEAN /\ ksFault \in BOOLEAN
    /\ ksActive \in BOOLEAN /\ ksInitialized \in BOOLEAN
    /\ ksReq \in [Admins -> SwitchRequests] /\ ksMet \subseteq Admins
    /\ ksChan \in Seq(BOOLEAN) /\ ksListener \in {"off", "on", "dead"}

\* A request that none overlapped has written what the row, and then the key, say.
RequestsApart ==
    /\ \A a, b \in Between : a # b => a \in ksMet
    /\ \A a \in Between \ ksMet : ksDb = ksReq[a].on /\ (ksReq[a].pc = "publish" => ksKey = ksReq[a].on)
    /\ Between = {} /\ ~ksFault => ksKey = ksDb

\* What the monitor will hold once it has heard every message on its way.
NewestSwitch == IF ksChan = <<>> THEN ksActive ELSE ksChan[Len(ksChan)]

\* The monitor reads the key once it is subscribed, or the history has a fault; so
\* that the last message on its way, or what it holds, is what the key says.
MonitorFollows ==
    /\ ksListener # "on" => ksChan = <<>>
    /\ ksListener = "off" /\ ~ksFault => ~ksInitialized
    /\ ksActive => ksInitialized
    /\ ~ksFault /\ ksListener = "on" /\ (ksInitialized \/ ksChan # <<>>) /\ Between = {} =>
          NewestSwitch = ksKey

SwitchInv == SwitchTyped /\ RequestsApart /\ MonitorFollows

-----------------------------------------------------------------------------
(* The cached switch, the key and the row. *)

\* The last of a sequence is the last of its tail, unless it is the only one.
LEMMA LastOfTail ==
    ASSUME NEW S, NEW s \in Seq(S), s # <<>>
    PROVE  /\ Head(s) \in S /\ Tail(s) \in Seq(S)
           /\ Tail(s) = <<>> => s[Len(s)] = Head(s)
           /\ Tail(s) # <<>> => Tail(s)[Len(Tail(s))] = s[Len(s)]
  <1>1. /\ Head(s) \in S /\ Tail(s) \in Seq(S) /\ Len(s) \in Nat \ {0}
        /\ Len(Tail(s)) = Len(s) - 1 /\ \A i \in 1 .. Len(Tail(s)) : Tail(s)[i] = s[i + 1]
    BY HeadTailProperties, EmptySeq
  <1>2. Tail(s) = <<>> => s[Len(s)] = Head(s)
    <2>1. ASSUME Tail(s) = <<>> PROVE Len(s) = 1
      <3>1. Len(Tail(s)) = 0
        BY <2>1, EmptySeq
      <3>2. Len(s) \in Nat /\ Len(s) - 1 = 0
        BY <1>1, <3>1
      <3> QED
        BY <3>2
    <2> QED
      BY <2>1
  <1>3. Tail(s) # <<>> => Tail(s)[Len(Tail(s))] = s[Len(s)]
    <2>1. Tail(s) # <<>> => Len(Tail(s)) \in 1 .. Len(Tail(s))
      BY <1>1, EmptySeq
    <2> QED
      BY <1>1, <2>1
  <1> QED
    BY <1>1, <1>2, <1>3

\* A step of an admin's request leaves those of the others alone.
LEMMA BetweenOf ==
    ASSUME SwitchTyped, NEW a \in Admins, NEW r \in SwitchRequests, ksReq' = [ksReq EXCEPT ![a] = r]
    PROVE  /\ ksReq' \in [Admins -> SwitchRequests]
           /\ Between' = (IF r.pc \in {"set", "publish"} THEN Between \cup {a} ELSE Between \ {a})
           /\ ksReq'[a] = r /\ \A b \in Admins \ {a} : ksReq'[b] = ksReq[b]
  BY DEF SwitchTyped, Between

LEMMA BeginsApart ==
    ASSUME SwitchInv, NEW a \in Admins, NEW on \in BOOLEAN, NEW hard \in BOOLEAN, RequestSwitch(a, on, hard)
    PROVE  SwitchInv'
  <1> DEFINE r == [NoRequest EXCEPT !.pc = "set", !.on = on, !.hard = hard]
  <1>1. r \in SwitchRequests /\ r.pc = "set" /\ r.on = on
    BY DEF SwitchRequests, NoRequest
  <1>2. /\ ksReq' = [ksReq EXCEPT ![a] = r] /\ ksReq[a].pc = "idle" /\ ksDb' = on
        /\ ksMet' = (IF Between = {} THEN ksMet \ {a} ELSE ksMet \cup Between \cup {a})
        /\ UNCHANGED <<ksKey, ksChan, ksListener, ksActive, ksInitialized, ksFault>>
    BY DEF RequestSwitch, ksEngineVars
  <1> HIDE DEF r
  <1>3. /\ ksReq' \in [Admins -> SwitchRequests] /\ Between' = Between \cup {a} /\ ksReq'[a] = r
        /\ \A b \in Admins \ {a} : ksReq'[b] = ksReq[b]
    BY <1>1, <1>2, BetweenOf DEF SwitchInv
  <1>4. Between \subseteq Admins /\ a \notin Between
    BY <1>2 DEF Between
  <1>5. SwitchTyped'
    BY <1>2, <1>3, <1>4 DEF SwitchInv, SwitchTyped
  <1>6. RequestsApart'
    BY <1>1, <1>2, <1>3, <1>4 DEF RequestsApart
  <1>7. MonitorFollows'
    BY <1>2, <1>3 DEF SwitchInv, MonitorFollows, NewestSwitch
  <1> QED
    BY <1>5, <1>6, <1>7 DEF SwitchInv

LEMMA KeyIsSet ==
    ASSUME SwitchInv, NEW a \in Admins, SetSwitchKey(a)
    PROVE  SwitchInv'
  <1> DEFINE r == [ksReq[a] EXCEPT !.pc = "publish"]
  <1>1. /\ ksReq' = [ksReq EXCEPT ![a] = r] /\ ksReq[a].pc = "set" /\ ksKey' = ksReq[a].on
        /\ UNCHANGED <<ksDb, ksMet, ksChan, ksListener, ksActive, ksInitialized, ksFault>>
    BY DEF SetSwitchKey, ksEngineVars, SwitchInv, SwitchTyped
  <1>2. r \in SwitchRequests /\ r.pc = "publish" /\ r.on = ksReq[a].on /\ ksReq[a].on \in BOOLEAN
    BY DEF SwitchInv, SwitchTyped, SwitchRequests
  <1> HIDE DEF r
  <1>3. /\ ksReq' \in [Admins -> SwitchRequests] /\ Between' = Between \cup {a} /\ ksReq'[a] = r
        /\ \A b \in Admins \ {a} : ksReq'[b] = ksReq[b]
    BY <1>1, <1>2, BetweenOf DEF SwitchInv
  <1>4. a \in Between /\ Between \subseteq Admins
    BY <1>1 DEF Between
  <1>5. SwitchTyped'
    BY <1>1, <1>2, <1>3 DEF SwitchInv, SwitchTyped
  <1>6. RequestsApart'
    <2>1. Between' = Between
      BY <1>3, <1>4
    <2>2. ASSUME NEW b \in Between \ ksMet
          PROVE  ksDb' = ksReq'[b].on /\ (ksReq'[b].pc = "publish" => ksKey' = ksReq'[b].on)
      <3>1. b = a
        BY <1>4 DEF SwitchInv, RequestsApart
      <3> QED
        BY <1>1, <1>2, <1>3, <3>1 DEF SwitchInv, RequestsApart
    <2> QED
      BY <1>1, <1>4, <2>1, <2>2 DEF SwitchInv, RequestsApart
  <1>7. MonitorFollows'
    BY <1>1, <1>3 DEF SwitchInv, MonitorFollows
  <1> QED
    BY <1>5, <1>6, <1>7 DEF SwitchInv

\* A request ends, or goes on to close positions.  If its message reached the listener and
\* no other request overlapped it, the monitor follows the key again.
LEMMA EndsApart ==
    ASSUME SwitchInv, NEW a \in Admins, PublishSwitch(a) \/ RedisFails(a)
    PROVE  SwitchInv'
  <1>1. a \in Between /\ Between \subseteq Admins /\ ksReq[a].on \in BOOLEAN
        /\ UNCHANGED <<ksDb, ksMet, ksListener, ksActive, ksInitialized>>
    BY DEF PublishSwitch, RedisFails, Between, ksEngineVars, ksSwitchVars, SwitchInv, SwitchTyped, SwitchRequests
  <1>2. \E r \in SwitchRequests : r.pc \in {"idle", "sweep"} /\ ksReq' = [ksReq EXCEPT ![a] = r]
    <2> DEFINE sweep == [ksReq[a] EXCEPT !.pc = "sweep", !.todo = TradedAccounts]
    <2>1. NoRequest \in SwitchRequests /\ NoRequest.pc = "idle"
      BY DEF NoRequest, SwitchRequests
    <2>2. sweep \in SwitchRequests /\ sweep.pc = "sweep"
      BY DEF SwitchInv, SwitchTyped, SwitchRequests
    <2>3. ksReq' \in {[ksReq EXCEPT ![a] = NoRequest], [ksReq EXCEPT ![a] = sweep]}
      BY DEF PublishSwitch, RedisFails, SwitchInv, SwitchTyped
    <2> QED
      BY <2>1, <2>2, <2>3
  <1>3. PICK r \in SwitchRequests : r.pc \in {"idle", "sweep"} /\ ksReq' = [ksReq EXCEPT ![a] = r]
    BY <1>2
  <1>4. /\ ksReq' \in [Admins -> SwitchRequests] /\ Between' = Between \ {a}
        /\ \A b \in Admins \ {a} : ksReq'[b] = ksReq[b]
    BY <1>3, BetweenOf DEF SwitchInv
  <1>5. Sent(ksReq[a].on) \in Seq(BOOLEAN) /\ (ksListener # "on" => Sent(ksReq[a].on) = ksChan)
    BY <1>1, AppendProperties DEF Sent, SwitchInv, SwitchTyped
  <1>6. CASE RedisFails(a)
    <2>1. /\ ksFault' = TRUE /\ ksKey' \in BOOLEAN /\ ksChan' \in {ksChan, Sent(ksReq[a].on)}
      BY <1>1, <1>6 DEF RedisFails, SwitchInv, SwitchTyped
    <2>2. SwitchTyped'
      BY <1>1, <1>4, <1>5, <2>1 DEF SwitchInv, SwitchTyped
    <2>3. RequestsApart'
      BY <1>1, <1>4, <2>1 DEF SwitchInv, RequestsApart
    <2>4. MonitorFollows'
      BY <1>1, <1>5, <2>1 DEF SwitchInv, MonitorFollows
    <2> QED
      BY <2>2, <2>3, <2>4 DEF SwitchInv
  <1>7. CASE PublishSwitch(a)
    <2>1. /\ ksReq[a].pc = "publish" /\ ksChan' = Sent(ksReq[a].on) /\ UNCHANGED ksKey
          /\ ksFault' = (a \in ksMet \/ (ksFault /\ ksListener # "on"))
      BY <1>7 DEF PublishSwitch, ksSwitchVars
    <2>2. SwitchTyped'
      BY <1>1, <1>4, <1>5, <2>1 DEF SwitchInv, SwitchTyped
    <2>3. ~ksFault' => Between' = {} /\ ksKey = ksReq[a].on /\ ksDb = ksReq[a].on
      BY <1>1, <1>4, <2>1 DEF SwitchInv, RequestsApart
    <2>4. RequestsApart'
      <3>1. \A b, c \in Between' : b # c => b \in ksMet'
        BY <1>1, <1>4 DEF SwitchInv, RequestsApart
      <3>2. \A b \in Between' \ ksMet' : ksDb' = ksReq'[b].on /\ (ksReq'[b].pc = "publish" => ksKey' = ksReq'[b].on)
        BY <1>1, <1>4, <2>1 DEF SwitchInv, RequestsApart
      <3> QED
        BY <1>1, <2>1, <2>3, <3>1, <3>2 DEF RequestsApart
    <2>5. ksListener = "on" => ksChan' # <<>> /\ ksChan'[Len(ksChan')] = ksReq[a].on
      BY <1>1, <2>1, AppendProperties DEF Sent, SwitchInv, SwitchTyped
    <2>6. MonitorFollows'
      <3>1. ksListener' # "on" => ksChan' = <<>>
        BY <1>1, <1>5, <2>1 DEF SwitchInv, MonitorFollows
      <3>2. ksListener' = "off" /\ ~ksFault' => ~ksInitialized'
        BY <1>1, <2>1 DEF SwitchInv, MonitorFollows, SwitchTyped
      <3> QED
        BY <1>1, <2>1, <2>3, <2>5, <3>1, <3>2 DEF SwitchInv, MonitorFollows, NewestSwitch
    <2> QED
      BY <2>2, <2>4, <2>6 DEF SwitchInv
  <1> QED
    BY <1>6, <1>7
-----------------------------------------------------------------------------
(* Steps that leave the requests alone. *)

LEMMA RequestsRest ==
    ASSUME SwitchInv, UNCHANGED <<ksReq, ksMet, ksDb, ksKey>>, ksFault' \in BOOLEAN, ksFault => ksFault'
    PROVE  RequestsApart' /\ Between' = Between
  BY DEF SwitchInv, RequestsApart, Between

LEMMA RequestGoesOn ==
    ASSUME SwitchInv, UNCHANGED <<ksMet, ksDb, ksKey, ksFault, ksChan, ksListener, ksActive, ksInitialized>>,
           NEW a \in Admins, NEW r \in SwitchRequests, ksReq' = [ksReq EXCEPT ![a] = r],
           ksReq[a].pc \notin {"set", "publish"}, r.pc \notin {"set", "publish"}
    PROVE  SwitchInv'
  <1>1. a \notin Between
    BY DEF Between
  <1>2. ksReq' \in [Admins -> SwitchRequests] /\ Between' = Between /\ \A b \in Between : ksReq'[b] = ksReq[b]
    BY <1>1, BetweenOf DEF SwitchInv, Between
  <1>3. SwitchTyped'
    BY <1>2 DEF SwitchInv, SwitchTyped
  <1>4. RequestsApart'
    BY <1>2 DEF SwitchInv, RequestsApart
  <1>5. MonitorFollows'
    BY <1>2 DEF SwitchInv, MonitorFollows, NewestSwitch
  <1> QED
    BY <1>3, <1>4, <1>5 DEF SwitchInv

LEMMA ReadsKey ==
    ASSUME SwitchInv, NEW w \in TradedAccounts, NEW works \in BOOLEAN, IsActive(w, works)
    PROVE  SwitchInv'
  <1>1. UNCHANGED <<ksReq, ksMet, ksDb, ksKey, ksChan>>
    BY DEF IsActive, ksSwitchVars
  <1>2. CASE UNCHANGED <<ksListener, ksActive, ksInitialized, ksFault>>
    BY <1>1, <1>2, RequestsRest DEF SwitchInv, SwitchTyped, MonitorFollows, NewestSwitch
  <1>3. CASE ~ksInitialized /\ LoadSwitch(works)
    <2>1. /\ ksActive' = (works /\ ksKey) /\ ksInitialized' = TRUE /\ UNCHANGED ksListener
          /\ ksFault' = (ksFault \/ ~works \/ ksListener # "on")
      BY <1>3 DEF LoadSwitch
    <2>2. SwitchTyped'
      BY <1>1, <2>1 DEF SwitchInv, SwitchTyped
    <2>3. RequestsApart' /\ Between' = Between
      BY <1>1, <2>1, RequestsRest
    <2>4. ~ksFault' => ~ksFault /\ ksListener = "on" /\ ksActive' = ksKey
      BY <2>1 DEF SwitchInv, SwitchTyped
    <2>5. ~ksFault' /\ Between' = {} => NewestSwitch' = ksKey'
      BY <1>1, <2>3, <2>4 DEF SwitchInv, MonitorFollows, NewestSwitch
    <2>6. MonitorFollows'
      BY <1>1, <2>1, <2>4, <2>5 DEF SwitchInv, MonitorFollows
    <2> QED
      BY <2>2, <2>3, <2>6 DEF SwitchInv
  <1> QED
    BY <1>2, <1>3 DEF IsActive, ksEngineVars

LEMMA HearsMessage ==
    ASSUME SwitchInv, HearSwitch
    PROVE  SwitchInv'
  <1>1. /\ ksListener = "on" /\ ksChan # <<>> /\ UNCHANGED <<ksReq, ksMet, ksDb, ksKey, ksFault>>
        /\ ksActive' = Head(ksChan)
        /\ ksInitialized' = (ksInitialized \/ Head(ksChan) # ksActive)
        /\ \/ ksChan' = Tail(ksChan) /\ ksListener' = "on"
           \/ ksChan' = <<>> /\ ksListener' = "dead"
    BY DEF HearSwitch, ksSwitchVars
  <1>2. /\ Head(ksChan) \in BOOLEAN /\ Tail(ksChan) \in Seq(BOOLEAN)
        /\ Tail(ksChan) = <<>> => ksChan[Len(ksChan)] = Head(ksChan)
        /\ Tail(ksChan) # <<>> => Tail(ksChan)[Len(Tail(ksChan))] = ksChan[Len(ksChan)]
    BY <1>1, LastOfTail DEF SwitchInv, SwitchTyped
  <1>3. SwitchTyped'
    BY <1>1, <1>2, EmptySeq DEF SwitchInv, SwitchTyped
  <1>4. RequestsApart' /\ Between' = Between
    BY <1>1, RequestsRest DEF SwitchInv, SwitchTyped
  <1>5. ksActive' => ksInitialized'
    BY <1>1, <1>2 DEF SwitchInv, SwitchTyped, MonitorFollows
  <1>6. ksListener' = "on" => NewestSwitch' = ksChan[Len(ksChan)]
    BY <1>1, <1>2 DEF NewestSwitch
  <1>7. MonitorFollows'
    BY <1>1, <1>4, <1>5, <1>6 DEF SwitchInv, MonitorFollows, NewestSwitch
  <1> QED
    BY <1>3, <1>4, <1>7 DEF SwitchInv

LEMMA ListenerSteps ==
    ASSUME SwitchInv, SubscribeSwitch \/ SwitchListenFails \/ Restart
    PROVE  SwitchInv'
  <1>1. /\ UNCHANGED <<ksReq, ksMet, ksDb, ksKey, ksFault>>
        /\ \/ /\ ksListener = "off" /\ ksListener' = "on"
              /\ UNCHANGED <<ksChan, ksActive, ksInitialized>>
           \/ /\ ksListener' = "dead" /\ ksChan' = <<>>
              /\ UNCHANGED <<ksActive, ksInitialized>>
           \/ /\ ksListener' = "off" /\ ksChan' = <<>>
              /\ ksActive' = FALSE /\ ksInitialized' = FALSE
    BY DEF SubscribeSwitch, SwitchListenFails, Restart, ksSwitchVars
  <1>2. SwitchTyped'
    BY <1>1, EmptySeq DEF SwitchInv, SwitchTyped
  <1>3. RequestsApart' /\ Between' = Between
    BY <1>1, RequestsRest DEF SwitchInv, SwitchTyped
  <1>4. MonitorFollows'
    BY <1>1, <1>3 DEF SwitchInv, MonitorFollows
  <1> QED
    BY <1>2, <1>3, <1>4 DEF SwitchInv
-----------------------------------------------------------------------------
(* The positions that a hard activation leaves. *)

\* Positions of an account, and one more that its worker may be about to open.
InFlight(w) == ksOpen[w] + (IF ksWorker[w] = "checked" THEN 1 ELSE 0)

SweepTyped ==
    /\ ksWorker \in [TradedAccounts -> {"idle", "checked"}]
    /\ ksOpen \in [TradedAccounts -> Nat] /\ ksSwept \subseteq TradedAccounts
    /\ \A a \in Admins : ksReq[a].pc \in {"sweep", "close"} => ksReq[a].todo # {}

\* An account that was swept has no more than one position in flight, or one of the
\* requests that sweep it has found all its positions but one.
Sweeping(a, w) ==
    ksReq[a].pc = "close" /\ Current(a) = w /\ InFlight(w) <= ksReq[a].found + 1
SweptOnce == \A w \in ksSwept : InFlight(w) <= 1 \/ \E a \in Admins : Sweeping(a, w)

SweepInv == SweepTyped /\ (ksSwept # {} => ksActive) /\ SweptOnce

LEMMA InFlightIsNat ==
    ASSUME SweepTyped, NEW w \in TradedAccounts
    PROVE  InFlight(w) \in Nat /\ ksOpen[w] \in Nat /\ ksOpen[w] <= InFlight(w) /\ InFlight(w) <= ksOpen[w] + 1
  BY DEF SweepTyped, InFlight

LEMMA CurrentAccount ==
    ASSUME SwitchTyped, SweepTyped, NEW a \in Admins, ksReq[a].pc \in {"sweep", "close"}
    PROVE  Current(a) \in ksReq[a].todo /\ Current(a) \in TradedAccounts /\ ksReq[a].found \in Nat
  BY DEF SwitchTyped, SweepTyped, SwitchRequests, Current

\* A request that closes nothing at the moment moves on.
LEMMA SweepRests ==
    ASSUME SwitchTyped, SweepInv, NEW a \in Admins, NEW r \in SwitchRequests,
           ksReq' = [ksReq EXCEPT ![a] = r], ksReq[a].pc # "close", r.pc # "close",
           r.pc = "sweep" => r.todo # {}, UNCHANGED <<ksWorker, ksOpen, ksSwept, ksActive>>
    PROVE  SweepInv'
  <1>1. ksReq'[a] = r /\ \A b \in Admins \ {a} : ksReq'[b] = ksReq[b]
    BY DEF SwitchTyped
  <1>2. SweepTyped'
    BY <1>1 DEF SweepInv, SweepTyped
  <1>3. SweptOnce'
    <2>1. \A w : InFlight(w)' = InFlight(w)
      BY DEF InFlight
    <2>2. \A w : \A b \in Admins : Sweeping(b, w) => Sweeping(b, w)'
      BY <1>1, <2>1 DEF Sweeping, Current
    <2> QED
      BY <2>1, <2>2 DEF SweepInv, SweptOnce
  <1> QED
    BY <1>2, <1>3 DEF SweepInv

LEMMA SweepBegins ==
    ASSUME SwitchInv, SweepInv, NEW a \in Admins, SweepReads(a)
    PROVE  SwitchInv' /\ SweepInv'
  <1>0. PICK c \in TradedAccounts : c = Current(a) /\ c \in ksReq[a].todo
    BY CurrentAccount DEF SweepReads, SwitchInv, SweepInv
  <1> DEFINE r == [ksReq[a] EXCEPT !.pc = "close", !.found = ksOpen[c]]
  <1>1. /\ ksReq[a].pc = "sweep" /\ ksReq' = [ksReq EXCEPT ![a] = r]
        /\ ksSwept' = (IF ksActive THEN ksSwept \cup {c} ELSE ksSwept)
        /\ UNCHANGED <<ksMet, ksDb, ksKey, ksFault, ksChan, ksListener, ksActive, ksInitialized, ksWorker, ksOpen>>
    BY <1>0 DEF SweepReads, ksSwitchVars, ksEngineVars, ksTradeVars, SwitchInv, SwitchTyped
  <1>2. c \in ksReq[a].todo /\ c \in TradedAccounts
    BY <1>0
  <1>3. r \in SwitchRequests /\ r.pc = "close" /\ r.todo = ksReq[a].todo /\ r.found = ksOpen[c]
    BY <1>2 DEF SwitchInv, SwitchTyped, SwitchRequests, SweepInv, SweepTyped
  <1> HIDE DEF r
  <1>4. SwitchInv'
    BY <1>1, <1>3, RequestGoesOn
  <1>5. ksReq'[a] = r /\ \A b \in Admins \ {a} : ksReq'[b] = ksReq[b]
    BY <1>1 DEF SwitchInv, SwitchTyped
  <1>6. SweepTyped'
    BY <1>1, <1>2, <1>3, <1>5 DEF SweepInv, SweepTyped
  <1>7. SweptOnce'
    <2>1. \A w : InFlight(w)' = InFlight(w)
      BY <1>1 DEF InFlight
    <2>2. Sweeping(a, c)'
      <3>1. Current(a)' = c
        BY <1>0, <1>3, <1>5 DEF Current
      <3> QED
        BY <1>2, <1>3, <1>5, <2>1, <3>1, InFlightIsNat DEF Sweeping, SweepInv
    <2>3. \A w : \A b \in Admins : Sweeping(b, w) => Sweeping(b, w)'
      BY <1>1, <1>5, <2>1 DEF Sweeping, Current
    <2> QED
      BY <1>1, <2>1, <2>2, <2>3 DEF SweepInv, SweptOnce
  <1> QED
    BY <1>1, <1>4, <1>6, <1>7 DEF SweepInv

LEMMA SweepLeavesAccount ==
    ASSUME SwitchInv, SweepInv, NEW a \in Admins, ksReq[a].pc \in {"sweep", "close"},
           NextAccount(a, Current(a))
    PROVE  \E r \in SwitchRequests : /\ ksReq' = [ksReq EXCEPT ![a] = r] /\ r.pc \in {"idle", "sweep"}
                                     /\ r.pc = "sweep" => r.todo # {}
  <1>1. PICK c \in ksReq[a].todo : c = Current(a)
    BY CurrentAccount DEF SwitchInv, SweepInv
  <1> DEFINE rest == ksReq[a].todo \ {c}
             r == [ksReq[a] EXCEPT !.pc = "sweep", !.todo = rest, !.found = 0]
  <1>2. ksReq' = [ksReq EXCEPT ![a] = IF rest = {} THEN NoRequest ELSE r]
    BY <1>1 DEF NextAccount, SwitchInv, SwitchTyped
  <1>3. NoRequest \in SwitchRequests /\ NoRequest.pc = "idle"
    BY DEF NoRequest, SwitchRequests
  <1>4. r \in SwitchRequests /\ r.pc = "sweep" /\ r.todo = rest
    BY DEF SwitchInv, SwitchTyped, SwitchRequests
  <1> QED
    BY <1>2, <1>3, <1>4

LEMMA SweepEnds ==
    ASSUME SwitchInv, SweepInv, NEW a \in Admins, NEW n \in Nat, SweepCloses(a, n)
    PROVE  SwitchInv' /\ SweepInv'
  <1>0. PICK c \in TradedAccounts : c = Current(a)
    BY CurrentAccount DEF SweepCloses, SwitchInv, SweepInv
  <1>1. /\ ksReq[a].pc = "close" /\ n <= ksReq[a].found /\ n <= ksOpen[c]
        /\ ksOpen' = [ksOpen EXCEPT ![c] = @ - n]
        /\ ksSwept' = (IF n = ksReq[a].found THEN ksSwept ELSE ksSwept \ {c})
        /\ NextAccount(a, Current(a))
        /\ UNCHANGED <<ksMet, ksDb, ksKey, ksFault, ksChan, ksListener, ksActive, ksInitialized, ksWorker>>
    BY <1>0 DEF SweepCloses, ksSwitchVars, ksEngineVars
  <1>2. c \in TradedAccounts /\ ksReq[a].found \in Nat /\ ksOpen[c] \in Nat /\ InFlight(c) \in Nat
    BY <1>0, <1>1, CurrentAccount, InFlightIsNat DEF SwitchInv, SweepInv
  <1>3. PICK r \in SwitchRequests : /\ ksReq' = [ksReq EXCEPT ![a] = r] /\ r.pc \in {"idle", "sweep"}
                                    /\ r.pc = "sweep" => r.todo # {}
    BY <1>1, SweepLeavesAccount
  <1>4. SwitchInv'
    BY <1>1, <1>3, RequestGoesOn
  <1>5. ksReq'[a] = r /\ \A b \in Admins \ {a} : ksReq'[b] = ksReq[b]
    BY <1>3 DEF SwitchInv, SwitchTyped
  <1>6. ksOpen' \in [TradedAccounts -> Nat] /\ SweepTyped'
    BY <1>1, <1>2, <1>3, <1>5 DEF SweepInv, SweepTyped
  <1>7. \A w \in TradedAccounts : w # c => InFlight(w)' = InFlight(w)
    BY <1>1 DEF InFlight, SweepInv, SweepTyped
  <1>8. InFlight(c)' = InFlight(c) - n
    BY <1>1, <1>2 DEF InFlight, SweepInv, SweepTyped
  <1>9. ASSUME NEW w \in ksSwept'
        PROVE  InFlight(w)' <= 1 \/ \E b \in Admins : Sweeping(b, w)'
    <2>1. w \in ksSwept /\ w \in TradedAccounts /\ InFlight(w) \in Nat
      BY <1>1, <1>9, InFlightIsNat DEF SweepInv, SweepTyped
    <2>2. InFlight(w)' \in Nat /\ InFlight(w)' <= InFlight(w)
      BY <1>1, <1>2, <1>6, <1>7, <1>8, <2>1, InFlightIsNat DEF InFlight, SweepTyped
    <2>3. ASSUME NEW b \in Admins \ {a}, Sweeping(b, w) PROVE Sweeping(b, w)'
      <3>1. ksReq'[b] = ksReq[b] /\ ksReq[b].found \in Nat
        BY <1>5 DEF SwitchInv, SwitchTyped, SwitchRequests
      <3> QED
        BY <2>1, <2>2, <2>3, <3>1 DEF Sweeping, Current
    <2>4. ASSUME Sweeping(a, w) PROVE InFlight(w)' <= 1
      <3>1. w = c /\ InFlight(c) <= ksReq[a].found + 1
        BY <1>0, <2>4 DEF Sweeping
      <3>2. n = ksReq[a].found
        BY <1>1, <1>9, <3>1
      <3> QED
        BY <1>2, <1>8, <3>1, <3>2
    <2>5. CASE InFlight(w) <= 1
      BY <2>1, <2>2, <2>5
    <2>6. CASE \E b \in Admins : Sweeping(b, w)
      BY <2>3, <2>4, <2>6
    <2> QED
      BY <2>1, <2>5, <2>6 DEF SweepInv, SweptOnce
  <1> QED
    BY <1>1, <1>4, <1>6, <1>9 DEF SweepInv, SweptOnce
\* The worker of an account that was swept passes no more checks: the switch it
\* asks is on, and a monitor that is on does not read the key again.
LEMMA WorkerSteps ==
    ASSUME SwitchInv, SweepInv, NEW w \in TradedAccounts, NEW b \in BOOLEAN, IsActive(w, b) \/ Trade(w, b)
    PROVE  SweepInv'
  <1>1. UNCHANGED <<ksReq, ksSwept>>
    BY DEF IsActive, Trade
  <1>2. CASE IsActive(w, b)
    <2>1. /\ ksWorker[w] = "idle" /\ UNCHANGED ksOpen
          /\ ksWorker' = [ksWorker EXCEPT ![w] = IF ksActive' THEN "idle" ELSE "checked"]
      BY <1>2 DEF IsActive
    <2>2. SweepTyped'
      BY <1>1, <2>1 DEF SweepInv, SweepTyped
    <2>3. CASE ksSwept = {}
      BY <1>1, <2>2, <2>3 DEF SweepInv, SweptOnce
    <2>4. CASE ksSwept # {}
      <3>1. ksActive /\ ksInitialized
        BY <2>4 DEF SweepInv, SwitchInv, MonitorFollows
      <3>2. ksActive'
        BY <1>2, <3>1 DEF IsActive, ksEngineVars
      <3>3. ksWorker' = ksWorker
        BY <2>1, <3>2 DEF SweepInv, SweepTyped
      <3> QED
        BY <1>1, <2>1, <2>2, <3>2, <3>3 DEF SweepInv, SweptOnce, Sweeping, InFlight, Current
    <2> QED
      BY <2>3, <2>4
  <1>3. CASE Trade(w, b)
    <2>1. /\ ksWorker[w] = "checked" /\ ksWorker' = [ksWorker EXCEPT ![w] = "idle"] /\ UNCHANGED ksActive
          /\ ksOpen' = ksOpen \/ ksOpen' = [ksOpen EXCEPT ![w] = @ + 1]
      BY <1>3 DEF Trade, ksEngineVars
    <2>2. SweepTyped'
      BY <1>1, <2>1 DEF SweepInv, SweepTyped
    <2>3. \A x \in TradedAccounts : InFlight(x)' <= InFlight(x) /\ InFlight(x)' \in Nat /\ InFlight(x) \in Nat
      BY <2>1, <2>2 DEF InFlight, SweepInv, SweepTyped
    <2>4. ASSUME NEW x \in ksSwept' PROVE InFlight(x)' <= 1 \/ \E a \in Admins : Sweeping(a, x)'
      <3>1. x \in ksSwept /\ x \in TradedAccounts
        BY <1>1 DEF SweepInv, SweepTyped
      <3>2. ASSUME NEW a \in Admins, Sweeping(a, x) PROVE Sweeping(a, x)'
        <4>1. ksReq[a].found \in Nat
          BY DEF SwitchInv, SwitchTyped, SwitchRequests
        <4> QED
          BY <1>1, <2>3, <3>1, <3>2, <4>1 DEF Sweeping, Current
      <3>3. InFlight(x) <= 1 => InFlight(x)' <= 1
        BY <2>3, <3>1
      <3> QED
        BY <3>1, <3>2, <3>3 DEF SweepInv, SweptOnce
    <2> QED
      BY <1>1, <2>1, <2>2, <2>4 DEF SweepInv, SweptOnce
  <1> QED
    BY <1>2, <1>3

LEMMA MonitorSweeps ==
    ASSUME SwitchInv, SweepInv, HearSwitch \/ SubscribeSwitch \/ SwitchListenFails \/ Restart
    PROVE  SweepInv'
  <1>1. CASE UNCHANGED <<ksReq, ksWorker, ksOpen, ksSwept, ksActive>>
    BY <1>1 DEF SweepInv, SweepTyped, SweptOnce, Sweeping, InFlight, Current
  <1>2. CASE HearSwitch
    <2>1. UNCHANGED <<ksReq, ksWorker, ksOpen>> /\ ksSwept' = (IF ksActive' THEN ksSwept ELSE {})
      BY <1>2 DEF HearSwitch, ksTradeVars
    <2> QED
      BY <2>1 DEF SweepInv, SweepTyped, SweptOnce, Sweeping, InFlight, Current
  <1>3. CASE Restart
    <2>1. UNCHANGED <<ksReq, ksOpen>> /\ ksSwept' = {} /\ ksWorker' = [w \in TradedAccounts |-> "idle"]
      BY <1>3 DEF Restart
    <2> QED
      BY <2>1 DEF SweepInv, SweepTyped, SweptOnce
  <1> QED
    BY <1>1, <1>2, <1>3 DEF SubscribeSwitch, SwitchListenFails, ksTradeVars

LEMMA AdminSteps ==
    ASSUME SwitchInv, SweepInv, NEW a \in Admins,
           \/ \E on, hard \in BOOLEAN : RequestSwitch(a, on, hard)
           \/ SetSwitchKey(a) \/ PublishSwitch(a) \/ RedisFails(a) \/ SweepSkips(a)
    PROVE  SwitchInv' /\ SweepInv'
  <1>1. UNCHANGED <<ksWorker, ksOpen, ksSwept, ksActive>> /\ ksReq[a].pc # "close"
    BY DEF RequestSwitch, SetSwitchKey, PublishSwitch, RedisFails, SweepSkips, ksTradeVars, ksEngineVars
  <1>2. ASSUME NEW on \in BOOLEAN, NEW hard \in BOOLEAN, RequestSwitch(a, on, hard)
        PROVE  SwitchInv' /\ SweepInv'
    <2> DEFINE r == [NoRequest EXCEPT !.pc = "set", !.on = on, !.hard = hard]
    <2>1. r \in SwitchRequests /\ r.pc = "set" /\ ksReq' = [ksReq EXCEPT ![a] = r]
      BY <1>2 DEF RequestSwitch, SwitchRequests, NoRequest
    <2> QED
      BY <1>1, <1>2, <2>1, BeginsApart, SweepRests DEF SwitchInv
  <1>3. CASE SetSwitchKey(a)
    <2> DEFINE r == [ksReq[a] EXCEPT !.pc = "publish"]
    <2>1. r \in SwitchRequests /\ r.pc = "publish" /\ ksReq' = [ksReq EXCEPT ![a] = r]
      BY <1>3 DEF SetSwitchKey, SwitchInv, SwitchTyped, SwitchRequests
    <2> QED
      BY <1>1, <1>3, <2>1, KeyIsSet, SweepRests DEF SwitchInv
  <1>4. NoRequest \in SwitchRequests /\ NoRequest.pc = "idle"
    BY DEF SwitchRequests, NoRequest
  <1>5. CASE RedisFails(a)
    <2>1. ksReq' = [ksReq EXCEPT ![a] = NoRequest]
      BY <1>5 DEF RedisFails
    <2> QED
      BY <1>1, <1>4, <1>5, <2>1, EndsApart, SweepRests DEF SwitchInv
  <1>6. CASE PublishSwitch(a)
    <2> DEFINE sweep == [ksReq[a] EXCEPT !.pc = "sweep", !.todo = TradedAccounts]
    <2>1. CASE ksReq' = [ksReq EXCEPT ![a] = NoRequest]
      BY <1>1, <1>4, <1>6, <2>1, EndsApart, SweepRests DEF SwitchInv
    <2>2. CASE TradedAccounts # {} /\ ksReq' = [ksReq EXCEPT ![a] = sweep]
      <3>1. sweep \in SwitchRequests /\ sweep.pc = "sweep" /\ sweep.todo # {}
        BY <2>2 DEF SwitchInv, SwitchTyped, SwitchRequests
      <3> QED
        BY <1>1, <1>6, <2>2, <3>1, EndsApart, SweepRests DEF SwitchInv
    <2> QED
      BY <1>6, <2>1, <2>2 DEF PublishSwitch, SwitchInv, SwitchTyped
  <1>7. CASE SweepSkips(a)
    <2>1. /\ ksReq[a].pc = "sweep" /\ NextAccount(a, Current(a))
          /\ UNCHANGED <<ksMet, ksDb, ksKey, ksFault, ksChan, ksListener, ksActive, ksInitialized>>
      BY <1>7 DEF SweepSkips, ksSwitchVars, ksEngineVars
    <2>2. PICK r \in SwitchRequests : /\ ksReq' = [ksReq EXCEPT ![a] = r] /\ r.pc \in {"idle", "sweep"}
                                      /\ r.pc = "sweep" => r.todo # {}
      BY <2>1, SweepLeavesAccount
    <2> QED
      BY <1>1, <2>1, <2>2, RequestGoesOn, SweepRests DEF SwitchInv
  <1> QED
    BY <1>2, <1>3, <1>5, <1>6, <1>7

LEMMA SwitchInvariant == KillSwitchSpec => [](SwitchInv /\ SweepInv)
  <1>1. ASSUME KillSwitchInit PROVE SwitchInv /\ SweepInv
    <2>1. \A a \in Admins : ksReq[a] = NoRequest
      BY <1>1 DEF KillSwitchInit
    <2>2. Between = {} /\ ksReq \in [Admins -> SwitchRequests]
      BY <1>1, <2>1 DEF KillSwitchInit, Between, NoRequest, SwitchRequests
    <2>3. SwitchTyped
      BY <1>1, <2>2, EmptySeq DEF KillSwitchInit, SwitchTyped
    <2>4. RequestsApart /\ MonitorFollows
      BY <1>1, <2>2 DEF KillSwitchInit, RequestsApart, MonitorFollows
    <2>5. SweepInv
      BY <1>1, <2>1 DEF KillSwitchInit, SweepInv, SweepTyped, SweptOnce, NoRequest
    <2> QED
      BY <2>3, <2>4, <2>5 DEF SwitchInv
  <1>2. ASSUME SwitchInv, SweepInv, [KillSwitchNext]_ksVars PROVE (SwitchInv /\ SweepInv)'
    <2>1. ASSUME NEW a \in Admins, NEW hard \in BOOLEAN, Activate(a, hard) \/ Deactivate(a)
          PROVE  SwitchInv' /\ SweepInv'
      BY <1>2, <2>1, AdminSteps DEF Activate, Deactivate
    <2>2. ASSUME NEW a \in Admins, SetSwitchKey(a) \/ PublishSwitch(a) \/ RedisFails(a) \/ SweepSkips(a)
          PROVE  SwitchInv' /\ SweepInv'
      BY <1>2, <2>2, AdminSteps
    <2>3. ASSUME NEW a \in Admins, SweepReads(a) PROVE SwitchInv' /\ SweepInv'
      BY <1>2, <2>3, SweepBegins
    <2>4. ASSUME NEW a \in Admins, NEW n \in 0 .. MaxOpen, SweepCloses(a, n) PROVE SwitchInv' /\ SweepInv'
      BY <1>2, <2>4, SweepEnds
    <2>5. CASE HearSwitch \/ SubscribeSwitch \/ SwitchListenFails \/ Restart
      BY <1>2, <2>5, HearsMessage, ListenerSteps, MonitorSweeps
    <2>6. ASSUME NEW w \in TradedAccounts, NEW b \in BOOLEAN, IsActive(w, b) \/ Trade(w, b)
          PROVE  SwitchInv' /\ SweepInv'
      <3>1. CASE IsActive(w, b)
        BY <1>2, <3>1, ReadsKey, WorkerSteps
      <3>2. CASE Trade(w, b)
        <4>1. UNCHANGED <<ksReq, ksMet, ksDb, ksKey, ksFault, ksChan, ksListener, ksActive, ksInitialized>>
          BY <3>2 DEF Trade, ksSwitchVars, ksEngineVars
        <4>2. SwitchInv'
          BY <1>2, <4>1 DEF SwitchInv, SwitchTyped, RequestsApart, MonitorFollows, Between, NewestSwitch
        <4> QED
          BY <1>2, <3>2, <4>2, WorkerSteps
      <3> QED
        BY <2>6, <3>1, <3>2
    <2>7. CASE UNCHANGED ksVars
      BY <1>2, <2>7 DEF ksVars, ksSwitchVars, ksEngineVars, ksTradeVars, SwitchInv, SwitchTyped, RequestsApart,
                  MonitorFollows, Between, NewestSwitch, SweepInv, SweepTyped, SweptOnce, Sweeping, InFlight, Current
    <2> QED
      BY <1>2, <2>1, <2>2, <2>3, <2>4, <2>5, <2>6, <2>7 DEF KillSwitchNext
  <1> QED
    BY <1>1, <1>2, PTL DEF KillSwitchSpec

\* What the workers are told is what the key and the row say (is_active against
\* activateKillSwitch), as soon as a request that no other overlapped, and its message,
\* are done: for any number of administrators, whatever was lost before.
THEOREM SwitchAgrees == KillSwitchSpec => []Agreement
  <1>1. SwitchInv => Agreement
    BY DEF SwitchInv, RequestsApart, MonitorFollows, NewestSwitch, Agreement, SwitchQuiet
  <1> QED
    BY <1>1, SwitchInvariant, PTL

\* A hard activation leaves an account at most the position that was in flight
\* (closeAllPositions does not wait for orders), for any number of accounts and
\* positions, and of activations that sweep them side by side.
THEOREM SweepLeavesInFlight == KillSwitchSpec => []InFlightOnly
  <1>1. SweepInv => InFlightOnly
    BY DEF SweepInv, SweptOnce, Sweeping, InFlight, InFlightOnly
  <1> QED
    BY <1>1, SwitchInvariant, PTL

-----------------------------------------------------------------------------
(* Autopilot. *)

\* Before the key is set it may lag behind the row, and until the message is
\* sent the monitor may lag behind both.
KeyFollows ==
    /\ apReq.pc \in {"set", "publish"} => apReq.on = apDb
    /\ apReq.pc = "publish" => (apReq.good => apKey = State(apDb)) /\ (~apReq.good => apFault)
    /\ ~apFault /\ apReq.pc # "set" => apKey = State(apDb)

\* What the monitor will hold once it has heard every message on its way.
NewestState == IF apChan = <<>> THEN apView = "enabled" ELSE apChan[Len(apChan)]

ViewFollows ==
    ~apFault /\ (apView # "unknown" \/ apChan # <<>>) =>
        apListener = "on" /\ (apReq.pc \notin {"set", "publish"} => NewestState = apDb)

PilotTyped ==
    /\ apDb \in BOOLEAN /\ apKey \in {"enabled", "disabled"} /\ apFault \in BOOLEAN
    /\ apReq \in [pc : {"idle", "save", "set", "publish", "sync"}, on : BOOLEAN, good : BOOLEAN]
    /\ apChan \in Seq(BOOLEAN)
    /\ apView \in {"unknown", "enabled", "disabled"}

AutopilotInv == PilotTyped /\ KeyFollows /\ ViewFollows

LEMMA PilotTypes ==
    ASSUME PilotTyped, AutopilotNext
    PROVE  PilotTyped'
  <1> USE DEF PilotTyped, apBackendVars, apMonitorVars, apWorkerVars
  <1>1. ASSUME NEW b \in BOOLEAN, RequestState(b) PROVE PilotTyped'
    BY <1>1 DEF RequestState, NoChange
  <1>2. ASSUME NEW b \in BOOLEAN, SetStateKey(b) PROVE PilotTyped'
    BY <1>2 DEF SetStateKey, State
  <1>3. ASSUME NEW b \in BOOLEAN, PublishState(b) PROVE PilotTyped'
    <2>1. apChan' \in Seq(BOOLEAN)
      BY <1>3, AppendProperties DEF PublishState
    <2>2. apFault' \in BOOLEAN
      BY <1>3 DEF PublishState
    <2>3. apReq' = [apReq EXCEPT !.pc = "sync"] /\ UNCHANGED <<apDb, apKey, apView>>
      BY <1>3 DEF PublishState
    <2> QED
      BY <2>1, <2>2, <2>3
  <1>4. ASSUME NEW b \in BOOLEAN, SyncWorker(b) PROVE PilotTyped'
    BY <1>4 DEF SyncWorker, NoChange, CallStart, SupervisorStops
  <1>5. ASSUME NEW b \in BOOLEAN, BackendRestart(b) PROVE PilotTyped'
    BY <1>5 DEF BackendRestart, NoChange, State
  <1>6. ASSUME NEW b \in BOOLEAN, LoadState(b) \/ Fetch(b) \/ Reconcile(b) PROVE PilotTyped'
    BY <1>6 DEF LoadState, Fetch, Reconcile, CallStart
  <1>7. CASE Save \/ FlipSwitch \/ SubscribeState \/ SupervisorStarts
    BY <1>7 DEF Save, FlipSwitch, SubscribeState, SupervisorStarts
  <1>9. CASE StateListenFails \/ EngineRestart
    BY <1>9, EmptySeq DEF StateListenFails, EngineRestart
  <1>8. CASE HearState
    BY <1>8, HeadTailProperties DEF HearState, State
  <1> QED
    BY <1>1, <1>2, <1>3, <1>4, <1>5, <1>6, <1>7, <1>8, <1>9 DEF AutopilotNext

LEMMA PilotSteps ==
    ASSUME AutopilotInv, AutopilotNext
    PROVE  KeyFollows' /\ ViewFollows'
  <1> USE DEF AutopilotInv, PilotTyped, KeyFollows, ViewFollows, NewestState,
              apBackendVars, apMonitorVars, apWorkerVars
  <1>1. ASSUME NEW b \in BOOLEAN, RequestState(b) PROVE KeyFollows' /\ ViewFollows'
    BY <1>1 DEF RequestState, NoChange
  <1>2. CASE Save
    BY <1>2 DEF Save
  <1>3. ASSUME NEW b \in BOOLEAN, SetStateKey(b) PROVE KeyFollows' /\ ViewFollows'
    BY <1>3 DEF SetStateKey
  <1>4. ASSUME NEW b \in BOOLEAN, PublishState(b) PROVE KeyFollows' /\ ViewFollows'
    <2>1. CASE apListener = "on" /\ apChan' = Append(apChan, apReq.on)
      <3>1. apChan' # <<>> /\ apChan'[Len(apChan')] = apReq.on
        BY <2>1
      <3> QED
        BY <1>4, <2>1, <3>1 DEF PublishState
    <2>2. CASE (apListener # "on" \/ ~b) /\ UNCHANGED apChan
      BY <1>4, <2>2 DEF PublishState
    <2> QED
      BY <1>4, <2>1, <2>2 DEF PublishState
  <1>5. ASSUME NEW b \in BOOLEAN, SyncWorker(b) PROVE KeyFollows' /\ ViewFollows'
    BY <1>5 DEF SyncWorker, NoChange
  <1>6. ASSUME NEW b \in BOOLEAN, BackendRestart(b) PROVE KeyFollows' /\ ViewFollows'
    BY <1>6 DEF BackendRestart, NoChange
  <1>7. ASSUME NEW b \in BOOLEAN, LoadState(b) PROVE KeyFollows' /\ ViewFollows'
    BY <1>7 DEF LoadState, State
  <1>8. ASSUME NEW b \in BOOLEAN, Fetch(b) \/ Reconcile(b) PROVE KeyFollows' /\ ViewFollows'
    BY <1>8 DEF Fetch, Reconcile
  <1>9. CASE HearState
    <2>1. /\ apListener = "on" /\ apChan # <<>> /\ UNCHANGED <<apListener, apReq, apDb, apKey, apFault>>
          /\ apView' = State(Head(apChan)) /\ apChan' = Tail(apChan)
      BY <1>9 DEF HearState
    <2>2. /\ Head(apChan) \in BOOLEAN
          /\ apChan' = <<>> => apChan[Len(apChan)] = Head(apChan)
          /\ apChan' # <<>> => apChan'[Len(apChan')] = apChan[Len(apChan)]
      BY <2>1, LastOfTail
    <2>3. NewestState' = NewestState
      BY <2>1, <2>2 DEF State
    <2> QED
      BY <2>1, <2>3
  <1>10. CASE FlipSwitch \/ SubscribeState \/ StateListenFails \/ SupervisorStarts \/ EngineRestart
    BY <1>10 DEF FlipSwitch, SubscribeState, StateListenFails, SupervisorStarts, EngineRestart
  <1> QED
    BY <1>1, <1>2, <1>3, <1>4, <1>5, <1>6, <1>7, <1>8, <1>9, <1>10 DEF AutopilotNext

LEMMA PilotInvariant == AutopilotSpec => []AutopilotInv
  <1>1. ASSUME AutopilotInit PROVE AutopilotInv
    <2>1. /\ apDb \in BOOLEAN /\ apKey = State(apDb) /\ apFault = FALSE /\ apChan = <<>>
          /\ apReq = NoChange /\ apView = "unknown"
      BY <1>1 DEF AutopilotInit
    <2>2. PilotTyped
      BY <2>1, EmptySeq DEF PilotTyped, NoChange, State
    <2> QED
      BY <2>1, <2>2 DEF AutopilotInv, KeyFollows, ViewFollows, NoChange
  <1>2. AutopilotInv /\ [AutopilotNext]_apVars => AutopilotInv'
    <2> SUFFICES ASSUME AutopilotInv, [AutopilotNext]_apVars PROVE AutopilotInv'
      OBVIOUS
    <2>1. CASE AutopilotNext
      BY <2>1, PilotTypes, PilotSteps DEF AutopilotInv
    <2>2. CASE UNCHANGED apVars
      BY <2>2 DEF apVars, apBackendVars, apMonitorVars, apWorkerVars, AutopilotInv, PilotTyped,
                  KeyFollows, ViewFollows, NewestState
    <2> QED
      BY <2>1, <2>2
  <1> QED
    BY <1>1, <1>2, PTL DEF AutopilotSpec

\* An account whose row says disabled is not traded (setAutopilotState persists
\* to PostgreSQL first, then sets the key, then publishes), for any number of
\* enables, disables, restarts of both sides, late starts and messages.
THEOREM DisabledStaysUntraded == AutopilotSpec => []DisabledIsNotTraded
  <1>1. AutopilotInv => DisabledIsNotTraded
    BY DEF AutopilotInv, ViewFollows, NewestState, DisabledIsNotTraded, AutopilotQuiet
  <1> QED
    BY <1>1, PilotInvariant, PTL
=============================================================================
