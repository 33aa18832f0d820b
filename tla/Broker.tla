-------------------------------- MODULE Broker --------------------------------
(***************************************************************************)
(* The trade executor and the broker clients of the execution engine       *)
(* (executor/trade_executor.py, executor/clients/).  The worker threads    *)
(* share one TradeExecutor and, through its router, one client object per  *)
(* provider, each with one connection.  modify_order and close_position    *)
(* are called without an instrument and use the legacy client.             *)
(*                                                                         *)
(* A call of a client is one step for each request it sends; threads       *)
(* interleave between requests.  No exception leaves _execute_broker_call, *)
(* so the circuit breaker around it counts successes only, stays closed    *)
(* and is left out; so are events, prices and latencies.                   *)
(***************************************************************************)
EXTENDS Naturals, FiniteSets, Sequences

CONSTANTS Callers,         \* threads that trade, one account each
          BrokerAccounts,
          AccountOf,       \* AccountOf[t]: the account thread t trades for
          Override,        \* Override[a]: provider account a asks for, or None
          Category,        \* default provider of the instruments traded
          LegacyKind,      \* provider of the legacy client
          GlobalToken,     \* account of DERIV_API_TOKEN, or None
          None,
          MaxCalls         \* bound on the calls of a thread

Providers == {"deriv", "metaapi"}
MaxRetries == 3

ASSUME BrokerAssumption ==
  /\ AccountOf \in [Callers -> BrokerAccounts]
  /\ Override \in [BrokerAccounts -> Providers \cup {None}]
  /\ Category \in Providers /\ LegacyKind \in Providers /\ None \notin Providers
  /\ BrokerAccounts \intersect {"closed", "anonymous"} = {}

VARIABLES brChosen,   \* brChosen[c]: account client c believes in (_account, _active_token)
          brSession,  \* brSession[c]: account its connection serves, or "closed", "anonymous"
          brJob,      \* what each thread is about
          brCalls,    \* calls made by each thread
          brOrders,   \* positions at the brokers, in the order they were opened
          brAnswers   \* results returned to the callers

brVars == <<brChosen, brSession, brJob, brCalls, brOrders, brAnswers>>

Clients == Providers \cup {"legacy"}
Kind(c) == IF c = "legacy" THEN LegacyKind ELSE c
Home(a) == IF Override[a] # None THEN Override[a] ELSE Category
Idle == [step |-> "idle", kind |-> "open", tries |-> 0, call |-> 0, target |-> 0]

BrokerInit ==
  /\ brChosen = [c \in Clients |-> None]
  /\ brSession = [c \in Clients |-> "closed"]
  /\ brJob = [t \in Callers |-> Idle]
  /\ brCalls = [t \in Callers |-> 0]
  /\ brOrders = <<>>
  /\ brAnswers = {}

\* Fault: the account's own provider is not asked for
RouteByCategory(t) == IF brJob[t].kind = "open" THEN Category ELSE "legacy"

\* _resolve_client, resolve_provider
Route(t) == IF brJob[t].kind = "open" THEN Home(AccountOf[t]) ELSE "legacy"

JobAt(t, step) == brJob[t].step = step
JobTo(t, step) == brJob' = [brJob EXCEPT ![t].step = step]
Link(c, a, s) == brChosen' = [brChosen EXCEPT ![c] = a] /\ brSession' = [brSession EXCEPT ![c] = s]
Unlinked == UNCHANGED <<brChosen, brSession>>
NoOrder == UNCHANGED brOrders

\* The call ends with a result for its caller.
Answer(t, status, order) ==
  /\ brAnswers' = brAnswers \cup
       {[thread |-> t, call |-> brJob[t].call, kind |-> brJob[t].kind,
         status |-> status, order |-> order]}
  /\ brJob' = [brJob EXCEPT ![t] = Idle]
  /\ UNCHANGED brCalls

\* An exception is caught and the request repeated, three times at most.
Raises(t) ==
  IF brJob[t].tries + 1 < MaxRetries
  THEN brJob' = [brJob EXCEPT ![t].tries = @ + 1] /\ UNCHANGED <<brCalls, brAnswers>>
  ELSE Answer(t, "error", 0)

(***************************************************************************)
(* execute, modify_order, close_position: resolve the client.              *)
(***************************************************************************)
BeginJob(t, kind, target) ==
  /\ JobAt(t, "idle")
  /\ brCalls[t] < MaxCalls
  /\ brCalls' = [brCalls EXCEPT ![t] = @ + 1]
  /\ brJob' = [brJob EXCEPT ![t] =
       [step |-> "connect", kind |-> kind, tries |-> 0, call |-> brCalls[t] + 1, target |-> target]]
  /\ UNCHANGED <<brChosen, brSession, brOrders, brAnswers>>

ExecuteOrder(t) == BeginJob(t, "open", 0)
ModifyOrder(t) == \E i \in DOMAIN brOrders : brOrders[i].open /\ BeginJob(t, "modify", i)
CloseOrder(t) == \E i \in DOMAIN brOrders : brOrders[i].open /\ BeginJob(t, "close", i)

Connected(t) ==
  /\ brJob' = [brJob EXCEPT ![t].step = "request", ![t].tries = 0]
  /\ UNCHANGED <<brCalls, brAnswers>>
ConnectRefused(t) == Answer(t, "error", 0)   \* connect returns False

(***************************************************************************)
(* MetaApiForexClient.connect, repeated by _connect_with_retry.  _account  *)
(* is set before the account is deployed and connected to.                 *)
(***************************************************************************)
CanReuse(c, a) == brChosen[c] = a /\ brSession[c] # "closed"

MetaConnects(t, c, a) ==
  /\ IF CanReuse(c, a) THEN Unlinked ELSE Link(c, a, a)
  /\ Connected(t)

MetaFails(t, c, a) ==
  /\ ~CanReuse(c, a)
  /\ \/ Unlinked                  \* get_account
     \/ Link(c, a, brSession[c])    \* deploy
     \/ Link(c, a, a)             \* the new connection synchronizes late
  /\ Raises(t)

MetaConnect(t, c, a) ==
  IF Home(a) = "metaapi"
  THEN MetaConnects(t, c, a) \/ MetaFails(t, c, a)
  ELSE Unlinked /\ Raises(t)      \* no such MetaApi account

(***************************************************************************)
(* DerivSyntheticClient.  An answer to authorize that is an error is not   *)
(* looked at; a stale socket is replaced.                                  *)
(***************************************************************************)
Authorize(c, a, ok) ==
  \/ ok /\ Link(c, a, a)                          \* granted
  \/ ok /\ Link(c, a, brSession[c])                 \* an error, taken for an answer
  \/ ~ok /\ \E s \in {brSession[c], a} : Link(c, brChosen[c], s)   \* no answer in time

\* _ensure_connected
EnsureConnected(c, token, ok) ==
  \/ ok /\ brSession[c] # "closed" /\ Unlinked
  \/ ok /\ token # None /\ \E s \in {token, "anonymous"} : Link(c, token, s)
  \/ ok /\ token = None /\ Link(c, None, "anonymous")
  \/ ~ok /\ Link(c, None, "closed")
  \/ ~ok /\ token # None /\ \E s \in {token, "anonymous"} : Link(c, None, s)

\* connect_with_token, and connect for an account of another provider
DerivLogin(c, a, ok) ==
  IF Home(a) # "deriv" THEN EnsureConnected(c, GlobalToken, ok)
  ELSE IF brChosen[c] # a /\ brSession[c] # "closed" THEN Authorize(c, a, ok)
  ELSE EnsureConnected(c, a, ok)

DerivConnect(t, c, a) ==
  \/ DerivLogin(c, a, TRUE) /\ Connected(t)
  \/ DerivLogin(c, a, FALSE) /\ ConnectRefused(t)

ConnectClient(t) ==
  /\ JobAt(t, "connect")
  /\ IF Kind(Route(t)) = "metaapi"
     THEN MetaConnect(t, Route(t), AccountOf[t])
     ELSE DerivConnect(t, Route(t), AccountOf[t])
  /\ NoOrder

(***************************************************************************)
(* The request.  Deriv's client first sees to its socket (the quote that   *)
(* is fetched before an order does the same) and, if it is gone, opens one *)
(* with the constructor's token.                                           *)
(***************************************************************************)
Prepare(t) ==
  LET c == Route(t)
  IN  /\ JobAt(t, "request")
      /\ \/ Kind(c) = "metaapi" /\ Unlinked /\ JobTo(t, "send") /\ UNCHANGED <<brCalls, brAnswers>>
         \/ /\ Kind(c) = "deriv" /\ EnsureConnected(c, GlobalToken, TRUE)
            /\ JobTo(t, "send") /\ UNCHANGED <<brCalls, brAnswers>>
         \/ /\ Kind(c) = "deriv" /\ EnsureConnected(c, GlobalToken, FALSE)
            /\ IF brJob[t].kind = "open" THEN Raises(t) ELSE Answer(t, "error", 0)
      /\ NoOrder

\* The broker carries the request out for the account of the connection.
Opens(t) ==
  brOrders' = Append(brOrders, [thread |-> t, call |-> brJob[t].call,
                            account |-> brSession[Route(t)], open |-> TRUE, moved |-> FALSE])
Touches(t) ==
  LET i == brJob[t].target
  IN  /\ brOrders[i].open /\ brOrders[i].account = brSession[Route(t)]
      /\ brOrders' = IF brJob[t].kind = "close" THEN [brOrders EXCEPT ![i].open = FALSE]
                   ELSE [brOrders EXCEPT ![i].moved = TRUE]

CarriedOut(t) ==
  /\ brSession[Route(t)] \in BrokerAccounts
  /\ IF brJob[t].kind = "open" THEN Opens(t) ELSE Touches(t)

Served(t) == IF brJob[t].kind = "open" THEN Len(brOrders) + 1 ELSE brJob[t].target

\* The broker answers: the order is filled, or refused with an error.
Succeeds(t) ==
  /\ JobAt(t, "send")
  /\ CarriedOut(t)
  /\ Answer(t, "filled", Served(t))
  /\ Unlinked

BrokerRejects(t) ==
  /\ JobAt(t, "send")
  /\ NoOrder
  /\ Answer(t, "rejected", 0)
  /\ Unlinked

\* No answer, whether or not the request was carried out: MetaApi's client
\* raises, Deriv's reports a failure.  execute alone repeats a request.
\* Fault: Deriv's client is taken to raise as well
RaisesAlways(t) == brJob[t].kind = "open" /\ brJob[t].tries + 1 < MaxRetries

SendsAgain(t) ==
  /\ Kind(Route(t)) = "metaapi"
  /\ brJob[t].kind = "open" /\ brJob[t].tries + 1 < MaxRetries

GetsNoAnswer(t) ==
  /\ JobAt(t, "send")
  /\ CarriedOut(t) \/ NoOrder
  /\ IF SendsAgain(t)
     THEN /\ brJob' = [brJob EXCEPT ![t].step = "request", ![t].tries = @ + 1]
          /\ UNCHANGED <<brCalls, brAnswers>>
     ELSE Answer(t, IF Kind(Route(t)) = "deriv" THEN "rejected" ELSE "error", 0)
  /\ Unlinked

\* Deriv closes a socket at any time.
SocketCloses(c) ==
  /\ Kind(c) = "deriv"
  /\ brSession' = [brSession EXCEPT ![c] = "closed"]
  /\ UNCHANGED <<brChosen, brJob, brCalls, brOrders, brAnswers>>

ThreadSteps(t) == ConnectClient(t) \/ Prepare(t) \/ Succeeds(t) \/ BrokerRejects(t) \/ GetsNoAnswer(t)

BrokerNext ==
  \/ \E t \in Callers : ExecuteOrder(t) \/ ModifyOrder(t) \/ CloseOrder(t) \/ ThreadSteps(t)
  \/ \E c \in Clients : brSession[c] # "closed" /\ SocketCloses(c)

BrokerSpec == BrokerInit /\ [][BrokerNext]_brVars

(***************************************************************************)
(* Properties.                                                             *)
(***************************************************************************)

OrdersOf(t, n) == {i \in DOMAIN brOrders : brOrders[i].thread = t /\ brOrders[i].call = n}

\* However often answers are lost, a signal has at most one position at Deriv, whose
\* client turns a lost answer into a failure, and three at MetaApi, where it is sent again.
BoundedPositions ==
  \A t \in Callers, n \in 1..MaxCalls :
    Cardinality(OrdersOf(t, n)) <= IF Home(AccountOf[t]) = "deriv" THEN 1 ELSE MaxRetries

\* An account that shares its provider's client with no other gets its own orders
\* only: lost sockets, failed logins and the other clients' sessions redirect none.
Unshared(a) == \A b \in BrokerAccounts : Home(b) = Home(a) => b = a
RightAccount ==
  \A i \in DOMAIN brOrders :
    LET a == AccountOf[brOrders[i].thread]
    IN  (Unshared(a) /\ GlobalToken \in {None, a}) => brOrders[i].account = a

\* metaapi.py, _async_connect, "Skip if already connected to this account": a connection
\* that is used again serves the account it is used for.
ReuseServesAccount ==
  \A t \in Callers :
    LET c == Route(t)
    IN  (JobAt(t, "connect") /\ Kind(c) = "metaapi" /\ CanReuse(c, AccountOf[t])) => brSession[c] = AccountOf[t]

================================================================================
