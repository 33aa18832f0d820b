----------------------------- MODULE Connections -----------------------------
(***************************************************************************)
(* The RPC connections of AccountProvisioner to one account at MetaApi.    *)
(* The calls of the backend (details, positions, symbols, deploy,          *)
(* undeploy, remove) run side by side on one event loop.  Each keeps its   *)
(* connection over several awaits, while _rpc_connections holds the one    *)
(* that the next call will use: an entry is read before an await and       *)
(* replaced or popped after it, without a look at what it has become.      *)
(***************************************************************************)
EXTENDS Naturals

CONSTANTS ConnectionCalls,  \* calls the engine serves at once
          CallsServed,      \* bound: calls
          ConnectionsMade   \* bound: connections made

VARIABLES cnState,   \* the account at MetaApi: "DEPLOYED", "UNDEPLOYED" or "absent"
          cnCache,   \* the connection in _rpc_connections, 0 for none
          cnOpen,    \* connections that are opened and not closed
          cnMade,    \* how many were made: they are numbered
          cnCall,    \* [op, at, conn]: what a call is, where it is, the connection it holds
          cnCalls,
          cnAlone,   \* history: the call under way that no other one has overlapped
          cnStray,   \* history: connections given up while connecting, and those displaced in
                     \* the cache by a deploy or in an overlap of calls
          cnLate     \* history: connections cached while the account was on its way out or gone

cnVars == <<cnState, cnCache, cnOpen, cnMade, cnCall, cnCalls, cnAlone, cnStray, cnLate>>

Resting == [op |-> "none", at |-> "rest", conn |-> 0]

ConnectionsInit ==
  /\ cnState \in {"DEPLOYED", "UNDEPLOYED"}
  /\ cnCache = 0 /\ cnOpen = {} /\ cnMade = 0
  /\ cnCall = [c \in ConnectionCalls |-> Resting] /\ cnCalls = 0
  /\ cnAlone = {} /\ cnStray = {} /\ cnLate = {}

CallAt(c, op, at) == cnCall[c].op = op /\ cnCall[c].at = at
Held(c) == cnCall[c].conn
GoOn(c, at, conn) ==
  /\ cnCall' = [cnCall EXCEPT ![c] = [op |-> cnCall[c].op, at |-> at, conn |-> conn]]
  /\ UNCHANGED cnAlone
CallTo(c, at) == GoOn(c, at, Held(c))
Return(c) == cnCall' = [cnCall EXCEPT ![c] = Resting] /\ cnAlone' = cnAlone \ {c}

\* A connection is usable when the engine has opened and not closed it, dead or not.
Usable == cnCache \in cnOpen

\* get_rpc_connection
Connecting(c, at) ==
  /\ cnMade < ConnectionsMade /\ cnMade' = cnMade + 1
  /\ GoOn(c, at, cnMade + 1)

Under(c) == cnCall[c].op # "none"

BeginCall(c, op, at) ==
  /\ ~Under(c) /\ cnCalls < CallsServed /\ cnCalls' = cnCalls + 1
  /\ cnCall' = [cnCall EXCEPT ![c] = [op |-> op, at |-> at, conn |-> 0]]
  /\ cnAlone' = IF \E d \in ConnectionCalls : Under(d) THEN {} ELSE {c}
  /\ UNCHANGED <<cnState, cnCache, cnOpen, cnMade, cnStray, cnLate>>

-----------------------------------------------------------------------------
(* What the calls are made of.                                             *)

\* get_account: only a deployed account is asked anything.
LookUp(c, op) ==
  /\ CallAt(c, op, "look up")
  /\ \/ cnState = "DEPLOYED" /\ CallTo(c, "take")
     \/ Return(c)
  /\ UNCHANGED <<cnState, cnCache, cnOpen, cnMade, cnCalls, cnStray, cnLate>>

\* The cached connection, or a new one that is not in the cache yet
Take(c, op, connecting) ==
  /\ CallAt(c, op, "take")
  /\ \/ Usable /\ GoOn(c, "ask", cnCache) /\ UNCHANGED cnMade
     \/ ~Usable /\ Connecting(c, connecting)
  /\ UNCHANGED <<cnState, cnCache, cnOpen, cnCalls, cnStray, cnLate>>

Leaving ==
  \/ cnState # "DEPLOYED"
  \/ \E c \in ConnectionCalls, op \in {"undeploy", "remove"} : CallAt(c, op, "leave")

\* A read that no other call overlaps displaces nothing, so that it leaves nothing behind.
Displaces(c, connections) ==
  cnStray' = cnStray \union
    (IF c \in cnAlone /\ cnCall[c].op # "deploy" THEN {} ELSE connections)

\* connect and wait_synchronized: then the connection is cached, whatever is there by now.
\* When one of them raises nobody closes it.
Connect(c, op, at) ==
  /\ CallAt(c, op, at)
  /\ cnOpen' = cnOpen \union {Held(c)} /\ cnCache' = Held(c)
  /\ Displaces(c, {cnCache} \intersect cnOpen)
  /\ cnLate' = IF Leaving THEN cnLate \union {Held(c)} ELSE cnLate
  /\ UNCHANGED <<cnState, cnMade, cnCalls>>

ConnectFails(c, op, at) ==
  /\ CallAt(c, op, at) /\ Return(c)
  /\ cnOpen' \in {cnOpen, cnOpen \union {Held(c)}}
  /\ cnStray' = cnStray \union {Held(c)}
  /\ UNCHANGED <<cnState, cnCache, cnMade, cnCalls, cnLate>>

\* The request is answered, over a connection nobody has closed meanwhile.
CallAnswered(c, op, at) ==
  /\ CallAt(c, op, at) /\ Held(c) \in cnOpen /\ Return(c)
  /\ UNCHANGED <<cnState, cnCache, cnOpen, cnMade, cnCalls, cnStray, cnLate>>

\* Fault: the connection that failed is closed and stays in the cache.
RefusedKeepsEntry(c, op) ==
  /\ CallAt(c, op, "ask") /\ Connecting(c, "reconnect")
  /\ cnOpen' = cnOpen \ {Held(c)} /\ UNCHANGED <<cnCache, cnStray>>
  /\ UNCHANGED <<cnState, cnCalls, cnLate>>

\* A request fails or times out: the entry of the cache is popped, though it may be the
\* connection of another call by now, and the one in hand is closed and replaced.
Refused(c, op) ==
  /\ CallAt(c, op, "ask") /\ Connecting(c, "reconnect")
  /\ cnCache' = 0 /\ cnOpen' = cnOpen \ {Held(c)}
  /\ Displaces(c, {cnCache} \ {0, Held(c)})
  /\ UNCHANGED <<cnState, cnCalls, cnLate>>

\* A second failure is raised.
RefusedAgain(c, op) ==
  /\ CallAt(c, op, "ask again") /\ Return(c)
  /\ UNCHANGED <<cnState, cnCache, cnOpen, cnMade, cnCalls, cnStray, cnLate>>

-----------------------------------------------------------------------------
(* The calls.                                                              *)

Reads(c, op, connecting) ==
  \/ BeginCall(c, op, "look up")
  \/ LookUp(c, op) \/ Take(c, op, connecting)
  \/ Connect(c, op, "connect") /\ CallTo(c, "ask")
  \/ Connect(c, op, "reconnect") /\ CallTo(c, "ask again")
  \/ \E at \in {"connect", "reconnect"} : ConnectFails(c, op, at)
  \/ \E at \in {"ask", "ask again"} : CallAnswered(c, op, at)
  \/ Refused(c, op) \/ RefusedAgain(c, op)

GetDetails(c) == Reads(c, "details", "connect")
GetPositions(c) == Reads(c, "positions", "connect")

\* A new connection is tried three times, and asked once.
GetSymbols(c) ==
  \/ Reads(c, "symbols", "reconnect")
  \/ /\ CallAt(c, "symbols", "reconnect") /\ Connecting(c, "reconnect")
     /\ UNCHANGED <<cnState, cnCache, cnOpen, cnCalls, cnStray, cnLate>>

\* A deployed account gets a new connection, which is cached; to fail at that is no failure.
DeployAgain(c) ==
  \/ BeginCall(c, "deploy", "deploy")
  \/ /\ CallAt(c, "deploy", "deploy")
     /\ \/ cnState # "absent" /\ cnState' = "DEPLOYED" /\ Connecting(c, "connect")
        \/ Return(c) /\ UNCHANGED <<cnState, cnMade>>
     /\ UNCHANGED <<cnCache, cnOpen, cnCalls, cnStray, cnLate>>
  \/ Connect(c, "deploy", "connect") /\ Return(c)
  \/ ConnectFails(c, "deploy", "connect")

\* undeploy and remove begin with the cache, and go on to MetaApi.
Evict(c, op) ==
  /\ CallAt(c, op, "evict") /\ CallTo(c, "leave")
  /\ cnCache' = 0 /\ cnOpen' = cnOpen \ {cnCache}
  /\ UNCHANGED <<cnState, cnMade, cnCalls, cnStray, cnLate>>

Leave(c, op, states) ==
  /\ CallAt(c, op, "leave") /\ Return(c)
  /\ cnState' \in {cnState} \union (IF cnState = "absent" THEN {} ELSE states)
  /\ UNCHANGED <<cnCache, cnOpen, cnMade, cnCalls, cnStray, cnLate>>

UndeployAgain(c) ==
  BeginCall(c, "undeploy", "evict") \/ Evict(c, "undeploy")
  \/ Leave(c, "undeploy", {"UNDEPLOYED"})
RemoveForGood(c) ==
  BeginCall(c, "remove", "evict") \/ Evict(c, "remove")
  \/ Leave(c, "remove", {"UNDEPLOYED", "absent"})

ConnectionsNext ==
  \E c \in ConnectionCalls :
    GetDetails(c) \/ GetPositions(c) \/ GetSymbols(c)
    \/ DeployAgain(c) \/ UndeployAgain(c) \/ RemoveForGood(c)

ConnectionsSpec == ConnectionsInit /\ [][ConnectionsNext]_cnVars

-----------------------------------------------------------------------------
(* Properties.                                                             *)

\* A call never finds a connection in the cache that another one has closed.
CachedIsOpen == cnCache # 0 => Usable

\* No open connection is left behind outside the cache but one that was given up while it was
\* connecting, that a deploy replaced, or that calls in an overlap replaced or popped.
OpenIsOwned == \A n \in cnOpen : n = cnCache \/ n \in cnStray

\* An account that was undeployed or removed has no connection in the cache, but for one of a
\* call that was under way.
GoneIsForgotten == cnState # "DEPLOYED" /\ cnCache # 0 => cnCache \in cnLate

\* "Reuse cached RPC connection if available and still open" and "Evict cached RPC connection"
\* (get_details, undeploy): calls that overlap, fail and replace each other's connection keep
\* the cache fit for the next one.
ConnectionsAreKept == CachedIsOpen /\ OpenIsOwned /\ GoneIsForgotten
=============================================================================
