------------------------------ MODULE KillSwitch ------------------------------
(***************************************************************************)
(* The kill switch: AdminService of the backend writes it to PostgreSQL,   *)
(* to a Redis key and to a Redis channel, KillSwitchMonitor of the         *)
(* execution engine caches it from the key and follows the channel, the    *)
(* workers ask the monitor before they trade, and a hard activation closes *)
(* the positions of the accounts one after another.                        *)
(***************************************************************************)
EXTENDS Naturals, Sequences

CONSTANTS Admins,         \* requests to the admin service that may overlap
          TradedAccounts, \* active trading accounts, one worker each
          MaxActivations, \* bound: (de)activations
          MaxRestarts,    \* bound: restarts of the engine
          MaxOpen,        \* bound: open positions of an account
          Connection      \* "lossy": the pub/sub connection may break; "steady"

VARIABLES
    ksDb,           \* KillSwitch.isActive in PostgreSQL
    ksKey,          \* the Redis key
    ksReq,          \* request of each admin
    ksRequests,     \* (de)activations so far
    ksChan,         \* messages on their way to the listener
    ksListener,     \* the listener thread: off, on or dead
    ksActive,       \* KillSwitchMonitor._active
    ksInitialized,  \* KillSwitchMonitor._initialized
    ksBound,        \* whether the local variable callbacks of _listen has a value
    ksRestarts,
    ksWorker,       \* a worker is idle or has passed the kill-switch check
    ksOpen,         \* open positions of each account, those an execution opened
                    \* with its retries counted as one
    ksMet,          \* history: admins whose request another one overlapped
    ksFault,        \* history: a Redis call failed, the key was read
                    \* unsubscribed, or requests overlapped
    ksSwept         \* history: accounts swept without failure under the cached switch

ksSwitchVars == <<ksDb, ksKey, ksRequests, ksMet>>
ksEngineVars == <<ksListener, ksActive, ksInitialized, ksBound, ksRestarts>>
ksTradeVars == <<ksWorker, ksOpen>>
ksVars == <<ksSwitchVars, ksReq, ksChan, ksEngineVars, ksTradeVars, ksFault, ksSwept>>

NoRequest == [pc |-> "idle", on |-> FALSE, hard |-> FALSE, todo |-> {}, found |-> 0]

KillSwitchTypeOK ==
    /\ ksDb \in BOOLEAN /\ ksKey \in BOOLEAN /\ ksRequests \in 0 .. MaxActivations
    /\ ksReq \in [Admins -> [pc : {"idle", "set", "publish", "sweep", "close"},
                           on : BOOLEAN, hard : BOOLEAN,
                           todo : SUBSET TradedAccounts, found : 0 .. MaxOpen]]
    /\ ksChan \in Seq(BOOLEAN)
    /\ ksListener \in {"off", "on", "dead"}
    /\ ksActive \in BOOLEAN /\ ksInitialized \in BOOLEAN /\ ksBound \in BOOLEAN
    /\ ksRestarts \in 0 .. MaxRestarts
    /\ ksWorker \in [TradedAccounts -> {"idle", "checked"}]
    /\ ksOpen \in [TradedAccounts -> 0 .. MaxOpen]
    /\ ksMet \subseteq Admins /\ ksFault \in BOOLEAN /\ ksSwept \subseteq TradedAccounts

KillSwitchInit ==
    /\ ksDb = FALSE /\ ksKey = FALSE /\ ksRequests = 0
    /\ ksReq = [a \in Admins |-> NoRequest]
    /\ ksChan = <<>>
    /\ ksListener = "off" /\ ksActive = FALSE /\ ksInitialized = FALSE /\ ksBound = FALSE
    /\ ksRestarts = 0
    /\ ksWorker = [w \in TradedAccounts |-> "idle"]
    /\ ksOpen = [w \in TradedAccounts |-> 0]
    /\ ksMet = {} /\ ksFault = FALSE /\ ksSwept = {}

-----------------------------------------------------------------------------
\* AdminService.  Each await is a step of its own.

\* Admins whose request has saved the row and not yet published.
Between == {a \in Admins : ksReq[a].pc \in {"set", "publish"}}

\* The row is saved first.
RequestSwitch(a, on, hard) ==
    /\ ksReq[a].pc = "idle" /\ ksRequests < MaxActivations
    /\ ksRequests' = ksRequests + 1
    /\ ksDb' = on
    /\ ksReq' = [ksReq EXCEPT ![a] = [NoRequest EXCEPT !.pc = "set", !.on = on, !.hard = hard]]
    /\ ksMet' = IF Between = {} THEN ksMet \ {a} ELSE ksMet \cup Between \cup {a}
    /\ UNCHANGED <<ksKey, ksChan, ksEngineVars, ksTradeVars, ksFault, ksSwept>>

Activate(a, hard) == RequestSwitch(a, TRUE, hard)
Deactivate(a) == RequestSwitch(a, FALSE, FALSE)

SetSwitchKey(a) ==
    /\ ksReq[a].pc = "set"
    /\ ksKey' = ksReq[a].on
    /\ ksReq' = [ksReq EXCEPT ![a].pc = "publish"]
    /\ UNCHANGED <<ksDb, ksRequests, ksMet, ksChan, ksEngineVars, ksTradeVars, ksFault, ksSwept>>

\* Fault: the message is lost although the listener is subscribed.
DropMessage(on) == ksChan

\* Redis forgets a message nobody is subscribed to.
Sent(on) == IF ksListener = "on" THEN Append(ksChan, on) ELSE ksChan

\* The activation is published; a hard one then starts closeAllPositions.
PublishSwitch(a) ==
    /\ ksReq[a].pc = "publish"
    /\ ksChan' = Sent(ksReq[a].on)
    /\ ksReq' = [ksReq EXCEPT ![a] =
                 IF @.hard /\ TradedAccounts # {} THEN [@ EXCEPT !.pc = "sweep", !.todo = TradedAccounts] ELSE NoRequest]
    /\ ksFault' = (a \in ksMet \/ (ksFault /\ ksListener # "on"))
    /\ UNCHANGED <<ksSwitchVars, ksEngineVars, ksTradeVars, ksSwept>>

\* set or publish raises, perhaps after Redis has done it, and the request ends.
RedisFails(a) ==
    /\ \/ /\ ksReq[a].pc = "set"
          /\ ksKey' \in {ksKey, ksReq[a].on}
          /\ ksChan' = ksChan
       \/ /\ ksReq[a].pc = "publish"
          /\ ksChan' \in {ksChan, Sent(ksReq[a].on)}
          /\ ksKey' = ksKey
    /\ ksReq' = [ksReq EXCEPT ![a] = NoRequest]
    /\ ksFault' = TRUE
    /\ UNCHANGED <<ksDb, ksRequests, ksMet, ksEngineVars, ksTradeVars, ksSwept>>

\* closeAllPositions leaves the account it is at behind it.
NextAccount(a, w) ==
    LET rest == ksReq[a].todo \ {w} IN
    ksReq' = [ksReq EXCEPT ![a] = IF rest = {} THEN NoRequest
                                  ELSE [@ EXCEPT !.pc = "sweep", !.todo = rest, !.found = 0]]

Current(a) == CHOOSE w \in ksReq[a].todo : TRUE

\* /workers/close-all-positions of one account reads what is open.
SweepReads(a) ==
    /\ ksReq[a].pc = "sweep"
    /\ ksReq' = [ksReq EXCEPT ![a].pc = "close", ![a].found = ksOpen[Current(a)]]
    /\ ksSwept' = IF ksActive THEN ksSwept \cup {Current(a)} ELSE ksSwept
    /\ UNCHANGED <<ksSwitchVars, ksChan, ksEngineVars, ksTradeVars, ksFault>>

\* It closes what it found and is still open; a close may fail, and nothing
\* retries it.
SweepCloses(a, n) ==
    /\ ksReq[a].pc = "close" /\ n <= ksReq[a].found /\ n <= ksOpen[Current(a)]
    /\ ksOpen' = [ksOpen EXCEPT ![Current(a)] = @ - n]
    /\ ksSwept' = IF n = ksReq[a].found THEN ksSwept ELSE ksSwept \ {Current(a)}
    /\ NextAccount(a, Current(a))
    /\ UNCHANGED <<ksSwitchVars, ksChan, ksEngineVars, ksWorker, ksFault>>

\* The call fails, or the broker answers an error with an empty list.
SweepSkips(a) ==
    /\ ksReq[a].pc = "sweep"
    /\ NextAccount(a, Current(a))
    /\ UNCHANGED <<ksSwitchVars, ksChan, ksEngineVars, ksTradeVars, ksFault, ksSwept>>

-----------------------------------------------------------------------------
\* KillSwitchMonitor.

\* The listener thread that main starts gets its subscription.
SubscribeSwitch ==
    /\ ksListener = "off"
    /\ ksListener' = "on"
    /\ UNCHANGED <<ksSwitchVars, ksReq, ksChan, ksActive, ksInitialized, ksBound, ksRestarts,
                   ksTradeVars, ksFault, ksSwept>>

\* _load_state: a failed read counts as inactive, and is not repeated.
LoadSwitch(works) ==
    /\ ksActive' = (works /\ ksKey)
    /\ ksInitialized' = TRUE
    /\ ksFault' = (ksFault \/ ~works \/ ksListener # "on")
    /\ UNCHANGED <<ksListener, ksBound, ksRestarts>>

\* The body of the loop of _listen.  callbacks is a local variable that only a
\* change of state gives a value: without one the thread ends in its except.
HearSwitch ==
    /\ ksListener = "on" /\ ksChan # <<>>
    /\ LET changed == Head(ksChan) # ksActive IN
       /\ ksActive' = Head(ksChan)
       /\ ksInitialized' = (ksInitialized \/ changed)
       /\ ksBound' = (ksBound \/ changed)
       /\ IF changed \/ ksBound
          THEN ksChan' = Tail(ksChan) /\ ksListener' = "on"
          ELSE ksChan' = <<>> /\ ksListener' = "dead"
    /\ ksSwept' = IF ksActive' THEN ksSwept ELSE {}
    /\ UNCHANGED <<ksSwitchVars, ksReq, ksRestarts, ksTradeVars, ksFault>>

\* Subscribing or listening raises: the thread ends, and nothing starts another.
SwitchListenFails ==
    /\ Connection = "lossy" /\ ksListener # "dead"
    /\ ksListener' = "dead" /\ ksChan' = <<>>
    /\ UNCHANGED <<ksSwitchVars, ksReq, ksActive, ksInitialized, ksBound, ksRestarts,
                   ksTradeVars, ksFault, ksSwept>>

\* The engine stops and starts again; what it had in flight is lost.
Restart ==
    /\ ksRestarts < MaxRestarts
    /\ ksRestarts' = ksRestarts + 1
    /\ ksListener' = "off" /\ ksChan' = <<>>
    /\ ksActive' = FALSE /\ ksInitialized' = FALSE /\ ksBound' = FALSE
    /\ ksWorker' = [w \in TradedAccounts |-> "idle"]
    /\ ksSwept' = {}
    /\ UNCHANGED <<ksSwitchVars, ksReq, ksOpen, ksFault>>

-----------------------------------------------------------------------------
\* Fault: the worker does not ask.
AskNobody(w, works) ==
    /\ ksWorker[w] = "idle"
    /\ ksWorker' = [ksWorker EXCEPT ![w] = "checked"]
    /\ UNCHANGED <<ksSwitchVars, ksEngineVars, ksReq, ksChan, ksOpen, ksFault, ksSwept>>

\* A worker asks is_active, and trades if the answer is no.
IsActive(w, works) ==
    /\ ksWorker[w] = "idle"
    /\ IF ksInitialized THEN works /\ UNCHANGED <<ksEngineVars, ksFault>> ELSE LoadSwitch(works)
    /\ ksWorker' = [ksWorker EXCEPT ![w] = IF ksActive' THEN "idle" ELSE "checked"]
    /\ UNCHANGED <<ksSwitchVars, ksReq, ksChan, ksOpen, ksSwept>>

Trade(w, filled) ==
    /\ ksWorker[w] = "checked"
    /\ ksWorker' = [ksWorker EXCEPT ![w] = "idle"]
    /\ IF filled THEN ksOpen[w] < MaxOpen /\ ksOpen' = [ksOpen EXCEPT ![w] = @ + 1]
                 ELSE UNCHANGED ksOpen
    /\ UNCHANGED <<ksSwitchVars, ksReq, ksChan, ksEngineVars, ksFault, ksSwept>>

KillSwitchNext ==
    \/ \E a \in Admins :
          \/ \E hard \in BOOLEAN : Activate(a, hard)
          \/ Deactivate(a)
          \/ SetSwitchKey(a)
          \/ PublishSwitch(a)
          \/ RedisFails(a)
          \/ SweepReads(a)
          \/ \E n \in 0 .. MaxOpen : SweepCloses(a, n)
          \/ SweepSkips(a)
    \/ SubscribeSwitch
    \/ HearSwitch
    \/ SwitchListenFails
    \/ Restart
    \/ \E w \in TradedAccounts, b \in BOOLEAN : IsActive(w, b) \/ Trade(w, b)

KillSwitchSpec == KillSwitchInit /\ [][KillSwitchNext]_ksVars

-----------------------------------------------------------------------------
\* Nothing is under way, no Redis call went wrong since the last request, and
\* no other request overlapped that one.
SwitchQuiet == Between = {} /\ ksChan = <<>> /\ ksInitialized /\ ~ksFault

\* While the listener lives, what the workers are told is what the key and the
\* row say as soon as a request and its message are done (is_active against
\* activateKillSwitch: the cached value follows the channel, never the key,
\* and the row is saved before either).
Agreement == SwitchQuiet /\ ksListener = "on" => ksActive = ksKey /\ ksKey = ksDb

\* After a hard activation has swept an account whose worker already saw the
\* switch, no position is left but of one signal that had passed the check before
\* (closeAllPositions does not wait for orders in flight).
InFlightOnly == \A w \in ksSwept :
    (\A a \in Admins : ksReq[a].pc = "close" => Current(a) # w) =>
        ksOpen[w] + (IF ksWorker[w] = "checked" THEN 1 ELSE 0) <= 1

\* The docstring of is_active: later calls return the cached value, which is
\* updated by the pub/sub subscriber.
CacheIsUpdated == SwitchQuiet /\ ksListener # "off" => ksActive = ksKey
=============================================================================
