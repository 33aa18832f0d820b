------------------------------ MODULE MCOrders ------------------------------
(***************************************************************************)
(* The way of an order for TLC, six components side by side: two worker    *)
(* threads of one account, two threads that send orders through the shared *)
(* broker clients, the monitor of the position an order opened, the store  *)
(* of the events that are published on the way, the accounts orders are    *)
(* placed for, and the connections to one of them.  One component runs in  *)
(* a behaviour and the others rest, so that their state graphs add up.     *)
(***************************************************************************)
EXTENDS MCAccountWorker, MCPositions, Broker, EventStore, Accounts, Connections

CONSTANTS b1, b2   \* accounts of the threads that use the broker clients

VARIABLE part

\* Two workers of one account: the one that runs and its successor.
OwnerOfBoth == (w1 :> a1) @@ (w2 :> a1)

\* One login at each provider.
TwoLogins == {[name |-> "login", provider |-> "metaapi"], [name |-> "login", provider |-> "deriv"]}

\* One account at each provider.
ThreadAccounts == [thread1 |-> b1, thread2 |-> b2]
AskedProviders == (b1 :> None) @@ (b2 :> "metaapi")

accountVars == <<acVars, cnVars>>
orderVars == <<part, vars, monitorVars, brVars, evVars, accountVars>>

\* Events of two signals; of an agent, whose type the backend does not know; and of the controls,
\* whose sequence number is the time, which the column is too narrow for.
SomeEvents ==
    {SignalGenerated("signal"), SignalGenerated("other"), AgentLifecycleChanged("agent"),
     KillSwitchActivated(3), AutopilotStateChanged("autopilot:master", 3)}

\* What rests has one initial state.
OrderInit ==
    /\ part \in {"workers", "broker", "monitor", "events", "accounts", "connections"}
    /\ Init /\ BrokerInit /\ MonitorInit /\ EventStoreInit /\ AccountsInit /\ ConnectionsInit
    /\ part = "monitor" \/ (long /\ rules = Default /\ row = "filled")
    /\ part = "connections" \/ cnState = "DEPLOYED"

OrderNext ==
    /\ UNCHANGED part
    /\ \/ /\ part = "workers" /\ Next
          /\ UNCHANGED <<monitorVars, brVars, evVars, accountVars>>
       \/ /\ part = "broker" /\ BrokerNext
          /\ UNCHANGED <<vars, monitorVars, evVars, accountVars>>
       \/ /\ part = "monitor" /\ MonitorNext
          /\ UNCHANGED <<vars, brVars, evVars, accountVars>>
       \/ /\ part = "events" /\ EventStoreNext
          /\ UNCHANGED <<vars, monitorVars, brVars, accountVars>>
       \/ /\ part = "accounts" /\ AccountsNext
          /\ UNCHANGED <<vars, monitorVars, brVars, evVars, cnVars>>
       \/ /\ part = "connections" /\ ConnectionsNext
          /\ UNCHANGED <<vars, monitorVars, brVars, evVars, acVars>>

OrderSpec == OrderInit /\ [][OrderNext]_orderVars
=============================================================================
