----------------------------- MODULE MCControls -----------------------------
(***************************************************************************)
(* The controls of trading for TLC, three components side by side: a       *)
(* worker under its gates, the kill switch, and the autopilot.  One of     *)
(* them runs in a behaviour and the others rest, so that their state       *)
(* graphs add up.                                                          *)
(***************************************************************************)
EXTENDS MCAccountWorker, KillSwitch, Autopilot

CONSTANTS b1, b2        \* accounts under the kill switch

TwoAccounts == {b1, b2}

VARIABLE part           \* the component that runs

controlVars == <<part, vars, ksVars, apVars>>

Work(A) == part = "worker" /\ A /\ UNCHANGED <<part, ksVars, apVars>>
Switch(A) == part = "kill switch" /\ A /\ UNCHANGED <<part, vars, apVars>>
Pilot(A) == part = "autopilot" /\ A /\ UNCHANGED <<part, vars, ksVars>>

ControlInit ==
    /\ part \in {"worker", "kill switch", "autopilot"}
    /\ Init /\ KillSwitchInit /\ AutopilotInit
    /\ part = "autopilot" \/ ~apDb

ControlNext == Work(Next) \/ Switch(KillSwitchNext) \/ Pilot(AutopilotNext)

\* The fairness of AccountWorker's FairSpec and of Autopilot's.
ControlSpec ==
    /\ ControlInit /\ [][ControlNext]_controlVars
    /\ \A w \in Workers : WF_controlVars(Work(Cycle(w)))
    /\ WF_controlVars(Pilot(Save))
    /\ WF_controlVars(Pilot(\E b \in BOOLEAN : SetStateKey(b) \/ PublishState(b) \/ SyncWorker(b)))
    /\ WF_controlVars(Pilot(\E b \in BOOLEAN : Fetch(b) \/ Reconcile(b)))
    /\ WF_controlVars(Pilot(SupervisorStarts))
=============================================================================
