--------------------------- MODULE GuardedService ---------------------------
(***************************************************************************)
(* What a circuit breaker promises about the service behind it: callers    *)
(* come and go freely until a failed call shuts the service off; from then *)
(* on one caller at a time is let through on trial, and only a trial that  *)
(* succeeds opens the service to everybody again.                          *)
(***************************************************************************)
CONSTANT Callers

VARIABLES
    shut,     \* the service is shut off
    regular,  \* callers inside, let in while it was not
    trial,    \* callers inside, let in on trial
    up        \* calls to the service succeed

vars == <<shut, regular, trial, up>>

Init == shut = FALSE /\ regular = {} /\ trial = {} /\ up \in BOOLEAN

Enter(c) ==
    /\ ~shut /\ c \notin regular \cup trial
    /\ regular' = regular \cup {c}
    /\ UNCHANGED <<shut, trial, up>>

EnterOnTrial(c) ==
    /\ shut /\ trial = {} /\ c \notin regular
    /\ trial' = {c}
    /\ UNCHANGED <<shut, regular, up>>

\* A call that fails may shut the service off, one that succeeds changes nothing.
Leave(c) ==
    /\ c \in regular
    /\ regular' = regular \ {c}
    /\ shut' \in {shut, shut \/ ~up}
    /\ UNCHANGED <<trial, up>>

\* The outcome of the trial decides.
EndTrial(c) ==
    /\ trial = {c}
    /\ trial' = {}
    /\ shut' = ~up
    /\ UNCHANGED <<regular, up>>

Change == up' = ~up /\ UNCHANGED <<shut, regular, trial>>

Next ==
    \/ \E c \in Callers : Enter(c) \/ EnterOnTrial(c) \/ Leave(c) \/ EndTrial(c)
    \/ Change

Spec == Init /\ [][Next]_vars
============================================================================
