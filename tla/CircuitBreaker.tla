--------------------------- MODULE CircuitBreaker ---------------------------
(***************************************************************************)
(* The backend's CircuitBreaker (circuit-breaker.ts), shared by every      *)
(* caller of one dependency in the Node process: callers interleave only   *)
(* where execute awaits the protected call, so what execute does before    *)
(* the await is one step, and what it does with the outcome another.  A    *)
(* call that gets the fallback changes nothing and is not a step.          *)
(***************************************************************************)
EXTENDS Integers, FiniteSets

CONSTANTS Callers,    \* concurrent calls of execute
          Threshold   \* failureThreshold

ASSUME ThresholdAssumption == Threshold \in Nat \ {0}

VARIABLES
    state,          \* CircuitBreaker.state
    failures,       \* CircuitBreaker.failureCount
    probeInFlight,
    aged,           \* recoveryTimeoutMs have passed since openedAt
    call,           \* per caller: outside, or inside the protected call
    up,             \* the dependency answers
    admitted        \* history: calls let through since the breaker opened

vars == <<state, failures, probeInFlight, aged, call, up, admitted>>

TypeOK ==
    /\ state \in {"closed", "open", "halfOpen"}
    /\ failures \in Nat
    /\ probeInFlight \in BOOLEAN /\ aged \in BOOLEAN /\ up \in BOOLEAN
    /\ call \in [Callers -> {"idle", "normal", "probe"}]
    /\ admitted \in Nat

Init ==
    /\ state = "closed" /\ failures = 0
    /\ probeInFlight = FALSE
    /\ aged = TRUE                     \* openedAt starts at 0
    /\ call = [c \in Callers |-> "idle"]
    /\ up \in BOOLEAN
    /\ admitted = 0

Inside(kind) == {c \in Callers : call[c] = kind}

\* transitionTo: nothing happens when the state does not change.
TransitionTo(new) ==
    /\ state' = new
    /\ IF new = "open" /\ state # "open"
       THEN aged' = FALSE /\ admitted' = 0
       ELSE UNCHANGED <<aged, admitted>>

ExecuteClosed(c) ==
    /\ call[c] = "idle" /\ state = "closed"
    /\ call' = [call EXCEPT ![c] = "normal"]
    /\ UNCHANGED <<state, failures, probeInFlight, aged, up, admitted>>

\* The start of executeHalfOpen: one probe at a time, others get the fallback.
Probe(c) ==
    \/ /\ ~probeInFlight
       /\ probeInFlight' = TRUE
       /\ call' = [call EXCEPT ![c] = "probe"]
       /\ admitted' = admitted + 1
    \/ probeInFlight /\ UNCHANGED <<probeInFlight, call, admitted>>

ExecuteOpen(c) ==
    /\ call[c] = "idle" /\ state = "open" /\ aged
    /\ state' = "halfOpen"
    /\ Probe(c)
    /\ UNCHANGED <<failures, aged, up>>

ExecuteHalfOpen(c) ==
    /\ call[c] = "idle" /\ state = "halfOpen"
    /\ Probe(c)
    /\ UNCHANGED <<state, failures, aged, up>>

OnSuccess(c) ==
    /\ call[c] = "normal" /\ up
    /\ call' = [call EXCEPT ![c] = "idle"]
    /\ failures' = 0
    /\ UNCHANGED <<state, probeInFlight, aged, up, admitted>>

OnFailure(c) ==
    /\ call[c] = "normal" /\ ~up
    /\ call' = [call EXCEPT ![c] = "idle"]
    /\ failures' = failures + 1
    /\ IF failures' >= Threshold THEN TransitionTo("open")
                                 ELSE UNCHANGED <<state, aged, admitted>>
    /\ UNCHANGED <<probeInFlight, up>>

\* Fault: a probe is taken for proof enough that the dependency answers.
OnProbeSuccessAlways(c) ==
    /\ call[c] = "probe"
    /\ call' = [call EXCEPT ![c] = "idle"]
    /\ probeInFlight' = FALSE
    /\ failures' = 0
    /\ TransitionTo("closed")
    /\ UNCHANGED up

OnProbeSuccess(c) ==
    /\ call[c] = "probe" /\ up
    /\ call' = [call EXCEPT ![c] = "idle"]
    /\ probeInFlight' = FALSE
    /\ failures' = 0
    /\ TransitionTo("closed")
    /\ UNCHANGED up

OnProbeFailure(c) ==
    /\ call[c] = "probe" /\ ~up
    /\ call' = [call EXCEPT ![c] = "idle"]
    /\ probeInFlight' = FALSE
    /\ TransitionTo("open")
    /\ UNCHANGED <<failures, up>>

\* Time passes; the dependency fails or comes back.
Elapse == ~aged /\ aged' = TRUE
          /\ UNCHANGED <<state, failures, probeInFlight, call, up, admitted>>

Change == up' = ~up
          /\ UNCHANGED <<state, failures, probeInFlight, aged, call, admitted>>

Execute(c) == ExecuteClosed(c) \/ ExecuteOpen(c) \/ ExecuteHalfOpen(c)
Return(c) == OnSuccess(c) \/ OnFailure(c) \/ OnProbeSuccess(c) \/ OnProbeFailure(c)

Next ==
    \/ \E c \in Callers : Execute(c) \/ Return(c)
    \/ Elapse
    \/ Change

Spec == Init /\ [][Next]_vars

\* Protected calls return (every client in use has a timeout), callers keep
\* calling, time passes.
FairSpec == /\ Spec
            /\ \A c \in Callers : WF_vars(Return(c)) /\ WF_vars(Execute(c))
            /\ WF_vars(Elapse)
----------------------------------------------------------------------------

\* One probe at a time, although the breaker can be reopened by a late failure
\* and half opened again while its probe is still in flight; and the flag that
\* bars the others is never left behind.
AtMostOneProbe ==
    /\ Cardinality(Inside("probe")) <= 1
    /\ probeInFlight <=> Inside("probe") # {}

\* However late the outcomes of calls come in, a breaker that lets every call
\* through has counted fewer failures than its threshold.
ClosedBelowThreshold == state = "closed" => failures < Threshold

\* From one opening to the next, or to the closing, one call goes through.
OneCallPerWindow == state # "closed" => admitted <= 1

\* The breaker keeps the promise of GuardedService.
Guard == INSTANCE GuardedService
             WITH shut <- state # "closed", regular <- Inside("normal"),
                  trial <- Inside("probe")
GuardSpec == Guard!Spec
============================================================================
