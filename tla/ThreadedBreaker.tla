-------------------------- MODULE ThreadedBreaker --------------------------
(***************************************************************************)
(* The CircuitBreaker of the two Python engines (circuit_breaker.py), whose *)
(* execute is called by several threads without a lock: the worker threads *)
(* of the execution engine share one breaker, the two pool threads of the  *)
(* SignalPersister another.  The interpreter (CPython 3.11) can switch     *)
(* threads where a Python function is entered or a call returns, so the    *)
(* code between two such points is one step.                               *)
(***************************************************************************)
EXTENDS Integers, FiniteSets

CONSTANTS Threads,    \* threads that call execute
          Threshold   \* failure_threshold

ASSUME ThresholdAssumption == Threshold \in Nat \ {0}

VARIABLES
    state,     \* CircuitBreaker._state
    failures,  \* CircuitBreaker._failure_count
    flag,      \* CircuitBreaker._probe_in_flight
    aged,      \* recovery_timeout_ms have passed since _opened_at
    up,        \* the protected call succeeds
    pc,        \* where a thread is in execute
    out        \* how its execute ends: returns fn's result, the fallback's, raises

breakerVars == <<state, failures, flag, aged, up, pc, out>>

Steps == {"dispatch", "dispatch2", "normal", "won", "failed", "opening", "stamp",
          "elapsed", "halving", "claim", "probing", "probeWon", "probeLost", "done"}

BreakerTypeOK ==
    /\ state \in {"closed", "open", "halfOpen"}
    /\ failures \in Nat
    /\ flag \in BOOLEAN /\ aged \in BOOLEAN /\ up \in BOOLEAN
    /\ pc \in [Threads -> Steps \cup {"idle"}]
    /\ out \in [Threads -> {"none", "ok", "fallback", "raised"}]

BreakerInit ==
    /\ state = "closed" /\ failures = 0 /\ flag = FALSE
    /\ aged = TRUE                       \* _opened_at = 0.0
    /\ up \in BOOLEAN
    /\ pc = [t \in Threads |-> "idle"]
    /\ out = [t \in Threads |-> "none"]

Goto(t, there) == pc' = [pc EXCEPT ![t] = there]

\* execute is called.
Call(t) ==
    /\ pc[t] = "idle"
    /\ Goto(t, "dispatch")
    /\ UNCHANGED <<state, failures, flag, aged, up, out>>

\* if self._state == CLOSED ...
Dispatch(t) ==
    /\ pc[t] = "dispatch"
    /\ Goto(t, IF state = "closed" THEN "normal" ELSE "dispatch2")
    /\ UNCHANGED <<state, failures, flag, aged, up, out>>

\* ... elif self._state == OPEN: the state is read again.
DispatchAgain(t) ==
    /\ pc[t] = "dispatch2"
    /\ Goto(t, IF state = "open" THEN "elapsed" ELSE "claim")
    /\ UNCHANGED <<state, failures, flag, aged, up, out>>

\* _execute_closed: fn returns, or raises what execute raises in turn.
ReturnClosed(t) ==
    /\ pc[t] = "normal"
    /\ Goto(t, IF up THEN "won" ELSE "failed")
    /\ out' = [out EXCEPT ![t] = IF up THEN "ok" ELSE "raised"]
    /\ UNCHANGED <<state, failures, flag, aged, up>>

OnSuccess(t) ==
    /\ pc[t] = "won"
    /\ failures' = 0
    /\ Goto(t, "done")
    /\ UNCHANGED <<state, flag, aged, up, out>>

OnFailure(t) ==
    /\ pc[t] = "failed"
    /\ failures' = failures + 1
    /\ Goto(t, IF failures' >= Threshold THEN "opening" ELSE "done")
    /\ UNCHANGED <<state, flag, aged, up, out>>

\* _transition_to(new) up to where the new state is in place; the time stamp
\* of an opening follows in a step of its own.
TransitionTo(t, new, there) ==
    /\ state' = new
    /\ Goto(t, IF new = "open" /\ state # "open" THEN "stamp" ELSE there)

Open(t) ==
    /\ pc[t] = "opening"
    /\ TransitionTo(t, "open", "done")
    /\ UNCHANGED <<failures, flag, aged, up, out>>

Stamp(t) ==
    /\ pc[t] = "stamp"
    /\ aged' = FALSE
    /\ Goto(t, "done")
    /\ UNCHANGED <<state, failures, flag, up, out>>

\* _execute_open: fall back, or go on to the half-open state.
CheckElapsed(t) ==
    /\ pc[t] = "elapsed"
    /\ \/ aged /\ Goto(t, "halving") /\ UNCHANGED out
       \/ ~aged /\ Goto(t, "done") /\ out' = [out EXCEPT ![t] = "fallback"]
    /\ UNCHANGED <<state, failures, flag, aged, up>>

HalfOpen(t) ==
    /\ pc[t] = "halving"
    /\ TransitionTo(t, "halfOpen", "claim")
    /\ UNCHANGED <<failures, flag, aged, up, out>>

\* _execute_half_open: no call between the test of the flag and its setting.
Claim(t) ==
    /\ pc[t] = "claim"
    /\ \/ ~flag /\ flag' = TRUE /\ Goto(t, "probing") /\ UNCHANGED out
       \/ flag /\ Goto(t, "done") /\ out' = [out EXCEPT ![t] = "fallback"]
          /\ UNCHANGED flag
    /\ UNCHANGED <<state, failures, aged, up>>

\* Fault: the flag is put down only when the probe succeeds.
ReturnProbeKeepsFlag(t) ==
    /\ pc[t] = "probing"
    /\ flag' = (flag /\ ~up)
    /\ Goto(t, IF up THEN "probeWon" ELSE "probeLost")
    /\ out' = [out EXCEPT ![t] = IF up THEN "ok" ELSE "fallback"]
    /\ UNCHANGED <<state, failures, aged, up>>

\* The probe returns or raises, and the flag is put down at once.
ReturnProbe(t) ==
    /\ pc[t] = "probing"
    /\ flag' = FALSE
    /\ Goto(t, IF up THEN "probeWon" ELSE "probeLost")
    /\ out' = [out EXCEPT ![t] = IF up THEN "ok" ELSE "fallback"]
    /\ UNCHANGED <<state, failures, aged, up>>

OnProbeSuccess(t) ==
    /\ pc[t] = "probeWon"
    /\ failures' = 0
    /\ TransitionTo(t, "closed", "done")
    /\ UNCHANGED <<flag, aged, up, out>>

OnProbeFailure(t) ==
    /\ pc[t] = "probeLost"
    /\ TransitionTo(t, "open", "done")
    /\ UNCHANGED <<failures, flag, aged, up, out>>

\* execute is left.
Leave(t) ==
    /\ pc[t] = "done"
    /\ Goto(t, "idle")
    /\ out' = [out EXCEPT ![t] = "none"]
    /\ UNCHANGED <<state, failures, flag, aged, up>>

Elapse ==
    /\ ~aged
    /\ aged' = TRUE
    /\ UNCHANGED <<state, failures, flag, up, pc, out>>

Change == up' = ~up /\ UNCHANGED <<state, failures, flag, aged, pc, out>>

\* What execute does between being called and being left.
Inside(t) ==
    \/ Dispatch(t) \/ DispatchAgain(t) \/ ReturnClosed(t) \/ OnSuccess(t)
    \/ OnFailure(t) \/ Open(t) \/ Stamp(t) \/ CheckElapsed(t) \/ HalfOpen(t)
    \/ Claim(t) \/ ReturnProbe(t) \/ OnProbeSuccess(t) \/ OnProbeFailure(t)

BreakerNext ==
    \/ \E t \in Threads : Call(t) \/ Inside(t) \/ Leave(t)
    \/ Elapse
    \/ Change

BreakerSpec == BreakerInit /\ [][BreakerNext]_breakerVars

----------------------------------------------------------------------------

\* Whatever the threads' timing, one of them probes at a time, and the flag
\* that sends the others to the fallback is up exactly while one does.
OneThreadProbes ==
    /\ Cardinality({t \in Threads : pc[t] = "probing"}) <= 1
    /\ flag <=> \E t \in Threads : pc[t] = "probing"

\* A breaker whose dependency answers for good closes for good, although a
\* thread that saw it open may half open it again after another closed it.
ThreadsRecover == <>[]up => <>[](state = "closed")
============================================================================
