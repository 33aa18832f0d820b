---------------------------- MODULE ConfigLoader ----------------------------
(***************************************************************************)
(* StrategyConfigLoader of the strategy engine: a cache of the strategies  *)
(* of the backend with a TTL, refreshed by the candle thread when it is    *)
(* stale, by a keep-warm thread at intervals, both under a lock and        *)
(* through a circuit breaker, and by a timer thread after the breaker has  *)
(* recovered, under neither.                                               *)
(***************************************************************************)
EXTENDS Naturals

CONSTANTS Catalogue,      \* strategies of the backend
          MaxEdits,       \* bound: changes of the configurations in the backend
          MaxOutages      \* bound: failed requests

ASSUME LoaderAssumption == MaxEdits \in Nat /\ MaxOutages \in Nat

VARIABLES
    remote,      \* strategies as the backend has them: off, live or forward_test
    edits,       \* changes of remote so far
    cache,       \* StrategyConfigLoader._cache, the strategies that are on
    fresh,       \* the cache is younger than its TTL
    breakerOpen, \* the breaker has opened and not closed again
    lock,        \* holder of _refresh_lock
    fetch,       \* _refresh of each thread: asked, answered, or none
    asking,      \* the candle thread is in get_active_strategies
    outages      \* failed requests so far

loaderVars == <<remote, edits, cache, fresh, breakerOpen, lock, fetch, asking, outages>>

Modes == {"off", "live", "forward_test"}
Fetchers == {"candle", "refresh", "timer"}
NothingOn == [s \in Catalogue |-> "off"]
NoFetch == [pc |-> "none", got |-> NothingOn]

LoaderTypeOK ==
    /\ remote \in [Catalogue -> Modes] /\ cache \in [Catalogue -> Modes]
    /\ edits \in 0 .. MaxEdits /\ outages \in 0 .. MaxOutages
    /\ fresh \in BOOLEAN /\ breakerOpen \in BOOLEAN /\ asking \in BOOLEAN
    /\ lock \in {"none", "candle", "refresh"}
    /\ fetch \in [Fetchers -> [pc : {"none", "asked", "got"}, got : [Catalogue -> Modes]]]

LoaderInit ==
    /\ remote \in [Catalogue -> {"off", "live"}] /\ edits = 0
    /\ cache = NothingOn /\ fresh = FALSE /\ breakerOpen = FALSE
    /\ lock = "none" /\ fetch = [t \in Fetchers |-> NoFetch]
    /\ asking = FALSE /\ outages = 0

\* An administrator changes a strategy; configurations that do not parse count as off.
ConfigChanges(s, mode) ==
    /\ edits < MaxEdits /\ remote[s] # mode
    /\ edits' = edits + 1
    /\ remote' = [remote EXCEPT ![s] = mode]
    /\ UNCHANGED <<cache, fresh, breakerOpen, lock, fetch, asking, outages>>

\* The TTL of the cache runs out.
CacheExpires ==
    /\ fresh
    /\ fresh' = FALSE
    /\ UNCHANGED <<remote, edits, cache, breakerOpen, lock, fetch, asking, outages>>

\* Fault: only the candle thread gives the lock back.
UnlockCandle(t) == lock' = IF lock = t /\ t = "candle" THEN "none" ELSE lock

Unlock(t) == lock' = IF lock = t THEN "none" ELSE lock

\* The candle thread goes on with the cached configurations once its refresh is over.
Returns(t) == asking' = (asking /\ t # "candle")

Asks(t) == fetch' = [fetch EXCEPT ![t] = [NoFetch EXCEPT !.pc = "asked"]]
Forgets(t) == fetch' = [fetch EXCEPT ![t] = NoFetch]

\* get_active_strategies for a candle update: with a fresh cache it returns at once.
GetActiveStrategies ==
    /\ ~asking /\ ~fresh
    /\ asking' = TRUE
    /\ UNCHANGED <<remote, edits, cache, fresh, breakerOpen, lock, fetch, outages>>

\* Checked again under the lock: the keep-warm thread may have refreshed meanwhile.
CheckedUnderLock ==
    /\ asking /\ lock = "none" /\ fetch["candle"].pc = "none"
    /\ IF fresh THEN asking' = FALSE /\ UNCHANGED <<lock, fetch>>
       ELSE lock' = "candle" /\ Asks("candle") /\ UNCHANGED asking
    /\ UNCHANGED <<remote, edits, cache, fresh, breakerOpen, outages>>

\* The keep-warm loop takes the lock and calls the breaker.
KeepWarm ==
    /\ fetch["refresh"].pc = "none" /\ lock = "none"
    /\ lock' = "refresh"
    /\ Asks("refresh")
    /\ UNCHANGED <<remote, edits, cache, fresh, breakerOpen, asking, outages>>

\* An open breaker answers with the fallback, which leaves the cache as it is.
BreakerRefuses(t) ==
    /\ t # "timer" /\ fetch[t].pc = "asked" /\ breakerOpen
    /\ Forgets(t) /\ Unlock(t) /\ Returns(t)
    /\ UNCHANGED <<remote, edits, cache, fresh, breakerOpen, outages>>

\* The request fails or times out; the breaker may have had enough.
RefreshFails(t) ==
    /\ fetch[t].pc = "asked"
    /\ outages < MaxOutages /\ outages' = outages + 1
    /\ breakerOpen' \in IF t = "timer" THEN {breakerOpen} ELSE {breakerOpen, TRUE}
    /\ Forgets(t) /\ Unlock(t) /\ Returns(t)
    /\ UNCHANGED <<remote, edits, cache, fresh>>

BackendAnswers(t) ==
    /\ fetch[t].pc = "asked"
    /\ fetch' = [fetch EXCEPT ![t] = [pc |-> "got", got |-> remote]]
    /\ UNCHANGED <<remote, edits, cache, fresh, breakerOpen, lock, asking, outages>>

\* A success of the breaker closes it; closing starts the timer (one at a time here).
TimerStarts(t) == t # "timer" /\ breakerOpen /\ fetch["timer"].pc = "none"

Stores(t) ==
    /\ fetch[t].pc = "got"
    /\ cache' = fetch[t].got /\ fresh' = TRUE
    /\ breakerOpen' = (breakerOpen /\ t = "timer")
    /\ fetch' = [u \in Fetchers |->
                   IF u = t THEN NoFetch
                   ELSE IF u = "timer" /\ TimerStarts(t) THEN [NoFetch EXCEPT !.pc = "asked"]
                   ELSE fetch[u]]
    /\ Unlock(t) /\ Returns(t)
    /\ UNCHANGED <<remote, edits, outages>>

LoaderNext ==
    \/ KeepWarm \/ CacheExpires \/ GetActiveStrategies \/ CheckedUnderLock
    \/ \E t \in Fetchers : BreakerRefuses(t) \/ RefreshFails(t) \/ BackendAnswers(t) \/ Stores(t)
    \/ \E s \in Catalogue, mode \in Modes : ConfigChanges(s, mode)

\* The keep-warm thread waits thirty seconds between two refreshes, so that the candle
\* thread gets the lock; a breaker that refuses lets a request through after its
\* recovery timeout, and requests end within their own.
LoaderFair ==
    /\ WF_loaderVars(KeepWarm) /\ SF_loaderVars(CheckedUnderLock)
    /\ \A t \in Fetchers : SF_loaderVars(BackendAnswers(t)) /\ WF_loaderVars(Stores(t))

LoaderSpec == LoaderInit /\ [][LoaderNext]_loaderVars /\ LoaderFair

-----------------------------------------------------------------------------
\* Once the changes in the backend, which are bounded, are over, the cached configurations
\* become and stay those of the backend, whatever order the answers to the three
\* refreshing threads come in.
ConfigFollowsBackend == <>[](cache = remote)
===============================================================================
