---------------------------- MODULE LanguageModel ----------------------------
(***************************************************************************)
(* The client of the language model (agents/llm_client.py) that all agents *)
(* share: budgets of the day, requests per minute and retries.  Budgets    *)
(* and requests are counted in Redis, per agent and for all of them.  An   *)
(* agent has one call at a time.                                           *)
(*                                                                         *)
(* What is done between two suspensions of the event loop is one step;     *)
(* only Redis, whose keys expire by the clock, comes in between.           *)
(***************************************************************************)
EXTENDS Integers, FiniteSets

CONSTANTS Callers,        \* the agents
          Global,         \* the key of all agents together
          Budget,         \* of each key: daily_budget_usd, global_daily_budget_usd
          PerMinute,      \* of each key: requests_per_minute, global_requests_per_minute
          MaxCost,        \* bound: what one call costs
          ModelRetries,   \* llm_max_retries
          MaxWaits,       \* the rounds for which a call waits for its turn
          MaxCompletions        \* bound: calls

Keys == Callers \cup {Global}

ASSUME CallersAssumption == IsFiniteSet(Callers) /\ Callers # {} /\ Global \notin Callers
ASSUME BudgetAssumption == Budget \in [Keys -> Nat] /\ MaxCost \in Nat \ {0}
ASSUME RateAssumption == PerMinute \in [Keys -> Nat]
ASSUME RoundsAssumption == ModelRetries \in Nat /\ MaxWaits \in Nat \ {0}

VARIABLES
    lmPc,        \* where an agent's call is: none, waiting for its own turn, for that of
                 \* all agents, or at the provider
    lmWaits,     \* the rounds it has waited where it is
    lmTries,     \* attempt
    lmCount,     \* agents:rate: requests counted in the window
    lmTimed,     \* whether that key expires
    lmSpent,     \* agents:budget: spent on the day
    lmCalls,
    lmThrough,   \* history: requests let through in the window
    lmPaid,      \* history: the cost of the day's answers
    lmLost       \* history: a cost of the day could not be counted

lmCall == <<lmPc, lmWaits, lmTries>>
lmWindow == <<lmCount, lmTimed, lmThrough>>
lmDay == <<lmSpent, lmPaid, lmLost>>
lmVars == <<lmCall, lmWindow, lmDay, lmCalls>>

ModelTypeOK ==
    /\ lmPc \in [Callers -> {"none", "own", "all", "provider"}]
    /\ lmWaits \in [Callers -> 0..MaxWaits] /\ lmTries \in [Callers -> 0..ModelRetries]
    /\ lmCount \in [Keys -> Int] /\ lmTimed \in [Keys -> BOOLEAN]
    /\ lmThrough \in [Keys -> Nat]
    /\ lmSpent \in [Keys -> Nat] /\ lmPaid \in [Keys -> Nat]
    /\ lmLost \in BOOLEAN /\ lmCalls \in Nat

ModelInit ==
    /\ lmPc = [c \in Callers |-> "none"]
    /\ lmWaits = [c \in Callers |-> 0] /\ lmTries = [c \in Callers |-> 0]
    /\ lmCount = [k \in Keys |-> 0] /\ lmTimed = [k \in Keys |-> FALSE]
    /\ lmThrough = [k \in Keys |-> 0]
    /\ lmSpent = [k \in Keys |-> 0] /\ lmPaid = [k \in Keys |-> 0]
    /\ lmLost = FALSE /\ lmCalls = 0

-----------------------------------------------------------------------------
\* _check_budget, for the agent and for all of them
WithinBudget(c) == lmSpent[c] < Budget[c] /\ lmSpent[Global] < Budget[Global]

\* The call is at pc, where it has waited for so many rounds.
At(c, pc, waits) ==
    lmPc' = [lmPc EXCEPT ![c] = pc] /\ lmWaits' = [lmWaits EXCEPT ![c] = waits]

Ends(c) == At(c, "none", 0) /\ lmTries' = [lmTries EXCEPT ![c] = 0]

Free(k) == lmCount[k] < PerMinute[k]

\* A round of _acquire_rate_limit for each key of taken, with success, and for those of
\* refused without.  INCR counts, EXPIRE follows where the key has none; that of a refused
\* round may expire before DECR, which makes it anew, below zero and without an end.
Rounds(taken, refused) ==
    \E gone \in SUBSET refused :
       /\ lmCount' = [k \in Keys |-> CASE k \in gone -> -1
                                       [] k \in taken -> lmCount[k] + 1
                                       [] OTHER -> lmCount[k]]
       /\ lmTimed' = [k \in Keys |->
                         k \notin gone /\ (k \in taken \cup refused \/ lmTimed[k])]
       /\ lmThrough' = [k \in Keys |-> CASE k \in gone -> 0
                                         [] k \in taken -> lmThrough[k] + 1
                                         [] OTHER -> lmThrough[k]]

\* From the agent's own turn, through that of all agents, to the provider, or as far as
\* there is a turn.
OwnTurn(c, waits) ==
    \/ Free(c) /\ Free(Global) /\ Rounds({c, Global}, {}) /\ At(c, "provider", 0)
    \/ Free(c) /\ ~Free(Global) /\ Rounds({c}, {Global}) /\ At(c, "all", 1)
    \/ ~Free(c) /\ Rounds({}, {c}) /\ At(c, "own", waits + 1)

GlobalTurn(c, waits) ==
    \/ Free(Global) /\ Rounds({Global}, {}) /\ At(c, "provider", 0)
    \/ ~Free(Global) /\ Rounds({}, {Global}) /\ At(c, "all", waits + 1)

\* Redis fails in a round, before or after it has counted or set an end.
RoundBreaks(c) ==
    \E counted \in SUBSET (IF lmPc[c] = "all" THEN {Global} ELSE {c, Global}) :
    \E timed \in SUBSET counted :
       /\ lmCount' = [k \in Keys |-> IF k \in counted THEN lmCount[k] + 1 ELSE lmCount[k]]
       /\ lmTimed' = [k \in Keys |-> k \in timed \/ lmTimed[k]]
       /\ UNCHANGED lmThrough

\* complete
Completion(c) ==
    /\ lmPc[c] = "none" /\ lmCalls < MaxCompletions
    /\ lmCalls' = lmCalls + 1
    /\ \/ WithinBudget(c) /\ OwnTurn(c, 0)
       \/ WithinBudget(c) /\ RoundBreaks(c) /\ UNCHANGED <<lmPc, lmWaits>>
       \/ ~WithinBudget(c) /\ UNCHANGED <<lmPc, lmWaits, lmWindow>>
    /\ UNCHANGED <<lmTries, lmDay>>

\* A second later the next round, without another look at the budget.
Wait(c) ==
    /\ lmWaits[c] < MaxWaits
    /\ \/ lmPc[c] = "own" /\ OwnTurn(c, lmWaits[c])
       \/ lmPc[c] = "all" /\ GlobalTurn(c, lmWaits[c])
    /\ UNCHANGED <<lmTries, lmDay, lmCalls>>

\* RateLimitExceededError, with the agent's own request counted when it was its turn.
TurnsDown(c) ==
    /\ lmPc[c] \in {"own", "all"} /\ lmWaits[c] = MaxWaits
    /\ Ends(c)
    /\ UNCHANGED <<lmWindow, lmDay, lmCalls>>

\* An exception of Redis is the caller's.
RedisFails(c) ==
    /\ lmPc[c] \in {"own", "all"} /\ lmWaits[c] < MaxWaits
    /\ RoundBreaks(c) /\ Ends(c)
    /\ UNCHANGED <<lmDay, lmCalls>>

\* The provider fails in a way that is retried, after a while, or not.
ProviderFails(c) ==
    /\ lmPc[c] = "provider"
    /\ \/ lmTries[c] < ModelRetries
          /\ lmTries' = [lmTries EXCEPT ![c] = @ + 1] /\ UNCHANGED <<lmPc, lmWaits>>
       \/ Ends(c)
    /\ UNCHANGED <<lmWindow, lmDay, lmCalls>>

\* _increment_budget, both keys in one transaction
Charged(c, cost) ==
    lmSpent' = [k \in Keys |-> IF k \in {c, Global} THEN lmSpent[k] + cost ELSE lmSpent[k]]

\* _parse_response, _record_usage: a cost is counted unless Redis fails or it is not known.
ModelAnswers(c, cost) ==
    /\ lmPc[c] = "provider"
    /\ Ends(c)
    /\ lmPaid' = [k \in Keys |-> IF k \in {c, Global} THEN lmPaid[k] + cost ELSE lmPaid[k]]
    /\ \/ Charged(c, cost) /\ UNCHANGED lmLost
       \/ cost > 0 /\ lmLost' = TRUE /\ UNCHANGED lmSpent
    /\ UNCHANGED <<lmWindow, lmCalls>>

-----------------------------------------------------------------------------
\* A minute after its first request a window ends.
Expire(k) ==
    /\ lmTimed[k]
    /\ lmCount' = [lmCount EXCEPT ![k] = 0] /\ lmTimed' = [lmTimed EXCEPT ![k] = FALSE]
    /\ lmThrough' = [lmThrough EXCEPT ![k] = 0]
    /\ UNCHANGED <<lmCall, lmDay, lmCalls>>

\* The keys of the budgets carry the date.
NewDay ==
    /\ lmSpent' = [k \in Keys |-> 0] /\ lmPaid' = [k \in Keys |-> 0] /\ lmLost' = FALSE
    /\ UNCHANGED <<lmCall, lmWindow, lmCalls>>

ModelNext ==
    \/ \E c \in Callers :
          \/ Completion(c) \/ Wait(c) \/ TurnsDown(c) \/ RedisFails(c) \/ ProviderFails(c)
          \/ \E cost \in 0..MaxCost : ModelAnswers(c, cost)
    \/ \E k \in Keys : Expire(k)
    \/ NewDay

ModelSpec == ModelInit /\ [][ModelNext]_lmVars

-----------------------------------------------------------------------------
\* The budget is looked at before a call and charged after it, by calls of other agents in
\* between, and it may have waited for its turn all the while: what a day costs exceeds a
\* budget by less than one call of each agent that it is of, if every cost is counted.
SpendingIsBounded ==
    ~lmLost => /\ \A c \in Callers : lmPaid[c] < Budget[c] + MaxCost
               /\ lmPaid[Global] < Budget[Global] + Cardinality(Callers) * MaxCost

\* However keys expire and rounds fail, a window lets at most one request too many through.
RateIsBounded == \A k \in Keys : lmThrough[k] <= PerMinute[k] + 1
=============================================================================
