-------------------------- MODULE MCStrategyEngine --------------------------
(***************************************************************************)
(* The strategy engine for TLC, its parts side by side: those of the       *)
(* signal path, the agents, and their client of the language model.  One   *)
(* part runs in a behaviour and the others rest, so that their state       *)
(* graphs add up.                                                          *)
(***************************************************************************)
EXTENDS StrategyRunner, ConfigLoader, AlgorithmManager, SignalPersister, Analysts

VARIABLE part

agentVars == <<cvVars, anVars, lmVars>>
engineVars == <<part, runnerVars, loaderVars, algVars, vars, agentVars>>

Runner(A) == part = "runner" /\ A /\ UNCHANGED <<part, loaderVars, algVars, vars, agentVars>>
Loader(A) == part = "loader" /\ A /\ UNCHANGED <<part, runnerVars, algVars, vars, agentVars>>
Algorithms(A) ==
    part = "algorithms" /\ A /\ UNCHANGED <<part, runnerVars, loaderVars, vars, agentVars>>
Persister(A) ==
    part = "persister" /\ A /\ UNCHANGED <<part, runnerVars, loaderVars, algVars, agentVars>>
Breaker(A) == /\ part = "breaker" /\ A
              /\ UNCHANGED <<part, runnerVars, loaderVars, algVars, persisterVars, agentVars>>

signalVars == <<runnerVars, loaderVars, algVars, vars>>
Converts(A) == part = "converter" /\ A /\ UNCHANGED <<part, signalVars, anVars, lmVars>>
Analyses(A) == part = "analysts" /\ A /\ UNCHANGED <<part, signalVars, cvVars, lmVars>>
Prompts(A) == part = "model" /\ A /\ UNCHANGED <<part, signalVars, cvVars, anVars>>

MCBudget == [k \in {"research", "converter", "all"} |-> 2]
MCPerMinute == [k \in {"research", "converter", "all"} |-> 1]

\* A loader that rests has nothing to follow.
EngineInit ==
    /\ part \in {"runner", "loader", "algorithms", "persister", "breaker",
                "converter", "analysts", "model"}
    /\ RunnerInit /\ LoaderInit /\ AlgInit /\ Init
    /\ ConverterInit /\ AnalystsInit /\ ModelInit
    /\ part = "runner" \/ active = [s \in Strategies |-> "live"]
    /\ part = "loader" \/ remote = NothingOn
    /\ part = "algorithms" \/ (by = {"routes"} /\ Present = {})
    /\ part \in {"persister", "breaker"} \/ up
    /\ part = "analysts" \/ anAgent = "research"

EngineNext ==
    \/ Runner(RunnerNext) \/ Loader(LoaderNext) \/ Algorithms(AlgNext)
    \/ Persister(Next) \/ Breaker(BreakerNext)
    \/ Converts(ConverterNext) \/ Analyses(AnalystsNext) \/ Prompts(ModelNext)

EngineSpec ==
    /\ EngineInit /\ [][EngineNext]_engineVars
    /\ WF_engineVars(Loader(KeepWarm)) /\ SF_engineVars(Loader(CheckedUnderLock))
    /\ \A t \in Fetchers : /\ SF_engineVars(Loader(BackendAnswers(t)))
                           /\ WF_engineVars(Loader(Stores(t)))
    /\ WF_engineVars(Algorithms(Watcher))
    /\ \A c \in Clients : WF_engineVars(Algorithms(Client(c)))
    /\ \A t \in Threads : /\ WF_engineVars(Persister(PoolStep(t)))
                           /\ WF_engineVars(Breaker(Inside(t) \/ Leave(t)))
                           /\ WF_engineVars(Breaker(Call(t)))
    /\ WF_engineVars(Breaker(Elapse))
-----------------------------------------------------------------------------
\* ThreadsRecover of the breaker whose threads keep calling, and OneThreadProbes on the way
\* there: the threads of the pool call only when there is a signal.
BreakerRecovers == part = "breaker" => []OneThreadProbes /\ ThreadsRecover
=============================================================================
