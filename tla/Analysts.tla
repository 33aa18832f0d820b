------------------------------ MODULE Analysts ------------------------------
(***************************************************************************)
(* The research, backtest and forward-test agents (agents/agents/*.py):    *)
(* one instance of one of them that is given one task after the other, in  *)
(* a process that may restart.  Language model, tools, knowledge base and  *)
(* stream answer or fail as they like.  What all four agents promise ends  *)
(* the module; the converter and the client of the model, which they do    *)
(* not share any state with, are modules of their own.                     *)
(*                                                                         *)
(* A hypothesis is told apart by its rules and indicators, a backtest by   *)
(* the iteration that ran it, a metric by what is decided with it.         *)
(***************************************************************************)
EXTENDS Converter, LanguageModel

CONSTANTS Hypotheses,      \* what the model may come up with, the one for an answer that
                           \* cannot be parsed among them
          KnowledgeLimit,  \* the hypotheses that _check_duplicate asks for
          MaxIterations,   \* max_backtest_iterations
          MaxAdvice,       \* bound: suggestions in an analysis
          MaxExtensions,   \* max_extensions
          MaxAnalyses      \* bound: tasks given to the agent

ASSUME HypothesesAssumption == Hypotheses # {}
ASSUME IterationsAssumption == MaxIterations \in Nat \ {0}
ASSUME ExtensionsAssumption == MaxExtensions \in Nat

VARIABLES
    anAgent,     \* which of the three
    anState,     \* its AgentStateMachine
    anPc,        \* how far run() is
    anResult,    \* how the last run ended
    anRuns,
    rsHand,      \* research: the hypothesis in hand
    rsKnown,     \* research: the hypotheses in the knowledge base
    rsSent,      \* research, history: those in the stream
    rsAgain,     \* research, history: those put there more than once
    rsMissed,    \* research, history: those the knowledge base did not take or did not show
    btCount,     \* backtest: iteration_count
    btShown,     \* backtest: the iteration whose result is in hand
    btJudged,    \* backtest: the iteration the analysis in hand is of
    btAdvice,    \* backtest: suggestions not yet tried
    ftDrift,     \* forward test: whether the win rate drifted from the backtest's
    ftUsed,      \* forward test: extensions_used
    ftVerdict,   \* forward test: the recommendation
    ftExact,     \* forward test: the model spelled it as the code does
    ftApproval   \* forward test: what request_approval made of a promotion

anMachine == <<anState, anResult, anPc>>
anTask == <<anAgent, anRuns>>
rsVars == <<rsHand, rsKnown, rsSent, rsAgain, rsMissed>>
btVars == <<btCount, btShown, btJudged, btAdvice>>
ftVars == <<ftDrift, ftUsed, ftVerdict, ftExact, ftApproval>>
anVars == <<anMachine, anTask, rsVars, btVars, ftVars>>

Analysts == {"research", "backtest", "forward_test"}
Verdicts == {"PROMOTE", "EXTEND", "DEMOTE"}

AnalystsTypeOK ==
    /\ anAgent \in Analysts /\ anState \in MachineStates /\ anRuns \in Nat
    /\ anPc \in {"idle", "plan", "market", "formulate", "duplicate", "store",
                 "first", "judge", "rerun", "rejudge", "report",
                 "evaluate", "decide", "publish"}
    /\ anResult \in {"none", "COMPLETED", "FAILED", "raised"}
    /\ rsHand \in Hypotheses
    /\ rsKnown \subseteq Hypotheses /\ rsSent \subseteq Hypotheses
    /\ rsAgain \subseteq Hypotheses /\ rsMissed \subseteq Hypotheses
    /\ btCount \in Nat /\ btShown \in Nat /\ btJudged \in Nat /\ btAdvice \in Nat
    /\ ftDrift \in BOOLEAN /\ ftUsed \in 0..MaxExtensions /\ ftVerdict \in Verdicts
    /\ ftExact \in BOOLEAN /\ ftApproval \in {"none", "granted", "failed"}

AnalystsInit ==
    /\ anAgent \in Analysts
    /\ anState = "IDLE" /\ anPc = "idle" /\ anResult = "none" /\ anRuns = 0
    /\ rsHand = CHOOSE h \in Hypotheses : TRUE
    /\ rsKnown = {} /\ rsSent = {} /\ rsAgain = {} /\ rsMissed = {}
    /\ btCount = 0 /\ btShown = 0 /\ btJudged = 0 /\ btAdvice = 0
    /\ ftDrift = FALSE /\ ftUsed = 0 /\ ftVerdict = "EXTEND" /\ ftExact = TRUE
    /\ ftApproval = "none"

-----------------------------------------------------------------------------
\* An exception in state s reaches run(), whose own transition may raise the next one.
FailFrom(s) ==
    /\ anPc' = "idle"
    /\ IF "FAILED" \in Allowed(s) THEN anState' = "FAILED" /\ anResult' = "FAILED"
       ELSE anState' = s /\ anResult' = "raised"

Moves(s, pc) == anState' = s /\ anPc' = pc /\ UNCHANGED anResult

\* The run returns a result.
Delivers == anState' = "COMPLETED" /\ anPc' = "idle" /\ anResult' = "COMPLETED"

\* A task arrives: of a type the agent does not know, or on a machine that only a restart
\* returns to IDLE, or it is begun.
Assign ==
    /\ anPc = "idle" /\ anRuns < MaxAnalyses
    /\ anRuns' = anRuns + 1
    /\ \/ anResult' = "FAILED" /\ UNCHANGED <<anState, anPc>>
       \/ "PLANNING" \notin Allowed(anState) /\ FailFrom(anState)
       \/ /\ "PLANNING" \in Allowed(anState)
          /\ anState' = "PLANNING" /\ anPc' = "plan" /\ anResult' = "none"
    /\ btCount' = 0 /\ btShown' = 0 /\ btJudged' = 0 /\ btAdvice' = 0
    /\ ftUsed' \in 0..MaxExtensions
    /\ ftDrift' = FALSE /\ ftVerdict' = "EXTEND" /\ ftExact' = TRUE /\ ftApproval' = "none"
    /\ UNCHANGED <<anAgent, rsVars>>

\* The process restarts and the agents are built anew.
RestartProcess ==
    /\ anState # "IDLE"
    /\ anState' = "IDLE" /\ anPc' = "idle" /\ anResult' = "none"
    /\ rsMissed' = rsMissed \cup (IF anPc = "store" THEN {rsHand} ELSE {})
    /\ UNCHANGED <<anTask, rsHand, rsKnown, rsSent, rsAgain, btVars, ftVars>>

\* The context of a task is asked for, and done without when a tool fails.
Plans(pc) == FailFrom("PLANNING") \/ Moves("EXECUTING", pc)

-----------------------------------------------------------------------------
\* A strategy is researched with the model, of the market nothing else is needed.
ResearchPlan ==
    /\ anPc = "plan" /\ anAgent = "research"
    /\ Plans("formulate") \/ Plans("market")
    /\ UNCHANGED <<anTask, rsVars, btVars, ftVars>>

\* What cannot be parsed makes a report that says nothing.
AnalyseMarket ==
    /\ anPc = "market"
    /\ FailFrom("EXECUTING") \/ Delivers
    /\ UNCHANGED <<anTask, rsVars, btVars, ftVars>>

\* _parse_hypothesis
HypothesisRead == rsHand' \in Hypotheses

Formulate ==
    /\ anPc = "formulate"
    /\ \/ FailFrom("EXECUTING") /\ UNCHANGED rsHand
       \/ Moves("REVIEWING", "duplicate") /\ HypothesisRead
    /\ UNCHANGED <<anTask, rsKnown, rsSent, rsAgain, rsMissed, btVars, ftVars>>

\* query_knowledge: as many as asked for, if there are so many, or none when it fails.
Shown == {{}} \cup {s \in SUBSET rsKnown :
                      s = rsKnown \/ (Cardinality(s) = KnowledgeLimit)}

\* _check_duplicate, and what is new is put into the stream, which may fail unnoticed.
FindsDuplicate(shown) == rsHand \in shown /\ Delivers /\ UNCHANGED rsVars

PublishHypothesis(shown) ==
    /\ rsHand \notin shown /\ Moves("REVIEWING", "store")
    /\ \/ UNCHANGED <<rsSent, rsAgain>>
       \/ rsSent' = rsSent \cup {rsHand} /\ rsAgain' = rsAgain \cup (rsSent \cap {rsHand})
    /\ rsMissed' = rsMissed \cup (rsKnown \cap {rsHand})
    /\ UNCHANGED <<rsHand, rsKnown>>

CheckDuplicate ==
    /\ anPc = "duplicate"
    /\ \/ FailFrom("REVIEWING") /\ UNCHANGED rsVars
       \/ \E shown \in Shown : FindsDuplicate(shown) \/ PublishHypothesis(shown)
    /\ UNCHANGED <<anTask, btVars, ftVars>>

\* store_knowledge may fail unnoticed, too.
Stored == \/ rsKnown' = rsKnown \cup {rsHand} /\ UNCHANGED rsMissed
          \/ rsMissed' = rsMissed \cup {rsHand} /\ UNCHANGED rsKnown

StoreHypothesis ==
    /\ anPc = "store" /\ Delivers /\ Stored
    /\ UNCHANGED <<anTask, rsHand, rsSent, rsAgain, btVars, ftVars>>

-----------------------------------------------------------------------------
BacktestPlan ==
    /\ anPc = "plan" /\ anAgent = "backtest"
    /\ Plans("first")
    /\ UNCHANGED <<anTask, rsVars, btVars, ftVars>>

\* The tool run_backtest answers with the result of iteration n.
TestAnswers(n) == btCount' = n /\ btShown' = n

FirstBacktest ==
    /\ anPc = "first"
    /\ \/ FailFrom("EXECUTING") /\ UNCHANGED btVars
       \/ Moves("EXECUTING", "judge") /\ TestAnswers(1) /\ UNCHANGED <<btJudged, btAdvice>>
    /\ UNCHANGED <<anTask, rsVars, ftVars>>

\* _parse_analysis_json, which makes an analysis without suggestions of what it cannot parse.
Analysed == btJudged' = btShown /\ btAdvice' \in 0..MaxAdvice

\* _analyze_results, with suggestions or without; a model that fails is not excused.
\* Optimisation and walk-forward analysis, which follow, change nothing when they fail.
Judge ==
    /\ anPc = "judge"
    /\ \/ FailFrom("EXECUTING") /\ UNCHANGED btVars
       \/ /\ Analysed
          /\ Moves("EXECUTING", IF btAdvice' > 0 /\ btCount < MaxIterations
                                THEN "rerun" ELSE "report")
          /\ UNCHANGED <<btCount, btShown>>
    /\ UNCHANGED <<anTask, rsVars, ftVars>>

\* The loop of _iterate_backtest over the suggestions.  One may be no use; the iteration
\* is counted before its backtest, and the result before stays when that raises.
TrySuggestion ==
    \/ btAdvice' = btAdvice - 1 /\ UNCHANGED <<anMachine, btCount, btShown>>
    \/ btAdvice' = btAdvice - 1 /\ TestAnswers(btCount + 1) /\ UNCHANGED anMachine
    \/ btCount' = btCount + 1 /\ Moves("EXECUTING", "rejudge") /\ UNCHANGED <<btAdvice, btShown>>
    \/ FailFrom("EXECUTING") /\ UNCHANGED <<btAdvice, btCount, btShown>>

Rerun ==
    /\ anPc = "rerun"
    /\ IF btAdvice > 0 /\ btCount < MaxIterations THEN TrySuggestion
       ELSE Moves("EXECUTING", "rejudge") /\ UNCHANGED <<btAdvice, btCount, btShown>>
    /\ UNCHANGED <<anTask, btJudged, rsVars, ftVars>>

\* The result in the end is analysed once more.
Rejudge ==
    /\ anPc = "rejudge"
    /\ \/ FailFrom("EXECUTING") /\ UNCHANGED btJudged
       \/ btJudged' = btShown /\ Moves("EXECUTING", "report")
    /\ UNCHANGED <<anTask, btCount, btShown, btAdvice, rsVars, ftVars>>

\* BacktestAnalysis does not take everything the model may have said.
ReportBacktest ==
    /\ anPc = "report"
    /\ FailFrom("REVIEWING") \/ Delivers
    /\ UNCHANGED <<anTask, rsVars, btVars, ftVars>>

-----------------------------------------------------------------------------
\* A strategy that cannot be deployed is tested under the id of the task.
Deploy ==
    /\ anPc = "plan" /\ anAgent = "forward_test"
    /\ Plans("evaluate")
    /\ UNCHANGED <<anTask, rsVars, btVars, ftVars>>

\* _parse_evaluation_json, _parse_recommendation: what cannot be parsed is an EXTEND.
Assessed == ftDrift' \in BOOLEAN /\ ftVerdict' \in Verdicts /\ ftExact' \in BOOLEAN

\* Events and signals are collected, and the model gives its verdict and the win rate that
\* _detect_drift compares with the backtest's.
Evaluate ==
    /\ anPc = "evaluate"
    /\ \/ (FailFrom("EXECUTING") \/ FailFrom("REVIEWING")) /\ UNCHANGED ftVars
       \/ Moves("REVIEWING", "decide") /\ Assessed /\ UNCHANGED <<ftUsed, ftApproval>>
    /\ UNCHANGED <<anTask, rsVars, btVars>>

\* A strategy that drifted is not promoted, when the model's word is spelled as expected.
Undrifted == IF ftDrift /\ ftExact /\ ftVerdict = "PROMOTE" THEN "EXTEND" ELSE ftVerdict

Recommended ==
    IF Undrifted = "EXTEND" /\ ftUsed >= MaxExtensions THEN "DEMOTE" ELSE Undrifted

\* request_approval grants under full autonomy and fails otherwise, which is logged, as a
\* demotion whose reason is not stored is.
Decide ==
    /\ anPc = "decide"
    /\ \/ FailFrom("REVIEWING") /\ UNCHANGED ftVars
       \/ /\ Moves("REVIEWING", "publish")
          /\ ftVerdict' = Recommended
          /\ ftUsed' = IF Recommended = "EXTEND" THEN ftUsed + 1 ELSE ftUsed
          /\ ftApproval' \in IF Recommended = "PROMOTE" THEN {"granted", "failed"} ELSE {"none"}
          /\ UNCHANGED <<ftDrift, ftExact>>
    /\ UNCHANGED <<anTask, rsVars, btVars>>

ReportForwardTest ==
    /\ anPc = "publish"
    /\ FailFrom("REVIEWING") \/ Delivers
    /\ UNCHANGED <<anTask, rsVars, btVars, ftVars>>

-----------------------------------------------------------------------------
AnalystsNext ==
    \/ Assign \/ RestartProcess
    \/ ResearchPlan \/ AnalyseMarket \/ Formulate \/ CheckDuplicate \/ StoreHypothesis
    \/ BacktestPlan \/ FirstBacktest \/ Judge \/ Rerun \/ Rejudge \/ ReportBacktest
    \/ Deploy \/ Evaluate \/ Decide \/ ReportForwardTest

AnalystsSpec == AnalystsInit /\ [][AnalystsNext]_anVars

-----------------------------------------------------------------------------
\* Retries and restarts put no hypothesis into the stream again unless the knowledge base
\* did not take it or did not show it, or the process died before it was stored.
NothingTwice == rsAgain \subseteq rsMissed

\* A backtest reported as done comes with the analysis of the very result in the report,
\* however many adjusted runs were made and whichever of them failed, and with the number
\* of iterations: at most one of them, the last, did not answer.
AnalysisIsOfResult ==
    (anAgent = "backtest" /\ anPc = "idle" /\ anResult = "COMPLETED")
        => /\ btJudged = btShown /\ btShown > 0
           /\ btCount \in {btShown, btShown + 1} /\ btCount <= MaxIterations

\* A forward test reported as done asked for an approval if it recommends a promotion and
\* not otherwise, and recommends none for a strategy that drifted, nor one extension more
\* than allowed; save that a recommendation not spelled PROMOTE escapes the drift.
VerdictIsFollowed ==
    (anAgent = "forward_test" /\ anPc = "idle" /\ anResult = "COMPLETED")
        => /\ ftApproval # "none" <=> ftVerdict = "PROMOTE"
           /\ (ftVerdict = "PROMOTE" /\ ftExact) => ~ftDrift
           /\ ftVerdict = "EXTEND" => ftUsed \in 1..MaxExtensions

\* What the agents that write no code leave behind.
ReportsAreGrounded == NothingTwice /\ AnalysisIsOfResult /\ VerdictIsFollowed

-----------------------------------------------------------------------------
\* What can be relied on of the agents' work, whatever model, tools, sandbox, knowledge base
\* and Redis do: code and configurations are tested or put back, reports fit what they are
\* about, and the model is neither called nor paid for beyond what the limits leave room for.
SoundWork == EndsChecked /\ ReportsAreGrounded /\ SpendingIsBounded /\ RateIsBounded
=============================================================================
