------------------------------ MODULE Converter ------------------------------
(***************************************************************************)
(* The converter agent (agents/agents/converter_agent.py): one instance    *)
(* that is given one task after the other, to write a strategy algorithm,  *)
(* to refine one, or to refine a strategy's configuration.  Language model,*)
(* tools and sandbox answer or fail as they like.                          *)
(*                                                                         *)
(* Code is told apart only by what the file on disk is to the code in      *)
(* hand, and a configuration by whether a backtest has been run with it.   *)
(***************************************************************************)
EXTENDS Naturals

CONSTANTS MaxConversionRetries,   \* max_conversion_retries
          MaxRuns                 \* bound: tasks given to the agent

ASSUME ConversionRetriesAssumption == MaxConversionRetries \in Nat

VARIABLES cvState,    \* the agent's own AgentStateMachine
          cvKind,     \* the task it was given last
          cvPc,       \* how far run() is
          cvTry,      \* retry_count
          cvFile,     \* the algorithm's file: as the task found it, the code in hand,
                      \* an earlier attempt, or cut short by a write that failed
          cvValid,    \* validation_passed
          cvSmoke,    \* smoke_test_passed
          cvBackup,   \* the knowledge base has the backup
          cvConfig,   \* the strategy's configuration
          cvResult,   \* how the last run ended
          cvRuns,
          cvTested,   \* history: the sandbox has passed the file as it is
          cvLost      \* history: a write to the file or the configuration that the agent
                      \* takes for done was not, or the reverse

cvMachine == <<cvState, cvResult>>
cvCodeVars == <<cvFile, cvValid, cvSmoke, cvTested>>
cvTask == <<cvKind, cvBackup, cvRuns>>
cvVars == <<cvMachine, cvTask, cvCodeVars, cvPc, cvTry, cvConfig, cvLost>>

Kinds == {"convert", "refine", "config"}
MachineStates == {"IDLE", "PLANNING", "EXECUTING", "REVIEWING", "COMPLETED", "FAILED"}
ConverterSteps == {"idle", "plan", "write", "validate", "smoke", "review", "apply", "trial",
          "propose", "measure", "finish"}

ConverterTypeOK ==
    /\ cvState \in MachineStates /\ cvKind \in Kinds /\ cvPc \in ConverterSteps
    /\ cvTry \in 0..MaxConversionRetries
    /\ cvFile \in {"original", "current", "older", "torn"}
    /\ cvValid \in BOOLEAN /\ cvSmoke \in BOOLEAN /\ cvBackup \in BOOLEAN
    /\ cvConfig \in {"original", "proposed", "tested"}
    /\ cvResult \in {"none", "COMPLETED", "FAILED", "ROLLED_BACK", "raised"}
    /\ cvRuns \in Nat /\ cvTested \in BOOLEAN /\ cvLost \in BOOLEAN

ConverterInit ==
    /\ cvState = "IDLE" /\ cvKind = "convert" /\ cvPc = "idle" /\ cvTry = 0
    /\ cvFile = "original" /\ cvValid = FALSE /\ cvSmoke = FALSE /\ cvBackup = FALSE
    /\ cvConfig = "original" /\ cvResult = "none" /\ cvRuns = 0
    /\ cvTested = FALSE /\ cvLost = FALSE

\* VALID_TRANSITIONS, without waiting and pausing, which nothing asks of this machine
Allowed(s) ==
    CASE s = "IDLE" -> {"PLANNING"}
      [] s = "PLANNING" -> {"EXECUTING", "IDLE"}
      [] s = "EXECUTING" -> {"REVIEWING", "FAILED", "IDLE"}
      [] s = "REVIEWING" -> {"COMPLETED", "PLANNING", "FAILED", "IDLE"}
      [] OTHER -> {"IDLE"}

\* An exception in state s reaches run(), whose own transition may raise the next one.
RaiseFrom(s) ==
    /\ cvPc' = "idle"
    /\ IF "FAILED" \in Allowed(s) THEN cvState' = "FAILED" /\ cvResult' = "FAILED"
       ELSE cvState' = s /\ cvResult' = "raised"

\* A run returns: the machine is left in s.
Return(s, result) == cvPc' = "idle" /\ cvState' = s /\ cvResult' = result

\* What follows a failed attempt: the loop ends at pc, or goes round from there.
GiveUp(pc) == cvTry >= MaxConversionRetries /\ cvPc' = pc /\ UNCHANGED <<cvTry, cvMachine>>
Again(pc) == /\ cvTry < MaxConversionRetries
             /\ cvTry' = cvTry + 1 /\ cvPc' = pc /\ UNCHANGED cvMachine

-----------------------------------------------------------------------------
\* A task arrives.  The machine is where the last task left it: only a refinement that
\* succeeds returns it to IDLE.
Run(k) ==
    /\ cvPc = "idle" /\ cvRuns < MaxRuns
    /\ cvRuns' = cvRuns + 1 /\ cvKind' = k
    /\ cvTry' = 0 /\ cvValid' = FALSE /\ cvSmoke' = FALSE /\ cvBackup' = FALSE
    /\ cvFile' = "original" /\ cvConfig' = "original" /\ cvTested' = FALSE /\ cvLost' = FALSE
    /\ IF "PLANNING" \in Allowed(cvState)
       THEN cvState' = "PLANNING" /\ cvPc' = "plan" /\ cvResult' = "none"
       ELSE RaiseFrom(cvState)

\* Context is optional, the first code is not.
ConvertPlan ==
    /\ cvPc = "plan" /\ cvKind = "convert"
    /\ \/ cvState' = "EXECUTING" /\ cvPc' = "write" /\ UNCHANGED cvResult
       \/ RaiseFrom("EXECUTING")
    /\ UNCHANGED <<cvTask, cvCodeVars, cvTry, cvConfig, cvLost>>

\* The source must be read, the backup may fail to be stored without anybody noticing.
RefinePlan ==
    /\ cvPc = "plan" /\ cvKind = "refine"
    /\ \/ RaiseFrom("PLANNING") /\ UNCHANGED cvBackup
       \/ RaiseFrom("EXECUTING") /\ cvBackup' \in BOOLEAN
       \/ /\ cvState' = "EXECUTING" /\ cvPc' = "write" /\ UNCHANGED cvResult
          /\ cvBackup' \in BOOLEAN
    /\ UNCHANGED <<cvKind, cvRuns, cvCodeVars, cvTry, cvConfig, cvLost>>

ConfigPlan ==
    /\ cvPc = "plan" /\ cvKind = "config"
    /\ \/ RaiseFrom("PLANNING")
       \/ cvState' = "EXECUTING" /\ cvPc' = "propose" /\ UNCHANGED cvResult
    /\ UNCHANGED <<cvTask, cvCodeVars, cvTry, cvConfig, cvLost>>

-----------------------------------------------------------------------------
\* write_algorithm_file, or else the file is opened and written directly.
Written == /\ cvFile' = "current" /\ cvTested' = FALSE
           /\ cvPc' = "validate" /\ UNCHANGED <<cvTry, cvMachine>>

\* Neither worked: the file is as it was or cut short.
\* Fault: goes on to the validation of the file that is there
NotWrittenUnnoticed ==
    /\ cvFile' \in {cvFile, "torn"}
    /\ cvTested' = (cvTested /\ cvFile' = cvFile)
    /\ cvPc' = "validate" /\ UNCHANGED <<cvTry, cvMachine>>

NotWritten ==
    /\ cvFile' \in {cvFile, "torn"}
    /\ cvTested' = (cvTested /\ cvFile' = cvFile)
    /\ GiveUp("review") \/ Again("write")

WriteCode == cvPc = "write" /\ (Written \/ NotWritten) /\ UNCHANGED <<cvValid, cvSmoke>>

\* _fix_code_with_llm: new code is in hand, unless the model gives none.
Corrected ==
    \/ Again("write") /\ cvFile' = "older"
    \/ cvTry < MaxConversionRetries /\ RaiseFrom(cvState) /\ UNCHANGED <<cvTry, cvFile>>

\* validate_file: a failure, an exception, success with a class name or without.
ValidateCode ==
    /\ cvPc = "validate"
    /\ \/ cvValid' = FALSE /\ GiveUp("review") /\ UNCHANGED cvFile
       \/ cvValid' = FALSE /\ Corrected
       \/ RaiseFrom(cvState) /\ UNCHANGED <<cvTry, cvValid, cvFile>>
       \/ cvValid' = TRUE /\ (GiveUp("review") \/ Again("write")) /\ UNCHANGED cvFile
       \/ cvValid' = TRUE /\ cvPc' = "smoke" /\ UNCHANGED <<cvTry, cvFile, cvMachine>>
    /\ UNCHANGED <<cvSmoke, cvTested>>

SmokeTest ==
    /\ cvPc = "smoke"
    /\ \/ cvSmoke' = FALSE /\ GiveUp("review") /\ UNCHANGED <<cvFile, cvTested>>
       \/ cvSmoke' = FALSE /\ Corrected /\ UNCHANGED cvTested
       \/ RaiseFrom(cvState) /\ UNCHANGED <<cvTry, cvSmoke, cvFile, cvTested>>
       \/ /\ cvSmoke' = TRUE /\ cvTested' = TRUE /\ cvPc' = "review"
          /\ UNCHANGED <<cvTry, cvFile, cvMachine>>
    /\ UNCHANGED cvValid

Attempt == (WriteCode \/ ValidateCode \/ SmokeTest) /\ UNCHANGED <<cvTask, cvConfig, cvLost>>
ConvertAttempt == cvKind = "convert" /\ Attempt
RefineAttempt == cvKind = "refine" /\ Attempt

-----------------------------------------------------------------------------
Checked == cvValid /\ cvSmoke

ConvertReview ==
    /\ cvPc = "review" /\ cvKind = "convert"
    /\ IF Checked THEN Return("COMPLETED", "COMPLETED") ELSE Return("FAILED", "FAILED")
    /\ UNCHANGED <<cvTask, cvCodeVars, cvTry, cvConfig, cvLost>>

\* _restore_from_backup: the original is written back, or that fails, which is logged.
RestoreFromBackup ==
    \/ cvBackup /\ cvFile' = "original" /\ cvTested' = FALSE /\ UNCHANGED cvLost
    \/ cvFile' \in {cvFile, "torn"} /\ cvTested' = FALSE /\ cvLost' = TRUE

RefineRollsBack ==
    /\ cvPc = "review" /\ cvKind = "refine" /\ ~Checked
    /\ RestoreFromBackup
    /\ Return("FAILED", "ROLLED_BACK")
    /\ UNCHANGED <<cvTask, cvValid, cvSmoke, cvTry, cvConfig>>

\* The answer may have held configuration updates, too.
RefineReview ==
    /\ cvPc = "review" /\ cvKind = "refine" /\ Checked
    /\ cvState' = "REVIEWING" /\ cvPc' \in {"apply", "finish"}
    /\ UNCHANGED <<cvResult, cvTask, cvCodeVars, cvTry, cvConfig, cvLost>>

\* update_strategy_config
Applied(c) == cvConfig' = c /\ cvLost' = FALSE

\* An update that raises, or a backtest that does, is followed by an update back, which
\* may raise, too, with its effect or without.
PutBack ==
    \/ Applied("original")
    \/ cvConfig' \in {"original", "proposed"} /\ cvLost' = TRUE

RefineApply ==
    /\ cvPc = "apply"
    /\ \/ Applied("proposed") /\ cvPc' = "trial"
       \/ PutBack /\ cvPc' = "finish"
    /\ UNCHANGED <<cvMachine, cvTask, cvCodeVars, cvTry>>

\* The metrics compared are read from the top of the answers of run_backtest, which hold
\* them under stats: none is ever worse, and a backtest that answers settles it.
RefineTrial ==
    /\ cvPc = "trial" /\ cvPc' = "finish"
    /\ (cvConfig' = "tested" /\ UNCHANGED cvLost) \/ PutBack
    /\ UNCHANGED <<cvMachine, cvTask, cvCodeVars, cvTry>>

RefineFinish ==
    /\ cvPc = "finish" /\ cvKind = "refine"
    /\ Return("IDLE", "COMPLETED")
    /\ UNCHANGED <<cvTask, cvCodeVars, cvTry, cvConfig, cvLost>>

-----------------------------------------------------------------------------
\* The model raises; it gives nothing usable, or the backend refuses the update; the
\* backend's answer is lost; the update is applied.
ConfigPropose ==
    /\ cvPc = "propose"
    /\ \/ RaiseFrom(cvState) /\ UNCHANGED <<cvTry, cvConfig, cvLost>>
       \/ (GiveUp("finish") \/ Again("propose")) /\ UNCHANGED <<cvConfig, cvLost>>
       \/ (GiveUp("finish") \/ Again("propose")) /\ cvConfig' = "proposed" /\ cvLost' = TRUE
       \/ Applied("proposed") /\ cvPc' = "measure" /\ UNCHANGED <<cvTry, cvMachine>>
    /\ UNCHANGED <<cvTask, cvCodeVars>>

\* A backtest with the update: kept unless the backtest raises or every metric is worse
\* (than those of the payload: see RefineTrial).
Measure ==
    \/ cvConfig' = "tested" /\ cvPc' = "finish" /\ UNCHANGED <<cvTry, cvLost, cvMachine>>
    \/ PutBack /\ (GiveUp("finish") \/ Again("propose"))

ConfigMeasure == cvPc = "measure" /\ Measure /\ UNCHANGED <<cvTask, cvCodeVars>>

\* retry_count > max_retries is never true: the end of the attempts is a success, too.
ConfigFinish ==
    /\ cvPc = "finish" /\ cvKind = "config"
    /\ Return("IDLE", "COMPLETED")
    /\ UNCHANGED <<cvTask, cvCodeVars, cvTry, cvConfig, cvLost>>

-----------------------------------------------------------------------------
ConverterNext ==
    \/ \E k \in Kinds : Run(k)
    \/ ConvertPlan \/ RefinePlan \/ ConfigPlan
    \/ ConvertAttempt \/ RefineAttempt
    \/ ConvertReview \/ RefineRollsBack \/ RefineReview
    \/ RefineApply \/ RefineTrial \/ RefineFinish
    \/ ConfigPropose \/ ConfigMeasure \/ ConfigFinish

ConverterSpec == ConverterInit /\ [][ConverterNext]_cvVars

-----------------------------------------------------------------------------
\* Code reported as done is the code in hand, and the sandbox has passed that very file,
\* whichever attempts failed to be written, to validate or to run before.
DoneIsChecked ==
    (cvPc = "idle" /\ cvResult = "COMPLETED" /\ cvKind # "config")
        => cvFile = "current" /\ cvTested

\* A refinement that gives up leaves the file as it found it, unless that failed.
GivenUpIsUndone ==
    (cvPc = "idle" /\ cvResult = "ROLLED_BACK") => cvFile = "original" \/ cvLost

\* However a task ends, even in an exception, the configuration is the one it found or
\* one a backtest was run with, unless an update failed.
ConfigIsTested ==
    cvPc = "idle" => cvConfig \in {"original", "tested"} \/ cvLost

\* What the converter agent leaves behind, as its retry loops, backup and rollback have it.
EndsChecked == DoneIsChecked /\ GivenUpIsUndone /\ ConfigIsTested
=============================================================================
