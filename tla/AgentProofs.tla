----------------------------- MODULE AgentProofs -----------------------------
(***************************************************************************)
(* Proofs about the agents: about Converter, for any number of retries and *)
(* of tasks; about TaskQueue and Pipeline, for any stages, gates, tasks,   *)
(* retries and interventions; about LanguageModel, for any budgets, rates  *)
(* and numbers of agents; and about Analysts, for any hypotheses,          *)
(* iterations and extensions.                                              *)
(***************************************************************************)
EXTENDS Pipeline, Analysts, SequenceTheorems, FiniteSetTheorems, TLAPS

-----------------------------------------------------------------------------
(* The converter. *)

(* The loop over attempts belongs to the two tasks that write code. *)
KindInv ==
    /\ cvPc \in {"write", "validate", "smoke", "review"} => cvKind # "config"
    /\ cvPc \in {"apply", "trial"} => cvKind = "refine"
    /\ cvPc \in {"propose", "measure"} => cvKind = "config"
    /\ cvPc = "finish" => cvKind # "convert"

(* While an attempt can still fail no smoke test has passed; behind the loop one that has *)
(* was of the file on disk.                                                               *)
CodeInv ==
    /\ cvPc \in {"write", "validate", "smoke"} => ~cvSmoke
    /\ cvPc \in {"validate", "smoke"} => cvFile = "current"
    /\ (cvPc = "review" /\ cvSmoke) => cvFile = "current" /\ cvTested
    /\ (cvPc \in {"apply", "trial"} \/ (cvPc = "finish" /\ cvKind = "refine"))
           => cvFile = "current" /\ cvTested

(* Only between an update and what is made of its backtest is the update untested. *)
ConfigInv ==
    cvPc \notin {"trial", "measure"} => cvConfig \in {"original", "tested"} \/ cvLost

FreshInv == cvPc = "plan" => ~cvSmoke

Inv == /\ ConverterTypeOK /\ KindInv /\ CodeInv /\ ConfigInv /\ FreshInv
       /\ DoneIsChecked /\ GivenUpIsUndone

(* An exception that reaches run() ends the run and is never reported as done. *)
LEMMA RaiseEnds ==
    ASSUME NEW s \in MachineStates, RaiseFrom(s)
    PROVE  /\ cvPc' = "idle" /\ cvState' \in MachineStates
           /\ cvResult' \in {"FAILED", "raised"}
  BY DEF RaiseFrom, MachineStates

(* The loop's two ways on keep the count in its range and say nothing of the result. *)
LEMMA GiveUpSteps ==
    ASSUME ConverterTypeOK, NEW pc, GiveUp(pc)
    PROVE  cvPc' = pc /\ cvTry' \in 0..MaxConversionRetries /\ UNCHANGED cvMachine
  BY DEF ConverterTypeOK, GiveUp, cvMachine

LEMMA AgainSteps ==
    ASSUME ConverterTypeOK, NEW pc, Again(pc)
    PROVE  cvPc' = pc /\ cvTry' \in 0..MaxConversionRetries /\ UNCHANGED cvMachine
  BY ConversionRetriesAssumption DEF ConverterTypeOK, Again, cvMachine

LEMMA InitInv == ConverterInit => Inv
  <1> SUFFICES ASSUME ConverterInit PROVE Inv
    OBVIOUS
  <1> USE DEF ConverterInit
  <1>1. ConverterTypeOK
    <2>1. cvTry \in 0..MaxConversionRetries /\ cvRuns \in Nat
      BY ConversionRetriesAssumption
    <2>2. cvState \in MachineStates /\ cvKind \in Kinds /\ cvPc \in ConverterSteps
      BY DEF MachineStates, Kinds, ConverterSteps
    <2> QED
      BY <2>1, <2>2, Zenon DEF ConverterTypeOK
  <1>2. KindInv /\ CodeInv /\ ConfigInv /\ FreshInv /\ DoneIsChecked /\ GivenUpIsUndone
    BY DEF KindInv, CodeInv, ConfigInv, FreshInv, DoneIsChecked, GivenUpIsUndone
  <1> QED
    BY <1>1, <1>2 DEF Inv

(* The loop goes on to another attempt, or to the review of what has not passed or is on disk. *)
LEMMA GoesOn ==
    ASSUME Inv, cvKind \in {"convert", "refine"},
           cvPc \in {"write", "validate", "smoke"}, cvPc' \in {"write", "review"},
           cvTry' \in 0..MaxConversionRetries,
           cvFile' \in {"original", "current", "older", "torn"},
           cvValid' \in BOOLEAN, cvSmoke' \in BOOLEAN, cvTested' \in BOOLEAN,
           UNCHANGED <<cvMachine, cvTask, cvConfig, cvLost>>,
           cvSmoke' => cvPc' = "review" /\ cvFile' = "current" /\ cvTested'
    PROVE  Inv'
  <1> USE DEF Inv, cvTask, cvMachine
  <1>1. ConverterTypeOK'
    BY DEF ConverterTypeOK, ConverterSteps
  <1>2. KindInv' /\ CodeInv' /\ FreshInv'
    BY DEF KindInv, CodeInv, FreshInv
  <1>3. ConfigInv'
    BY DEF ConfigInv
  <1>4. DoneIsChecked' /\ GivenUpIsUndone'
    BY DEF DoneIsChecked, GivenUpIsUndone
  <1> QED
    BY <1>1, <1>2, <1>3, <1>4

(* An attempt at code: what it is in the loop, and that it leaves it as CodeInv says. *)
LEMMA AttemptInv ==
    ASSUME Inv, Attempt, cvKind \in {"convert", "refine"}
    PROVE  Inv'
  <1> USE DEF Inv, ConverterTypeOK, KindInv, CodeInv, ConfigInv, FreshInv, DoneIsChecked,
              GivenUpIsUndone, Attempt, cvTask, cvMachine, Kinds, ConverterSteps
  <1>1. CASE WriteCode
    <2>1. CASE Written
      BY <1>1, <2>1 DEF WriteCode, Written
    <2>2. CASE NotWritten /\ GiveUp("review")
      BY <1>1, <2>2, GiveUpSteps DEF WriteCode, NotWritten
    <2>3. CASE NotWritten /\ Again("write")
      BY <1>1, <2>3, AgainSteps DEF WriteCode, NotWritten
    <2> QED
      BY <1>1, <2>1, <2>2, <2>3 DEF WriteCode, NotWritten
  <1>2. CASE ValidateCode
    <2>1. CASE GiveUp("review") /\ UNCHANGED cvFile /\ cvValid' \in BOOLEAN
      BY <1>2, <2>1, GiveUpSteps DEF ValidateCode
    <2>2. CASE Again("write") /\ cvFile' \in {"older", cvFile} /\ cvValid' \in BOOLEAN
      BY <1>2, <2>2, AgainSteps DEF ValidateCode
    <2>3. CASE RaiseFrom(cvState) /\ UNCHANGED <<cvTry, cvFile>> /\ cvValid' \in BOOLEAN
      BY <1>2, <2>3, RaiseEnds DEF ValidateCode
    <2>4. CASE cvValid' = TRUE /\ cvPc' = "smoke" /\ UNCHANGED <<cvTry, cvFile, cvMachine>>
      BY <1>2, <2>4 DEF ValidateCode
    <2> QED
      BY <1>2, <2>1, <2>2, <2>3, <2>4 DEF ValidateCode, Corrected
  <1>3. CASE SmokeTest
    <2>0. cvPc = "smoke" /\ UNCHANGED cvValid
      BY <1>3 DEF SmokeTest
    <2>1. CASE cvSmoke' = FALSE /\ GiveUp("review") /\ UNCHANGED <<cvFile, cvTested>>
      <3>1. cvPc' = "review" /\ cvTry' \in 0..MaxConversionRetries /\ UNCHANGED cvMachine
        BY <2>1, GiveUpSteps
      <3> QED
        BY <2>0, <2>1, <3>1, GoesOn
    <2>2. CASE cvSmoke' = FALSE /\ Again("write") /\ cvFile' = "older" /\ UNCHANGED cvTested
      <3>1. cvPc' = "write" /\ cvTry' \in 0..MaxConversionRetries /\ UNCHANGED cvMachine
        BY <2>2, AgainSteps
      <3> QED
        BY <2>0, <2>2, <3>1, GoesOn
    <2>3. CASE RaiseFrom(cvState) /\ UNCHANGED <<cvTry, cvFile, cvTested>> /\ cvSmoke' \in BOOLEAN
      BY <2>0, <2>3, RaiseEnds
    <2>4. CASE /\ cvSmoke' = TRUE /\ cvTested' = TRUE /\ cvPc' = "review"
               /\ UNCHANGED <<cvTry, cvFile, cvMachine>>
      BY <2>0, <2>4, GoesOn
    <2> QED
      BY <1>3, <2>1, <2>2, <2>3, <2>4 DEF SmokeTest, Corrected
  <1> QED
    BY <1>1, <1>2, <1>3

(* The steps of a task around the loop over attempts. *)
LEMMA CodeTaskInv ==
    ASSUME Inv,
           \/ ConvertPlan \/ RefinePlan \/ ConvertReview \/ RefineRollsBack \/ RefineReview
           \/ RefineApply \/ RefineTrial \/ RefineFinish
    PROVE  Inv'
  <1> USE DEF Inv, ConverterTypeOK, KindInv, CodeInv, ConfigInv, FreshInv, DoneIsChecked,
              GivenUpIsUndone, cvTask, cvMachine, cvCodeVars, Kinds, ConverterSteps
  <1>0. "EXECUTING" \in MachineStates /\ "PLANNING" \in MachineStates
    BY DEF MachineStates
  <1>1. CASE ConvertPlan
    BY <1>0, <1>1, RaiseEnds DEF ConvertPlan
  <1>2. CASE RefinePlan
    BY <1>0, <1>2, RaiseEnds DEF RefinePlan
  <1>3. CASE ConvertReview
    BY <1>3 DEF ConvertReview, Return, Checked, MachineStates
  <1>4. CASE RefineRollsBack
    <2>1. cvPc' = "idle" /\ cvState' \in MachineStates /\ cvResult' = "ROLLED_BACK"
      BY <1>4 DEF RefineRollsBack, Return, MachineStates
    <2>2. /\ UNCHANGED <<cvKind, cvBackup, cvRuns, cvValid, cvSmoke, cvTry, cvConfig>>
          /\ cvTested' = FALSE
          /\ \/ cvFile' = "original" /\ cvLost' = cvLost
             \/ cvFile' \in {cvFile, "torn"} /\ cvLost' = TRUE
      BY <1>4 DEF RefineRollsBack, RestoreFromBackup
    <2>3. (cvConfig \in {"original", "tested"} \/ cvLost) /\ cvPc = "review"
      BY <1>4 DEF RefineRollsBack
    <2> QED
      BY <2>1, <2>2, <2>3
  <1>5. CASE RefineReview
    BY <1>5 DEF RefineReview, Checked, MachineStates
  <1>6. CASE RefineApply
    BY <1>6 DEF RefineApply, Applied, PutBack
  <1>7. CASE RefineTrial
    BY <1>7 DEF RefineTrial, Applied, PutBack
  <1>8. CASE RefineFinish
    BY <1>8 DEF RefineFinish, Return, MachineStates
  <1> QED
    BY <1>1, <1>2, <1>3, <1>4, <1>5, <1>6, <1>7, <1>8

(* The steps of a task about a configuration. *)
LEMMA ConfigTaskInv ==
    ASSUME Inv, ConfigPlan \/ ConfigPropose \/ ConfigMeasure \/ ConfigFinish
    PROVE  Inv'
  <1> USE DEF Inv, ConverterTypeOK, KindInv, CodeInv, ConfigInv, FreshInv, DoneIsChecked,
              GivenUpIsUndone, cvTask, cvMachine, cvCodeVars, Kinds, ConverterSteps
  <1>1. CASE ConfigPlan
    BY <1>1, RaiseEnds DEF ConfigPlan, MachineStates
  <1>2. CASE ConfigPropose
    <2>0. cvPc = "propose" /\ UNCHANGED <<cvTask, cvCodeVars>>
      BY <1>2 DEF ConfigPropose
    <2>1. CASE RaiseFrom(cvState) /\ UNCHANGED <<cvTry, cvConfig, cvLost>>
      BY <2>0, <2>1, RaiseEnds
    <2>2. CASE /\ GiveUp("finish") \/ Again("propose")
               /\ UNCHANGED <<cvConfig, cvLost>> \/ (cvConfig' = "proposed" /\ cvLost' = TRUE)
      <3>1. /\ cvPc' \in {"finish", "propose"} /\ cvTry' \in 0..MaxConversionRetries
            /\ UNCHANGED cvMachine
        BY <2>2, GiveUpSteps, AgainSteps
      <3>2. CASE UNCHANGED <<cvConfig, cvLost>>
        BY <2>0, <3>1, <3>2
      <3>3. CASE cvConfig' = "proposed" /\ cvLost' = TRUE
        BY <2>0, <3>1, <3>3
      <3> QED
        BY <2>2, <3>2, <3>3
    <2>3. CASE Applied("proposed") /\ cvPc' = "measure" /\ UNCHANGED <<cvTry, cvMachine>>
      BY <2>0, <2>3 DEF Applied
    <2> QED
      BY <1>2, <2>1, <2>2, <2>3 DEF ConfigPropose
  <1>3. CASE ConfigMeasure
    <2>0. cvPc = "measure" /\ cvKind = "config" /\ UNCHANGED <<cvTask, cvCodeVars>>
      BY <1>3 DEF ConfigMeasure
    <2>1. CASE cvConfig' = "tested" /\ cvPc' = "finish" /\ UNCHANGED <<cvTry, cvLost, cvMachine>>
      BY <2>0, <2>1
    <2>2. CASE PutBack /\ (GiveUp("finish") \/ Again("propose"))
      <3>1. /\ cvPc' \in {"finish", "propose"} /\ cvTry' \in 0..MaxConversionRetries
            /\ UNCHANGED cvMachine
        BY <2>2, GiveUpSteps, AgainSteps
      <3>2. /\ cvConfig' \in {"original", "proposed"} /\ cvLost' \in BOOLEAN
            /\ cvConfig' = "original" \/ cvLost'
        BY <2>2 DEF PutBack, Applied
      <3> QED
        BY <2>0, <3>1, <3>2
    <2> QED
      BY <1>3, <2>1, <2>2 DEF ConfigMeasure, Measure
  <1>4. CASE ConfigFinish
    BY <1>4 DEF ConfigFinish, Return, MachineStates
  <1> QED
    BY <1>1, <1>2, <1>3, <1>4

LEMMA RunInv == ASSUME Inv, NEW k \in Kinds, Run(k) PROVE Inv'
  <1> USE ConversionRetriesAssumption DEF Run
  <1>1. /\ cvState' \in MachineStates /\ cvPc' \in {"idle", "plan"}
        /\ cvResult' \in {"none", "FAILED", "raised"}
    <2>1. cvState \in MachineStates /\ "PLANNING" \in MachineStates
      BY DEF Inv, ConverterTypeOK, MachineStates
    <2> QED
      BY <2>1, RaiseEnds
  <1>2. /\ cvKind' \in Kinds /\ cvTry' \in 0..MaxConversionRetries /\ cvRuns' \in Nat
        /\ cvValid' = FALSE /\ cvSmoke' = FALSE /\ cvBackup' = FALSE /\ cvFile' = "original"
        /\ cvConfig' = "original" /\ cvTested' = FALSE /\ cvLost' = FALSE
    <2>1. cvRuns \in Nat
      BY DEF Inv, ConverterTypeOK
    <2> QED
      BY <2>1
  <1>3. ConverterTypeOK'
    BY <1>1, <1>2 DEF ConverterTypeOK, ConverterSteps
  <1>4. KindInv' /\ CodeInv' /\ ConfigInv' /\ FreshInv' /\ DoneIsChecked' /\ GivenUpIsUndone'
    BY <1>1, <1>2 DEF KindInv, CodeInv, ConfigInv, FreshInv, DoneIsChecked, GivenUpIsUndone
  <1> QED
    BY <1>3, <1>4 DEF Inv

LEMMA StepInv == Inv /\ [ConverterNext]_cvVars => Inv'
  <1> SUFFICES ASSUME Inv, [ConverterNext]_cvVars PROVE Inv'
    OBVIOUS
  <1>1. ASSUME NEW k \in Kinds, Run(k) PROVE Inv'
    BY <1>1, RunInv
  <1>2. CASE ConvertAttempt \/ RefineAttempt
    BY <1>2, AttemptInv DEF ConvertAttempt, RefineAttempt
  <1>3. CASE \/ ConvertPlan \/ RefinePlan \/ ConvertReview \/ RefineRollsBack \/ RefineReview
             \/ RefineApply \/ RefineTrial \/ RefineFinish
    BY <1>3, CodeTaskInv
  <1>4. CASE ConfigPlan \/ ConfigPropose \/ ConfigMeasure \/ ConfigFinish
    BY <1>4, ConfigTaskInv
  <1>5. CASE UNCHANGED cvVars
    BY <1>5 DEF cvVars, cvTask, cvMachine, cvCodeVars, Inv, ConverterTypeOK, KindInv, CodeInv,
                ConfigInv, FreshInv, DoneIsChecked, GivenUpIsUndone
  <1> QED
    BY <1>1, <1>2, <1>3, <1>4, <1>5 DEF ConverterNext

(* Whatever the number of retries and the order of failures: code reported as done is *)
(* checked, a refinement given up is undone, and no untested configuration stays.     *)
THEOREM ConverterEndsChecked == ConverterSpec => []EndsChecked
  <1>1. Inv => EndsChecked
    BY DEF Inv, EndsChecked, ConfigInv, ConfigIsTested
  <1> QED
    BY InitInv, StepInv, <1>1, PTL DEF ConverterSpec

-----------------------------------------------------------------------------
(* The queue: a task that is queued has been begun at most as often as it was retried, and *)
(* any other one once more.                                                                *)

TaskStatuses == {"QUEUED", "IN_PROGRESS", "COMPLETED", "CANCELLED", "DEAD_LETTERED"}
TaskRecords == [agent : Agents, priority : Nat, deps : SUBSET Nat, status : TaskStatuses,
                retries : 0..MaxRetries]

\* Executions of a task its record r still allows for, or has had.
BeginsOf(r) == IF r.status = "QUEUED" THEN r.retries ELSE r.retries + 1

QueueInv ==
    /\ tasks \in Seq(TaskRecords) /\ Len(tasks) <= MaxTasks
    /\ begun \in [Ids -> Nat]
    /\ \A i \in Ids : begun[i] <= IF i \in DOMAIN tasks THEN BeginsOf(tasks[i]) ELSE 0

LEMMA TaskIds == ASSUME QueueInv PROVE /\ DOMAIN tasks = 1..Len(tasks) /\ DOMAIN tasks \subseteq Ids
                                       /\ \A i \in DOMAIN tasks : tasks[i] \in TaskRecords
  BY QueueAssumption DEF QueueInv, Ids

(* One task changes, and may be begun. *)
LEMMA TaskChanges ==
    ASSUME QueueInv, NEW i \in DOMAIN tasks, NEW r \in TaskRecords, NEW n \in Nat,
           tasks' = [tasks EXCEPT ![i] = r], begun' = [begun EXCEPT ![i] = n],
           n <= BeginsOf(r)
    PROVE  QueueInv'
  <1>1. i \in Ids /\ tasks \in Seq(TaskRecords) /\ i \in 1..Len(tasks) /\ begun \in [Ids -> Nat]
    BY TaskIds DEF QueueInv
  <1>2. tasks' \in Seq(TaskRecords) /\ Len(tasks') = Len(tasks) /\ DOMAIN tasks' = DOMAIN tasks
    BY <1>1
  <1>3. begun' \in [Ids -> Nat] /\ begun'[i] = n /\ tasks'[i] = r
        /\ \A j \in Ids \ {i} : begun'[j] = begun[j] /\ tasks'[j] = tasks[j]
    BY <1>1, TaskIds
  <1>4. \A j \in Ids : begun'[j] <= IF j \in DOMAIN tasks' THEN BeginsOf(tasks'[j]) ELSE 0
    <2> SUFFICES ASSUME NEW j \in Ids
                 PROVE  begun'[j] <= IF j \in DOMAIN tasks' THEN BeginsOf(tasks'[j]) ELSE 0
      OBVIOUS
    <2>1. CASE j = i
      BY <1>2, <1>3, <2>1
    <2>2. CASE j # i
      BY <1>2, <1>3, <2>2 DEF QueueInv
    <2> QED
      BY <2>1, <2>2
  <1>5. Len(tasks') <= MaxTasks
    BY <1>2 DEF QueueInv
  <1> QED
    BY <1>2, <1>3, <1>4, <1>5 DEF QueueInv

LEMMA SubmitKeeps ==
    ASSUME QueueInv, NEW new \in Seq(TaskRecords), SubmitAll(new)
    PROVE  QueueInv'
  <1>1. /\ tasks' = tasks \o new /\ Len(tasks') <= MaxTasks /\ UNCHANGED begun
        /\ tasks \in Seq(TaskRecords) /\ begun \in [Ids -> Nat]
    BY DEF SubmitAll, QueueInv
  <1>2. /\ tasks' \in Seq(TaskRecords) /\ Len(tasks') = Len(tasks) + Len(new)
        /\ \A i \in 1..Len(tasks) : tasks'[i] = tasks[i]
    BY <1>1, ConcatProperties
  <1>3. \A i \in Ids : begun[i] <= IF i \in DOMAIN tasks' THEN BeginsOf(tasks'[i]) ELSE 0
    <2> SUFFICES ASSUME NEW i \in Ids
                 PROVE  begun[i] <= IF i \in DOMAIN tasks' THEN BeginsOf(tasks'[i]) ELSE 0
      OBVIOUS
    <2>1. begun[i] <= (IF i \in DOMAIN tasks THEN BeginsOf(tasks[i]) ELSE 0) /\ begun[i] \in Nat
      BY <1>1 DEF QueueInv
    <2>2. CASE i \in DOMAIN tasks
      BY <1>2, <2>1, <2>2, TaskIds
    <2>3. CASE i \notin DOMAIN tasks
      <3>1. CASE i \in DOMAIN tasks'
        <4>1. tasks'[i] \in TaskRecords
          BY <1>2, <3>1
        <4>2. BeginsOf(tasks'[i]) >= 0
          BY <4>1, QueueAssumption DEF TaskRecords, BeginsOf
        <4>3. BeginsOf(tasks'[i]) \in Int
          BY <4>1, QueueAssumption DEF TaskRecords, BeginsOf
        <4> QED
          BY <2>1, <2>3, <3>1, <4>2, <4>3
      <3> QED
        BY <2>1, <2>3, <3>1
    <2> QED
      BY <2>2, <2>3
  <1> QED
    BY <1>1, <1>2, <1>3 DEF QueueInv

LEMMA TakeKeeps == ASSUME QueueInv, NEW a \in Agents, Take(a) PROVE QueueInv'
  <1>1. PICK n \in DOMAIN queue :
            /\ Ready(queue[n], a)
            /\ tasks' = [tasks EXCEPT ![queue[n]].status = "IN_PROGRESS"]
            /\ begun' = [begun EXCEPT ![queue[n]] = @ + 1]
    BY DEF Take
  <1> DEFINE i == queue[n]
             r == [tasks[i] EXCEPT !.status = "IN_PROGRESS"]
             m == begun[i] + 1
  <1>2. i \in DOMAIN tasks /\ tasks[i].status = "QUEUED"
    BY <1>1 DEF Ready, Status
  <1>3. i \in Ids /\ tasks[i] \in TaskRecords
    BY <1>2, TaskIds
  <1>4. begun[i] \in Nat /\ begun[i] <= BeginsOf(tasks[i])
    BY <1>2, <1>3 DEF QueueInv
  <1>5. r \in TaskRecords /\ m <= BeginsOf(r) /\ m \in Nat
    BY <1>2, <1>3, <1>4, QueueAssumption DEF TaskRecords, TaskStatuses, BeginsOf
  <1>6. tasks' = [tasks EXCEPT ![i] = r] /\ begun' = [begun EXCEPT ![i] = m]
    BY <1>1
  <1> HIDE DEF i, r, m
  <1> QED
    BY <1>2, <1>5, <1>6, TaskChanges

(* What an execution, a timeout or a cancellation makes of a task's record. *)
LEMMA StatusKeeps ==
    ASSUME QueueInv, NEW i \in DOMAIN tasks, NEW s \in TaskStatuses \ {"QUEUED"},
           tasks' = [tasks EXCEPT ![i].status = s], UNCHANGED begun
    PROVE  QueueInv'
  <1> DEFINE r == [tasks[i] EXCEPT !.status = s]
  <1>1. i \in Ids /\ tasks[i] \in TaskRecords /\ begun \in [Ids -> Nat]
    BY TaskIds DEF QueueInv
  <1>2. begun[i] \in Nat /\ begun[i] <= BeginsOf(tasks[i])
    BY <1>1 DEF QueueInv
  <1>3. r \in TaskRecords /\ begun[i] <= BeginsOf(r)
    BY <1>1, <1>2, QueueAssumption DEF TaskRecords, BeginsOf
  <1>4. tasks' = [tasks EXCEPT ![i] = r] /\ begun' = [begun EXCEPT ![i] = begun[i]]
    BY <1>1
  <1> HIDE DEF r
  <1> QED
    BY <1>2, <1>3, <1>4, TaskChanges

LEMMA FailKeeps == ASSUME QueueInv, NEW i \in DOMAIN tasks, Fail(i), UNCHANGED begun PROVE QueueInv'
  <1>1. CASE MoveToDlq(i)
    <2>1. tasks' = [tasks EXCEPT ![i].status = "DEAD_LETTERED"]
      BY <1>1 DEF MoveToDlq
    <2>2. "DEAD_LETTERED" \in TaskStatuses \ {"QUEUED"}
      BY DEF TaskStatuses
    <2> QED
      BY <2>1, <2>2, StatusKeeps
  <1>2. CASE Retry(i)
    <2> DEFINE r == [tasks[i] EXCEPT !.status = "QUEUED", !.retries = tasks[i].retries + 1]
    <2>1. i \in Ids /\ tasks[i] \in TaskRecords /\ begun \in [Ids -> Nat]
      BY TaskIds DEF QueueInv
    <2>2. begun[i] \in Nat /\ begun[i] <= BeginsOf(tasks[i])
      BY <2>1 DEF QueueInv
    <2>3. ~(tasks[i].retries >= MaxRetries)
      BY <1>2 DEF Retry, LastFailure
    <2>4. r \in TaskRecords /\ begun[i] <= BeginsOf(r)
      <3>1. tasks[i].retries + 1 \in 0..MaxRetries
        BY <2>1, <2>3, QueueAssumption DEF TaskRecords
      <3>2. r \in TaskRecords /\ BeginsOf(r) = tasks[i].retries + 1
        BY <2>1, <3>1 DEF TaskRecords, TaskStatuses, BeginsOf
      <3>3. BeginsOf(tasks[i]) <= tasks[i].retries + 1
        BY <2>1, QueueAssumption DEF TaskRecords, BeginsOf
      <3>4. tasks[i].retries \in Nat /\ BeginsOf(tasks[i]) \in Nat
        BY <2>1, QueueAssumption DEF TaskRecords, BeginsOf
      <3> HIDE DEF r
      <3> QED
        BY <2>2, <3>2, <3>3, <3>4
    <2>5. tasks' = [tasks EXCEPT ![i] = r] /\ begun' = [begun EXCEPT ![i] = begun[i]]
      BY <1>2, <2>1 DEF Retry
    <2> HIDE DEF r
    <2> QED
      BY <2>2, <2>4, <2>5, TaskChanges
  <1> QED
    BY <1>1, <1>2 DEF Fail

LEMMA CancelKeeps == ASSUME QueueInv, NEW S, CancelAll(S) PROVE QueueInv'
  <1>1. tasks' = Cancelled(S) /\ UNCHANGED begun
    BY DEF CancelAll
  <1>2. /\ tasks \in Seq(TaskRecords) /\ Len(tasks) <= MaxTasks /\ DOMAIN tasks = 1..Len(tasks)
        /\ DOMAIN tasks \subseteq Ids
    BY TaskIds DEF QueueInv
  <1>3. ASSUME NEW i \in DOMAIN tasks
        PROVE  tasks'[i] \in TaskRecords /\ begun[i] <= BeginsOf(tasks'[i])
    <2>1. tasks[i] \in TaskRecords /\ begun[i] \in Nat /\ begun[i] <= BeginsOf(tasks[i])
      BY <1>2 DEF QueueInv
    <2>2. [tasks[i] EXCEPT !.status = "CANCELLED"] \in TaskRecords
      BY <2>1 DEF TaskRecords, TaskStatuses
    <2>3. BeginsOf(tasks[i]) <= BeginsOf([tasks[i] EXCEPT !.status = "CANCELLED"])
      BY <2>1, QueueAssumption DEF TaskRecords, BeginsOf
    <2>4. BeginsOf(tasks[i]) \in Int /\ BeginsOf([tasks[i] EXCEPT !.status = "CANCELLED"]) \in Int
      BY <2>1, QueueAssumption DEF TaskRecords, BeginsOf
    <2>5. tasks'[i] \in {tasks[i], [tasks[i] EXCEPT !.status = "CANCELLED"]}
      BY <1>1 DEF Cancelled
    <2> QED
      BY <2>1, <2>2, <2>3, <2>4, <2>5
  <1>4. tasks' = [i \in 1..Len(tasks) |-> tasks'[i]] /\ DOMAIN tasks' = DOMAIN tasks
    BY <1>1, <1>2 DEF Cancelled
  <1>5. tasks' \in Seq(TaskRecords) /\ Len(tasks') = Len(tasks)
    BY <1>2, <1>3, <1>4
  <1> QED
    BY <1>1, <1>2, <1>3, <1>4, <1>5 DEF QueueInv

-----------------------------------------------------------------------------
(* The pipeline: where a stage behind a gate has a task, its gate has been passed or      *)
(* somebody has intervened.                                                               *)

StageRecords == [task : Nat, status : {"PENDING", "QUEUED", "COMPLETED", "FAILED", "CANCELLED"}]

StagesInv == /\ name \in {"default", "refinement"}
             /\ stages \in [1..Final -> StageRecords]
             /\ current \in Nat \ {0} /\ overrides \in Nat

PipelineInv == QueueInv /\ StagesInv /\ GatedStagesWait

LEMMA StageAgents == Final \in Nat /\ \A k \in 1..Final : Agent(k) \in Agents
  BY StagesAssumption DEF Final, Agent

(* Nobody but a submission gives a stage a task. *)
LEMMA TasksStay ==
    ASSUME PipelineInv, UNCHANGED name, stages' \in [1..Final -> StageRecords],
           \A k \in 1..Final : stages'[k].task = stages[k].task,
           passed \subseteq passed', overrides' \in Nat, overrides' >= overrides,
           current' \in Nat \ {0}
    PROVE  StagesInv' /\ GatedStagesWait'
  <1>1. Final' = Final /\ Final \in Nat /\ \A k : Gate(k)' = Gate(k)
    BY StageAgents DEF Final, Gate
  <1>2. StagesInv'
    BY <1>1 DEF PipelineInv, StagesInv
  <1>3. GatedStagesWait'
    <2> SUFFICES ASSUME NEW k \in 2..Final, Gate(k - 1) # "none", stages'[k].task # 0
                 PROVE  k - 1 \in passed' \/ overrides' > 0
      BY <1>1 DEF GatedStagesWait
    <2>1. k \in 1..Final
      BY <1>1
    <2>2. k - 1 \in passed \/ overrides > 0
      BY <2>1 DEF PipelineInv, GatedStagesWait
    <2> QED
      BY <2>2 DEF PipelineInv, StagesInv
  <1> QED
    BY <1>2, <1>3

(* The tasks of a submission: at least the one of the stage it begins with. *)
LEMMA SubmittedTasks ==
    ASSUME NEW st, NEW k \in Nat \ {0}, NEW deps \in SUBSET Nat
    PROVE  LET ks  == ParallelStages(st, k)
               new == [n \in 1..Cardinality(ks) |-> NewTask(Agent(k + n - 1), Normal, deps)]
           IN  /\ new \in Seq(TaskRecords) /\ Len(new) = Cardinality(ks)
               /\ k <= Final => k \in ks /\ 1 \in 1..Len(new)
  <1> DEFINE ks == ParallelStages(st, k)
             m == Cardinality(ks)
             task(n) == NewTask(Agent(k + n - 1), Normal, deps)
  <1>1. ks \in SUBSET (k..Final) /\ Final \in Nat
    BY StageAgents DEF ParallelStages
  <1>2. k <= Final => k \in ks
    BY <1>1 DEF ParallelStages
  <1>3. IsFiniteSet(k..Final) /\ Cardinality(k..Final) = IF k > Final THEN 0 ELSE Final - k + 1
    BY <1>1, FS_Interval
  <1> HIDE DEF ks
  <1>4. IsFiniteSet(ks) /\ m <= Cardinality(k..Final) /\ m \in Nat
    BY <1>1, <1>3, FS_Subset, FS_CardinalityType
  <1>5. k <= Final => m # 0
    BY <1>2, <1>4, FS_EmptySet
  <1> HIDE DEF m
  <1>6. ASSUME NEW n \in 1..m PROVE task(n) \in TaskRecords
    <2>1. k + n - 1 \in 1..Final
      BY <1>1, <1>3, <1>4
    <2>2. Agent(k + n - 1) \in Agents
      BY <2>1, StageAgents
    <2>3. Normal \in Nat /\ 0 \in 0..MaxRetries
      BY QueueAssumption DEF Normal
    <2> QED
      BY <2>2, <2>3 DEF NewTask, TaskRecords, TaskStatuses
  <1> HIDE DEF task
  <1>7. [n \in 1..m |-> task(n)] \in Seq(TaskRecords) /\ Len([n \in 1..m |-> task(n)]) = m
    BY <1>4, <1>6
  <1>8. k <= Final => 1 \in 1..m
    BY <1>4, <1>5
  <1> QED
    BY <1>2, <1>7, <1>8 DEF task, m, ks

(* A submission begins with stage k, and goes on without a gate in between. *)
LEMMA StagesSubmitted ==
    ASSUME PipelineInv, NEW st \in [1..Final -> StageRecords], NEW k \in Nat \ {0},
           NEW deps \in SUBSET Nat, SubmitStages(st, k, deps), UNCHANGED name,
           \A j \in 1..Final : st[j].task = stages[j].task,
           k = 1 \/ k - 1 \in passed' \/ overrides' > 0,
           passed \subseteq passed', overrides' \in Nat, overrides' >= overrides,
           current' \in Nat \ {0}
    PROVE  PipelineInv'
  <1> DEFINE ks == ParallelStages(st, k)
             Id(j) == Len(tasks) + 1 + (j - k)
             new == [n \in 1..Cardinality(ks) |-> NewTask(Agent(k + n - 1), Normal, deps)]
  <1>1. /\ SubmitAll(new)
        /\ stages' = [j \in 1..Final |->
                        IF j \in ks THEN [task |-> Id(j), status |-> "QUEUED"] ELSE st[j]]
    BY DEF SubmitStages
  <1>2. Final' = Final /\ Final \in Nat /\ \A j : Gate(j)' = Gate(j)
    BY StageAgents DEF Final, Gate
  <1>3. new \in Seq(TaskRecords)
    BY SubmittedTasks
  <1>4. QueueInv'
    <2> HIDE DEF new
    <2> QED
      BY <1>1, <1>3, SubmitKeeps DEF PipelineInv
  <1>5. StagesInv'
    <2>1. Len(tasks) \in Nat
      BY DEF PipelineInv, QueueInv
    <2>2. ASSUME NEW j \in ks PROVE [task |-> Id(j), status |-> "QUEUED"] \in StageRecords
      <3>1. j \in k..Final
        BY DEF ParallelStages
      <3>2. Id(j) \in Nat
        BY <1>2, <2>1, <3>1
      <3> HIDE DEF Id
      <3> QED
        BY <3>2 DEF StageRecords
    <2> HIDE DEF ks, Id
    <2>3. stages' \in [1..Final -> StageRecords]
      BY <1>1, <2>2
    <2> QED
      BY <1>2, <2>3 DEF PipelineInv, StagesInv
  <1>6. GatedStagesWait'
    <2> SUFFICES ASSUME NEW j \in 2..Final, Gate(j - 1) # "none", stages'[j].task # 0
                 PROVE  j - 1 \in passed' \/ overrides' > 0
      BY <1>2 DEF GatedStagesWait
    <2>1. j \in 1..Final
      BY <1>2
    <2>2. CASE j \in ks
      <3>1. j \in k..Final /\ \A i \in (k + 1)..j : Gate(i - 1) = "none"
        BY <2>2 DEF ParallelStages
      <3>2. j = k
        BY <1>2, <3>1
      <3> QED
        BY <3>2
    <2>3. CASE j \notin ks
      <3>1. stages'[j].task = stages[j].task
        <4> HIDE DEF ks
        <4> QED
          BY <1>1, <2>1, <2>3
      <3>2. j - 1 \in passed \/ overrides > 0
        BY <3>1 DEF PipelineInv, GatedStagesWait
      <3> QED
        BY <3>2 DEF PipelineInv, StagesInv
    <2> QED
      BY <2>2, <2>3
  <1> QED
    BY <1>4, <1>5, <1>6 DEF PipelineInv

LEMMA InitPipeline == Init => PipelineInv
  <1> SUFFICES ASSUME Init PROVE PipelineInv
    OBVIOUS
  <1>1. QueueInv
    BY QueueAssumption DEF Init, QueueInit, QueueInv, Ids
  <1>2. StagesInv
    BY DEF Init, StagesInv, StageRecords
  <1>3. GatedStagesWait
    <2>1. Final \in Nat
      BY StageAgents
    <2> QED
      BY <2>1 DEF Init, GatedStagesWait
  <1> QED
    BY <1>1, <1>2, <1>3 DEF PipelineInv

LEMMA QueueRests == QueueInv /\ UNCHANGED <<tasks, begun>> => QueueInv'
  BY DEF QueueInv

LEMMA PipelineRests == ASSUME PipelineInv, QueueInv', UNCHANGED pipelineState PROVE PipelineInv'
  BY DEF pipelineState, PipelineInv, StagesInv, GatedStagesWait, Final, Gate

(* A task of the API's is one the queue knows. *)
LEMMA OutsidersTask ==
    ASSUME NEW t \in ApiTasks PROVE <<NewTask(t.agent, t.priority, {})>> \in Seq(TaskRecords)
  <1>1. t.agent \in Agents /\ t.priority \in Nat
    BY ApiAssumption
  <1>2. {} \in SUBSET Nat /\ "QUEUED" \in TaskStatuses /\ 0 \in 0..MaxRetries
    BY QueueAssumption DEF TaskStatuses
  <1>3. NewTask(t.agent, t.priority, {}) \in TaskRecords
    BY <1>1, <1>2 DEF NewTask, TaskRecords
  <1> QED
    BY <1>3

(* The steps of the agents, the clock and the routes of the tasks: the pipeline rests. *)
LEMMA TaskSteps ==
    ASSUME PipelineInv,
           \/ \E a \in Agents : Dequeue(a)
           \/ \E i \in DOMAIN tasks : Break(i) \/ TimeOut(i)
           \/ SubmitTask
           \/ Tick
    PROVE  PipelineInv'
  <1>1. QueueInv
    BY DEF PipelineInv
  <1>2. UNCHANGED pipelineState
    BY DEF Dequeue, Break, TimeOut, SubmitTask, Tick
  <1>3. CASE \E a \in Agents : Dequeue(a)
    BY <1>1, <1>2, <1>3, TakeKeeps, PipelineRests DEF Dequeue
  <1>4. ASSUME NEW i \in DOMAIN tasks, Break(i) \/ TimeOut(i) PROVE PipelineInv'
    <2>1. Fail(i) /\ UNCHANGED begun
      BY <1>4 DEF Break, TimeOut, CheckTimeout, Reports
    <2> QED
      BY <1>1, <1>2, <2>1, FailKeeps, PipelineRests
  <1>5. CASE SubmitTask
    <2>1. PICK t \in ApiTasks : SubmitAll(<<NewTask(t.agent, t.priority, {})>>)
      BY <1>5 DEF SubmitTask
    <2>2. <<NewTask(t.agent, t.priority, {})>> \in Seq(TaskRecords)
      BY OutsidersTask
    <2> QED
      BY <1>1, <1>2, <2>1, <2>2, SubmitKeeps, PipelineRests
  <1>6. CASE Tick
    BY <1>1, <1>2, <1>6, QueueRests, PipelineRests DEF Tick, Overdue
  <1> QED
    BY <1>3, <1>4, <1>5, <1>6

LEMMA FinishSteps == ASSUME PipelineInv, NEW i \in DOMAIN tasks, Finish(i) PROVE PipelineInv'
  <1>1. /\ tasks' = [tasks EXCEPT ![i].status = "COMPLETED"] /\ UNCHANGED begun
        /\ UNCHANGED <<name, stages, current, passed, overrides>>
    BY DEF Finish, Complete, Reports
  <1>2. QueueInv'
    <2>1. QueueInv /\ "COMPLETED" \in TaskStatuses \ {"QUEUED"}
      BY DEF PipelineInv, TaskStatuses
    <2> QED
      BY <1>1, <2>1, StatusKeeps
  <1>3. StagesInv' /\ GatedStagesWait'
    BY <1>1, TasksStay DEF PipelineInv, StagesInv
  <1> QED
    BY <1>2, <1>3 DEF PipelineInv

(* A stage keeps its task when its status changes. *)
LEMMA StageSettles ==
    ASSUME PipelineInv, NEW S \in SUBSET (1..Final),
           NEW s \in {"COMPLETED", "FAILED", "CANCELLED"},
           stages' = [k \in 1..Final |->
                        IF k \in S THEN [stages[k] EXCEPT !.status = s] ELSE stages[k]]
    PROVE  /\ stages' \in [1..Final -> StageRecords]
           /\ \A k \in 1..Final : stages'[k].task = stages[k].task
  <1>1. ASSUME NEW k \in 1..Final
        PROVE  stages'[k] \in StageRecords /\ stages'[k].task = stages[k].task
    <2>1. stages[k] \in StageRecords
      BY DEF PipelineInv, StagesInv
    <2>2. /\ [stages[k] EXCEPT !.status = s] \in StageRecords
          /\ [stages[k] EXCEPT !.status = s].task = stages[k].task
      BY <2>1 DEF StageRecords
    <2> QED
      BY <2>1, <2>2
  <1> QED
    BY <1>1

LEMMA CompletedSettles ==
    ASSUME PipelineInv, NEW k \in 1..Final
    PROVE  /\ Completed(k) \in [1..Final -> StageRecords]
           /\ \A j \in 1..Final : Completed(k)[j].task = stages[j].task
  <1>1. stages \in [1..Final -> StageRecords] /\ stages[k] \in StageRecords
    BY DEF PipelineInv, StagesInv
  <1> DEFINE r == [stages[k] EXCEPT !.status = "COMPLETED"]
  <1>2. r \in StageRecords /\ r.task = stages[k].task
    BY <1>1 DEF StageRecords
  <1>3. Completed(k) = [stages EXCEPT ![k] = r]
    BY <1>1 DEF Completed
  <1> HIDE DEF r
  <1> QED
    BY <1>1, <1>2, <1>3

LEMMA HearingSteps ==
    ASSUME PipelineInv, NEW i \in DOMAIN tasks, OnTaskCompleted(i)
    PROVE  PipelineInv'
  <1>1. UNCHANGED <<name, overrides>> /\ overrides \in Nat /\ current \in Nat \ {0}
    BY DEF OnTaskCompleted, Ignore, StageFails, GateRefuses, LastStageCompletes, StageCompletes,
           Hear, PipelineInv, StagesInv
  <1>2. CASE \E outcome \in {"COMPLETED", "FAILED"} : Ignore(i, outcome)
    <2>1. UNCHANGED <<tasks, begun, stages, current, passed>>
      BY <1>2 DEF Ignore, queueVars
    <2> QED
      BY <1>1, <2>1, QueueRests, TasksStay DEF PipelineInv, StagesInv
  <1>3. CASE StageFails(i)
    <2>1. /\ UNCHANGED <<tasks, begun, current, passed>>
          /\ stages' = [k \in 1..Final |-> IF k \in StageOf(i) THEN [stages[k] EXCEPT !.status = "FAILED"]
                                           ELSE stages[k]]
      BY <1>3 DEF StageFails, queueVars
    <2>2. StageOf(i) \in SUBSET (1..Final)
      BY DEF StageOf
    <2>3. /\ stages' \in [1..Final -> StageRecords]
          /\ \A k \in 1..Final : stages'[k].task = stages[k].task
      BY <2>1, <2>2, StageSettles
    <2> QED
      BY <1>1, <2>1, <2>3, QueueRests, TasksStay DEF PipelineInv
  <1>4. CASE GateRefuses(i)
    <2>1. /\ UNCHANGED <<tasks, begun, current, passed>>
          /\ \E k \in 1..Final : stages' = Completed(k)
      BY <1>4 DEF GateRefuses, queueVars, StageOf
    <2> QED
      BY <1>1, <2>1, CompletedSettles, QueueRests, TasksStay DEF PipelineInv
  <1>5. CASE LastStageCompletes(i)
    <2>1. /\ UNCHANGED <<tasks, begun>> /\ current' = Final /\ passed' = passed \cup {Final}
          /\ Final \in 1..Final /\ stages' = Completed(Final)
      BY <1>5 DEF LastStageCompletes, queueVars, StageOf
    <2>2. Final \in Nat \ {0}
      BY <2>1, StageAgents
    <2> QED
      BY <1>1, <2>1, <2>2, CompletedSettles, QueueRests, TasksStay DEF PipelineInv
  <1>6. CASE StageCompletes(i)
    <2>1. PICK k \in 1..Final : /\ passed' = passed \cup {k} /\ current' = k + 1
                                /\ SubmitStages(Completed(k), k + 1, {i})
      BY <1>6 DEF StageCompletes, StageOf
    <2>2. {i} \in SUBSET Nat
      BY TaskIds DEF PipelineInv
    <2>3. k + 1 \in Nat \ {0} /\ (k + 1) - 1 \in passed'
      BY <2>1, StageAgents
    <2>4. /\ Completed(k) \in [1..Final -> StageRecords]
          /\ \A j \in 1..Final : Completed(k)[j].task = stages[j].task
      BY CompletedSettles
    <2>5. UNCHANGED name /\ overrides' \in Nat /\ overrides' >= overrides /\ passed \subseteq passed'
      BY <1>1, <2>1
    <2>6. current' \in Nat \ {0}
      BY <2>1, <2>3
    <2> QED
      BY <2>1, <2>2, <2>3, <2>4, <2>5, <2>6, StagesSubmitted
  <1> QED
    BY <1>2, <1>3, <1>4, <1>5, <1>6 DEF OnTaskCompleted

LEMMA OperatorSteps ==
    ASSUME PipelineInv, Start \/ OverrideGate \/ OverrideLast \/ Abort \/ CancelTask
    PROVE  PipelineInv'
  <1>1. /\ UNCHANGED name /\ overrides \in Nat /\ overrides' \in Nat /\ overrides' >= overrides
        /\ UNCHANGED passed /\ current \in Nat \ {0} /\ stages \in [1..Final -> StageRecords]
        /\ QueueInv
    BY DEF Start, OverrideGate, OverrideLast, Abort, CancelTask, Intervenes, PipelineInv, StagesInv
  <1>2. CASE Start
    <2>1. SubmitStages(stages, 1, {}) /\ UNCHANGED current
      BY <1>2 DEF Start
    <2>2. 1 \in Nat \ {0} /\ {} \in SUBSET Nat
      OBVIOUS
    <2> QED
      BY <1>1, <2>1, <2>2, StagesSubmitted
  <1>3. CASE OverrideGate
    <2>1. /\ SubmitStages(stages, current + 1, {stages[current].task} \ {0})
          /\ current' = current + 1 /\ current < Final /\ overrides' > 0
      BY <1>1, <1>3 DEF OverrideGate, Intervenes
    <2>2. current \in 1..Final /\ current + 1 \in Nat \ {0}
      BY <1>1, <2>1, StageAgents
    <2>3. {stages[current].task} \ {0} \in SUBSET Nat
      <3>1. stages[current] \in StageRecords
        BY <1>1, <2>2
      <3> QED
        BY <3>1 DEF StageRecords
    <2>4. current' \in Nat \ {0}
      BY <2>1, <2>2
    <2>5. passed \subseteq passed'
      BY <1>1
    <2> QED
      BY <1>1, <2>1, <2>2, <2>3, <2>4, <2>5, StagesSubmitted
  <1>4. CASE OverrideLast
    <2>1. UNCHANGED <<tasks, begun, stages, current>>
      BY <1>4 DEF OverrideLast, queueVars
    <2> QED
      BY <1>1, <2>1, QueueRests, TasksStay DEF PipelineInv
  <1>5. CASE Abort
    <2> DEFINE open == {k \in 1..Final : stages[k].task # 0 /\ stages[k].status = "QUEUED"}
    <2>1. /\ CancelAll({stages[k].task : k \in open}) /\ UNCHANGED current
          /\ stages' = [k \in 1..Final |-> IF k \in open THEN [stages[k] EXCEPT !.status = "CANCELLED"]
                                           ELSE stages[k]]
      BY <1>5 DEF Abort
    <2>2. QueueInv'
      BY <1>1, <2>1, CancelKeeps
    <2>3. open \in SUBSET (1..Final)
      OBVIOUS
    <2> HIDE DEF open
    <2>4. /\ stages' \in [1..Final -> StageRecords]
          /\ \A k \in 1..Final : stages'[k].task = stages[k].task
      BY <2>1, <2>3, StageSettles
    <2> QED
      BY <1>1, <2>1, <2>2, <2>4, TasksStay DEF PipelineInv
  <1>6. CASE CancelTask
    <2>1. QueueInv' /\ UNCHANGED <<stages, current>>
      BY <1>1, <1>6, CancelKeeps DEF CancelTask
    <2> QED
      BY <1>1, <2>1, TasksStay DEF PipelineInv
  <1> QED
    BY <1>2, <1>3, <1>4, <1>5, <1>6

LEMMA NextPipeline == PipelineInv /\ [Next]_vars => PipelineInv'
  <1> SUFFICES ASSUME PipelineInv, [Next]_vars PROVE PipelineInv'
    OBVIOUS
  <1>1. CASE UNCHANGED vars
    <2>1. UNCHANGED pipelineState /\ UNCHANGED <<tasks, begun>> /\ QueueInv
      BY <1>1 DEF vars, queueVars, PipelineInv
    <2> QED
      BY <2>1, QueueRests, PipelineRests
  <1> QED
    BY <1>1, TaskSteps, FinishSteps, HearingSteps, OperatorSteps DEF Next

LEMMA PipelineInvariant == Spec => []PipelineInv
  BY InitPipeline, NextPipeline, PTL DEF Spec

(* fail, dequeue, cancel and the timeout of TaskQueue: a task is begun once, and once more *)
(* for each retry, however its executions, its timeouts and its cancellation interleave.   *)
THEOREM ExecutionsAreBounded == Spec => []BoundedExecutions
  <1>1. PipelineInv => BoundedExecutions
    <2> SUFFICES ASSUME PipelineInv, NEW i \in Ids PROVE begun[i] <= MaxRetries + 1
      BY DEF BoundedExecutions
    <2>1. begun[i] \in Nat /\ begun[i] <= IF i \in DOMAIN tasks THEN BeginsOf(tasks[i]) ELSE 0
      BY DEF PipelineInv, QueueInv
    <2>2. CASE i \in DOMAIN tasks
      <3>1. tasks[i] \in TaskRecords
        BY <2>2, TaskIds DEF PipelineInv
      <3>2. BeginsOf(tasks[i]) \in Nat /\ BeginsOf(tasks[i]) <= MaxRetries + 1
        BY <3>1, QueueAssumption DEF TaskRecords, BeginsOf
      <3> QED
        BY <2>1, <2>2, <3>2, QueueAssumption
    <2>3. CASE i \notin DOMAIN tasks
      BY <2>1, <2>3, QueueAssumption
    <2> QED
      BY <2>2, <2>3
  <1> QED
    BY <1>1, PipelineInvariant, PTL

(* _submit_next_stage and _get_parallel_stages: a stage behind a gate gets its task from a *)
(* result that passed the gate or from an operator, for any stages and gates.              *)
THEOREM GatesHold == Spec => []GatedStagesWait
  <1>1. PipelineInv => GatedStagesWait
    BY DEF PipelineInv
  <1> QED
    BY <1>1, PipelineInvariant, PTL
-----------------------------------------------------------------------------
(* A pipeline no operator interferes with: while it runs, one of its stages has a task    *)
(* that waits, is worked on or is reported, and it completes through all of its gates.    *)

\* tasks somebody executes
Work == {i \in Ids : working[i] > 0}

\* waiting, executed, or ended and not heard of
UnderWay(i) ==
  \/ i \in Range(queue) \cup Work
  \/ \E outcome \in {"COMPLETED", "FAILED"} : <<i, outcome>> \in reports

QueuesTyped == queue \in Seq(Nat) /\ working \in [Ids -> Nat]
StagesOwned == \A k \in 1..Final : stages[k].task # 0 => stages[k].task \in owned
StagesInOrder == \A k \in 1..Final : stages[k].task # 0 => \A j \in 1..k : stages[j].task # 0
Driven ==
  status = "RUNNING" => \E k \in 1..Final : stages[k].task # 0 /\ UnderWay(stages[k].task)
Judged ==
  status = "COMPLETED" =>
    Final \in passed /\ \A k \in 1..Final : Gate(k) # "none" => k \in passed

Unattended == QueuesTyped /\ StagesOwned /\ StagesInOrder /\ Driven /\ Judged

DrivenInv == PipelineInv /\ (overrides = 0 => Unattended)

(* start_pipeline and _submit_next_stage of the orchestrator over the queue: a running      *)
(* pipeline nobody interferes with always has a stage whose task waits, is executed or has  *)
(* ended without the orchestrator knowing yet.  So no retry, timeout, dependency or late    *)
(* report of a replaced task leaves it running with nothing to wait for.                    *)
StageIsUnderWay ==
  (status = "RUNNING" /\ overrides = 0) =>
    \E k \in 1..Final : stages[k].task # 0 /\ UnderWay(stages[k].task)

(* on_task_completed: a pipeline that completes without the operator has had a result that  *)
(* passed at its last stage and at every gate, though stages may be submitted in parallel,  *)
(* replaced, and finish in any order.                                                       *)
EveryGatePassed ==
  (status = "COMPLETED" /\ overrides = 0) =>
    Final \in passed /\ \A k \in 1..Final : Gate(k) # "none" => k \in passed

(* What stands in two sequences in a row, and before and after one entry of a sequence. *)
LEMMA JoinedRange ==
    ASSUME NEW s \in Seq(Nat), NEW t \in Seq(Nat)
    PROVE  s \o t \in Seq(Nat) /\ Range(s) \cup Range(t) \subseteq Range(s \o t)
  <1>1. /\ s \o t \in Seq(Nat) /\ Len(s \o t) = Len(s) + Len(t)
        /\ \A i \in 1..Len(s) + Len(t) : (s \o t)[i] = IF i <= Len(s) THEN s[i] ELSE t[i - Len(s)]
    BY ConcatProperties
  <1>2. /\ Len(s) \in Nat /\ Len(t) \in Nat /\ DOMAIN s = 1..Len(s) /\ DOMAIN t = 1..Len(t)
        /\ DOMAIN (s \o t) = 1..Len(s) + Len(t)
    BY <1>1, LenProperties
  <1>3. ASSUME NEW m \in DOMAIN t PROVE t[m] \in Range(s \o t)
    <2>1. Len(s) + m \in 1..Len(s) + Len(t) /\ ~(Len(s) + m <= Len(s)) /\ (Len(s) + m) - Len(s) = m
      BY <1>2
    <2>2. (s \o t)[Len(s) + m] = t[m]
      BY <1>1, <2>1
    <2> QED
      BY <1>2, <2>1, <2>2 DEF Range
  <1>4. ASSUME NEW m \in DOMAIN s PROVE s[m] \in Range(s \o t)
    <2>1. m \in 1..Len(s) + Len(t) /\ m <= Len(s)
      BY <1>2
    <2>2. (s \o t)[m] = s[m]
      BY <1>1, <2>1
    <2> QED
      BY <1>2, <2>1, <2>2 DEF Range
  <1> QED
    BY <1>1, <1>3, <1>4 DEF Range

LEMMA PartRange ==
    ASSUME NEW q \in Seq(Nat), NEW k \in Nat \ {0}, NEW n \in Nat, n <= Len(q)
    PROVE  /\ SubSeq(q, k, n) \in Seq(Nat)
           /\ \A m \in k..n : q[m] \in Range(SubSeq(q, k, n))
  <1>1. \A m \in k..n : q[m] \in Nat
    <2> SUFFICES ASSUME NEW m \in k..n PROVE q[m] \in Nat
      OBVIOUS
    <2>1. m \in 1..Len(q)
      BY LenProperties
    <2> QED
      BY <2>1
  <1> DEFINE b == SubSeq(q, k, n)
  <1>2. /\ b \in Seq(Nat) /\ Len(b) = IF k <= n THEN n - k + 1 ELSE 0
        /\ \A m \in 1..n - k + 1 : b[m] = q[k + m - 1]
    BY <1>1, SubSeqProperties
  <1> HIDE DEF b
  <1>3. ASSUME NEW m \in k..n PROVE q[m] \in Range(b)
    <2>1. k <= n /\ m - k + 1 \in 1..n - k + 1 /\ k + (m - k + 1) - 1 = m
      OBVIOUS
    <2>2. b[m - k + 1] = q[m]
      BY <1>2, <2>1
    <2>3. DOMAIN b = 1..n - k + 1
      BY <1>2, <2>1, LenProperties
    <2> QED
      BY <2>1, <2>2, <2>3 DEF Range
  <1> QED
    BY <1>2, <1>3 DEF b

(* What is put at any place of the queue stands beside all that was there. *)
LEMMA PlacesKeep ==
    ASSUME NEW ts, NEW q \in Seq(Nat), NEW p, NEW ids \in Seq(Nat), NEW r \in Places(ts, q, p, ids)
    PROVE  r \in Seq(Nat) /\ Range(q) \subseteq Range(r) /\ Range(ids) \subseteq Range(r)
  <1>1. PICK n \in 0..Len(q) : r = SubSeq(q, 1, n) \o ids \o SubSeq(q, n + 1, Len(q))
    BY DEF Places
  <1> DEFINE a == SubSeq(q, 1, n)
             b == SubSeq(q, n + 1, Len(q))
  <1>2. /\ Len(q) \in Nat /\ DOMAIN q = 1..Len(q) /\ n \in Nat /\ n + 1 \in Nat \ {0}
        /\ n <= Len(q) /\ Len(q) <= Len(q) /\ 1 \in Nat \ {0}
    BY LenProperties
  <1>3. a \in Seq(Nat) /\ \A m \in 1..n : q[m] \in Range(a)
    BY <1>2, PartRange
  <1>4. b \in Seq(Nat) /\ \A m \in (n + 1)..Len(q) : q[m] \in Range(b)
    BY <1>2, PartRange
  <1> HIDE DEF a, b
  <1>5. a \o ids \in Seq(Nat) /\ Range(a) \cup Range(ids) \subseteq Range(a \o ids)
    BY <1>3, JoinedRange
  <1>6. r \in Seq(Nat) /\ Range(a \o ids) \cup Range(b) \subseteq Range(r)
    <2>1. r = (a \o ids) \o b
      BY <1>1 DEF a, b
    <2> QED
      BY <1>4, <1>5, <2>1, JoinedRange
  <1>7. ASSUME NEW m \in DOMAIN q PROVE q[m] \in Range(a) \cup Range(b)
    <2>1. m \in 1..n \/ m \in (n + 1)..Len(q)
      BY <1>2
    <2> QED
      BY <1>3, <1>4, <2>1
  <1>8. Range(q) \subseteq Range(a) \cup Range(b)
    BY <1>7 DEF Range
  <1> QED
    BY <1>5, <1>6, <1>8

(* Taking one entry out leaves the others in. *)
LEMMA RemoveLeaves ==
    ASSUME NEW q \in Seq(Nat), NEW n \in DOMAIN q
    PROVE  RemoveAt(q, n) \in Seq(Nat) /\ Range(q) \subseteq Range(RemoveAt(q, n)) \cup {q[n]}
  <1> DEFINE a == SubSeq(q, 1, n - 1)
             b == SubSeq(q, n + 1, Len(q))
  <1>1. RemoveAt(q, n) = a \o b
    BY DEF RemoveAt
  <1>2. DOMAIN q = 1..Len(q) /\ Len(q) \in Nat
    BY LenProperties
  <1>3. n - 1 \in Nat /\ n + 1 \in Nat \ {0} /\ n - 1 <= Len(q) /\ Len(q) <= Len(q) /\ 1 \in Nat \ {0}
    BY <1>2
  <1>4. a \in Seq(Nat) /\ \A m \in 1..(n - 1) : q[m] \in Range(a)
    BY <1>3, PartRange
  <1>5. b \in Seq(Nat) /\ \A m \in (n + 1)..Len(q) : q[m] \in Range(b)
    BY <1>2, <1>3, PartRange
  <1> HIDE DEF a, b
  <1>6. ASSUME NEW m \in DOMAIN q PROVE q[m] \in Range(a) \cup Range(b) \cup {q[n]}
    <2>1. m \in 1..(n - 1) \/ m = n \/ m \in (n + 1)..Len(q)
      BY <1>2
    <2> QED
      BY <1>4, <1>5, <2>1
  <1>7. Range(q) \subseteq Range(a) \cup Range(b) \cup {q[n]}
    BY <1>6 DEF Range
  <1>8. a \o b \in Seq(Nat) /\ Range(a) \cup Range(b) \subseteq Range(a \o b)
    BY <1>4, <1>5, JoinedRange
  <1> QED
    BY <1>1, <1>7, <1>8

(* A retry enters the task in the queue, wherever it stood, and takes nobody out. *)
LEMMA EntersAt ==
    ASSUME NEW q \in Seq(Nat), NEW i \in Nat, queue' \in Places(tasks, q, tasks[i].priority, <<i>>)
    PROVE  queue' \in Seq(Nat) /\ Range(q) \cup {i} \subseteq Range(queue')
  <1>1. <<i>> \in Seq(Nat) /\ Range(<<i>>) = {i}
    BY DEF Range
  <1>2. queue' \in Seq(Nat) /\ Range(q) \subseteq Range(queue') /\ Range(<<i>>) \subseteq Range(queue')
    BY <1>1, PlacesKeep, Zenon
  <1> QED
    BY <1>1, <1>2

LEMMA RetryEnters ==
    ASSUME queue \in Seq(Nat), NEW i \in Nat, Zadd(i)
    PROVE  queue' \in Seq(Nat) /\ Range(queue) \cup {i} \subseteq Range(queue')
  <1>1. CASE queue' \in Places(tasks, queue, tasks[i].priority, <<i>>)
    BY <1>1, EntersAt
  <1>2. ASSUME NEW n \in DOMAIN queue, queue[n] = i,
               queue' \in Places(tasks, RemoveAt(queue, n), tasks[i].priority, <<i>>)
        PROVE  queue' \in Seq(Nat) /\ Range(queue) \cup {i} \subseteq Range(queue')
    <2>1. RemoveAt(queue, n) \in Seq(Nat) /\ Range(queue) \subseteq Range(RemoveAt(queue, n)) \cup {i}
      BY <1>2, RemoveLeaves
    <2>2. queue' \in Seq(Nat) /\ Range(RemoveAt(queue, n)) \cup {i} \subseteq Range(queue')
      BY <1>2, <2>1, EntersAt
    <2> QED
      BY <2>1, <2>2
  <1> QED
    BY <1>1, <1>2 DEF Zadd

(* An agent that takes a task takes it out of the queue and works on it. *)
LEMMA TakeUnderWay ==
    ASSUME PipelineInv, QueuesTyped, NEW a \in Agents, Dequeue(a)
    PROVE  QueuesTyped' /\ \A j : UnderWay(j) => UnderWay(j)'
  <1>1. PICK n \in DOMAIN queue :
          /\ Ready(queue[n], a)
          /\ queue' = RemoveAt(queue, n)
          /\ working' = [working EXCEPT ![queue[n]] = @ + 1]
    BY DEF Dequeue, Take
  <1> DEFINE i == queue[n]
  <1>2. i \in Ids
    BY <1>1, TaskIds DEF Ready, PipelineInv
  <1>3. queue' \in Seq(Nat) /\ Range(queue) \subseteq Range(queue') \cup {i}
    BY <1>1, RemoveLeaves DEF QueuesTyped
  <1> HIDE DEF i
  <1>4. working' = [working EXCEPT ![i] = working[i] + 1] /\ working \in [Ids -> Nat]
    BY <1>1 DEF i, QueuesTyped
  <1>5. working' \in [Ids -> Nat] /\ Work \cup {i} \subseteq Work'
    BY <1>2, <1>4 DEF Work, Ids
  <1>6. UNCHANGED reports
    BY DEF Dequeue
  <1> QED
    BY <1>3, <1>5, <1>6 DEF UnderWay, QueuesTyped

(* An execution that ends is reported, or its task waits in the queue again. *)
LEMMA EndUnderWay ==
    ASSUME PipelineInv, QueuesTyped, NEW i \in DOMAIN tasks, Finish(i) \/ Break(i) \/ TimeOut(i)
    PROVE  QueuesTyped' /\ \A j : UnderWay(j) => UnderWay(j)'
  <1>1. i \in Ids /\ i \in Nat /\ queue \in Seq(Nat) /\ working \in [Ids -> Nat]
    BY TaskIds DEF PipelineInv, QueuesTyped, Ids
  <1>2. working' \in [Ids -> Nat] /\ Work \subseteq Work' \cup {i}
    <2>1. CASE UNCHANGED working
      BY <1>1, <2>1 DEF Work
    <2>2. CASE Reports(i)
      <3>1. working[i] - 1 \in Nat /\ working' = [working EXCEPT ![i] = working[i] - 1]
        BY <1>1, <2>2 DEF Reports
      <3> QED
        BY <1>1, <3>1 DEF Work
    <2> QED
      BY <2>1, <2>2 DEF Finish, Break, TimeOut, CheckTimeout
  <1>3. /\ queue' \in Seq(Nat) /\ Range(queue) \subseteq Range(queue') /\ reports \subseteq reports'
        /\ i \in Range(queue') \/ \E outcome \in {"COMPLETED", "FAILED"} : <<i, outcome>> \in reports'
    <2>1. CASE Finish(i)
      BY <1>1, <2>1 DEF Finish, Complete
    <2>2. CASE Break(i) \/ TimeOut(i)
      <3>1. /\ Retry(i) \/ MoveToDlq(i)
            /\ reports' = IF LastFailure(i) THEN reports \cup {<<i, "FAILED">>} ELSE reports
        BY <2>2 DEF Break, TimeOut, CheckTimeout, Fail
      <3>2. CASE Retry(i)
        <4>1. queue' \in Seq(Nat) /\ Range(queue) \cup {i} \subseteq Range(queue')
          BY <1>1, <3>2, RetryEnters DEF Retry
        <4> QED
          BY <3>1, <4>1
      <3>3. CASE MoveToDlq(i)
        BY <1>1, <3>1, <3>3 DEF MoveToDlq
      <3> QED
        BY <3>1, <3>2, <3>3
    <2> QED
      BY <2>1, <2>2
  <1> QED
    BY <1>2, <1>3 DEF UnderWay, QueuesTyped

(* A submission enters its tasks and takes nobody out. *)
LEMMA SubmitUnderWay ==
    ASSUME QueueInv, QueuesTyped, NEW new \in Seq(TaskRecords), SubmitAll(new)
    PROVE  /\ QueuesTyped' /\ UNCHANGED working /\ Range(queue) \subseteq Range(queue')
           /\ \A n \in 1..Len(new) : Len(tasks) + n \in Range(queue')
  <1> DEFINE ids == [n \in DOMAIN new |-> Len(tasks) + n]
             p == new[1].priority
             ts == tasks'
  <1>1. queue' \in Places(ts, queue, p, ids) /\ UNCHANGED working
    BY DEF SubmitAll
  <1>2. ids \in Seq(Nat) /\ \A n \in 1..Len(new) : Len(tasks) + n \in Range(ids)
    <2>1. DOMAIN new = 1..Len(new) /\ Len(new) \in Nat /\ Len(tasks) \in Nat
      BY LenProperties DEF QueueInv
    <2>2. \A n \in 1..Len(new) : Len(tasks) + n \in Nat
      BY <2>1
    <2>3. ids \in Seq(Nat)
      BY <2>1, <2>2
    <2> QED
      BY <2>1, <2>3 DEF Range
  <1> HIDE DEF ids, p, ts
  <1>3. queue' \in Seq(Nat) /\ Range(queue) \subseteq Range(queue') /\ Range(ids) \subseteq Range(queue')
    <2>1. queue \in Seq(Nat)
      BY DEF QueuesTyped
    <2> QED
      BY <1>1, <1>2, <2>1, PlacesKeep, Zenon
  <1> QED
    BY <1>1, <1>2, <1>3 DEF QueuesTyped

(* A submission that goes on from a stage with a task leaves the stages in order, and its *)
(* first task in the queue.                                                               *)
LEMMA SubmissionDrives ==
    ASSUME PipelineInv, Unattended, NEW st \in [1..Final -> StageRecords], NEW k \in 1..Final,
           NEW deps \in SUBSET Nat, SubmitStages(st, k, deps), UNCHANGED name,
           \A j \in 1..Final : st[j].task = stages[j].task,
           k = 1 \/ stages[k - 1].task # 0
    PROVE  /\ QueuesTyped' /\ StagesOwned' /\ StagesInOrder'
           /\ \E j \in 1..Final : stages'[j].task # 0 /\ UnderWay(stages[j].task)'
  <1> DEFINE ks == ParallelStages(st, k)
             Id(j) == Len(tasks) + 1 + (j - k)
             new == [n \in 1..Cardinality(ks) |-> NewTask(Agent(k + n - 1), Normal, deps)]
  <1>1. /\ SubmitAll(new)
        /\ stages' = [j \in 1..Final |->
                        IF j \in ks THEN [task |-> Id(j), status |-> "QUEUED"] ELSE st[j]]
        /\ owned' = owned \cup {Id(j) : j \in ks}
    BY DEF SubmitStages
  <1>2. /\ Final' = Final /\ Final \in Nat /\ k \in Nat \ {0} /\ k <= Final
        /\ Len(tasks) \in Nat
    BY StageAgents DEF Final, PipelineInv, QueueInv
  <1>3. new \in Seq(TaskRecords) /\ k \in ks /\ 1 \in 1..Len(new)
    BY <1>2, SubmittedTasks
  <1>4. \A j \in ks : j \in k..Final /\ \A i \in k..j : i \in ks
    BY <1>2 DEF ParallelStages
  <1>5. \A j \in ks : Id(j) # 0
    <2> SUFFICES ASSUME NEW j \in ks PROVE Id(j) # 0
      OBVIOUS
    <2>1. j \in k..Final
      BY <1>4
    <2> QED
      BY <1>2, <2>1
  <1>6. Id(k) = Len(tasks) + 1
    BY <1>2
  <1> HIDE DEF ks, new, Id
  <1>7. QueuesTyped' /\ Id(k) \in Range(queue')
    BY <1>1, <1>3, <1>6, SubmitUnderWay DEF PipelineInv, Unattended
  <1>8. \A j \in 1..Final : stages'[j].task = IF j \in ks THEN Id(j) ELSE stages[j].task
    BY <1>1
  <1>9. StagesOwned'
    <2> SUFFICES ASSUME NEW j \in 1..Final, stages'[j].task # 0 PROVE stages'[j].task \in owned'
      BY <1>2 DEF StagesOwned
    <2> QED
      BY <1>1, <1>8 DEF Unattended, StagesOwned
  <1>10. StagesInOrder'
    <2> SUFFICES ASSUME NEW j \in 1..Final, stages'[j].task # 0, NEW i \in 1..j
                 PROVE  stages'[i].task # 0
      BY <1>2 DEF StagesInOrder
    <2>1. i \in 1..Final
      BY <1>2
    <2>2. CASE i \in ks
      BY <1>5, <1>8, <2>1, <2>2
    <2>3. CASE i \notin ks /\ j \in ks
      <3>1. i < k
        BY <1>2, <1>4, <2>3
      <3>2. k - 1 \in 1..Final /\ stages[k - 1].task # 0 /\ i \in 1..(k - 1)
        BY <1>2, <3>1
      <3>3. stages[i].task # 0
        BY <3>2 DEF Unattended, StagesInOrder
      <3> QED
        BY <1>8, <2>1, <2>3, <3>3
    <2>4. CASE i \notin ks /\ j \notin ks
      <3>1. stages[j].task # 0
        BY <1>8, <2>4
      <3>2. stages[i].task # 0
        BY <3>1 DEF Unattended, StagesInOrder
      <3> QED
        BY <1>8, <2>1, <2>4, <3>2
    <2> QED
      BY <2>2, <2>3, <2>4
  <1>11. stages'[k].task # 0 /\ UnderWay(stages[k].task)'
    <2>1. stages'[k].task = Id(k)
      BY <1>3, <1>8
    <2> QED
      BY <1>3, <1>5, <1>7, <2>1 DEF UnderWay
  <1> QED
    BY <1>7, <1>9, <1>10, <1>11

(* The stages keep their tasks, and those under way stay so while the pipeline runs. *)
LEMMA DrivesOn ==
    ASSUME PipelineInv, Unattended, UNCHANGED name, owned \subseteq owned', passed \subseteq passed',
           \A k \in 1..Final : stages'[k].task = stages[k].task,
           QueuesTyped',
           status' = "COMPLETED" => status = "COMPLETED",
           status' = "RUNNING" =>
             /\ status = "RUNNING"
             /\ \A k \in 1..Final : LET j == stages[k].task
                                    IN  j # 0 /\ UnderWay(j) => UnderWay(stages[k].task)'
    PROVE  Unattended'
  <1>1. Final' = Final /\ Final \in Nat /\ \A k : Gate(k)' = Gate(k)
    BY StageAgents DEF Final, Gate
  <1>2. StagesOwned'
    BY <1>1 DEF Unattended, StagesOwned
  <1>3. StagesInOrder'
    <2> SUFFICES ASSUME NEW j \in 1..Final, stages'[j].task # 0, NEW i \in 1..j
                 PROVE  stages'[i].task # 0
      BY <1>1 DEF StagesInOrder
    <2>1. i \in 1..Final /\ stages[j].task # 0
      BY <1>1
    <2>2. stages[i].task # 0
      BY <2>1 DEF Unattended, StagesInOrder
    <2> QED
      BY <2>1, <2>2
  <1>4. Driven'
    <2> SUFFICES ASSUME status' = "RUNNING"
                 PROVE  \E k \in 1..Final : stages'[k].task # 0 /\ UnderWay(stages[k].task)'
      BY <1>1 DEF Driven
    <2>1. PICK k \in 1..Final : stages[k].task # 0 /\ UnderWay(stages[k].task)
      BY DEF Unattended, Driven
    <2> QED
      BY <2>1
  <1>5. Judged'
    BY <1>1 DEF Unattended, Judged
  <1> QED
    BY <1>2, <1>3, <1>4, <1>5 DEF Unattended

(* The steps of agents, of the clock and of outsiders. *)
LEMMA QueueDrives ==
    ASSUME PipelineInv, Unattended,
           \/ \E a \in Agents : Dequeue(a)
           \/ \E i \in DOMAIN tasks : Finish(i) \/ Break(i) \/ TimeOut(i)
           \/ SubmitTask
           \/ Tick
           \/ UNCHANGED vars
    PROVE  Unattended'
  <1>1. UNCHANGED <<name, stages, status, owned, passed>>
    BY DEF Dequeue, Finish, Break, TimeOut, SubmitTask, Tick, vars, pipelineState
  <1>2. QueuesTyped' /\ \A j : UnderWay(j) => UnderWay(j)'
    <2>1. QueueInv /\ QueuesTyped
      BY DEF PipelineInv, Unattended
    <2>2. CASE \E a \in Agents : Dequeue(a)
      BY <2>1, <2>2, TakeUnderWay
    <2>3. CASE \E i \in DOMAIN tasks : Finish(i) \/ Break(i) \/ TimeOut(i)
      BY <2>1, <2>3, EndUnderWay
    <2>4. CASE SubmitTask
      <3>1. PICK t \in ApiTasks : SubmitAll(<<NewTask(t.agent, t.priority, {})>>)
        BY <2>4 DEF SubmitTask
      <3>2. <<NewTask(t.agent, t.priority, {})>> \in Seq(TaskRecords)
        BY OutsidersTask
      <3>3. QueuesTyped' /\ UNCHANGED working /\ Range(queue) \subseteq Range(queue')
        BY <2>1, <3>1, <3>2, SubmitUnderWay
      <3>4. UNCHANGED reports
        BY <2>4 DEF SubmitTask
      <3> QED
        BY <3>3, <3>4 DEF UnderWay, Work
    <2>5. CASE Tick \/ UNCHANGED vars
      <3>1. UNCHANGED <<queue, working, reports>>
        BY <2>5 DEF Tick, Overdue, vars, queueVars
      <3> QED
        BY <2>1, <3>1 DEF QueuesTyped, UnderWay, Work
    <2> QED
      BY <2>2, <2>3, <2>4, <2>5
  <1>3. \A k \in 1..Final : UnderWay(stages[k].task) => UnderWay(stages[k].task)'
    BY <1>1, <1>2
  <1> QED
    BY <1>1, <1>2, <1>3, DrivesOn

(* What the orchestrator hears: a result starts the next stage or ends the pipeline, and *)
(* what it does not listen to is no stage's.                                             *)
LEMMA HearingDrives ==
    ASSUME PipelineInv, Unattended, NEW i \in DOMAIN tasks, OnTaskCompleted(i), overrides = 0
    PROVE  Unattended'
  <1>1. UNCHANGED name /\ QueuesTyped /\ i # 0
    <2>1. UNCHANGED name
      BY DEF OnTaskCompleted, Ignore, StageFails, GateRefuses, LastStageCompletes, StageCompletes, Hear
    <2>2. i \in Ids
      BY TaskIds DEF PipelineInv
    <2> QED
      BY <2>1, <2>2 DEF Unattended, Ids
  <1>2. CASE \E outcome \in {"COMPLETED", "FAILED"} : Ignore(i, outcome)
    <2>1. /\ UNCHANGED <<queue, working, stages, status, owned, passed>> /\ ~Listens(i)
          /\ \A j, outcome : j # i /\ <<j, outcome>> \in reports => <<j, outcome>> \in reports'
      BY <1>2 DEF Ignore, Hear, queueVars
    <2>2. QueuesTyped' /\ \A j : j # i /\ UnderWay(j) => UnderWay(j)'
      BY <1>1, <2>1 DEF QueuesTyped, UnderWay, Work
    <2>3. ASSUME status = "RUNNING", NEW k \in 1..Final, stages[k].task # 0 PROVE stages[k].task # i
      <3>1. stages[k].task \in owned
        BY <2>3 DEF Unattended, StagesOwned
      <3> QED
        BY <2>1, <2>3, <3>1 DEF Listens, StageOf
    <2> QED
      BY <1>1, <2>1, <2>2, <2>3, DrivesOn
  <1>3. CASE StageFails(i)
    <2>1. /\ UNCHANGED <<queue, working, owned, passed>> /\ status' = "FAILED"
          /\ stages' = [k \in 1..Final |-> IF k \in StageOf(i) THEN [stages[k] EXCEPT !.status = "FAILED"]
                                           ELSE stages[k]]
      BY <1>3 DEF StageFails, queueVars, Settle
    <2>2. \A k \in 1..Final : stages'[k].task = stages[k].task
      <3>1. StageOf(i) \in SUBSET (1..Final)
        BY DEF StageOf
      <3> QED
        BY <2>1, <3>1, StageSettles
    <2>3. QueuesTyped'
      BY <1>1, <2>1 DEF QueuesTyped
    <2> QED
      BY <1>1, <2>1, <2>2, <2>3, DrivesOn
  <1>4. CASE GateRefuses(i)
    <2>1. /\ UNCHANGED <<queue, working, owned, passed>> /\ status' = "PAUSED"
          /\ \E k \in 1..Final : stages' = Completed(k)
      BY <1>4 DEF GateRefuses, queueVars, Settle, StageOf
    <2>2. \A k \in 1..Final : stages'[k].task = stages[k].task
      BY <2>1, CompletedSettles
    <2>3. QueuesTyped'
      BY <1>1, <2>1 DEF QueuesTyped
    <2> QED
      BY <1>1, <2>1, <2>2, <2>3, DrivesOn
  <1>5. CASE LastStageCompletes(i)
    <2>1. /\ UNCHANGED <<queue, working, owned, name>> /\ status' = "COMPLETED"
          /\ passed' = passed \cup {Final} /\ Final \in 1..Final /\ stages[Final].task = i
          /\ stages' = Completed(Final)
      BY <1>1, <1>5 DEF LastStageCompletes, queueVars, Settle, StageOf
    <2>2. /\ Final' = Final /\ Final \in Nat /\ (\A k : Gate(k)' = Gate(k))
          /\ \A k \in 1..Final : stages'[k].task = stages[k].task
      BY <2>1, StageAgents, CompletedSettles DEF Final, Gate
    <2>3. QueuesTyped' /\ StagesOwned' /\ StagesInOrder' /\ Driven'
      <3>1. QueuesTyped'
        BY <1>1, <2>1 DEF QueuesTyped
      <3>2. StagesOwned'
        BY <2>1, <2>2 DEF Unattended, StagesOwned
      <3>3. StagesInOrder'
        <4> SUFFICES ASSUME NEW k \in 1..Final, stages'[k].task # 0, NEW j \in 1..k
                     PROVE  stages'[j].task # 0
          BY <2>2 DEF StagesInOrder
        <4>1. j \in 1..Final /\ stages[j].task # 0
          BY <2>2 DEF Unattended, StagesInOrder
        <4> QED
          BY <2>2, <4>1
      <3> QED
        BY <2>1, <3>1, <3>2, <3>3 DEF Driven
    <2>4. ASSUME NEW k \in 1..Final, Gate(k) # "none" PROVE k \in passed'
      <3>1. CASE k = Final
        BY <2>1, <3>1
      <3>2. CASE k # Final
        <4>1. k + 1 \in 2..Final /\ k + 1 \in 1..Final /\ (k + 1) - 1 = k
          BY <2>2, <3>2
        <4>2. stages[k + 1].task # 0
          BY <1>1, <2>1, <4>1 DEF Unattended, StagesInOrder
        <4>3. k \in passed
          BY <2>4, <4>1, <4>2 DEF PipelineInv, GatedStagesWait
        <4> QED
          BY <2>1, <4>3
      <3> QED
        BY <3>1, <3>2
    <2> QED
      BY <2>1, <2>2, <2>3, <2>4 DEF Unattended, Judged
  <1>6. CASE StageCompletes(i)
    <2>1. PICK k \in 1..Final : /\ k < Final /\ stages[k].task = i
                                /\ SubmitStages(Completed(k), k + 1, {i})
      BY <1>6 DEF StageCompletes, StageOf
    <2>2. k + 1 \in 1..Final /\ (k + 1) - 1 = k /\ {i} \in SUBSET Nat
      BY <2>1, StageAgents, TaskIds DEF PipelineInv
    <2>3. /\ Completed(k) \in [1..Final -> StageRecords]
          /\ \A j \in 1..Final : Completed(k)[j].task = stages[j].task
      BY CompletedSettles
    <2>4. /\ QueuesTyped' /\ StagesOwned' /\ StagesInOrder'
          /\ \E j \in 1..Final : stages'[j].task # 0 /\ UnderWay(stages[j].task)'
      BY <1>1, <2>1, <2>2, <2>3, SubmissionDrives
    <2>5. UNCHANGED status /\ status # "COMPLETED" /\ Final' = Final
      BY <1>1, <1>6 DEF StageCompletes, Listens, Final
    <2> QED
      BY <2>4, <2>5 DEF Unattended, Driven, Judged
  <1> QED
    BY <1>2, <1>3, <1>4, <1>5, <1>6 DEF OnTaskCompleted

(* start_pipeline enters the task of the first stage. *)
LEMMA StartDrives == ASSUME PipelineInv, Unattended, Start PROVE Unattended'
  <1>1. /\ SubmitStages(stages, 1, {}) /\ UNCHANGED name /\ status' = "RUNNING"
        /\ stages \in [1..Final -> StageRecords] /\ {} \in SUBSET Nat /\ Final' = Final
    BY DEF Start, PipelineInv, StagesInv, Final
  <1>2. 1 \in 1..Final
    BY StagesAssumption, StageAgents DEF Final
  <1>3. /\ QueuesTyped' /\ StagesOwned' /\ StagesInOrder'
        /\ \E j \in 1..Final : stages'[j].task # 0 /\ UnderWay(stages[j].task)'
    BY <1>1, <1>2, SubmissionDrives
  <1> QED
    BY <1>1, <1>3 DEF Unattended, Driven, Judged

LEMMA InitDriven == Init => DrivenInv
  <1> SUFFICES ASSUME Init PROVE Unattended
    BY InitPipeline DEF DrivenInv
  <1>1. \A k \in 1..Final : stages[k].task = 0
    BY DEF Init
  <1>2. queue \in Seq(Nat) /\ working \in [Ids -> Nat]
    BY DEF Init, QueueInit
  <1> QED
    BY <1>1, <1>2 DEF Init, Unattended, QueuesTyped, StagesOwned, StagesInOrder, Driven, Judged

LEMMA NextDriven == DrivenInv /\ [Next]_vars => DrivenInv'
  <1> SUFFICES ASSUME DrivenInv, [Next]_vars, overrides' = 0 PROVE Unattended'
    BY NextPipeline DEF DrivenInv
  <1>1. PipelineInv /\ overrides \in Nat /\ (overrides = 0 => Unattended)
    BY DEF DrivenInv, PipelineInv, StagesInv
  <1>2. CASE OverrideGate \/ OverrideLast \/ Abort \/ CancelTask
    <2>1. overrides' = overrides + 1
      BY <1>2 DEF OverrideGate, OverrideLast, Intervenes, Abort, CancelTask
    <2> QED
      BY <1>1, <2>1
  <1>3. CASE ~(OverrideGate \/ OverrideLast \/ Abort \/ CancelTask)
    <2>1. UNCHANGED overrides
      BY <1>3 DEF Next, Start, Dequeue, Finish, Break, TimeOut, OnTaskCompleted, Ignore, StageFails,
                  GateRefuses, LastStageCompletes, StageCompletes, Hear, SubmitTask, Tick, vars,
                  pipelineState
    <2>2. Unattended
      BY <1>1, <2>1
    <2> QED
      BY <1>1, <1>3, <2>1, <2>2, QueueDrives, HearingDrives, StartDrives DEF Next
  <1> QED
    BY <1>2, <1>3

LEMMA DrivenInvariant == Spec => []DrivenInv
  BY InitDriven, NextDriven, PTL DEF Spec

(* _submit_next_stage, dequeue, fail and on_task_completed: a pipeline left to itself never *)
(* runs on nothing, the safety that its end (Settles) rests on.                             *)
THEOREM NoPipelineStrands == Spec => []StageIsUnderWay
  <1>1. DrivenInv => StageIsUnderWay
    BY DEF DrivenInv, Unattended, Driven, StageIsUnderWay
  <1> QED
    BY <1>1, DrivenInvariant, PTL

(* on_task_completed, evaluate_gate: no pipeline completes past a gate that let nothing     *)
(* through, for any stages and gates.                                                       *)
THEOREM CompletedIsPassed == Spec => []EveryGatePassed
  <1>1. DrivenInv => EveryGatePassed
    BY DEF DrivenInv, Unattended, Judged, EveryGatePassed
  <1> QED
    BY <1>1, DrivenInvariant, PTL

-----------------------------------------------------------------------------
(* The client of the language model. *)

(* A key that DECR made anew is one below the requests let through since. *)
WindowInv ==
    \A k \in Keys : lmThrough[k] <= lmCount[k] + 1 /\ lmThrough[k] <= PerMinute[k] + 1

InFlight == {c \in Callers : lmPc[c] # "none"}

(* Each call admitted may still cost as much as one call can, and no more than the agents *)
(* are calls on the way: for one agent, and for all of them.                              *)
OwnInv ==
    \A c \in Callers :
       IF lmPc[c] = "none" THEN lmSpent[c] < Budget[c] + MaxCost
                           ELSE lmSpent[c] < Budget[c] /\ 0 < Budget[Global]

AllInv == lmSpent[Global] + Cardinality(InFlight) * MaxCost
              < Budget[Global] + Cardinality(Callers) * MaxCost

PaidInv == ~lmLost => lmPaid = lmSpent

ModelInv == ModelTypeOK /\ WindowInv /\ OwnInv /\ AllInv /\ PaidInv

LEMMA KeysTyped ==
    /\ \A c \in Callers : c \in Keys /\ c # Global
    /\ Global \in Keys
    /\ \A k \in Keys : Budget[k] \in Nat /\ PerMinute[k] \in Nat
    /\ MaxCost \in Nat /\ MaxCost > 0 /\ ModelRetries \in Nat /\ MaxWaits \in Nat \ {0}
  BY CallersAssumption, BudgetAssumption, RateAssumption, RoundsAssumption DEF Keys

(* Rounds keep what is said of the windows when only free keys are taken. *)
LEMMA RoundsKeep ==
    ASSUME ModelTypeOK, WindowInv, NEW taken \in SUBSET Keys, NEW refused \in SUBSET Keys,
           taken \cap refused = {}, \A k \in taken : Free(k), Rounds(taken, refused)
    PROVE  /\ lmCount' \in [Keys -> Int] /\ lmTimed' \in [Keys -> BOOLEAN]
           /\ lmThrough' \in [Keys -> Nat] /\ WindowInv'
  <1>1. PICK gone \in SUBSET refused :
           /\ lmCount' = [k \in Keys |-> CASE k \in gone -> -1
                                           [] k \in taken -> lmCount[k] + 1
                                           [] OTHER -> lmCount[k]]
           /\ lmTimed' = [k \in Keys |->
                             k \notin gone /\ (k \in taken \cup refused \/ lmTimed[k])]
           /\ lmThrough' = [k \in Keys |-> CASE k \in gone -> 0
                                             [] k \in taken -> lmThrough[k] + 1
                                             [] OTHER -> lmThrough[k]]
    BY DEF Rounds
  <1>2. lmTimed' \in [Keys -> BOOLEAN]
    BY <1>1
  <1>3. ASSUME NEW k \in Keys
        PROVE  /\ lmCount'[k] \in Int /\ lmThrough'[k] \in Nat
               /\ lmThrough'[k] <= lmCount'[k] + 1 /\ lmThrough'[k] <= PerMinute[k] + 1
    <2>1. /\ lmCount[k] \in Int /\ lmThrough[k] \in Nat /\ PerMinute[k] \in Nat
          /\ lmThrough[k] <= lmCount[k] + 1 /\ lmThrough[k] <= PerMinute[k] + 1
      BY KeysTyped DEF ModelTypeOK, WindowInv
    <2>2. CASE k \in gone
      <3>1. lmCount'[k] = -1 /\ lmThrough'[k] = 0
        BY <1>1, <2>2
      <3> QED
        BY <2>1, <3>1
    <2>3. CASE k \notin gone /\ k \in taken
      <3>1. lmCount[k] < PerMinute[k]
        BY <2>3 DEF Free
      <3>2. lmCount'[k] = lmCount[k] + 1 /\ lmThrough'[k] = lmThrough[k] + 1
        BY <1>1, <2>3
      <3> QED
        BY <2>1, <3>1, <3>2
    <2>4. CASE k \notin gone /\ k \notin taken
      <3>1. lmCount'[k] = lmCount[k] /\ lmThrough'[k] = lmThrough[k]
        BY <1>1, <2>4
      <3> QED
        BY <2>1, <3>1
    <2> QED
      BY <2>2, <2>3, <2>4
  <1>4. lmCount' \in [Keys -> Int] /\ lmThrough' \in [Keys -> Nat]
    BY <1>1, <1>3
  <1> QED
    BY <1>2, <1>3, <1>4 DEF WindowInv

(* So does a round that breaks: it counts a request that is not let through. *)
LEMMA BreakKeeps ==
    ASSUME ModelTypeOK, WindowInv, NEW c \in Callers, RoundBreaks(c)
    PROVE  /\ lmCount' \in [Keys -> Int] /\ lmTimed' \in [Keys -> BOOLEAN]
           /\ lmThrough' \in [Keys -> Nat] /\ WindowInv'
  <1>1. PICK counted \in SUBSET {c, Global} : \E timed \in SUBSET counted :
           /\ lmCount' = [k \in Keys |-> IF k \in counted THEN lmCount[k] + 1 ELSE lmCount[k]]
           /\ lmTimed' = [k \in Keys |-> k \in timed \/ lmTimed[k]]
           /\ UNCHANGED lmThrough
    BY DEF RoundBreaks
  <1>2. lmTimed' \in [Keys -> BOOLEAN]
    BY <1>1
  <1>3. ASSUME NEW k \in Keys
        PROVE  /\ lmCount'[k] \in Int
               /\ lmThrough'[k] <= lmCount'[k] + 1 /\ lmThrough'[k] <= PerMinute[k] + 1
    <2>1. /\ lmCount[k] \in Int /\ lmThrough[k] \in Nat /\ PerMinute[k] \in Nat
          /\ lmThrough[k] <= lmCount[k] + 1 /\ lmThrough[k] <= PerMinute[k] + 1
      BY KeysTyped DEF ModelTypeOK, WindowInv
    <2>2. lmCount'[k] = lmCount[k] + 1 \/ lmCount'[k] = lmCount[k]
      BY <1>1
    <2> QED
      BY <1>1, <2>1, <2>2
  <1>4. lmCount' \in [Keys -> Int] /\ lmThrough' \in [Keys -> Nat]
    BY <1>1, <1>3 DEF ModelTypeOK
  <1> QED
    BY <1>2, <1>3, <1>4 DEF WindowInv

(* A turn that is looked for ends in a place where a call is on its way. *)
LEMMA TurnsKeep ==
    ASSUME ModelTypeOK, WindowInv, NEW c \in Callers, NEW w \in 0..MaxWaits, w < MaxWaits,
           OwnTurn(c, w) \/ GlobalTurn(c, w)
    PROVE  /\ lmCount' \in [Keys -> Int] /\ lmTimed' \in [Keys -> BOOLEAN]
           /\ lmThrough' \in [Keys -> Nat] /\ WindowInv'
           /\ lmWaits' \in [Callers -> 0..MaxWaits]
           /\ \E pc \in {"own", "all", "provider"} : lmPc' = [lmPc EXCEPT ![c] = pc]
  <1>1. /\ {c, Global} \in SUBSET Keys /\ {c} \in SUBSET Keys /\ {Global} \in SUBSET Keys
        /\ {} \in SUBSET Keys
    BY KeysTyped
  <1>2. PICK taken \in SUBSET Keys, refused \in SUBSET Keys :
           /\ Rounds(taken, refused) /\ \A k \in taken : Free(k)
           /\ taken \cap refused = {}
    BY <1>1, KeysTyped DEF OwnTurn, GlobalTurn
  <1>3. \E pc \in {"own", "all", "provider"} : \E v \in 0..MaxWaits : At(c, pc, v)
    <2>1. 0 \in 0..MaxWaits /\ 1 \in 0..MaxWaits /\ w + 1 \in 0..MaxWaits
      BY KeysTyped
    <2> QED
      BY <2>1 DEF OwnTurn, GlobalTurn
  <1>4. /\ lmCount' \in [Keys -> Int] /\ lmTimed' \in [Keys -> BOOLEAN]
        /\ lmThrough' \in [Keys -> Nat] /\ WindowInv'
    BY <1>2, RoundsKeep
  <1> QED
    BY <1>3, <1>4 DEF At, ModelTypeOK

-----------------------------------------------------------------------------
LEMMA FlightTyped ==
    /\ IsFiniteSet(InFlight) /\ Cardinality(InFlight) \in Nat
    /\ Cardinality(Callers) \in Nat /\ Cardinality(InFlight) <= Cardinality(Callers)
  BY CallersAssumption, FS_Subset, FS_CardinalityType DEF InFlight

(* More calls leave no less to pay. *)
LEMMA Monotone ==
    ASSUME NEW m \in Nat, NEW n \in Nat, m <= n
    PROVE  m * MaxCost \in Nat /\ n * MaxCost \in Nat /\ m * MaxCost <= n * MaxCost
  BY KeysTyped

LEMMA OneLess ==
    ASSUME NEW m \in Nat, m > 0
    PROVE  /\ m - 1 \in Nat /\ (m - 1) * MaxCost \in Nat
           /\ m * MaxCost = (m - 1) * MaxCost + MaxCost
  BY KeysTyped

(* There is always room for the call of one agent. *)
LEMMA RoomForOne == Cardinality(Callers) * MaxCost \in Nat /\ Cardinality(Callers) * MaxCost > 0
  <1>1. Cardinality(Callers) \in Nat /\ Cardinality(Callers) > 0
    BY CallersAssumption, FlightTyped, FS_EmptySet
  <1>2. /\ (Cardinality(Callers) - 1) * MaxCost \in Nat
        /\ Cardinality(Callers) * MaxCost = (Cardinality(Callers) - 1) * MaxCost + MaxCost
    BY <1>1, OneLess
  <1> DEFINE m == Cardinality(Callers) * MaxCost
             r == (Cardinality(Callers) - 1) * MaxCost
  <1> HIDE DEF m, r
  <1>3. m = r + MaxCost /\ r \in Nat
    BY <1>2 DEF m, r
  <1>4. m \in Nat /\ m > 0
    BY <1>3, KeysTyped
  <1> QED
    BY <1>4 DEF m

(* A call that moves on stays in flight; one that ends is one less. *)
LEMMA StaysInFlight ==
    ASSUME ModelTypeOK, NEW c \in Callers, NEW pc, pc # "none", lmPc[c] # "none",
           lmPc' = [lmPc EXCEPT ![c] = pc]
    PROVE  InFlight' = InFlight
  BY DEF ModelTypeOK, InFlight

LEMMA EndsFlight ==
    ASSUME ModelTypeOK, NEW c \in Callers, lmPc[c] # "none",
           lmPc' = [lmPc EXCEPT ![c] = "none"]
    PROVE  /\ Cardinality(InFlight) > 0
           /\ Cardinality(InFlight') = Cardinality(InFlight) - 1
  <1>1. InFlight' = InFlight \ {c} /\ c \in InFlight
    BY DEF ModelTypeOK, InFlight
  <1>2. Cardinality(InFlight \ {c}) = Cardinality(InFlight) - 1
    BY <1>1, FlightTyped, FS_RemoveElement
  <1>3. Cardinality(InFlight) # 0
    BY <1>1, FlightTyped, FS_EmptySet
  <1> QED
    BY <1>1, <1>2, <1>3, FlightTyped

(* What is admitted is admitted within the budgets. *)
LEMMA AdmittedWithin ==
    ASSUME ModelTypeOK, NEW c \in Callers, WithinBudget(c), UNCHANGED lmSpent
    PROVE  AllInv'
  <1>1. lmSpent'[Global] \in Nat /\ lmSpent'[Global] < Budget[Global] /\ Budget[Global] \in Nat
    BY KeysTyped DEF ModelTypeOK, WithinBudget
  <1>2. /\ Cardinality(InFlight') \in Nat /\ Cardinality(Callers) \in Nat
        /\ Cardinality(InFlight') <= Cardinality(Callers)
    BY CallersAssumption, FS_Subset, FS_CardinalityType DEF InFlight
  <1>3. /\ Cardinality(InFlight') * MaxCost \in Nat /\ Cardinality(Callers) * MaxCost \in Nat
        /\ Cardinality(InFlight') * MaxCost <= Cardinality(Callers) * MaxCost
    BY <1>2, Monotone
  <1> QED
    BY <1>1, <1>3 DEF AllInv

(* What ends without a charge leaves room. *)
LEMMA EndedWithin ==
    ASSUME ModelTypeOK, OwnInv, AllInv, NEW c \in Callers, lmPc[c] # "none",
           lmPc' = [lmPc EXCEPT ![c] = "none"], UNCHANGED lmSpent
    PROVE  OwnInv' /\ AllInv'
  <1>1. OwnInv'
    <2>1. \A d \in Callers : lmSpent[d] \in Nat /\ Budget[d] \in Nat /\ MaxCost \in Nat
      BY KeysTyped DEF ModelTypeOK
    <2>2. \A d \in Callers : lmPc'[d] = IF d = c THEN "none" ELSE lmPc[d]
      BY DEF ModelTypeOK
    <2> QED
      BY <2>1, <2>2 DEF OwnInv
  <1>2. AllInv'
    <2> DEFINE n == Cardinality(InFlight)
               m == Cardinality(Callers) * MaxCost
    <2>1. /\ n \in Nat /\ n > 0 /\ Cardinality(InFlight') = n - 1
          /\ n - 1 \in Nat /\ (n - 1) * MaxCost \in Nat
          /\ n * MaxCost = (n - 1) * MaxCost + MaxCost
      BY EndsFlight, FlightTyped, OneLess
    <2>2. lmSpent[Global] \in Nat /\ Budget[Global] \in Nat /\ MaxCost \in Nat /\ m \in Nat
      BY KeysTyped, FlightTyped, Monotone DEF ModelTypeOK
    <2>3. lmSpent[Global] + n * MaxCost < Budget[Global] + m
      BY DEF AllInv
    <2> HIDE DEF n, m
    <2>4. lmSpent[Global] + (n - 1) * MaxCost < Budget[Global] + m
      BY <2>1, <2>2, <2>3
    <2> QED
      BY <2>1, <2>4 DEF AllInv, m
  <1> QED
    BY <1>1, <1>2

(* A charge takes no more than was kept for the call. *)
LEMMA ChargedWithin ==
    ASSUME ModelTypeOK, OwnInv, AllInv, NEW c \in Callers, NEW cost \in 0..MaxCost,
           lmPc[c] # "none", lmPc' = [lmPc EXCEPT ![c] = "none"], Charged(c, cost)
    PROVE  OwnInv' /\ AllInv' /\ lmSpent' \in [Keys -> Nat]
  <1>1. MaxCost \in Nat /\ cost \in Nat /\ cost <= MaxCost
    BY KeysTyped
  <1>2. \A k \in Keys : lmSpent[k] \in Nat /\ lmSpent'[k] = IF k \in {c, Global}
                                                            THEN lmSpent[k] + cost ELSE lmSpent[k]
    BY DEF ModelTypeOK, Charged
  <1>3. lmSpent' \in [Keys -> Nat]
    BY <1>1, <1>2 DEF Charged
  <1>4. OwnInv'
    <2>1. ASSUME NEW d \in Callers
          PROVE  IF lmPc'[d] = "none" THEN lmSpent'[d] < Budget[d] + MaxCost
                 ELSE lmSpent'[d] < Budget[d] /\ 0 < Budget[Global]
      <3>1. d \in Keys /\ d # Global /\ Budget[d] \in Nat
        BY KeysTyped
      <3>2. CASE d = c
        <4>1. lmSpent[d] < Budget[d] /\ lmPc'[d] = "none"
          BY <3>2 DEF OwnInv, ModelTypeOK
        <4>2. lmSpent'[d] = lmSpent[d] + cost /\ lmSpent[d] \in Nat
          BY <1>2, <3>1, <3>2
        <4> QED
          BY <1>1, <3>1, <4>1, <4>2
      <3>3. CASE d # c
        <4>1. lmSpent'[d] = lmSpent[d] /\ lmPc'[d] = lmPc[d]
          BY <1>2, <3>1, <3>3 DEF ModelTypeOK
        <4> QED
          BY <4>1 DEF OwnInv
      <3> QED
        BY <3>2, <3>3
    <2> QED
      BY <2>1 DEF OwnInv
  <1>5. AllInv'
    <2> DEFINE n == Cardinality(InFlight)
               m == Cardinality(Callers) * MaxCost
    <2>1. /\ n \in Nat /\ n > 0 /\ Cardinality(InFlight') = n - 1
          /\ n - 1 \in Nat /\ (n - 1) * MaxCost \in Nat
          /\ n * MaxCost = (n - 1) * MaxCost + MaxCost
      BY EndsFlight, FlightTyped, OneLess
    <2>2. Budget[Global] \in Nat /\ m \in Nat
      BY KeysTyped, FlightTyped, Monotone
    <2>3. lmSpent[Global] + n * MaxCost < Budget[Global] + m
      BY DEF AllInv
    <2>4. lmSpent[Global] \in Nat /\ lmSpent'[Global] = lmSpent[Global] + cost
      BY <1>2, KeysTyped
    <2> HIDE DEF n, m
    <2>5. lmSpent'[Global] + (n - 1) * MaxCost < Budget[Global] + m
      BY <1>1, <2>1, <2>2, <2>3, <2>4
    <2> QED
      BY <2>1, <2>5 DEF AllInv, m
  <1> QED
    BY <1>3, <1>4, <1>5


-----------------------------------------------------------------------------
LEMMA ModelInitInv == ModelInit => ModelInv
  <1> SUFFICES ASSUME ModelInit PROVE ModelInv
    OBVIOUS
  <1>1. ModelTypeOK
    <2>1. 0 \in 0..MaxWaits /\ 0 \in 0..ModelRetries /\ 0 \in Nat /\ 0 \in Int
      BY KeysTyped
    <2> QED
      BY <2>1 DEF ModelInit, ModelTypeOK
  <1>2. WindowInv /\ PaidInv
    BY KeysTyped DEF ModelInit, WindowInv, PaidInv
  <1>3. OwnInv
    BY KeysTyped DEF ModelInit, OwnInv
  <1>4. AllInv
    <2>1. InFlight = {}
      BY DEF ModelInit, InFlight
    <2>2. Cardinality(InFlight) = 0
      BY <2>1, FS_EmptySet
    <2>3. /\ 0 * MaxCost = 0 /\ lmSpent[Global] = 0 /\ Budget[Global] \in Nat
      BY KeysTyped DEF ModelInit
    <2> QED
      BY <2>2, <2>3, RoomForOne DEF AllInv
  <1> QED
    BY <1>1, <1>2, <1>3, <1>4 DEF ModelInv

(* Where the calls and the costs stay as they are, so do the budgets' invariants. *)
LEMMA BudgetsStay ==
    ASSUME ModelInv, UNCHANGED <<lmPc, lmDay>>
    PROVE  OwnInv' /\ AllInv' /\ PaidInv'
  BY DEF ModelInv, OwnInv, AllInv, PaidInv, InFlight, lmDay

(* A call that moves on from one place to another leaves them as they are, too. *)
LEMMA BudgetsMove ==
    ASSUME ModelInv, NEW c \in Callers, lmPc[c] # "none", UNCHANGED lmDay,
           NEW pc \in {"own", "all", "provider"}, lmPc' = [lmPc EXCEPT ![c] = pc]
    PROVE  OwnInv' /\ AllInv' /\ PaidInv'
  <1>1. InFlight' = InFlight
    BY StaysInFlight DEF ModelInv
  <1>2. \A d \in Callers : lmPc'[d] = "none" <=> lmPc[d] = "none"
    BY DEF ModelInv, ModelTypeOK
  <1> QED
    BY <1>1, <1>2 DEF ModelInv, OwnInv, AllInv, PaidInv, lmDay

(* And one that ends without a charge. *)
LEMMA BudgetsEnd ==
    ASSUME ModelInv, NEW c \in Callers, lmPc[c] # "none", Ends(c)
    PROVE  /\ lmPc' \in [Callers -> {"none", "own", "all", "provider"}]
           /\ lmWaits' \in [Callers -> 0..MaxWaits] /\ lmTries' \in [Callers -> 0..ModelRetries]
           /\ lmPc' = [lmPc EXCEPT ![c] = "none"]
           /\ UNCHANGED lmDay => OwnInv' /\ AllInv' /\ PaidInv'
  <1>1. 0 \in 0..MaxWaits /\ 0 \in 0..ModelRetries
    BY KeysTyped
  <1>2. UNCHANGED lmDay => OwnInv' /\ AllInv'
    BY EndedWithin DEF ModelInv, Ends, At, lmDay
  <1>3. UNCHANGED lmDay => PaidInv'
    BY DEF ModelInv, PaidInv, lmDay
  <1> QED
    BY <1>1, <1>2, <1>3 DEF ModelInv, ModelTypeOK, Ends, At

LEMMA CompletionInv ==
    ASSUME ModelInv, NEW c \in Callers, Completion(c)
    PROVE  ModelInv'
  <1>1. ModelTypeOK /\ WindowInv
    BY DEF ModelInv
  <1>2. /\ lmTries' \in [Callers -> 0..ModelRetries] /\ lmCalls' \in Nat
        /\ lmSpent' \in [Keys -> Nat] /\ lmPaid' \in [Keys -> Nat] /\ lmLost' \in BOOLEAN
    BY <1>1 DEF Completion, ModelTypeOK, lmDay
  <1>3. CASE WithinBudget(c) /\ OwnTurn(c, 0)
    <2>1. 0 \in 0..MaxWaits /\ 0 < MaxWaits
      BY KeysTyped
    <2>2. /\ lmCount' \in [Keys -> Int] /\ lmTimed' \in [Keys -> BOOLEAN]
          /\ lmThrough' \in [Keys -> Nat] /\ WindowInv'
          /\ lmWaits' \in [Callers -> 0..MaxWaits]
          /\ \E pc \in {"own", "all", "provider"} : lmPc' = [lmPc EXCEPT ![c] = pc]
      BY <1>1, <1>3, <2>1, TurnsKeep
    <2>3. PICK pc \in {"own", "all", "provider"} : lmPc' = [lmPc EXCEPT ![c] = pc]
      BY <2>2
    <2>4. ModelTypeOK'
      BY <1>1, <1>2, <2>2, <2>3 DEF ModelTypeOK
    <2>5. AllInv'
      BY <1>1, <1>3, AdmittedWithin DEF Completion, lmDay
    <2>6. OwnInv'
      <3>1. \A d \in Callers : lmPc'[d] = IF d = c THEN pc ELSE lmPc[d]
        BY <1>1, <2>3 DEF ModelTypeOK
      <3>2. /\ UNCHANGED lmSpent /\ OwnInv
            /\ lmSpent[c] < Budget[c] /\ lmSpent[Global] < Budget[Global]
        BY <1>3 DEF Completion, lmDay, WithinBudget, ModelInv
      <3>3. \A d \in Callers :
               lmSpent[d] \in Nat /\ Budget[d] \in Nat /\ MaxCost \in Nat
        BY <1>1, KeysTyped DEF ModelTypeOK
      <3>4. 0 < Budget[Global]
        BY <1>1, <3>2, KeysTyped DEF ModelTypeOK
      <3> QED
        BY <3>1, <3>2, <3>3, <3>4 DEF OwnInv
    <2>7. PaidInv'
      BY DEF Completion, lmDay, ModelInv, PaidInv
    <2> QED
      BY <2>2, <2>4, <2>5, <2>6, <2>7 DEF ModelInv
  <1>4. CASE WithinBudget(c) /\ RoundBreaks(c) /\ UNCHANGED <<lmPc, lmWaits>>
    <2>1. /\ lmCount' \in [Keys -> Int] /\ lmTimed' \in [Keys -> BOOLEAN]
          /\ lmThrough' \in [Keys -> Nat] /\ WindowInv'
      BY <1>1, <1>4, BreakKeeps
    <2>2. ModelTypeOK'
      BY <1>1, <1>2, <1>4, <2>1 DEF ModelTypeOK
    <2>3. OwnInv' /\ AllInv' /\ PaidInv'
      BY <1>4, BudgetsStay DEF Completion
    <2> QED
      BY <2>1, <2>2, <2>3 DEF ModelInv
  <1>5. CASE ~WithinBudget(c) /\ UNCHANGED <<lmPc, lmWaits, lmWindow>>
    <2>1. ModelTypeOK'
      BY <1>1, <1>2, <1>5 DEF ModelTypeOK, lmWindow
    <2>2. WindowInv'
      BY <1>1, <1>5 DEF WindowInv, lmWindow
    <2>3. OwnInv' /\ AllInv' /\ PaidInv'
      BY <1>5, BudgetsStay DEF Completion
    <2> QED
      BY <2>1, <2>2, <2>3 DEF ModelInv
  <1> QED
    BY <1>3, <1>4, <1>5 DEF Completion

LEMMA WaitInv ==
    ASSUME ModelInv, NEW c \in Callers, Wait(c)
    PROVE  ModelInv'
  <1>1. ModelTypeOK /\ WindowInv /\ lmWaits[c] \in 0..MaxWaits /\ lmWaits[c] < MaxWaits
    BY DEF ModelInv, ModelTypeOK, Wait
  <1>2. (OwnTurn(c, lmWaits[c]) \/ GlobalTurn(c, lmWaits[c])) /\ lmPc[c] # "none"
    BY DEF Wait
  <1>3. /\ lmCount' \in [Keys -> Int] /\ lmTimed' \in [Keys -> BOOLEAN]
        /\ lmThrough' \in [Keys -> Nat] /\ WindowInv'
        /\ lmWaits' \in [Callers -> 0..MaxWaits]
        /\ \E pc \in {"own", "all", "provider"} : lmPc' = [lmPc EXCEPT ![c] = pc]
    BY <1>1, <1>2, TurnsKeep
  <1>4. PICK pc \in {"own", "all", "provider"} : lmPc' = [lmPc EXCEPT ![c] = pc]
    BY <1>3
  <1>5. ModelTypeOK'
    BY <1>1, <1>3, <1>4 DEF ModelTypeOK, Wait, lmDay
  <1>6. OwnInv' /\ AllInv' /\ PaidInv'
    BY <1>2, <1>4, BudgetsMove DEF Wait
  <1> QED
    BY <1>3, <1>5, <1>6 DEF ModelInv

LEMMA TurnsDownInv ==
    ASSUME ModelInv, NEW c \in Callers, TurnsDown(c)
    PROVE  ModelInv'
  <1>1. lmPc[c] # "none" /\ Ends(c) /\ UNCHANGED <<lmWindow, lmDay, lmCalls>>
    BY DEF TurnsDown
  <1>2. /\ lmPc' \in [Callers -> {"none", "own", "all", "provider"}]
        /\ lmWaits' \in [Callers -> 0..MaxWaits] /\ lmTries' \in [Callers -> 0..ModelRetries]
        /\ OwnInv' /\ AllInv' /\ PaidInv'
    BY <1>1, BudgetsEnd
  <1>3. ModelTypeOK' /\ WindowInv'
    BY <1>1, <1>2 DEF ModelInv, ModelTypeOK, WindowInv, lmWindow, lmDay
  <1> QED
    BY <1>2, <1>3 DEF ModelInv

LEMMA RedisFailsInv ==
    ASSUME ModelInv, NEW c \in Callers, RedisFails(c)
    PROVE  ModelInv'
  <1>1. /\ lmPc[c] # "none" /\ Ends(c) /\ RoundBreaks(c) /\ UNCHANGED <<lmDay, lmCalls>>
        /\ ModelTypeOK /\ WindowInv
    BY DEF RedisFails, ModelInv
  <1>2. /\ lmPc' \in [Callers -> {"none", "own", "all", "provider"}]
        /\ lmWaits' \in [Callers -> 0..MaxWaits] /\ lmTries' \in [Callers -> 0..ModelRetries]
        /\ OwnInv' /\ AllInv' /\ PaidInv'
    BY <1>1, BudgetsEnd
  <1>3. /\ lmCount' \in [Keys -> Int] /\ lmTimed' \in [Keys -> BOOLEAN]
        /\ lmThrough' \in [Keys -> Nat] /\ WindowInv'
    BY <1>1, BreakKeeps
  <1>4. ModelTypeOK'
    BY <1>1, <1>2, <1>3 DEF ModelTypeOK, lmDay
  <1> QED
    BY <1>2, <1>3, <1>4 DEF ModelInv

LEMMA ProviderFailsInv ==
    ASSUME ModelInv, NEW c \in Callers, ProviderFails(c)
    PROVE  ModelInv'
  <1>1. lmPc[c] # "none" /\ UNCHANGED <<lmWindow, lmDay, lmCalls>>
    BY DEF ProviderFails
  <1>2. WindowInv'
    BY <1>1 DEF ModelInv, WindowInv, lmWindow
  <1>3. CASE /\ lmTries[c] < ModelRetries
             /\ lmTries' = [lmTries EXCEPT ![c] = @ + 1] /\ UNCHANGED <<lmPc, lmWaits>>
    <2>1. lmTries[c] + 1 \in 0..ModelRetries
      BY <1>3, KeysTyped DEF ModelInv, ModelTypeOK
    <2>2. ModelTypeOK'
      BY <1>1, <1>3, <2>1 DEF ModelInv, ModelTypeOK, lmWindow, lmDay
    <2>3. OwnInv' /\ AllInv' /\ PaidInv'
      BY <1>1, <1>3, BudgetsStay
    <2> QED
      BY <1>2, <2>2, <2>3 DEF ModelInv
  <1>4. CASE Ends(c)
    <2>1. /\ lmPc' \in [Callers -> {"none", "own", "all", "provider"}]
          /\ lmWaits' \in [Callers -> 0..MaxWaits] /\ lmTries' \in [Callers -> 0..ModelRetries]
          /\ OwnInv' /\ AllInv' /\ PaidInv'
      BY <1>1, <1>4, BudgetsEnd
    <2>2. ModelTypeOK'
      BY <1>1, <2>1 DEF ModelInv, ModelTypeOK, lmWindow, lmDay
    <2> QED
      BY <1>2, <2>1, <2>2 DEF ModelInv
  <1> QED
    BY <1>3, <1>4 DEF ProviderFails

LEMMA ModelAnswersInv ==
    ASSUME ModelInv, NEW c \in Callers, NEW cost \in 0..MaxCost, ModelAnswers(c, cost)
    PROVE  ModelInv'
  <1>1. lmPc[c] # "none" /\ Ends(c) /\ UNCHANGED <<lmWindow, lmCalls>> /\ cost \in Nat
    BY KeysTyped DEF ModelAnswers
  <1>2. /\ lmPc' \in [Callers -> {"none", "own", "all", "provider"}]
        /\ lmWaits' \in [Callers -> 0..MaxWaits] /\ lmTries' \in [Callers -> 0..ModelRetries]
        /\ lmPc' = [lmPc EXCEPT ![c] = "none"]
    BY <1>1, BudgetsEnd
  <1>3. WindowInv'
    BY <1>1 DEF ModelInv, WindowInv, lmWindow
  <1>4. lmPaid' = [k \in Keys |-> IF k \in {c, Global} THEN lmPaid[k] + cost ELSE lmPaid[k]]
    BY DEF ModelAnswers
  <1>5. lmPaid' \in [Keys -> Nat]
    BY <1>1, <1>4 DEF ModelInv, ModelTypeOK
  <1>6. CASE Charged(c, cost) /\ UNCHANGED lmLost
    <2>1. OwnInv' /\ AllInv' /\ lmSpent' \in [Keys -> Nat]
      BY <1>1, <1>2, <1>6, ChargedWithin DEF ModelInv
    <2>2. PaidInv'
      BY <1>4, <1>6 DEF ModelInv, PaidInv, Charged
    <2>3. ModelTypeOK'
      BY <1>1, <1>2, <1>5, <1>6, <2>1 DEF ModelInv, ModelTypeOK, lmWindow
    <2> QED
      BY <1>3, <2>1, <2>2, <2>3 DEF ModelInv
  <1>7. CASE cost > 0 /\ lmLost' = TRUE /\ UNCHANGED lmSpent
    <2>1. OwnInv' /\ AllInv'
      BY <1>1, <1>2, <1>7, EndedWithin DEF ModelInv
    <2>2. PaidInv'
      BY <1>7 DEF PaidInv
    <2>3. ModelTypeOK'
      BY <1>1, <1>2, <1>5, <1>7 DEF ModelInv, ModelTypeOK, lmWindow
    <2> QED
      BY <1>3, <2>1, <2>2, <2>3 DEF ModelInv
  <1> QED
    BY <1>6, <1>7 DEF ModelAnswers

LEMMA ExpireInv ==
    ASSUME ModelInv, NEW k \in Keys, Expire(k)
    PROVE  ModelInv'
  <1>1. /\ lmCount' = [lmCount EXCEPT ![k] = 0] /\ lmTimed' = [lmTimed EXCEPT ![k] = FALSE]
        /\ lmThrough' = [lmThrough EXCEPT ![k] = 0]
        /\ UNCHANGED <<lmCall, lmDay, lmCalls>>
    BY DEF Expire
  <1>2. ModelTypeOK'
    BY <1>1 DEF ModelInv, ModelTypeOK, lmCall, lmDay
  <1>3. WindowInv'
    BY <1>1, KeysTyped DEF ModelInv, ModelTypeOK, WindowInv
  <1>4. OwnInv' /\ AllInv' /\ PaidInv'
    BY <1>1, BudgetsStay DEF lmCall
  <1> QED
    BY <1>2, <1>3, <1>4 DEF ModelInv

(* A new day's budgets leave room for a call of every agent. *)
LEMMA NewDayInv ==
    ASSUME ModelInv, NewDay
    PROVE  ModelInv'
  <1>1. /\ lmSpent' = [k \in Keys |-> 0] /\ lmPaid' = [k \in Keys |-> 0] /\ lmLost' = FALSE
        /\ UNCHANGED <<lmCall, lmWindow, lmCalls>>
    BY DEF NewDay
  <1>2. ModelTypeOK'
    BY <1>1 DEF ModelInv, ModelTypeOK, lmCall, lmWindow
  <1>3. WindowInv' /\ PaidInv'
    BY <1>1 DEF ModelInv, WindowInv, PaidInv, lmWindow
  <1>4. OwnInv'
    <2>1. \A c \in Callers : lmSpent[c] \in Nat /\ Budget[c] \in Nat /\ lmSpent'[c] = 0
      BY <1>1, KeysTyped DEF ModelInv, ModelTypeOK
    <2> QED
      BY <1>1, <2>1, KeysTyped DEF ModelInv, OwnInv, lmCall
  <1>5. AllInv'
    <2>1. InFlight' = InFlight
      BY <1>1 DEF InFlight, lmCall
    <2>2. lmSpent'[Global] = 0 /\ Budget[Global] \in Nat
      BY <1>1, KeysTyped
    <2>3. CASE InFlight = {}
      <3>1. Cardinality(InFlight) = 0 /\ 0 * MaxCost = 0
        BY <2>3, FS_EmptySet, KeysTyped
      <3> QED
        BY <2>1, <2>2, <3>1, RoomForOne DEF AllInv
    <2>4. CASE InFlight # {}
      <3>1. 0 < Budget[Global]
        BY <2>4 DEF ModelInv, OwnInv, InFlight
      <3>2. /\ Cardinality(InFlight) * MaxCost \in Nat /\ Cardinality(Callers) * MaxCost \in Nat
            /\ Cardinality(InFlight) * MaxCost <= Cardinality(Callers) * MaxCost
        BY FlightTyped, Monotone
      <3> QED
        BY <2>1, <2>2, <3>1, <3>2 DEF AllInv
    <2> QED
      BY <2>3, <2>4
  <1> QED
    BY <1>2, <1>3, <1>4, <1>5 DEF ModelInv

LEMMA ModelStepInv == ModelInv /\ [ModelNext]_lmVars => ModelInv'
  <1> SUFFICES ASSUME ModelInv, [ModelNext]_lmVars PROVE ModelInv'
    OBVIOUS
  <1>1. ASSUME NEW c \in Callers, Completion(c) PROVE ModelInv'
    BY <1>1, CompletionInv
  <1>2. ASSUME NEW c \in Callers, Wait(c) PROVE ModelInv'
    BY <1>2, WaitInv
  <1>3. ASSUME NEW c \in Callers, TurnsDown(c) PROVE ModelInv'
    BY <1>3, TurnsDownInv
  <1>4. ASSUME NEW c \in Callers, RedisFails(c) PROVE ModelInv'
    BY <1>4, RedisFailsInv
  <1>5. ASSUME NEW c \in Callers, ProviderFails(c) PROVE ModelInv'
    BY <1>5, ProviderFailsInv
  <1>6. ASSUME NEW c \in Callers, NEW cost \in 0..MaxCost, ModelAnswers(c, cost)
        PROVE  ModelInv'
    BY <1>6, ModelAnswersInv
  <1>7. ASSUME NEW k \in Keys, Expire(k) PROVE ModelInv'
    BY <1>7, ExpireInv
  <1>8. CASE NewDay
    BY <1>8, NewDayInv
  <1>9. CASE UNCHANGED lmVars
    <2>1. ModelTypeOK' /\ WindowInv'
      BY <1>9 DEF lmVars, lmCall, lmWindow, lmDay, ModelInv, ModelTypeOK, WindowInv
    <2>2. OwnInv' /\ AllInv' /\ PaidInv'
      BY <1>9, BudgetsStay DEF lmVars, lmCall
    <2> QED
      BY <2>1, <2>2 DEF ModelInv
  <1> QED
    BY <1>1, <1>2, <1>3, <1>4, <1>5, <1>6, <1>7, <1>8, <1>9 DEF ModelNext

LEMMA ModelInvImplies == ModelInv => SpendingIsBounded /\ RateIsBounded
  <1> SUFFICES ASSUME ModelInv PROVE SpendingIsBounded /\ RateIsBounded
    OBVIOUS
  <1>1. RateIsBounded
    BY DEF ModelInv, WindowInv, RateIsBounded
  <1>2. ASSUME ~lmLost, NEW c \in Callers PROVE lmPaid[c] < Budget[c] + MaxCost
    <2>1. lmPaid[c] = lmSpent[c]
      BY <1>2 DEF ModelInv, PaidInv
    <2>2. lmSpent[c] \in Nat /\ Budget[c] \in Nat /\ MaxCost \in Nat
      BY KeysTyped DEF ModelInv, ModelTypeOK
    <2>3. lmSpent[c] < Budget[c] + MaxCost \/ lmSpent[c] < Budget[c]
      BY DEF ModelInv, OwnInv
    <2> QED
      BY <2>1, <2>2, <2>3
  <1>3. ASSUME ~lmLost PROVE lmPaid[Global] < Budget[Global] + Cardinality(Callers) * MaxCost
    <2>1. lmPaid[Global] = lmSpent[Global]
      BY <1>3 DEF ModelInv, PaidInv
    <2>2. /\ lmSpent[Global] \in Nat /\ Budget[Global] \in Nat
          /\ Cardinality(InFlight) * MaxCost \in Nat /\ Cardinality(Callers) * MaxCost \in Nat
      BY KeysTyped, FlightTyped, Monotone DEF ModelInv, ModelTypeOK
    <2>3. lmSpent[Global] + Cardinality(InFlight) * MaxCost
              < Budget[Global] + Cardinality(Callers) * MaxCost
      BY DEF ModelInv, AllInv
    <2> QED
      BY <2>1, <2>2, <2>3
  <1> QED
    BY <1>1, <1>2, <1>3 DEF SpendingIsBounded

LEMMA ModelStaysBounded == ModelSpec => []ModelInv
  <1>1. ModelInit => ModelInv
    BY ModelInitInv
  <1>2. ModelInv /\ [ModelNext]_lmVars => ModelInv'
    BY ModelStepInv
  <1> QED
    BY <1>1, <1>2, PTL DEF ModelSpec

(* The client of the model keeps its calls and its counters typed. *)
THEOREM ModelTypeCorrect == ModelSpec => []ModelTypeOK
  <1>1. ModelInv => ModelTypeOK
    BY DEF ModelInv
  <1> QED
    BY <1>1, ModelStaysBounded, PTL

(* What a day costs exceeds a budget by less than one call of each agent, and a window lets *)
(* at most one request too many through.                                                    *)
THEOREM ModelStaysWithinLimits == ModelSpec => [](SpendingIsBounded /\ RateIsBounded)
  BY ModelStaysBounded, ModelInvImplies, PTL

-----------------------------------------------------------------------------
(* The research, backtest and forward-test agents. *)

(* Each stage of a run is of one of the three. *)
StageInv ==
    /\ anPc \in {"market", "formulate", "duplicate", "store"} => anAgent = "research"
    /\ anPc \in {"first", "judge", "rerun", "rejudge", "report"} => anAgent = "backtest"
    /\ anPc \in {"evaluate", "decide", "publish"} => anAgent = "forward_test"

(* What is in the stream the knowledge base holds, or has missed, or is about to be given. *)
SentInv == rsSent \subseteq rsKnown \cup rsMissed \cup (IF anPc = "store" THEN {rsHand} ELSE {})

(* The iterations' count is that of the result in hand, or one ahead when the last failed. *)
Iterated ==
    btShown > 0 /\ btCount \in {btShown, btShown + 1} /\ btCount <= MaxIterations

CountInv ==
    /\ anPc \in {"judge", "rerun"} => Iterated /\ btCount = btShown
    /\ anPc = "rejudge" => Iterated
    /\ anPc = "report" => Iterated /\ btJudged = btShown

(* The verdict that is about to be published is the one that was decided on. *)
Decided ==
    /\ ftApproval # "none" <=> ftVerdict = "PROMOTE"
    /\ (ftVerdict = "PROMOTE" /\ ftExact) => ~ftDrift
    /\ ftVerdict = "EXTEND" => ftUsed \in 1..MaxExtensions

DecisionInv == anPc = "publish" => Decided

AnalystsInv ==
    /\ AnalystsTypeOK /\ StageInv /\ SentInv /\ CountInv /\ DecisionInv
    /\ ReportsAreGrounded

LEMMA FailEnds ==
    ASSUME NEW s \in MachineStates, FailFrom(s)
    PROVE  /\ anPc' = "idle" /\ anState' \in MachineStates
           /\ anResult' \in {"FAILED", "raised"}
  BY DEF FailFrom, MachineStates

(* A run that fails leaves nothing to be grounded. *)
LEMMA FailedRunKeeps ==
    ASSUME AnalystsInv, NEW s \in MachineStates, FailFrom(s),
           UNCHANGED <<anTask, rsVars, btVars, ftVars>>, anPc # "store"
    PROVE  AnalystsInv'
  <1>1. /\ anPc' = "idle" /\ anState' \in MachineStates
        /\ anResult' \in {"FAILED", "raised"}
    BY FailEnds
  <1>2. AnalystsTypeOK'
    BY <1>1 DEF AnalystsInv, AnalystsTypeOK, anTask, rsVars, btVars, ftVars
  <1>3. StageInv' /\ CountInv' /\ DecisionInv'
    BY <1>1 DEF StageInv, CountInv, DecisionInv
  <1>4. SentInv' /\ NothingTwice'
    BY <1>1 DEF AnalystsInv, SentInv, ReportsAreGrounded, NothingTwice, rsVars
  <1>5. AnalysisIsOfResult' /\ VerdictIsFollowed'
    BY <1>1 DEF AnalysisIsOfResult, VerdictIsFollowed
  <1> QED
    BY <1>2, <1>3, <1>4, <1>5 DEF AnalystsInv, ReportsAreGrounded

(* A stage that hands on to one of which nothing is said yet. *)
LEMMA MoveKeeps ==
    ASSUME AnalystsInv, NEW s \in MachineStates,
           NEW pc \in {"market", "formulate", "first", "evaluate"}, Moves(s, pc),
           UNCHANGED <<anTask, rsVars, btVars, ftVars>>, anPc # "store",
           pc \in {"market", "formulate"} => anAgent = "research",
           pc = "first" => anAgent = "backtest", pc = "evaluate" => anAgent = "forward_test"
    PROVE  AnalystsInv'
  <1>1. anPc' = pc /\ anState' = s /\ UNCHANGED anResult
    BY DEF Moves
  <1>2. AnalystsTypeOK'
    BY <1>1 DEF AnalystsInv, AnalystsTypeOK, anTask, rsVars, btVars, ftVars
  <1>3. StageInv' /\ CountInv' /\ DecisionInv'
    BY <1>1 DEF StageInv, CountInv, DecisionInv, anTask
  <1>4. SentInv' /\ NothingTwice'
    BY <1>1 DEF AnalystsInv, SentInv, ReportsAreGrounded, NothingTwice, rsVars
  <1>5. AnalysisIsOfResult' /\ VerdictIsFollowed'
    BY <1>1 DEF AnalysisIsOfResult, VerdictIsFollowed
  <1> QED
    BY <1>2, <1>3, <1>4, <1>5 DEF AnalystsInv, ReportsAreGrounded

LEMMA AnalystsInitInv == AnalystsInit => AnalystsInv
  <1> SUFFICES ASSUME AnalystsInit PROVE AnalystsInv
    OBVIOUS
  <1>1. AnalystsTypeOK
    <2>1. rsHand \in Hypotheses
      BY HypothesesAssumption DEF AnalystsInit
    <2>2. 0 \in 0..MaxExtensions /\ "IDLE" \in MachineStates
      BY ExtensionsAssumption DEF MachineStates
    <2> QED
      BY <2>1, <2>2 DEF AnalystsInit, AnalystsTypeOK, Verdicts
  <1>2. StageInv /\ SentInv /\ CountInv /\ DecisionInv
    BY DEF AnalystsInit, StageInv, SentInv, CountInv, DecisionInv
  <1>3. ReportsAreGrounded
    BY DEF AnalystsInit, ReportsAreGrounded, NothingTwice, AnalysisIsOfResult,
           VerdictIsFollowed
  <1> QED
    BY <1>1, <1>2, <1>3 DEF AnalystsInv

LEMMA AssignInv == ASSUME AnalystsInv, Assign PROVE AnalystsInv'
  <1>1. /\ anState' \in MachineStates /\ anPc' \in {"idle", "plan"}
        /\ anResult' \in {"none", "FAILED", "raised"}
    <2>1. anState \in MachineStates /\ anPc = "idle" /\ "PLANNING" \in MachineStates
      BY DEF AnalystsInv, AnalystsTypeOK, Assign, MachineStates
    <2>2. FailFrom(anState) => anPc' = "idle" /\ anState' \in MachineStates
                               /\ anResult' \in {"FAILED", "raised"}
      BY <2>1, FailEnds
    <2> QED
      BY <2>1, <2>2 DEF Assign
  <1>2. /\ btCount' \in Nat /\ btShown' \in Nat /\ btJudged' \in Nat /\ btAdvice' \in Nat
        /\ ftDrift' \in BOOLEAN /\ ftUsed' \in 0..MaxExtensions /\ ftVerdict' \in Verdicts
        /\ ftExact' \in BOOLEAN /\ ftApproval' \in {"none", "granted", "failed"}
    BY DEF Assign, Verdicts
  <1>3. AnalystsTypeOK'
    BY <1>1, <1>2 DEF AnalystsInv, AnalystsTypeOK, Assign, rsVars
  <1>4. StageInv' /\ CountInv' /\ DecisionInv'
    BY <1>1 DEF StageInv, CountInv, DecisionInv
  <1>5. SentInv' /\ NothingTwice'
    BY <1>1 DEF AnalystsInv, SentInv, ReportsAreGrounded, NothingTwice, Assign, rsVars
  <1>6. AnalysisIsOfResult' /\ VerdictIsFollowed'
    BY <1>1 DEF AnalysisIsOfResult, VerdictIsFollowed
  <1> QED
    BY <1>3, <1>4, <1>5, <1>6 DEF AnalystsInv, ReportsAreGrounded

(* A restart between the stream and the knowledge base leaves the hypothesis missed. *)
LEMMA RestartInv == ASSUME AnalystsInv, RestartProcess PROVE AnalystsInv'
  <1>1. /\ anState' = "IDLE" /\ anPc' = "idle" /\ anResult' = "none"
        /\ rsMissed' = rsMissed \cup (IF anPc = "store" THEN {rsHand} ELSE {})
        /\ UNCHANGED <<anTask, rsHand, rsKnown, rsSent, rsAgain, btVars, ftVars>>
    BY DEF RestartProcess
  <1>2. AnalystsTypeOK'
    BY <1>1 DEF AnalystsInv, AnalystsTypeOK, MachineStates, anTask, btVars, ftVars
  <1>3. StageInv' /\ CountInv' /\ DecisionInv'
    BY <1>1 DEF StageInv, CountInv, DecisionInv
  <1>4. SentInv' /\ NothingTwice'
    BY <1>1 DEF AnalystsInv, SentInv, ReportsAreGrounded, NothingTwice
  <1>5. AnalysisIsOfResult' /\ VerdictIsFollowed'
    BY <1>1 DEF AnalysisIsOfResult, VerdictIsFollowed
  <1> QED
    BY <1>2, <1>3, <1>4, <1>5 DEF AnalystsInv, ReportsAreGrounded

-----------------------------------------------------------------------------
LEMMA PlanInv ==
    ASSUME AnalystsInv, ResearchPlan \/ BacktestPlan \/ Deploy PROVE AnalystsInv'
  <1>1. /\ anPc = "plan" /\ UNCHANGED <<anTask, rsVars, btVars, ftVars>>
        /\ "PLANNING" \in MachineStates /\ "EXECUTING" \in MachineStates
    BY DEF ResearchPlan, BacktestPlan, Deploy, MachineStates
  <1>2. CASE FailFrom("PLANNING")
    BY <1>1, <1>2, FailedRunKeeps
  <1>3. CASE /\ anAgent = "research"
             /\ Moves("EXECUTING", "formulate") \/ Moves("EXECUTING", "market")
    BY <1>1, <1>3, MoveKeeps
  <1>4. CASE anAgent = "backtest" /\ Moves("EXECUTING", "first")
    BY <1>1, <1>4, MoveKeeps
  <1>5. CASE anAgent = "forward_test" /\ Moves("EXECUTING", "evaluate")
    BY <1>1, <1>5, MoveKeeps
  <1> QED
    BY <1>2, <1>3, <1>4, <1>5 DEF ResearchPlan, BacktestPlan, Deploy, Plans

(* The report of a research task says nothing of backtests or forward tests. *)
LEMMA ResearchDelivers ==
    ASSUME AnalystsInv, anAgent = "research", Delivers, UNCHANGED <<anTask, btVars, ftVars>>,
           rsHand' \in Hypotheses, rsKnown' \subseteq Hypotheses, rsSent' \subseteq Hypotheses,
           rsAgain' \subseteq Hypotheses, rsMissed' \subseteq Hypotheses,
           rsSent' \subseteq rsKnown' \cup rsMissed', rsAgain' \subseteq rsMissed'
    PROVE  AnalystsInv'
  <1>1. anPc' = "idle" /\ anState' = "COMPLETED" /\ anResult' = "COMPLETED"
    BY DEF Delivers
  <1>2. AnalystsTypeOK'
    BY <1>1 DEF AnalystsInv, AnalystsTypeOK, MachineStates, anTask, btVars, ftVars
  <1>3. StageInv' /\ CountInv' /\ DecisionInv'
    BY <1>1 DEF StageInv, CountInv, DecisionInv
  <1>4. SentInv' /\ NothingTwice'
    BY <1>1 DEF SentInv, NothingTwice
  <1>5. AnalysisIsOfResult' /\ VerdictIsFollowed'
    BY DEF AnalysisIsOfResult, VerdictIsFollowed, anTask
  <1> QED
    BY <1>2, <1>3, <1>4, <1>5 DEF AnalystsInv, ReportsAreGrounded

LEMMA MarketInv == ASSUME AnalystsInv, AnalyseMarket PROVE AnalystsInv'
  <1>1. /\ anPc = "market" /\ anAgent = "research" /\ "EXECUTING" \in MachineStates
        /\ UNCHANGED <<anTask, rsVars, btVars, ftVars>>
    BY DEF AnalyseMarket, AnalystsInv, StageInv, MachineStates
  <1>2. CASE FailFrom("EXECUTING")
    BY <1>1, <1>2, FailedRunKeeps
  <1>3. CASE Delivers
    BY <1>1, <1>3, ResearchDelivers
       DEF AnalystsInv, AnalystsTypeOK, SentInv, ReportsAreGrounded, NothingTwice, rsVars
  <1> QED
    BY <1>2, <1>3 DEF AnalyseMarket

LEMMA FormulateInv == ASSUME AnalystsInv, Formulate PROVE AnalystsInv'
  <1>1. /\ anPc = "formulate" /\ anAgent = "research" /\ "EXECUTING" \in MachineStates
        /\ UNCHANGED <<anTask, rsKnown, rsSent, rsAgain, rsMissed, btVars, ftVars>>
    BY DEF Formulate, AnalystsInv, StageInv, MachineStates
  <1>2. CASE FailFrom("EXECUTING") /\ UNCHANGED rsHand
    BY <1>1, <1>2, FailedRunKeeps DEF rsVars
  <1>3. CASE Moves("REVIEWING", "duplicate") /\ rsHand' \in Hypotheses
    <2>1. anPc' = "duplicate" /\ anState' = "REVIEWING" /\ UNCHANGED anResult
      BY <1>3 DEF Moves
    <2>2. AnalystsTypeOK'
      BY <1>1, <1>3, <2>1 DEF AnalystsInv, AnalystsTypeOK, MachineStates, anTask, btVars, ftVars
    <2>3. StageInv' /\ CountInv' /\ DecisionInv'
      BY <1>1, <2>1 DEF StageInv, CountInv, DecisionInv, anTask
    <2>4. SentInv' /\ NothingTwice'
      BY <1>1, <2>1 DEF AnalystsInv, SentInv, ReportsAreGrounded, NothingTwice
    <2>5. AnalysisIsOfResult' /\ VerdictIsFollowed'
      BY <2>1 DEF AnalysisIsOfResult, VerdictIsFollowed
    <2> QED
      BY <2>2, <2>3, <2>4, <2>5 DEF AnalystsInv, ReportsAreGrounded
  <1> QED
    BY <1>2, <1>3 DEF Formulate, HypothesisRead

(* What is put into the stream a second time had been missed, or is not shown. *)
LEMMA DuplicateInv == ASSUME AnalystsInv, CheckDuplicate PROVE AnalystsInv'
  <1>1. /\ anPc = "duplicate" /\ anAgent = "research" /\ "REVIEWING" \in MachineStates
        /\ UNCHANGED <<anTask, btVars, ftVars>>
    BY DEF CheckDuplicate, AnalystsInv, StageInv, MachineStates
  <1>2. CASE FailFrom("REVIEWING") /\ UNCHANGED rsVars
    BY <1>1, <1>2, FailedRunKeeps
  <1>3. ASSUME NEW shown \in Shown, FindsDuplicate(shown) PROVE AnalystsInv'
    <2>1. Delivers /\ UNCHANGED rsVars
      BY <1>3 DEF FindsDuplicate
    <2> QED
      BY <1>1, <2>1, ResearchDelivers
         DEF AnalystsInv, AnalystsTypeOK, SentInv, ReportsAreGrounded, NothingTwice, rsVars
  <1>4. ASSUME NEW shown \in Shown, PublishHypothesis(shown) PROVE AnalystsInv'
    <2>1. /\ anPc' = "store" /\ anState' = "REVIEWING" /\ UNCHANGED anResult
          /\ rsMissed' = rsMissed \cup (rsKnown \cap {rsHand}) /\ UNCHANGED <<rsHand, rsKnown>>
          /\ \/ UNCHANGED <<rsSent, rsAgain>>
             \/ rsSent' = rsSent \cup {rsHand} /\ rsAgain' = rsAgain \cup (rsSent \cap {rsHand})
      BY <1>4 DEF PublishHypothesis, Moves
    <2>2. /\ rsHand \in Hypotheses /\ rsKnown \subseteq Hypotheses /\ rsSent \subseteq Hypotheses
          /\ rsAgain \subseteq Hypotheses /\ rsMissed \subseteq Hypotheses
          /\ rsSent \subseteq rsKnown \cup rsMissed /\ rsAgain \subseteq rsMissed
      BY <1>1 DEF AnalystsInv, AnalystsTypeOK, SentInv, ReportsAreGrounded, NothingTwice
    <2>3. AnalystsTypeOK'
      BY <1>1, <2>1, <2>2 DEF AnalystsInv, AnalystsTypeOK, MachineStates, anTask, btVars, ftVars
    <2>4. StageInv' /\ CountInv' /\ DecisionInv'
      BY <1>1, <2>1 DEF StageInv, CountInv, DecisionInv, anTask
    <2>5. SentInv'
      BY <2>1, <2>2 DEF SentInv
    <2>6. NothingTwice'
      BY <2>1, <2>2 DEF NothingTwice
    <2>7. AnalysisIsOfResult' /\ VerdictIsFollowed'
      BY <2>1 DEF AnalysisIsOfResult, VerdictIsFollowed
    <2> QED
      BY <2>3, <2>4, <2>5, <2>6, <2>7 DEF AnalystsInv, ReportsAreGrounded
  <1> QED
    BY <1>2, <1>3, <1>4 DEF CheckDuplicate

LEMMA StoreInv == ASSUME AnalystsInv, StoreHypothesis PROVE AnalystsInv'
  <1>1. /\ anAgent = "research" /\ Delivers /\ UNCHANGED <<anTask, btVars, ftVars>>
        /\ UNCHANGED <<rsHand, rsSent, rsAgain>>
        /\ \/ rsKnown' = rsKnown \cup {rsHand} /\ UNCHANGED rsMissed
           \/ rsMissed' = rsMissed \cup {rsHand} /\ UNCHANGED rsKnown
    BY DEF StoreHypothesis, Stored, AnalystsInv, StageInv
  <1>2. /\ rsHand \in Hypotheses /\ rsKnown \subseteq Hypotheses /\ rsSent \subseteq Hypotheses
        /\ rsAgain \subseteq Hypotheses /\ rsMissed \subseteq Hypotheses
        /\ rsSent \subseteq rsKnown \cup rsMissed \cup {rsHand} /\ rsAgain \subseteq rsMissed
    BY DEF StoreHypothesis, AnalystsInv, AnalystsTypeOK, SentInv, ReportsAreGrounded, NothingTwice
  <1> QED
    BY <1>1, <1>2, ResearchDelivers

-----------------------------------------------------------------------------
(* A step of a backtest from one of its stages to another. *)
LEMMA BacktestMoves ==
    ASSUME AnalystsInv, anAgent = "backtest", UNCHANGED <<anTask, rsVars, ftVars>>,
           anPc # "store", anState' \in MachineStates, UNCHANGED anResult,
           anPc' \in {"judge", "rerun", "rejudge", "report"}, CountInv',
           btCount' \in Nat, btShown' \in Nat, btJudged' \in Nat, btAdvice' \in Nat
    PROVE  AnalystsInv'
  <1>1. AnalystsTypeOK'
    BY DEF AnalystsInv, AnalystsTypeOK, anTask, rsVars, ftVars
  <1>2. StageInv' /\ DecisionInv'
    BY DEF StageInv, DecisionInv, anTask
  <1>3. SentInv' /\ NothingTwice'
    BY DEF AnalystsInv, SentInv, ReportsAreGrounded, NothingTwice, rsVars
  <1>4. AnalysisIsOfResult' /\ VerdictIsFollowed'
    BY DEF AnalysisIsOfResult, VerdictIsFollowed
  <1> QED
    BY <1>1, <1>2, <1>3, <1>4 DEF AnalystsInv, ReportsAreGrounded

LEMMA BacktestTyped ==
    ASSUME AnalystsInv
    PROVE  /\ btCount \in Nat /\ btShown \in Nat /\ btJudged \in Nat /\ btAdvice \in Nat
           /\ MaxIterations \in Nat \ {0} /\ "EXECUTING" \in MachineStates
           /\ "REVIEWING" \in MachineStates
  BY IterationsAssumption DEF AnalystsInv, AnalystsTypeOK, MachineStates

LEMMA FirstInv == ASSUME AnalystsInv, FirstBacktest PROVE AnalystsInv'
  <1>1. anPc = "first" /\ anAgent = "backtest" /\ UNCHANGED <<anTask, rsVars, ftVars>>
    BY DEF FirstBacktest, AnalystsInv, StageInv
  <1>2. CASE FailFrom("EXECUTING") /\ UNCHANGED btVars
    BY <1>1, <1>2, BacktestTyped, FailedRunKeeps
  <1>3. CASE /\ Moves("EXECUTING", "judge")
             /\ btCount' = 1 /\ btShown' = 1 /\ UNCHANGED <<btJudged, btAdvice>>
    <2>1. CountInv'
      BY <1>3, BacktestTyped DEF CountInv, Iterated, Moves
    <2> QED
      BY <1>1, <1>3, <2>1, BacktestTyped, BacktestMoves DEF Moves
  <1> QED
    BY <1>2, <1>3 DEF FirstBacktest, TestAnswers

LEMMA JudgeInv == ASSUME AnalystsInv, Judge PROVE AnalystsInv'
  <1>1. anPc = "judge" /\ anAgent = "backtest" /\ UNCHANGED <<anTask, rsVars, ftVars>>
    BY DEF Judge, AnalystsInv, StageInv
  <1>2. CASE FailFrom("EXECUTING") /\ UNCHANGED btVars
    BY <1>1, <1>2, BacktestTyped, FailedRunKeeps
  <1>3. CASE /\ btJudged' = btShown /\ btAdvice' \in 0..MaxAdvice
             /\ Moves("EXECUTING", IF btAdvice' > 0 /\ btCount < MaxIterations
                                   THEN "rerun" ELSE "report")
             /\ UNCHANGED <<btCount, btShown>>
    <2>1. /\ anPc' \in {"rerun", "report"} /\ anState' = "EXECUTING" /\ UNCHANGED anResult
          /\ btAdvice' \in Nat
      BY <1>3 DEF Moves
    <2>2. Iterated /\ btCount = btShown
      BY <1>1 DEF AnalystsInv, CountInv
    <2>3. CountInv'
      BY <1>3, <2>1, <2>2 DEF CountInv, Iterated
    <2> QED
      BY <1>1, <1>3, <2>1, <2>3, BacktestTyped, BacktestMoves
  <1> QED
    BY <1>2, <1>3 DEF Judge, Analysed

(* The count is ahead of the result only where the loop ends. *)
LEMMA RerunInv == ASSUME AnalystsInv, Rerun PROVE AnalystsInv'
  <1>1. /\ anPc = "rerun" /\ anAgent = "backtest"
        /\ UNCHANGED <<anTask, btJudged, rsVars, ftVars>>
    BY DEF Rerun, AnalystsInv, StageInv
  <1>2. Iterated /\ btCount = btShown
    BY <1>1 DEF AnalystsInv, CountInv
  <1>3. CASE btAdvice > 0 /\ btCount < MaxIterations /\ TrySuggestion
    <2>1. btAdvice - 1 \in Nat /\ btCount + 1 \in Nat
      BY <1>3, BacktestTyped
    <2>2. CASE btAdvice' = btAdvice - 1 /\ UNCHANGED <<anMachine, btCount, btShown>>
      <3>1. CountInv'
        BY <1>1, <1>2, <2>2 DEF CountInv, Iterated, anMachine
      <3> QED
        BY <1>1, <2>1, <2>2, <3>1, BacktestTyped, BacktestMoves
           DEF anMachine, AnalystsInv, AnalystsTypeOK
    <2>3. CASE /\ btAdvice' = btAdvice - 1 /\ btCount' = btCount + 1 /\ btShown' = btCount + 1
               /\ UNCHANGED anMachine
      <3>1. CountInv'
        BY <1>1, <1>2, <1>3, <2>3, BacktestTyped DEF CountInv, Iterated, anMachine
      <3> QED
        BY <1>1, <2>1, <2>3, <3>1, BacktestTyped, BacktestMoves
           DEF anMachine, AnalystsInv, AnalystsTypeOK
    <2>4. CASE /\ btCount' = btCount + 1 /\ Moves("EXECUTING", "rejudge")
               /\ UNCHANGED <<btAdvice, btShown>>
      <3>1. CountInv'
        BY <1>1, <1>2, <1>3, <2>4, BacktestTyped DEF CountInv, Iterated, Moves
      <3> QED
        BY <1>1, <2>1, <2>4, <3>1, BacktestTyped, BacktestMoves DEF Moves
    <2>5. CASE FailFrom("EXECUTING") /\ UNCHANGED <<btAdvice, btCount, btShown>>
      BY <1>1, <2>5, BacktestTyped, FailedRunKeeps DEF btVars
    <2> QED
      BY <1>3, <2>2, <2>3, <2>4, <2>5 DEF TrySuggestion, TestAnswers
  <1>4. CASE Moves("EXECUTING", "rejudge") /\ UNCHANGED <<btAdvice, btCount, btShown>>
    <2>1. CountInv'
      BY <1>2, <1>4 DEF CountInv, Iterated, Moves
    <2> QED
      BY <1>1, <1>4, <2>1, BacktestTyped, BacktestMoves DEF Moves
  <1> QED
    BY <1>3, <1>4 DEF Rerun

LEMMA RejudgeInv == ASSUME AnalystsInv, Rejudge PROVE AnalystsInv'
  <1>1. /\ anPc = "rejudge" /\ anAgent = "backtest" /\ Iterated
        /\ UNCHANGED <<anTask, btCount, btShown, btAdvice, rsVars, ftVars>>
    BY DEF Rejudge, AnalystsInv, StageInv, CountInv
  <1>2. CASE FailFrom("EXECUTING") /\ UNCHANGED btJudged
    BY <1>1, <1>2, BacktestTyped, FailedRunKeeps DEF btVars
  <1>3. CASE btJudged' = btShown /\ Moves("EXECUTING", "report")
    <2>1. CountInv'
      BY <1>1, <1>3 DEF CountInv, Iterated, Moves
    <2> QED
      BY <1>1, <1>3, <2>1, BacktestTyped, BacktestMoves DEF Moves
  <1> QED
    BY <1>2, <1>3 DEF Rejudge

LEMMA ReportInv == ASSUME AnalystsInv, ReportBacktest PROVE AnalystsInv'
  <1>1. /\ anPc = "report" /\ anAgent = "backtest" /\ Iterated /\ btJudged = btShown
        /\ UNCHANGED <<anTask, rsVars, btVars, ftVars>>
    BY DEF ReportBacktest, AnalystsInv, StageInv, CountInv
  <1>2. CASE FailFrom("REVIEWING")
    BY <1>1, <1>2, BacktestTyped, FailedRunKeeps
  <1>3. CASE Delivers
    <2>1. anPc' = "idle" /\ anState' = "COMPLETED" /\ anResult' = "COMPLETED"
      BY <1>3 DEF Delivers
    <2>2. AnalystsTypeOK'
      BY <1>1, <2>1 DEF AnalystsInv, AnalystsTypeOK, MachineStates, anTask, rsVars, btVars, ftVars
    <2>3. StageInv' /\ CountInv' /\ DecisionInv'
      BY <2>1 DEF StageInv, CountInv, DecisionInv
    <2>4. SentInv' /\ NothingTwice'
      BY <1>1, <2>1 DEF AnalystsInv, SentInv, ReportsAreGrounded, NothingTwice, rsVars
    <2>5. AnalysisIsOfResult'
      BY <1>1 DEF AnalysisIsOfResult, Iterated, btVars
    <2>6. VerdictIsFollowed'
      BY <1>1 DEF VerdictIsFollowed, anTask
    <2> QED
      BY <2>2, <2>3, <2>4, <2>5, <2>6 DEF AnalystsInv, ReportsAreGrounded
  <1> QED
    BY <1>2, <1>3 DEF ReportBacktest

-----------------------------------------------------------------------------
LEMMA ForwardTyped ==
    ASSUME AnalystsInv
    PROVE  /\ ftDrift \in BOOLEAN /\ ftUsed \in 0..MaxExtensions /\ ftVerdict \in Verdicts
           /\ ftExact \in BOOLEAN /\ ftApproval \in {"none", "granted", "failed"}
           /\ MaxExtensions \in Nat
           /\ "EXECUTING" \in MachineStates /\ "REVIEWING" \in MachineStates
  BY ExtensionsAssumption DEF AnalystsInv, AnalystsTypeOK, MachineStates

(* A step of a forward test from one of its stages to another. *)
LEMMA ForwardMoves ==
    ASSUME AnalystsInv, anAgent = "forward_test", UNCHANGED <<anTask, rsVars, btVars>>,
           anPc # "store", anState' \in MachineStates, UNCHANGED anResult,
           anPc' \in {"decide", "publish"}, DecisionInv',
           ftDrift' \in BOOLEAN, ftUsed' \in 0..MaxExtensions, ftVerdict' \in Verdicts,
           ftExact' \in BOOLEAN, ftApproval' \in {"none", "granted", "failed"}
    PROVE  AnalystsInv'
  <1>1. AnalystsTypeOK'
    BY DEF AnalystsInv, AnalystsTypeOK, anTask, rsVars, btVars
  <1>2. StageInv' /\ CountInv'
    BY DEF StageInv, CountInv, anTask
  <1>3. SentInv' /\ NothingTwice'
    BY DEF AnalystsInv, SentInv, ReportsAreGrounded, NothingTwice, rsVars
  <1>4. AnalysisIsOfResult' /\ VerdictIsFollowed'
    BY DEF AnalysisIsOfResult, VerdictIsFollowed
  <1> QED
    BY <1>1, <1>2, <1>3, <1>4 DEF AnalystsInv, ReportsAreGrounded

LEMMA EvaluateInv == ASSUME AnalystsInv, Evaluate PROVE AnalystsInv'
  <1>1. anPc = "evaluate" /\ anAgent = "forward_test" /\ UNCHANGED <<anTask, rsVars, btVars>>
    BY DEF Evaluate, AnalystsInv, StageInv
  <1>2. CASE (FailFrom("EXECUTING") \/ FailFrom("REVIEWING")) /\ UNCHANGED ftVars
    BY <1>1, <1>2, ForwardTyped, FailedRunKeeps
  <1>3. CASE /\ Moves("REVIEWING", "decide")
             /\ ftDrift' \in BOOLEAN /\ ftVerdict' \in Verdicts /\ ftExact' \in BOOLEAN
             /\ UNCHANGED <<ftUsed, ftApproval>>
    <2>1. DecisionInv'
      BY <1>3 DEF DecisionInv, Moves
    <2> QED
      BY <1>1, <1>3, <2>1, ForwardTyped, ForwardMoves DEF Moves
  <1> QED
    BY <1>2, <1>3 DEF Evaluate, Assessed

(* The verdict is overridden by a drift that is seen and by extensions that are used up. *)
LEMMA DecideInv == ASSUME AnalystsInv, Decide PROVE AnalystsInv'
  <1>1. anPc = "decide" /\ anAgent = "forward_test" /\ UNCHANGED <<anTask, rsVars, btVars>>
    BY DEF Decide, AnalystsInv, StageInv
  <1>2. CASE FailFrom("REVIEWING") /\ UNCHANGED ftVars
    BY <1>1, <1>2, ForwardTyped, FailedRunKeeps
  <1>3. CASE /\ Moves("REVIEWING", "publish")
             /\ ftVerdict' = Recommended
             /\ ftUsed' = (IF Recommended = "EXTEND" THEN ftUsed + 1 ELSE ftUsed)
             /\ ftApproval' \in IF Recommended = "PROMOTE" THEN {"granted", "failed"} ELSE {"none"}
             /\ UNCHANGED <<ftDrift, ftExact>>
    <2>1. anPc' = "publish" /\ anState' = "REVIEWING" /\ UNCHANGED anResult
      BY <1>3 DEF Moves
    <2>2. Recommended \in Verdicts
      BY ForwardTyped DEF Recommended, Undrifted, Verdicts
    <2>3. Recommended = "EXTEND" => ftUsed + 1 \in 1..MaxExtensions
      BY ForwardTyped DEF Recommended
    <2>4. (Recommended = "PROMOTE" /\ ftExact) => ~ftDrift
      BY DEF Recommended, Undrifted
    <2>5. ftUsed' \in 0..MaxExtensions
      BY <1>3, <2>3, ForwardTyped
    <2>6. ftApproval' \in {"none", "granted", "failed"}
      BY <1>3
    <2>7. ftVerdict' = "EXTEND" => ftUsed' \in 1..MaxExtensions
      BY <1>3, <2>3
    <2>8. ftApproval' # "none" <=> ftVerdict' = "PROMOTE"
      BY <1>3
    <2>9. (ftVerdict' = "PROMOTE" /\ ftExact') => ~ftDrift'
      BY <1>3, <2>4
    <2>10. DecisionInv'
      BY <2>7, <2>8, <2>9 DEF DecisionInv, Decided
    <2> QED
      BY <1>1, <1>3, <2>1, <2>2, <2>5, <2>6, <2>10, ForwardTyped, ForwardMoves
  <1> QED
    BY <1>2, <1>3 DEF Decide

LEMMA ForwardReportInv == ASSUME AnalystsInv, ReportForwardTest PROVE AnalystsInv'
  <1>1. /\ anPc = "publish" /\ anAgent = "forward_test" /\ Decided
        /\ UNCHANGED <<anTask, rsVars, btVars, ftVars>>
    BY DEF ReportForwardTest, AnalystsInv, StageInv, DecisionInv
  <1>2. CASE FailFrom("REVIEWING")
    BY <1>1, <1>2, ForwardTyped, FailedRunKeeps
  <1>3. CASE Delivers
    <2>1. anPc' = "idle" /\ anState' = "COMPLETED" /\ anResult' = "COMPLETED"
      BY <1>3 DEF Delivers
    <2>2. AnalystsTypeOK'
      BY <1>1, <2>1 DEF AnalystsInv, AnalystsTypeOK, MachineStates, anTask, rsVars, btVars, ftVars
    <2>3. StageInv' /\ CountInv' /\ DecisionInv'
      BY <2>1 DEF StageInv, CountInv, DecisionInv
    <2>4. SentInv' /\ NothingTwice'
      BY <1>1, <2>1 DEF AnalystsInv, SentInv, ReportsAreGrounded, NothingTwice, rsVars
    <2>5. AnalysisIsOfResult'
      BY <1>1 DEF AnalysisIsOfResult, anTask
    <2>6. VerdictIsFollowed'
      BY <1>1 DEF VerdictIsFollowed, Decided, ftVars
    <2> QED
      BY <2>2, <2>3, <2>4, <2>5, <2>6 DEF AnalystsInv, ReportsAreGrounded
  <1> QED
    BY <1>2, <1>3 DEF ReportForwardTest

-----------------------------------------------------------------------------
LEMMA AnalystsStutter == ASSUME AnalystsInv, UNCHANGED anVars PROVE AnalystsInv'
  <1> USE DEF anVars, anMachine, anTask, rsVars, btVars, ftVars, AnalystsInv
  <1>1. AnalystsTypeOK' /\ StageInv' /\ SentInv'
    BY DEF AnalystsTypeOK, StageInv, SentInv
  <1>2. CountInv' /\ DecisionInv'
    BY DEF CountInv, Iterated, DecisionInv, Decided
  <1>3. ReportsAreGrounded'
    BY DEF ReportsAreGrounded, NothingTwice, AnalysisIsOfResult, VerdictIsFollowed
  <1> QED
    BY <1>1, <1>2, <1>3

LEMMA AnalystsStepInv == AnalystsInv /\ [AnalystsNext]_anVars => AnalystsInv'
  <1> SUFFICES ASSUME AnalystsInv, [AnalystsNext]_anVars PROVE AnalystsInv'
    OBVIOUS
  <1>1. CASE UNCHANGED anVars
    BY <1>1, AnalystsStutter
  <1>2. CASE Assign \/ RestartProcess
    BY <1>2, AssignInv, RestartInv
  <1>3. CASE ResearchPlan \/ BacktestPlan \/ Deploy
    BY <1>3, PlanInv
  <1>4. CASE AnalyseMarket \/ Formulate \/ CheckDuplicate \/ StoreHypothesis
    BY <1>4, MarketInv, FormulateInv, DuplicateInv, StoreInv
  <1>5. CASE FirstBacktest \/ Judge \/ Rerun \/ Rejudge \/ ReportBacktest
    BY <1>5, FirstInv, JudgeInv, RerunInv, RejudgeInv, ReportInv
  <1>6. CASE Evaluate \/ Decide \/ ReportForwardTest
    BY <1>6, EvaluateInv, DecideInv, ForwardReportInv
  <1> QED
    BY <1>1, <1>2, <1>3, <1>4, <1>5, <1>6 DEF AnalystsNext

LEMMA AnalystsStay == AnalystsSpec => []AnalystsInv
  BY AnalystsInitInv, AnalystsStepInv, PTL DEF AnalystsSpec

(* The agents' machines, counts and verdicts keep their types. *)
THEOREM AnalystsTypeCorrect == AnalystsSpec => []AnalystsTypeOK
  <1>1. AnalystsInv => AnalystsTypeOK
    BY DEF AnalystsInv
  <1> QED
    BY <1>1, AnalystsStay, PTL

(* No hypothesis is put into the stream twice unless it was missed, a backtest's analysis is *)
(* of its result, and a forward test's verdict is followed.                                  *)
THEOREM ReportsStayGrounded == AnalystsSpec => []ReportsAreGrounded
  <1>1. AnalystsInv => ReportsAreGrounded
    BY DEF AnalystsInv
  <1> QED
    BY <1>1, AnalystsStay, PTL

-----------------------------------------------------------------------------
(* All four agents and the client they share: converted code and configurations are tested *)
(* or put back, reports are grounded, and the model's limits hold.                         *)
THEOREM AgentsWorkSoundly == ConverterSpec /\ AnalystsSpec /\ ModelSpec => []SoundWork
  BY ConverterEndsChecked, ReportsStayGrounded, ModelStaysWithinLimits, PTL DEF SoundWork
=============================================================================
