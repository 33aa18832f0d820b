------------------------------- MODULE Pipeline -------------------------------
(***************************************************************************)
(* The pipeline orchestrator (agents/pipeline.py) over the task queue: one *)
(* pipeline, whose stages are tasks of different agents with gates between *)
(* them.  Its own state is in memory; handlers run one at a time in the    *)
(* event loop.  The agents' results, and the order in which they come, are *)
(* anything the queue allows.                                              *)
(***************************************************************************)
EXTENDS TaskQueue, Integers

CONSTANTS DefaultStages,     \* DEFAULT_PIPELINE_STAGES: the agents of the stages
          RefinementStages,  \* REFINEMENT_PIPELINE_STAGES
          DefaultGates,      \* the gate of each stage: "none", "metric" or "human"
          RefinementGates,
          ApiTasks,          \* agent and priority of the tasks submitted through the API
          MaxInterventions   \* bound on the operator's interventions and API tasks

ASSUME StagesAssumption ==
  DefaultStages \in Seq(Agents) \ {<<>>} /\ RefinementStages \in Seq(Agents) \ {<<>>}
ASSUME ApiAssumption == ApiTasks \subseteq [agent : Agents, priority : Nat]

VARIABLES name,       \* which of the two pipelines start_pipeline was asked for
          stages,     \* task id (0: none), status and result of each stage
          status,     \* Pipeline.status
          current,    \* current_stage_index, from 1
          owned,      \* _task_to_pipeline: tasks of the pipeline
          reports,    \* ends of executions the orchestrator has not heard of
          row,        \* what the backend was told last
          algorithm,  \* the file a refinement works on: "original" or "refined"
          passed,     \* history: stages whose gate has let a result through
          overrides   \* history: interventions of the operator

pipelineState == <<name, stages, status, current, owned, row, algorithm, passed, overrides>>
vars == <<queueVars, pipelineState, reports>>

Agent(k) == IF name = "refinement" THEN RefinementStages[k] ELSE DefaultStages[k]
Gate(k) == IF name = "refinement" THEN RefinementGates[k] ELSE DefaultGates[k]
Final == IF name = "refinement" THEN Len(RefinementStages) ELSE Len(DefaultStages)

Normal == 2
Outsiders == {i \in DOMAIN tasks : i \notin owned}
MayIntervene == overrides + Cardinality(Outsiders) < MaxInterventions

Init ==
  /\ QueueInit
  /\ name \in {"default", "refinement"}
  /\ stages = [k \in 1..Final |-> [task |-> 0, status |-> "PENDING"]]
  /\ status = "PENDING"
  /\ current = 1
  /\ owned = {}
  /\ reports = {}
  /\ row = "none"
  /\ algorithm = "original"
  /\ passed = {}
  /\ overrides = 0

(***************************************************************************)
(* _get_parallel_stages: a stage, and those after it as long as the one    *)
(* before has no gate and they have not been submitted.                    *)
(***************************************************************************)
\* Fault: forgets the gates
ParallelStagesUngated(st, k) ==
  {j \in k..Final : \A i \in (k + 1)..j : st[i].status = "PENDING"}

ParallelStages(st, k) ==
  {j \in k..Final : \A i \in (k + 1)..j : Gate(i - 1) = "none" /\ st[i].status = "PENDING"}

(***************************************************************************)
(* _submit_stage_tasks and _submit_next_stage: one task per stage, which   *)
(* takes the place of the task the stage had.                              *)
(***************************************************************************)
\* Fault: the tasks are not entered in _task_to_pipeline
SubmitStagesUnregistered(st, k, deps) ==
  LET ks == ParallelStages(st, k)
      Id(j) == Len(tasks) + 1 + (j - k)
  IN  /\ SubmitAll([n \in 1..Cardinality(ks) |-> NewTask(Agent(k + n - 1), Normal, deps)])
      /\ stages' = [j \in 1..Final |->
                      IF j \in ks THEN [task |-> Id(j), status |-> "QUEUED"] ELSE st[j]]
      /\ UNCHANGED owned

SubmitStages(st, k, deps) ==
  LET ks == ParallelStages(st, k)
      Id(j) == Len(tasks) + 1 + (j - k)
  IN  /\ SubmitAll([n \in 1..Cardinality(ks) |-> NewTask(Agent(k + n - 1), Normal, deps)])
      /\ stages' = [j \in 1..Final |->
                      IF j \in ks THEN [task |-> Id(j), status |-> "QUEUED"] ELSE st[j]]
      /\ owned' = owned \cup {Id(j) : j \in ks}

\* start_pipeline
Start ==
  /\ status = "PENDING"
  /\ SubmitStages(stages, 1, {})
  /\ status' = "RUNNING"
  /\ row' = "RUNNING"
  /\ UNCHANGED <<name, current, algorithm, passed, overrides, reports>>

(***************************************************************************)
(* An agent's execution ends: the queue is told at once, the orchestrator  *)
(* next.  A failed execution is reported to it when no retry is left.  The *)
(* converter of a refinement has kept a backup and written the new file.   *)
(***************************************************************************)
Finish(i) ==
  /\ Reports(i)
  /\ Complete(i)
  /\ reports' = reports \cup {<<i, "COMPLETED">>}
  /\ algorithm' = IF name = "refinement" /\ i \in owned /\ tasks[i].agent = Agent(1)
                   THEN "refined" ELSE algorithm
  /\ UNCHANGED <<name, stages, status, current, owned, row, passed, overrides>>

Break(i) ==
  /\ Reports(i)
  /\ Fail(i)
  /\ reports' = IF LastFailure(i) THEN reports \cup {<<i, "FAILED">>} ELSE reports
  /\ UNCHANGED pipelineState

TimeOut(i) ==
  /\ CheckTimeout(i)
  /\ reports' = IF LastFailure(i) THEN reports \cup {<<i, "FAILED">>} ELSE reports
  /\ UNCHANGED pipelineState

(***************************************************************************)
(* on_task_completed.  A task that a later submission of its stage has     *)
(* replaced is looked up in vain.                                          *)
(***************************************************************************)

Settle(s) == status' = s /\ row' = s
StageOf(i) == {k \in 1..Final : stages[k].task = i}
Listens(i) == i \in owned /\ status \in {"RUNNING", "PAUSED"} /\ StageOf(i) # {}

Hear(i, outcome) ==
  /\ <<i, outcome>> \in reports
  /\ reports' = reports \ {<<i, outcome>>}
  /\ UNCHANGED <<name, overrides>>

Ignore(i, outcome) ==
  /\ Hear(i, outcome)
  /\ ~Listens(i)
  /\ UNCHANGED <<queueVars, stages, status, current, owned, row, algorithm, passed>>

StageFails(i) ==
  /\ Hear(i, "FAILED")
  /\ Listens(i)
  /\ stages' = [k \in 1..Final |->
                  IF k \in StageOf(i) THEN [stages[k] EXCEPT !.status = "FAILED"] ELSE stages[k]]
  /\ Settle("FAILED")
  /\ UNCHANGED <<queueVars, current, owned, algorithm, passed>>

\* evaluate_gate: the metrics of a result are data; the operator's gate never passes by itself
Passes(k) == Gate(k) \in {"none", "metric"}
Refuses(k) == Gate(k) \in {"metric", "human"}
Completed(k) == [stages EXCEPT ![k].status = "COMPLETED"]

\* _handle_refinement_gate_failure: when every metric is worse the original is written
\* back, if the converter stage's result is there to name its backup and nothing fails
RestoreOriginal ==
  \/ UNCHANGED algorithm
  \/ name = "refinement" /\ stages[1].status = "COMPLETED" /\ algorithm' = "original"

GateRefuses(i) ==
  /\ Hear(i, "COMPLETED")
  /\ Listens(i)
  /\ \E k \in StageOf(i) : Refuses(k) /\ stages' = Completed(k)
  /\ Settle("PAUSED")
  /\ RestoreOriginal
  /\ UNCHANGED <<queueVars, current, owned, passed>>

LastStageCompletes(i) ==
  /\ Hear(i, "COMPLETED")
  /\ Listens(i)
  /\ Final \in StageOf(i) /\ Passes(Final)
  /\ stages' = Completed(Final)
  /\ passed' = passed \cup {Final}
  /\ current' = Final
  /\ Settle("COMPLETED")
  /\ UNCHANGED <<queueVars, owned, algorithm>>

StageCompletes(i) ==
  /\ Hear(i, "COMPLETED")
  /\ Listens(i)
  /\ \E k \in StageOf(i) :
       /\ k < Final /\ Passes(k)
       /\ passed' = passed \cup {k}
       /\ current' = k + 1
       /\ SubmitStages(Completed(k), k + 1, {i})
  /\ row' = status
  /\ UNCHANGED <<status, algorithm>>

(***************************************************************************)
(* override_gate: goes on from current_stage_index, whichever stage's gate *)
(* has refused, and lets the next task depend on the current stage's.      *)
(***************************************************************************)
Intervenes ==
  /\ status = "PAUSED"
  /\ MayIntervene
  /\ overrides' = overrides + 1
  /\ UNCHANGED <<name, algorithm, passed, reports>>

OverrideLast ==
  /\ Intervenes
  /\ current = Final
  /\ Settle("COMPLETED")
  /\ UNCHANGED <<queueVars, stages, current, owned>>

OverrideGate ==
  /\ Intervenes
  /\ current < Final
  /\ current' = current + 1
  /\ SubmitStages(stages, current + 1, {stages[current].task} \ {0})
  /\ Settle("RUNNING")

(***************************************************************************)
(* abort: cancels the tasks the stages know of.                            *)
(***************************************************************************)
Abort ==
  LET open == {k \in 1..Final : stages[k].task # 0 /\ stages[k].status = "QUEUED"}
  IN  /\ status \in {"RUNNING", "PAUSED"}
      /\ MayIntervene
      /\ overrides' = overrides + 1
      /\ CancelAll({stages[k].task : k \in open})
      /\ stages' = [k \in 1..Final |->
                      IF k \in open THEN [stages[k] EXCEPT !.status = "CANCELLED"] ELSE stages[k]]
      /\ Settle("ABORTED")
      /\ UNCHANGED <<name, current, owned, algorithm, passed, reports>>

(***************************************************************************)
(* The task routes of the API (agents/api/router.py): a task of an         *)
(* outsider, and the cancellation of any task.                             *)
(***************************************************************************)
SubmitTask ==
  /\ MayIntervene
  /\ \E t \in ApiTasks : SubmitAll(<<NewTask(t.agent, t.priority, {})>>)
  /\ UNCHANGED <<pipelineState, reports>>

CancelTask ==
  /\ MayIntervene
  /\ overrides' = overrides + 1
  /\ \E i \in DOMAIN tasks : CancelAll({i})
  /\ UNCHANGED <<name, stages, status, current, owned, row, algorithm, passed, reports>>

Dequeue(a) == Take(a) /\ UNCHANGED <<pipelineState, reports>>
Tick == (\E i \in Ids : Overdue(i)) /\ UNCHANGED <<pipelineState, reports>>

OnTaskCompleted(i) ==
  \/ \E outcome \in {"COMPLETED", "FAILED"} : Ignore(i, outcome)
  \/ StageFails(i)
  \/ GateRefuses(i)
  \/ LastStageCompletes(i)
  \/ StageCompletes(i)

Next ==
  \/ Start
  \/ \E a \in Agents : Dequeue(a)
  \/ \E i \in DOMAIN tasks : Finish(i) \/ Break(i) \/ TimeOut(i)
  \/ \E i \in DOMAIN tasks : OnTaskCompleted(i)
  \/ OverrideGate \/ OverrideLast \/ Abort \/ CancelTask
  \/ SubmitTask
  \/ Tick

\* Agents take tasks, executions end, and the orchestrator hears of it; operators,
\* outsiders and the clock owe nothing.
Spec ==
  /\ Init /\ [][Next]_vars
  /\ WF_vars(Start)
  /\ \A a \in Agents : WF_vars(Dequeue(a))
  /\ \A i \in Ids : WF_vars(i \in DOMAIN tasks /\ (Finish(i) \/ Break(i)))
  /\ \A i \in Ids : WF_vars(i \in DOMAIN tasks /\ OnTaskCompleted(i))

(***************************************************************************)
(* Properties.                                                             *)
(***************************************************************************)

\* A stage behind a gate has a task only if a result has passed the gate or the
\* operator has intervened: no order of parallel, replaced and late tasks gets a
\* strategy to its forward test without a backtest that passed.
GatedStagesWait ==
  \A k \in 2..Final :
    (Gate(k - 1) # "none" /\ stages[k].task # 0) => (k - 1 \in passed \/ overrides > 0)

\* A pipeline nobody interferes with does not stay running for ever, whatever the
\* order in which its parallel stages finish, are retried and are submitted again.
Settles ==
  status = "RUNNING" ~> (status # "RUNNING" \/ overrides > 0 \/ Len(tasks) = MaxTasks)

=============================================================================
