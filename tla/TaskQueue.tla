------------------------------ MODULE TaskQueue ------------------------------
(***************************************************************************)
(* The task queue of the agent framework (agents/task_queue.py): one       *)
(* record per task, a sorted set of waiting tasks, a dead letter list.     *)
(*                                                                         *)
(* The coroutines of TaskQueue never wait between two Redis calls, so each *)
(* is one step.  Nothing in the repository runs the agents yet: who takes  *)
(* tasks and reports results (Take, and the callers of Complete and Fail)  *)
(* is modelled from what the queue expects of them.                        *)
(***************************************************************************)
EXTENDS Naturals, FiniteSets, SequencesExt

CONSTANTS Agents,        \* names of the agents
          MaxRetries,    \* AgentTask.max_retries
          MaxTasks,      \* bound on the number of tasks submitted
          MaxFailures,   \* bound on failures in all
          MaxLate        \* bound on the number of tasks that overrun their time

ASSUME QueueAssumption == MaxRetries \in Nat /\ MaxTasks \in Nat /\ MaxFailures \in Nat /\ MaxLate \in Nat

VARIABLES tasks,    \* the task hashes; a task's id is its index
          queue,    \* ids in the sorted set, by score
          dlq,      \* ids in the dead letter list
          late,     \* tasks whose started_at is further back than their timeout
          working,  \* working[id]: executions of the task in progress
          begun     \* history: executions begun

queueVars == <<tasks, queue, dlq, late, working, begun>>

Ids == 1..MaxTasks

NewTask(a, p, deps) ==
  [agent |-> a, priority |-> p, deps |-> deps, status |-> "QUEUED", retries |-> 0]

QueueInit ==
  /\ tasks = <<>>
  /\ queue = <<>>
  /\ dlq = {}
  /\ late = {}
  /\ working = [i \in Ids |-> 0]
  /\ begun = [i \in Ids |-> 0]

Status(i) == tasks[i].status

(***************************************************************************)
(* The sorted set.  The score is priority * 1e12 + time_ns: a task comes   *)
(* after those of its own and of higher priority, and before those of      *)
(* lower priority unless they have waited a thousand seconds per level, so *)
(* any place behind the former is possible.  The backoff of a retry, a few *)
(* seconds on the score, delays nothing.                                   *)
(***************************************************************************)
Places(ts, q, p, ids) ==
  LET Behind(n) == \A m \in DOMAIN q : ts[q[m]].priority <= p => m <= n
  IN  {SubSeq(q, 1, n) \o ids \o SubSeq(q, n + 1, Len(q)) : n \in {k \in 0..Len(q) : Behind(k)}}

\* zadd moves an id that is there already
Zadd(i) ==
  \/ /\ i \notin Range(queue)
     /\ queue' \in Places(tasks, queue, tasks[i].priority, <<i>>)
  \/ \E n \in DOMAIN queue :
       /\ queue[n] = i
       /\ queue' \in Places(tasks, RemoveAt(queue, n), tasks[i].priority, <<i>>)

\* _check_timeout looks at started_at, which the first execution sets and a retry keeps
Overdue(i) ==
  /\ i \in DOMAIN tasks
  /\ begun[i] > 0
  /\ i \notin late
  /\ Cardinality(late) < MaxLate
  /\ late' = late \cup {i}
  /\ UNCHANGED <<tasks, queue, dlq, working, begun>>

(***************************************************************************)
(* submit, of tasks of one priority in a row.                              *)
(***************************************************************************)
SubmitAll(new) ==
  LET ids == [n \in DOMAIN new |-> Len(tasks) + n]
  IN  /\ tasks' = tasks \o new
      /\ Len(tasks') <= MaxTasks
      /\ queue' \in Places(tasks', queue, new[1].priority, ids)
      /\ UNCHANGED <<dlq, late, working, begun>>

(***************************************************************************)
(* dequeue: the first waiting task of the agent whose dependencies are     *)
(* completed.                                                              *)
(***************************************************************************)
\* A record that is gone is no task (_load_task).
Ready(i, a) ==
  /\ i \in DOMAIN tasks
  /\ tasks[i].agent = a
  /\ Status(i) = "QUEUED"
  /\ \A d \in tasks[i].deps : Status(d) = "COMPLETED"

Take(a) ==
  \E n \in DOMAIN queue :
    LET i == queue[n]
    IN  /\ Ready(i, a) /\ \A m \in 1..(n - 1) : ~Ready(queue[m], a)
        /\ queue' = RemoveAt(queue, n)
        /\ tasks' = [tasks EXCEPT ![i].status = "IN_PROGRESS"]
        /\ working' = [working EXCEPT ![i] = @ + 1]
        /\ begun' = [begun EXCEPT ![i] = @ + 1]
        /\ UNCHANGED <<dlq, late>>

(***************************************************************************)
(* complete and fail look at no status: an execution may report on a task  *)
(* that was cancelled, or that timed out and is queued or running again.   *)
(***************************************************************************)
Complete(i) ==
  /\ tasks' = [tasks EXCEPT ![i].status = "COMPLETED"]
  /\ UNCHANGED <<queue, dlq, late>>

\* Fault: one retry too many
LastFailureLate(i) == tasks[i].retries > MaxRetries

LastFailure(i) == tasks[i].retries >= MaxRetries
Failures == FoldLeft(LAMBDA n, t : n + t.retries, Cardinality(dlq), tasks)

Retry(i) ==   \* _retry_with_backoff
  /\ ~LastFailure(i)
  /\ tasks' = [tasks EXCEPT ![i].status = "QUEUED", ![i].retries = @ + 1]
  /\ Zadd(i)
  /\ UNCHANGED <<dlq, late>>

MoveToDlq(i) ==   \* _move_to_dlq
  /\ LastFailure(i)
  /\ tasks' = [tasks EXCEPT ![i].status = "DEAD_LETTERED"]
  /\ dlq' = dlq \cup {i}
  /\ UNCHANGED <<queue, late>>

Fail(i) ==
  /\ Failures < MaxFailures
  /\ Retry(i) \/ MoveToDlq(i)

Reports(i) ==
  /\ working[i] > 0
  /\ working' = [working EXCEPT ![i] = @ - 1]
  /\ UNCHANGED begun

\* _check_timeout
CheckTimeout(i) ==
  /\ i \in late
  /\ Status(i) = "IN_PROGRESS"
  /\ Fail(i)
  /\ UNCHANGED <<working, begun>>

\* cancel
Cancelled(ids) == [i \in DOMAIN tasks |->
  IF i \in ids /\ Status(i) \in {"QUEUED", "IN_PROGRESS"}
  THEN [tasks[i] EXCEPT !.status = "CANCELLED"] ELSE tasks[i]]
CancelAll(ids) ==
  LET waiting == {i \in ids : Status(i) = "QUEUED"}
  IN  /\ tasks' = Cancelled(ids)
      /\ queue' = SelectSeq(queue, LAMBDA i : i \notin waiting)
      /\ UNCHANGED <<dlq, late, working, begun>>

(***************************************************************************)
(* Properties.                                                             *)
(***************************************************************************)

\* However timeouts, cancellations and late reports fall, a task is executed at
\* most once more than it may be retried (fail, dequeue).
BoundedExecutions == \A i \in Ids : begun[i] <= MaxRetries + 1

=============================================================================
