-------------------------- MODULE SignalPersister --------------------------
(***************************************************************************)
(* The SignalPersister of the strategy engine: signals are posted to the   *)
(* backend by a thread pool through a circuit breaker (ThreadedBreaker),   *)
(* kept in a bounded buffer when that fails, and flushed from the buffer   *)
(* when the breaker closes again.  Threads are the threads of the pool.    *)
(***************************************************************************)
EXTENDS ThreadedBreaker, Sequences

CONSTANTS BufferMax,   \* SIGNAL_BUFFER_MAX_SIZE
          MaxSignals   \* bound: signals produced

ASSUME BufferAssumption == BufferMax \in Nat \ {0} /\ MaxSignals \in Nat

VARIABLES
    made,       \* signals handed to persist so far: 1 .. made
    queue,      \* work queue of the pool: signals to persist and flushes
    task,       \* what a pool thread is at
    hand,       \* the signal it holds, 0 for none
    buffer,     \* SignalPersister._buffer
    overflow,   \* SignalPersister._overflow_count
    delivered,  \* signals the backend has got
    evicted     \* history: signals pushed out of the full buffer

persisterVars == <<made, queue, task, hand, buffer, overflow, delivered, evicted>>
vars == <<breakerVars, persisterVars>>

Flush == 0                       \* a flush in the work queue
Signals == 1 .. MaxSignals

TypeOK ==
    /\ BreakerTypeOK
    /\ made \in 0 .. MaxSignals
    /\ queue \in Seq(Signals \cup {Flush})
    /\ task \in [Threads -> {"none", "persist", "full", "append", "flush", "send"}]
    /\ hand \in [Threads -> Signals \cup {0}]
    /\ buffer \in Seq(Signals) /\ Len(buffer) <= BufferMax
    /\ overflow \in Nat
    /\ delivered \subseteq Signals /\ evicted \subseteq Signals

Init ==
    /\ BreakerInit
    /\ made = 0 /\ queue = <<>>
    /\ task = [t \in Threads |-> "none"]
    /\ hand = [t \in Threads |-> 0]
    /\ buffer = <<>> /\ overflow = 0
    /\ delivered = {} /\ evicted = {}

\* persist: a signal goes to the pool.
Persist ==
    /\ made < MaxSignals
    /\ made' = made + 1
    /\ queue' = Append(queue, made + 1)
    /\ UNCHANGED <<breakerVars, task, hand, buffer, overflow, delivered, evicted>>

\* A free pool thread takes the next task.
TakeTask(t) ==
    /\ task[t] = "none" /\ queue # <<>>
    /\ queue' = Tail(queue)
    /\ \/ /\ Head(queue) = Flush
          /\ task' = [task EXCEPT ![t] = "flush"]
          /\ UNCHANGED <<hand, breakerVars>>
       \/ /\ Head(queue) # Flush
          /\ task' = [task EXCEPT ![t] = "persist"]
          /\ hand' = [hand EXCEPT ![t] = Head(queue)]
          /\ Call(t)
    /\ UNCHANGED <<made, buffer, overflow, delivered, evicted>>

\* _send, a POST with a timeout: when it raises the backend may have the signal.
Send(t, works) ==
    delivered' \in IF works THEN {delivered \cup {hand[t]}}
                            ELSE {delivered, delivered \cup {hand[t]}}

\* A step inside execute; _on_state_change submits a flush when it closes.
BreakerStep(t) ==
    /\ task[t] = "persist"
    /\ Inside(t)
    /\ IF pc[t] \in {"normal", "probing"} THEN Send(t, up) ELSE UNCHANGED delivered
    /\ queue' = IF state # "closed" /\ state' = "closed" THEN Append(queue, Flush) ELSE queue
    /\ UNCHANGED <<made, task, hand, buffer, overflow, evicted>>

\* _persist_with_cb: after the fallback, and after an exception, the signal
\* goes to the buffer.
LeaveBreaker(t) ==
    /\ task[t] = "persist"
    /\ Leave(t)
    /\ IF out[t] = "ok"
       THEN task' = [task EXCEPT ![t] = "none"] /\ hand' = [hand EXCEPT ![t] = 0]
       ELSE task' = [task EXCEPT ![t] = "full"] /\ UNCHANGED hand
    /\ UNCHANGED <<made, queue, buffer, overflow, delivered, evicted>>

\* _buffer_signal counts an overflow when the buffer is full, and then appends,
\* which pushes the oldest out if it is full then.
CountOverflow(t) ==
    /\ task[t] = "full"
    /\ overflow' = IF Len(buffer) >= BufferMax THEN overflow + 1 ELSE overflow
    /\ task' = [task EXCEPT ![t] = "append"]
    /\ UNCHANGED <<breakerVars, made, queue, hand, buffer, delivered, evicted>>

AppendSignal(t) ==
    /\ task[t] = "append"
    /\ IF Len(buffer) = BufferMax
       THEN /\ buffer' = Append(Tail(buffer), hand[t])
            /\ evicted' = evicted \cup {Head(buffer)}
       ELSE buffer' = Append(buffer, hand[t]) /\ UNCHANGED evicted
    /\ task' = [task EXCEPT ![t] = "none"] /\ hand' = [hand EXCEPT ![t] = 0]
    /\ UNCHANGED <<breakerVars, made, queue, overflow, delivered>>

\* Fault: the signal is looked at and only popped once it is sent.
FlushPeek(t) ==
    /\ task[t] = "flush"
    /\ \/ /\ buffer # <<>>
          /\ hand' = [hand EXCEPT ![t] = Head(buffer)]
          /\ task' = [task EXCEPT ![t] = "send"]
       \/ /\ buffer = <<>>
          /\ task' = [task EXCEPT ![t] = "none"]
          /\ UNCHANGED hand
    /\ UNCHANGED <<breakerVars, made, queue, buffer, overflow, delivered, evicted>>

\* _flush_buffer: the test of the buffer and the pop are not interrupted.
FlushPop(t) ==
    /\ task[t] = "flush"
    /\ \/ /\ buffer # <<>>
          /\ hand' = [hand EXCEPT ![t] = Head(buffer)]
          /\ buffer' = Tail(buffer)
          /\ task' = [task EXCEPT ![t] = "send"]
       \/ /\ buffer = <<>>
          /\ task' = [task EXCEPT ![t] = "none"]
          /\ UNCHANGED <<hand, buffer>>
    /\ UNCHANGED <<breakerVars, made, queue, overflow, delivered, evicted>>

\* The flush posts past the breaker; a failure puts the signal back in front,
\* which pushes the newest out of a full buffer, and ends the flush.
FlushSend(t) ==
    /\ task[t] = "send"
    /\ Send(t, up)
    /\ \/ /\ up
          /\ task' = [task EXCEPT ![t] = "flush"]
          /\ UNCHANGED <<buffer, evicted>>
       \/ /\ ~up
          /\ task' = [task EXCEPT ![t] = "none"]
          /\ IF Len(buffer) = BufferMax
             THEN /\ buffer' = <<hand[t]>> \o SubSeq(buffer, 1, BufferMax - 1)
                  /\ evicted' = evicted \cup {buffer[BufferMax]}
             ELSE buffer' = <<hand[t]>> \o buffer /\ UNCHANGED evicted
    /\ hand' = [hand EXCEPT ![t] = 0]
    /\ UNCHANGED <<breakerVars, made, queue, overflow>>

PoolStep(t) ==
    \/ TakeTask(t) \/ BreakerStep(t) \/ LeaveBreaker(t)
    \/ CountOverflow(t) \/ AppendSignal(t) \/ FlushPop(t) \/ FlushSend(t)

Next ==
    \/ Persist
    \/ \E t \in Threads : PoolStep(t)
    \/ (Elapse \/ Change) /\ UNCHANGED persisterVars

Spec == Init /\ [][Next]_vars

\* Pool threads are scheduled, posts end within their timeout.
FairSpec == Spec /\ \A t \in Threads : WF_vars(PoolStep(t))
----------------------------------------------------------------------------

Copies(s) ==
      Cardinality({i \in DOMAIN queue : queue[i] = s})
    + Cardinality({i \in DOMAIN buffer : buffer[i] = s})
    + Cardinality({t \in Threads : hand[t] = s})

\* A signal neither disappears nor multiplies: it is in one place on its way, or at the
\* backend, or was pushed out of the full buffer, whatever the fallback, the exception
\* path, the re-buffering and two flushes side by side make of it.
SignalsAccounted ==
    \A s \in 1 .. made : Copies(s) <= 1 /\ (Copies(s) = 1 \/ s \in delivered \cup evicted)

============================================================================
