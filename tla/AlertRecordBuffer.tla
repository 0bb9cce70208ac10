------------------------- MODULE AlertRecordBuffer -------------------------
(***************************************************************************)
(* internal/alerting/infrastructure/alert_buffer.go: alert records are     *)
(* collected in memory and written to alert_records in batches by a flush  *)
(* loop, which a ticker or a full buffer wakes up.  A batch whose write     *)
(* fails goes record by record to the asynq task alert:persist:retry.      *)
(*                                                                         *)
(* Threads: any number of callers of Add, one goroutine running            *)
(* runFlushLoop for every Start that found the buffer stopped, and the     *)
(* callers of Stop.  An action is what a thread does between two points    *)
(* where another can run: a critical section of mu, a channel operation, a *)
(* call of the repository or of the queue.  The order of records inside a  *)
(* batch is abstracted: buffer and batches are sets.                       *)
(***************************************************************************)
EXTENDS Naturals, FiniteSets

CONSTANTS Records,     \* the records callers add, each once: AddFromAlert draws a fresh uuid
          BufferSize,  \* config.BufferSize
          Loops,       \* goroutines that may run runFlushLoop
          Stoppers     \* callers of Stop

ASSUME BufferAssumption == /\ BufferSize \in Nat \ {0}
                           /\ IsFiniteSet(Records)
                           /\ Loops \intersect Stoppers = {}

VARIABLES buffer,      \* b.buffer
          running,     \* b.running
          stopClosed,  \* b.stopCh has been closed
          flushCh,     \* b.flushCh, of capacity 1, holds a wake-up
          hasQueue,    \* b.queue # nil
          pc,          \* where each loop and each caller of Stop is
          batch,       \* the local variable batch of the Flush each of them runs
          signalling,  \* records whose Add saw a full buffer and has not sent the wake-up
          persisted,   \* rows of alert_records
          retryQueue,  \* tasks alert:persist:retry
          abandoned,   \* records requeueFailed gave up on
          lost,        \* records that died with the process
          due,         \* history: what was buffered when each caller of Stop cleared running
          starts,      \* history: Starts that found the buffer stopped
          alive        \* the process is up

vars == <<buffer, running, stopClosed, flushCh, hasQueue, pc, batch, signalling,
          persisted, retryQueue, abandoned, lost, due, starts, alive>>

Threads == Loops \union Stoppers

InFlight == UNION {batch[t] : t \in Threads}

Added == buffer \union InFlight \union persisted \union retryQueue \union abandoned \union lost

Init == /\ buffer = {}
        /\ running = FALSE
        /\ stopClosed = FALSE
        /\ flushCh = FALSE
        /\ hasQueue \in BOOLEAN
        /\ pc = [t \in Threads |-> "idle"]
        /\ batch = [t \in Threads |-> {}]
        /\ signalling = {}
        /\ persisted = {}
        /\ retryQueue = {}
        /\ abandoned = {}
        /\ lost = {}
        /\ due = [s \in Stoppers |-> {}]
        /\ starts = 0
        /\ alive = TRUE

Goto(t, label) == pc' = [pc EXCEPT ![t] = label]

-----------------------------------------------------------------------------
\* Start: a second Start while running returns at once and changes nothing.
Start(l) ==
    /\ alive
    /\ ~running
    /\ pc[l] = "idle"
    /\ running' = TRUE
    /\ starts' = starts + 1
    /\ Goto(l, "select")
    /\ UNCHANGED <<buffer, stopClosed, flushCh, hasQueue, batch, signalling,
                   persisted, retryQueue, abandoned, lost, due, alive>>

\* Mutant of Add: the wake-up is sent only when the buffer is over its size.
AddWakesLate(r) ==
    /\ alive
    /\ r \notin Added
    /\ buffer' = buffer \union {r}
    /\ signalling' = IF Cardinality(buffer') > BufferSize
                     THEN signalling \union {r} ELSE signalling
    /\ UNCHANGED <<running, stopClosed, flushCh, hasQueue, pc, batch,
                   persisted, retryQueue, abandoned, lost, due, starts, alive>>

\* Add, its critical section.
Add(r) ==
    /\ alive
    /\ r \notin Added
    /\ buffer' = buffer \union {r}
    /\ signalling' = IF Cardinality(buffer') >= BufferSize
                     THEN signalling \union {r} ELSE signalling
    /\ UNCHANGED <<running, stopClosed, flushCh, hasQueue, pc, batch,
                   persisted, retryQueue, abandoned, lost, due, starts, alive>>

\* Add after the unlock: a send that gives up when the channel is full.
Signal(r) ==
    /\ alive
    /\ r \in signalling
    /\ flushCh' = TRUE
    /\ signalling' = signalling \ {r}
    /\ UNCHANGED <<buffer, running, stopClosed, hasQueue, pc, batch,
                   persisted, retryQueue, abandoned, lost, due, starts, alive>>

-----------------------------------------------------------------------------
\* runFlushLoop: a select among the ready cases, the ticker always being one.
LoopStop(l) ==
    /\ alive
    /\ pc[l] = "select"
    /\ stopClosed
    /\ Goto(l, "returned")
    /\ UNCHANGED <<buffer, running, stopClosed, flushCh, hasQueue, batch, signalling,
                   persisted, retryQueue, abandoned, lost, due, starts, alive>>

\* Mutant of LoopTick: the ticker flushes only a full buffer.
LoopTickWhenFull(l) ==
    /\ alive
    /\ pc[l] = "select"
    /\ Cardinality(buffer) >= BufferSize
    /\ Goto(l, "flush")
    /\ UNCHANGED <<buffer, running, stopClosed, flushCh, hasQueue, batch, signalling,
                   persisted, retryQueue, abandoned, lost, due, starts, alive>>

LoopTick(l) ==
    /\ alive
    /\ pc[l] = "select"
    /\ Goto(l, "flush")
    /\ UNCHANGED <<buffer, running, stopClosed, flushCh, hasQueue, batch, signalling,
                   persisted, retryQueue, abandoned, lost, due, starts, alive>>

LoopWake(l) ==
    /\ alive
    /\ pc[l] = "select"
    /\ flushCh
    /\ flushCh' = FALSE
    /\ Goto(l, "flush")
    /\ UNCHANGED <<buffer, running, stopClosed, hasQueue, batch, signalling,
                   persisted, retryQueue, abandoned, lost, due, starts, alive>>

-----------------------------------------------------------------------------
\* Where a thread goes on when its Flush returns.
AfterFlush(t) == IF t \in Loops THEN "select" ELSE "returned"

\* Mutant of FlushTake: the buffer is emptied only after the write, by nobody.
FlushTakeKeeps(t) ==
    /\ alive
    /\ pc[t] = "flush"
    /\ batch' = [batch EXCEPT ![t] = buffer]
    /\ Goto(t, IF buffer = {} THEN AfterFlush(t) ELSE "insert")
    /\ UNCHANGED <<buffer, running, stopClosed, flushCh, hasQueue, signalling,
                   persisted, retryQueue, abandoned, lost, due, starts, alive>>

\* Flush, its critical section: the whole buffer becomes this thread's batch.
FlushTake(t) ==
    /\ alive
    /\ pc[t] = "flush"
    /\ buffer' = {}
    /\ batch' = [batch EXCEPT ![t] = buffer]
    /\ Goto(t, IF buffer = {} THEN AfterFlush(t) ELSE "insert")
    /\ UNCHANGED <<running, stopClosed, flushCh, hasQueue, signalling,
                   persisted, retryQueue, abandoned, lost, due, starts, alive>>

\* CreateBatch inserts all rows in one transaction, on a conflict of id none.
FlushInsert(t) ==
    /\ alive
    /\ pc[t] = "insert"
    /\ persisted' = persisted \union batch[t]
    /\ batch' = [batch EXCEPT ![t] = {}]
    /\ Goto(t, AfterFlush(t))
    /\ UNCHANGED <<buffer, running, stopClosed, flushCh, hasQueue, signalling,
                   retryQueue, abandoned, lost, due, starts, alive>>

\* Mutant of FlushError: without a queue the batch goes back into the buffer.
FlushErrorPutsBack(t) ==
    /\ alive
    /\ pc[t] = "insert"
    /\ persisted' \in {persisted, persisted \union batch[t]}
    /\ IF hasQueue
       THEN /\ Goto(t, "requeue")
            /\ UNCHANGED <<batch, buffer>>
       ELSE /\ buffer' = buffer \union batch[t]
            /\ batch' = [batch EXCEPT ![t] = {}]
            /\ Goto(t, AfterFlush(t))
    /\ UNCHANGED <<running, stopClosed, flushCh, hasQueue, signalling,
                   retryQueue, abandoned, lost, due, starts, alive>>

\* CreateBatch returns an error; the transaction may have committed all the same
\* when it is the reply that was lost.  Without a queue requeueFailed returns.
FlushError(t) ==
    /\ alive
    /\ pc[t] = "insert"
    /\ persisted' \in {persisted, persisted \union batch[t]}
    /\ IF hasQueue
       THEN /\ Goto(t, "requeue")
            /\ UNCHANGED <<batch, abandoned>>
       ELSE /\ abandoned' = abandoned \union batch[t]
            /\ batch' = [batch EXCEPT ![t] = {}]
            /\ Goto(t, AfterFlush(t))
    /\ UNCHANGED <<buffer, running, stopClosed, flushCh, hasQueue, signalling,
                   retryQueue, lost, due, starts, alive>>

\* requeueFailed, one record: the error of Enqueue is discarded.
Requeue(t, r) ==
    /\ alive
    /\ pc[t] = "requeue"
    /\ r \in batch[t]
    /\ \/ retryQueue' = retryQueue \union {r} /\ UNCHANGED abandoned
       \/ abandoned' = abandoned \union {r} /\ UNCHANGED retryQueue
    /\ batch' = [batch EXCEPT ![t] = @ \ {r}]
    /\ Goto(t, IF batch[t] = {r} THEN AfterFlush(t) ELSE "requeue")
    /\ UNCHANGED <<buffer, running, stopClosed, flushCh, hasQueue, signalling,
                   persisted, lost, due, starts, alive>>

-----------------------------------------------------------------------------
\* The process ends: what is in memory is gone.
Die == /\ alive' = FALSE
       /\ lost' = buffer \union InFlight
       /\ buffer' = {}
       /\ batch' = [t \in Threads |-> {}]
       /\ signalling' = {}
       /\ UNCHANGED <<running, stopClosed, flushCh, hasQueue, pc,
                      persisted, retryQueue, abandoned, due, starts>>

\* Stop, its critical section.
StopBegin(s) ==
    /\ alive
    /\ pc[s] = "idle"
    /\ running
    /\ running' = FALSE
    /\ due' = [due EXCEPT ![s] = buffer]
    /\ Goto(s, "close")
    /\ UNCHANGED <<buffer, stopClosed, flushCh, hasQueue, batch, signalling,
                   persisted, retryQueue, abandoned, lost, starts, alive>>

\* Stop of a buffer that is not running returns.
StopNotRunning(s) ==
    /\ alive
    /\ pc[s] = "idle"
    /\ ~running
    /\ Goto(s, "returned")
    /\ UNCHANGED <<buffer, running, stopClosed, flushCh, hasQueue, batch, signalling,
                   persisted, retryQueue, abandoned, lost, due, starts, alive>>

\* Mutant of StopClose: the last flush is left to the loop.
StopCloseNoFlush(s) ==
    /\ alive
    /\ pc[s] = "close"
    /\ ~stopClosed
    /\ stopClosed' = TRUE
    /\ Goto(s, "returned")
    /\ UNCHANGED <<buffer, running, flushCh, hasQueue, batch, signalling,
                   persisted, retryQueue, abandoned, lost, due, starts, alive>>

StopClose(s) ==
    /\ alive
    /\ pc[s] = "close"
    /\ ~stopClosed
    /\ stopClosed' = TRUE
    /\ Goto(s, "flush")
    /\ UNCHANGED <<buffer, running, flushCh, hasQueue, batch, signalling,
                   persisted, retryQueue, abandoned, lost, due, starts, alive>>

\* Stop after a restart: close of a closed channel panics, and nothing recovers.
StopPanic(s) ==
    /\ alive
    /\ pc[s] = "close"
    /\ stopClosed
    /\ Die

\* The process is killed, or App.Run returns, which never stops the buffer.
Kill == alive /\ Die

-----------------------------------------------------------------------------
Flush(t) == \/ FlushTake(t)
            \/ FlushInsert(t)
            \/ FlushError(t)
            \/ \E r \in Records : Requeue(t, r)

Loop(l) == LoopStop(l) \/ LoopTick(l) \/ LoopWake(l) \/ Flush(l)

Stop(s) == StopBegin(s) \/ StopNotRunning(s) \/ StopClose(s) \/ StopPanic(s) \/ Flush(s)

Next == \/ \E l \in Loops : Start(l) \/ Loop(l)
        \/ \E s \in Stoppers : Stop(s)
        \/ \E r \in Records : Add(r) \/ Signal(r)
        \/ Kill

Spec == Init /\ [][Next]_vars

\* The Go scheduler runs every goroutine that can run, the ticker keeps ticking,
\* and the calls of the repository and of the queue return.  A caller of Stop
\* finishes; nobody has to call Start, Add or Stop.
Fairness == /\ \A l \in Loops : WF_vars(LoopTick(l)) /\ WF_vars(Flush(l))
            /\ \A s \in Stoppers : WF_vars((StopClose(s) \/ StopPanic(s)) \/ Flush(s))

FairSpec == Spec /\ Fairness

-----------------------------------------------------------------------------
\* Type invariant of the model's state.
TypeOK ==
    /\ buffer \subseteq Records
    /\ running \in BOOLEAN
    /\ stopClosed \in BOOLEAN
    /\ flushCh \in BOOLEAN
    /\ hasQueue \in BOOLEAN
    /\ pc \in [Threads -> {"idle", "select", "close", "flush", "insert", "requeue", "returned"}]
    /\ batch \in [Threads -> SUBSET Records]
    /\ signalling \subseteq Records
    /\ persisted \subseteq Records
    /\ retryQueue \subseteq Records
    /\ abandoned \subseteq Records
    /\ lost \subseteq Records
    /\ due \in [Stoppers -> SUBSET Records]
    /\ starts \in Nat
    /\ alive \in BOOLEAN
    /\ \A s \in Stoppers : pc[s] # "select"

\* Flushes of the loop and of Stop that overlap never hold the same record, and a
\* record that was handed on is in no batch and not in the buffer: it is on the
\* retry queue, abandoned or lost at most once (alert_buffer.go:126-154).
RecordInOnePlace ==
    /\ \A t, u \in Threads : t # u => batch[t] \intersect batch[u] = {}
    /\ buffer \intersect InFlight = {}
    /\ (buffer \union InFlight) \intersect (retryQueue \union abandoned \union lost) = {}
    /\ retryQueue \intersect abandoned = {}
    /\ lost \intersect (retryQueue \union abandoned) = {}

\* The wake-up of a full buffer is never lost, although Add sends it after the
\* unlock and drops it when the channel is full: while the buffer is full there is
\* a wake-up in the channel, one about to be sent, or a Flush about to take the
\* records (alert_buffer.go:88-100, 156-170).
NoLostWakeup ==
    Cardinality(buffer) >= BufferSize =>
        flushCh \/ signalling # {} \/ \E t \in Threads : pc[t] = "flush"

\* When Stop has returned, nothing that was buffered when it was called is still in
\* the buffer, whoever flushed it (alert_buffer.go:75-86).
StopLeavesNothingDue ==
    \A s \in Stoppers : pc[s] = "returned" => due[s] \intersect buffer = {}

\* Stop closes stopCh again, and panics, only when the buffer was started again
\* after a stop: Stop called twice, even by two threads, is safe
\* (alert_buffer.go:75-86; TestAlertRecordBuffer_StartStop "double stop").
CloseTwiceNeedsRestart ==
    \A s \in Stoppers : pc[s] = "close" /\ stopClosed => starts >= 2

\* A record buffered while the loop runs, stopCh still open, leaves the buffer,
\* even when Stop comes first: the loop or Stop's own Flush takes it.
BufferedIsFlushed ==
    \A r \in Records : (r \in buffer /\ running /\ ~stopClosed) ~> (r \notin buffer)

-----------------------------------------------------------------------------
\* What makes the invariants above inductive: only a thread between FlushTake and
\* the end of its write holds records, and nothing is lost while the process is up.
HoldersAreWriting ==
    /\ \A t \in Threads : pc[t] \notin {"insert", "requeue"} => batch[t] = {}
    /\ alive => lost = {}

\* What a caller of Stop found was added before, and is out of the buffer from the
\* moment its Flush went through the critical section.
DueIsTaken ==
    \A s \in Stoppers :
        /\ due[s] \subseteq Added
        /\ pc[s] = "idle" => due[s] = {}
        /\ pc[s] \in {"insert", "requeue", "returned"} => due[s] \intersect buffer = {}

\* Before a second Start at most one caller of Stop gets past the running flag, and
\* none is left to close stopCh once it is closed.
FirstStop ==
    /\ starts = 0 => ~running /\ ~stopClosed /\ \A s \in Stoppers : pc[s] # "close"
    /\ starts = 1 =>
          /\ \A s \in Stoppers : pc[s] = "close" => ~running /\ ~stopClosed
          /\ \A s, u \in Stoppers : pc[s] = "close" /\ pc[u] = "close" => s = u
          /\ stopClosed => ~running

-----------------------------------------------------------------------------
\* Where a record is for the callers.
StageOf(r) == CASE r \in buffer     -> "buffered"
                [] r \in InFlight   -> "writing"
                [] r \in lost       -> "lost"
                [] r \in retryQueue -> "queued"
                [] r \in abandoned  -> "dropped"
                [] r \in persisted \ (buffer \union InFlight \union lost \union retryQueue \union abandoned)
                                    -> "stored"
                [] OTHER            -> "new"

Sink == INSTANCE AlertRecordSink WITH stage <- [r \in Records |-> StageOf(r)]

\* The buffer implements the record sink: a record is collected once and settled
\* once, never taken back, and only the end of the process loses one.
ImplementsSink == Sink!SinkSpec
=============================================================================
