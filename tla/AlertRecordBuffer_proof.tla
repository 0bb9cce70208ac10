----------------------- MODULE AlertRecordBuffer_proof -----------------------
(***************************************************************************)
(* Proofs about AlertRecordBuffer, for any set of records, any buffer size *)
(* and any number of loops and callers of Stop; and, in its second part,   *)
(* about AlertGateway, which hands it the records, for any requests.       *)
(***************************************************************************)
EXTENDS AlertRecordBuffer, AlertGateway, FiniteSetTheorems, TLAPS

USE BufferAssumption DEF Threads

(* Every variable keeps its type: the invariant the other proofs start from. *)
THEOREM TypeCorrect == Spec => []TypeOK
<1>1. Init => TypeOK
  <2> SUFFICES ASSUME Init PROVE TypeOK
    OBVIOUS
  <2>1. hasQueue \in BOOLEAN
    BY DEF Init
  <2>2. /\ pc \in [Threads -> {"idle", "select", "close", "flush", "insert", "requeue", "returned"}]
        /\ batch \in [Threads -> SUBSET Records]
        /\ due \in [Stoppers -> SUBSET Records]
    BY DEF Init
  <2> QED
    BY <2>1, <2>2 DEF Init, TypeOK
<1>2. TypeOK /\ [Next]_vars => TypeOK'
  <2> SUFFICES ASSUME TypeOK, [Next]_vars PROVE TypeOK'
    OBVIOUS
  <2> USE DEF TypeOK, Goto
  <2>1. ASSUME NEW l \in Loops, Start(l) PROVE TypeOK'
    BY <2>1 DEF Start
  <2>2. ASSUME NEW r \in Records, Add(r) PROVE TypeOK'
    BY <2>2 DEF Add
  <2>3. ASSUME NEW r \in Records, Signal(r) PROVE TypeOK'
    BY <2>3 DEF Signal
  <2>4. ASSUME NEW l \in Loops, LoopStop(l) \/ LoopTick(l) \/ LoopWake(l) PROVE TypeOK'
    BY <2>4 DEF LoopStop, LoopTick, LoopWake
  <2>5. ASSUME NEW t \in Threads, FlushTake(t) PROVE TypeOK'
    BY <2>5 DEF FlushTake, AfterFlush
  <2>6. ASSUME NEW t \in Threads, FlushInsert(t) PROVE TypeOK'
    BY <2>6 DEF FlushInsert, AfterFlush
  <2>7. ASSUME NEW t \in Threads, FlushError(t) PROVE TypeOK'
    BY <2>7 DEF FlushError, AfterFlush
  <2>8. ASSUME NEW t \in Threads, NEW r \in Records, Requeue(t, r) PROVE TypeOK'
    BY <2>8 DEF Requeue, AfterFlush
  <2>9. ASSUME NEW s \in Stoppers, StopBegin(s) \/ StopNotRunning(s) \/ StopClose(s)
        PROVE TypeOK'
    <3>1. CASE StopBegin(s)
      BY <3>1 DEF StopBegin
    <3>2. CASE StopNotRunning(s)
      BY <3>2 DEF StopNotRunning
    <3>3. CASE StopClose(s)
      BY <3>3 DEF StopClose
    <3> QED
      BY <2>9, <3>1, <3>2, <3>3
  <2>10. ASSUME Die PROVE TypeOK'
    <3>1. InFlight \subseteq Records
      BY DEF InFlight
    <3>2. lost' \subseteq Records /\ batch' \in [Threads -> SUBSET Records]
      BY <2>10, <3>1 DEF Die
    <3> QED
      BY <2>10, <3>2 DEF Die
  <2>11. CASE UNCHANGED vars
    BY <2>11 DEF vars
  <2> QED
    BY <2>1, <2>2, <2>3, <2>4, <2>5, <2>6, <2>7, <2>8, <2>9, <2>10, <2>11
       DEF Next, Loop, Flush, Stop, StopPanic, Kill
<1> QED
  BY <1>1, <1>2, PTL DEF Spec

-----------------------------------------------------------------------------
(* Membership in the union of the batches, for the provers. *)
LEMMA InFlightMember ==
    \A r : r \in InFlight <=> \E t \in Threads : r \in batch[t]
  BY DEF InFlight

(* The same after a step. *)
LEMMA InFlightMemberNext ==
    \A r : r \in InFlight' <=> \E t \in Threads : r \in batch'[t]
  BY DEF InFlight

(* A record is held in one place only, by the buffer, by one batch or by what it *)
(* was handed on to.                                                             *)
THEOREM OnePlace == Spec => []RecordInOnePlace
<1>1. Init => RecordInOnePlace
  BY DEF Init, RecordInOnePlace, InFlight
<1>2. TypeOK /\ RecordInOnePlace /\ [Next]_vars => RecordInOnePlace'
  <2> SUFFICES ASSUME TypeOK, RecordInOnePlace, [Next]_vars PROVE RecordInOnePlace'
    OBVIOUS
  <2> USE InFlightMember, InFlightMemberNext DEF RecordInOnePlace
  <2>1. ASSUME UNCHANGED <<buffer, batch, retryQueue, abandoned, lost>>
        PROVE RecordInOnePlace'
    BY <2>1
  <2>2. ASSUME NEW r \in Records, Add(r) PROVE RecordInOnePlace'
    BY <2>2 DEF Add, Added
  <2>3. ASSUME NEW t \in Threads, FlushTake(t) PROVE RecordInOnePlace'
    BY <2>3 DEF FlushTake, TypeOK
  <2>4. ASSUME NEW t \in Threads, FlushInsert(t) PROVE RecordInOnePlace'
    BY <2>4 DEF FlushInsert, TypeOK
  <2>5. ASSUME NEW t \in Threads, FlushError(t) PROVE RecordInOnePlace'
    <3>1. CASE hasQueue
      BY <3>1, <2>1, <2>5 DEF FlushError
    <3>2. CASE ~hasQueue
      BY <3>2, <2>5 DEF FlushError, TypeOK
    <3> QED
      BY <3>1, <3>2
  <2>6. ASSUME NEW t \in Threads, NEW r \in Records, Requeue(t, r) PROVE RecordInOnePlace'
    <3>1. CASE retryQueue' = retryQueue \union {r} /\ UNCHANGED abandoned
      BY <3>1, <2>6 DEF Requeue, TypeOK
    <3>2. CASE abandoned' = abandoned \union {r} /\ UNCHANGED retryQueue
      BY <3>2, <2>6 DEF Requeue, TypeOK
    <3> QED
      BY <3>1, <3>2, <2>6 DEF Requeue
  <2>7. ASSUME Die PROVE RecordInOnePlace'
    BY <2>7 DEF Die
  <2>8. ASSUME NEW l \in Loops, Start(l) \/ LoopStop(l) \/ LoopTick(l) \/ LoopWake(l)
        PROVE RecordInOnePlace'
    BY <2>1, <2>8 DEF Start, LoopStop, LoopTick, LoopWake
  <2>9. ASSUME NEW s \in Stoppers, StopBegin(s) \/ StopNotRunning(s) \/ StopClose(s)
        PROVE RecordInOnePlace'
    BY <2>1, <2>9 DEF StopBegin, StopNotRunning, StopClose
  <2>10. ASSUME NEW r \in Records, Signal(r) PROVE RecordInOnePlace'
    BY <2>1, <2>10 DEF Signal
  <2>11. CASE UNCHANGED vars
    BY <2>1, <2>11 DEF vars
  <2> QED
    BY <2>2, <2>3, <2>4, <2>5, <2>6, <2>7, <2>8, <2>9, <2>10, <2>11
       DEF Next, Loop, Flush, Stop, StopPanic, Kill
<1> QED
  BY <1>1, <1>2, TypeCorrect, PTL DEF Spec

-----------------------------------------------------------------------------
(* A full buffer always has a wake-up on its way or a Flush about to take it. *)
THEOREM WakeupNotLost == Spec => []NoLostWakeup
<1> USE DEF NoLostWakeup
<1>1. Cardinality({}) = 0
  BY FS_EmptySet
<1>2. Init => NoLostWakeup
  BY <1>1 DEF Init
<1>3. TypeOK /\ NoLostWakeup /\ [Next]_vars => NoLostWakeup'
  <2> SUFFICES ASSUME TypeOK, NoLostWakeup, [Next]_vars PROVE NoLostWakeup'
    OBVIOUS
  <2>1. ASSUME buffer' = {} PROVE NoLostWakeup'
    BY <2>1, <1>1
  <2>2. ASSUME UNCHANGED <<buffer, flushCh, signalling>>,
               \A t \in Threads : pc[t] = "flush" => pc'[t] = "flush"
        PROVE NoLostWakeup'
    BY <2>2
  <2>3. ASSUME NEW r \in Records, Add(r) PROVE NoLostWakeup'
    BY <2>3 DEF Add
  <2>4. ASSUME NEW r \in Records, Signal(r) PROVE NoLostWakeup'
    BY <2>4 DEF Signal
  <2>5. ASSUME NEW l \in Loops, LoopWake(l) PROVE NoLostWakeup'
    BY <2>5 DEF LoopWake, Goto, TypeOK
  <2>6. ASSUME NEW l \in Loops, Start(l) \/ LoopStop(l) \/ LoopTick(l) PROVE NoLostWakeup'
    BY <2>2, <2>6 DEF Start, LoopStop, LoopTick, Goto, TypeOK
  <2>7. ASSUME NEW t \in Threads, FlushTake(t) PROVE NoLostWakeup'
    BY <2>1, <2>7 DEF FlushTake
  <2>8. ASSUME NEW t \in Threads, FlushInsert(t) \/ FlushError(t) PROVE NoLostWakeup'
    BY <2>2, <2>8 DEF FlushInsert, FlushError, Goto, TypeOK
  <2>9. ASSUME NEW t \in Threads, NEW r \in Records, Requeue(t, r) PROVE NoLostWakeup'
    BY <2>2, <2>9 DEF Requeue, Goto, TypeOK
  <2>10. ASSUME NEW s \in Stoppers, StopBegin(s) \/ StopNotRunning(s) \/ StopClose(s)
        PROVE NoLostWakeup'
    BY <2>2, <2>10 DEF StopBegin, StopNotRunning, StopClose, Goto, TypeOK
  <2>11. ASSUME Die PROVE NoLostWakeup'
    BY <2>1, <2>11 DEF Die
  <2>12. CASE UNCHANGED vars
    BY <2>2, <2>12 DEF vars
  <2> QED
    BY <2>3, <2>4, <2>5, <2>6, <2>7, <2>8, <2>9, <2>10, <2>11, <2>12
       DEF Next, Loop, Flush, Stop, StopPanic, Kill
<1> QED
  BY <1>2, <1>3, TypeCorrect, PTL DEF Spec

-----------------------------------------------------------------------------
(* Only a thread that is writing holds records, so a Flush never overwrites a *)
(* batch that was not settled.                                                *)
LEMMA HoldersInvariant == Spec => []HoldersAreWriting
<1> USE DEF HoldersAreWriting
<1>1. Init => HoldersAreWriting
  BY DEF Init
<1>2. TypeOK /\ HoldersAreWriting /\ [Next]_vars => HoldersAreWriting'
  <2> SUFFICES ASSUME TypeOK, HoldersAreWriting, [Next]_vars PROVE HoldersAreWriting'
    OBVIOUS
  <2> USE DEF TypeOK, Goto
  <2>1. ASSUME NEW l \in Loops, Start(l) \/ LoopStop(l) \/ LoopTick(l) \/ LoopWake(l)
        PROVE HoldersAreWriting'
    BY <2>1 DEF Start, LoopStop, LoopTick, LoopWake
  <2>2. ASSUME NEW r \in Records, Add(r) \/ Signal(r) PROVE HoldersAreWriting'
    BY <2>2 DEF Add, Signal
  <2>3. ASSUME NEW t \in Threads, FlushTake(t) PROVE HoldersAreWriting'
    BY <2>3 DEF FlushTake, AfterFlush
  <2>4. ASSUME NEW t \in Threads, FlushInsert(t) PROVE HoldersAreWriting'
    BY <2>4 DEF FlushInsert, AfterFlush
  <2>5. ASSUME NEW t \in Threads, FlushError(t) PROVE HoldersAreWriting'
    <3>1. CASE hasQueue
      BY <3>1, <2>5 DEF FlushError
    <3>2. CASE ~hasQueue
      BY <3>2, <2>5 DEF FlushError, AfterFlush
    <3> QED
      BY <3>1, <3>2
  <2>6. ASSUME NEW t \in Threads, NEW r \in Records, Requeue(t, r) PROVE HoldersAreWriting'
    BY <2>6 DEF Requeue, AfterFlush
  <2>7. ASSUME NEW s \in Stoppers, StopBegin(s) \/ StopNotRunning(s) \/ StopClose(s)
        PROVE HoldersAreWriting'
    BY <2>7 DEF StopBegin, StopNotRunning, StopClose
  <2>8. ASSUME Die PROVE HoldersAreWriting'
    BY <2>8 DEF Die
  <2>9. CASE UNCHANGED vars
    BY <2>9 DEF vars
  <2> QED
    BY <2>1, <2>2, <2>3, <2>4, <2>5, <2>6, <2>7, <2>8, <2>9
       DEF Next, Loop, Flush, Stop, StopPanic, Kill
<1> QED
  BY <1>1, <1>2, TypeCorrect, PTL DEF Spec

(* No step makes a record that was added look as if it never was. *)
LEMMA AddedGrows ==
  ASSUME TypeOK, HoldersAreWriting, [Next]_vars
  PROVE  Added \subseteq Added'
<1> USE InFlightMember, InFlightMemberNext DEF Added
<1>1. ASSUME UNCHANGED <<buffer, batch, persisted, retryQueue, abandoned, lost>>
      PROVE Added \subseteq Added'
  BY <1>1 DEF InFlight
<1>2. ASSUME NEW r \in Records, Add(r) PROVE Added \subseteq Added'
  BY <1>2 DEF Add
<1>3. ASSUME NEW t \in Threads, FlushTake(t) PROVE Added \subseteq Added'
  BY <1>3 DEF FlushTake, TypeOK, HoldersAreWriting
<1>4. ASSUME NEW t \in Threads, FlushInsert(t) PROVE Added \subseteq Added'
  BY <1>4 DEF FlushInsert, TypeOK
<1>5. ASSUME NEW t \in Threads, FlushError(t) PROVE Added \subseteq Added'
  <2>1. CASE hasQueue
    BY <2>1, <1>5 DEF FlushError
  <2>2. CASE ~hasQueue
    BY <2>2, <1>5 DEF FlushError, TypeOK
  <2> QED
    BY <2>1, <2>2
<1>6. ASSUME NEW t \in Threads, NEW r \in Records, Requeue(t, r) PROVE Added \subseteq Added'
  BY <1>6 DEF Requeue, TypeOK
<1>7. ASSUME alive, Die PROVE Added \subseteq Added'
  BY <1>7 DEF Die, HoldersAreWriting
<1>8. ASSUME NEW l \in Loops, Start(l) \/ LoopStop(l) \/ LoopTick(l) \/ LoopWake(l)
      PROVE Added \subseteq Added'
  BY <1>1, <1>8 DEF Start, LoopStop, LoopTick, LoopWake
<1>9. ASSUME NEW s \in Stoppers, StopBegin(s) \/ StopNotRunning(s) \/ StopClose(s)
      PROVE Added \subseteq Added'
  BY <1>1, <1>9 DEF StopBegin, StopNotRunning, StopClose
<1>10. ASSUME NEW r \in Records, Signal(r) PROVE Added \subseteq Added'
  BY <1>1, <1>10 DEF Signal
<1>11. CASE UNCHANGED vars
  BY <1>1, <1>11 DEF vars
<1> QED
  BY <1>2, <1>3, <1>4, <1>5, <1>6, <1>7, <1>8, <1>9, <1>10, <1>11
     DEF Next, Loop, Flush, Stop, StopPanic, Kill

(* Stop returns only after everything buffered at its call left the buffer. *)
THEOREM StopFlushes == Spec => []StopLeavesNothingDue
<1>1. Init => DueIsTaken
  BY DEF Init, DueIsTaken
<1>2. TypeOK /\ HoldersAreWriting /\ DueIsTaken /\ [Next]_vars => DueIsTaken'
  <2> SUFFICES ASSUME TypeOK, HoldersAreWriting, DueIsTaken, [Next]_vars,
                      NEW u \in Stoppers
               PROVE  /\ due'[u] \subseteq Added'
                      /\ pc'[u] = "idle" => due'[u] = {}
                      /\ pc'[u] \in {"insert", "requeue", "returned"} => due'[u] \intersect buffer' = {}
    BY DEF DueIsTaken
  <2> USE DEF DueIsTaken, Goto
  <2>1. Added \subseteq Added'
    BY AddedGrows
  <2>2. CASE UNCHANGED <<buffer, due>> /\ UNCHANGED pc[u]
    BY <2>1, <2>2
  <2>3. ASSUME NEW l \in Loops, Start(l) \/ LoopStop(l) \/ LoopTick(l) \/ LoopWake(l)
        PROVE UNCHANGED <<buffer, due>> /\ UNCHANGED pc[u]
    BY <2>3 DEF Start, LoopStop, LoopTick, LoopWake, TypeOK
  <2>4. ASSUME NEW r \in Records, Add(r) PROVE due'[u] \intersect buffer' = due[u] \intersect buffer
    BY <2>4 DEF Add
  <2>5. ASSUME NEW t \in Threads, FlushTake(t)
        PROVE buffer' = {} /\ UNCHANGED due /\ (pc[u] # "idle" => pc'[u] # "idle") /\ (pc'[u] = "idle" => pc[u] = "idle")
    <3>1. pc \in [Threads -> {"idle", "select", "close", "flush", "insert", "requeue", "returned"}]
      BY DEF TypeOK
    <3>2. buffer' = {} /\ UNCHANGED due
      BY <2>5 DEF FlushTake
    <3>3. pc[t] = "flush" /\ pc'[t] # "idle" /\ \A v \in Threads : v # t => pc'[v] = pc[v]
      BY <2>5, <3>1 DEF FlushTake, AfterFlush
    <3> QED
      BY <3>2, <3>3
  <2>6. ASSUME NEW t \in Threads, FlushInsert(t) \/ FlushError(t) \/ \E r \in Records : Requeue(t, r)
        PROVE /\ UNCHANGED <<buffer, due>>
              /\ pc'[u] = pc[u] \/ (pc[u] \in {"insert", "requeue"} /\ pc'[u] \in {"requeue", "returned"})
    <3>1. pc \in [Threads -> {"idle", "select", "close", "flush", "insert", "requeue", "returned"}]
      BY DEF TypeOK
    <3>2. UNCHANGED <<buffer, due>>
      BY <2>6 DEF FlushInsert, FlushError, Requeue
    <3>3. CASE FlushInsert(t)
      BY <3>1, <3>2, <3>3 DEF FlushInsert, AfterFlush
    <3>4. CASE FlushError(t)
      BY <3>1, <3>2, <3>4 DEF FlushError, AfterFlush
    <3>5. ASSUME NEW r \in Records, Requeue(t, r)
          PROVE pc'[u] = pc[u] \/ (pc[u] \in {"insert", "requeue"} /\ pc'[u] \in {"requeue", "returned"})
      BY <3>1, <3>5 DEF Requeue, AfterFlush
    <3> QED
      BY <2>6, <3>2, <3>3, <3>4, <3>5
  <2>7. ASSUME NEW s \in Stoppers, StopBegin(s)
        PROVE /\ UNCHANGED buffer
              /\ (due'[u] = due[u] /\ pc'[u] = pc[u]) \/ (due'[u] = buffer /\ pc'[u] = "close")
    <3>1. /\ pc \in [Threads -> {"idle", "select", "close", "flush", "insert", "requeue", "returned"}]
          /\ due \in [Stoppers -> SUBSET Records]
      BY DEF TypeOK
    <3>2. CASE u = s
      BY <2>7, <3>1, <3>2 DEF StopBegin
    <3>3. CASE u # s
      BY <2>7, <3>1, <3>3 DEF StopBegin
    <3> QED
      BY <3>2, <3>3
  <2>8. ASSUME NEW s \in Stoppers, StopNotRunning(s) \/ StopClose(s)
        PROVE /\ UNCHANGED <<buffer, due>>
              /\ pc'[u] = pc[u] \/ pc'[u] = "flush" \/ (pc[u] = "idle" /\ pc'[u] = "returned")
    BY <2>8 DEF StopNotRunning, StopClose, TypeOK
  <2>9. ASSUME Die PROVE buffer' = {} /\ UNCHANGED <<pc, due>>
    BY <2>9 DEF Die
  <2>10. ASSUME NEW r \in Records, Signal(r) PROVE UNCHANGED <<buffer, due>> /\ UNCHANGED pc[u]
    BY <2>10 DEF Signal
  <2>11. ASSUME UNCHANGED vars PROVE UNCHANGED <<buffer, due>> /\ UNCHANGED pc[u]
    BY <2>11 DEF vars
  <2>12. ASSUME NEW r \in Records, Add(r) PROVE UNCHANGED <<due, pc>>
    BY <2>12 DEF Add
  <2>13. buffer \subseteq Added
    BY DEF Added
  <2>14. CASE \E r \in Records : Add(r)
    BY <2>14, <2>1, <2>4, <2>12
  <2>15. CASE \E t \in Threads : FlushTake(t)
    BY <2>15, <2>1, <2>5
  <2>16. CASE \E t \in Threads : FlushInsert(t) \/ FlushError(t) \/ \E r \in Records : Requeue(t, r)
    BY <2>16, <2>1, <2>6
  <2>17. CASE \E s \in Stoppers : StopBegin(s)
    BY <2>17, <2>1, <2>7, <2>13
  <2>18. CASE \E s \in Stoppers : StopNotRunning(s) \/ StopClose(s)
    BY <2>18, <2>1, <2>8
  <2>19. CASE Die
    BY <2>19, <2>1, <2>9
  <2> QED
    BY <2>2, <2>3, <2>10, <2>11, <2>14, <2>15, <2>16, <2>17, <2>18, <2>19
       DEF Next, Loop, Flush, Stop, StopPanic, Kill
<1>3. DueIsTaken => StopLeavesNothingDue
  BY DEF DueIsTaken, StopLeavesNothingDue
<1> QED
  BY <1>1, <1>2, <1>3, TypeCorrect, HoldersInvariant, PTL DEF Spec

(* Stop never panics unless the buffer was started at least twice. *)
THEOREM PanicNeedsRestart == Spec => []CloseTwiceNeedsRestart
<1>1. Init => FirstStop
  BY DEF Init, FirstStop
<1>2. TypeOK /\ FirstStop /\ [Next]_vars => FirstStop'
  <2> SUFFICES ASSUME TypeOK, FirstStop, [Next]_vars PROVE FirstStop'
    OBVIOUS
  <2> USE DEF FirstStop, TypeOK, Goto
  <2>1. ASSUME UNCHANGED <<starts, running, stopClosed>>,
               \A s \in Stoppers : pc'[s] = "close" => pc[s] = "close"
        PROVE FirstStop'
    BY <2>1
  <2>2. ASSUME NEW l \in Loops, Start(l) PROVE FirstStop'
    <3>1. \A s \in Stoppers : pc'[s] = pc[s]
      BY <2>2 DEF Start
    <3>2. starts' = starts + 1 /\ starts \in Nat /\ UNCHANGED stopClosed /\ running'
      BY <2>2 DEF Start
    <3>3. CASE starts = 0
      BY <3>1, <3>2, <3>3
    <3>4. CASE starts # 0
      BY <3>2, <3>4
    <3> QED
      BY <3>3, <3>4
  <2>3. ASSUME NEW l \in Loops, LoopStop(l) \/ LoopTick(l) \/ LoopWake(l) PROVE FirstStop'
    BY <2>1, <2>3 DEF LoopStop, LoopTick, LoopWake
  <2>4. ASSUME NEW r \in Records, Add(r) \/ Signal(r) PROVE FirstStop'
    BY <2>1, <2>4 DEF Add, Signal
  <2>5. ASSUME NEW t \in Threads, Flush(t) PROVE FirstStop'
    BY <2>1, <2>5 DEF Flush, FlushTake, FlushInsert, FlushError, Requeue, AfterFlush
  <2>6. ASSUME NEW s \in Stoppers, StopBegin(s) PROVE FirstStop'
    BY <2>6 DEF StopBegin
  <2>7. ASSUME NEW s \in Stoppers, StopNotRunning(s) PROVE FirstStop'
    BY <2>1, <2>7 DEF StopNotRunning
  <2>8. ASSUME NEW s \in Stoppers, StopClose(s) PROVE FirstStop'
    BY <2>8 DEF StopClose
  <2>9. ASSUME Die PROVE FirstStop'
    BY <2>1, <2>9 DEF Die
  <2>10. CASE UNCHANGED vars
    BY <2>1, <2>10 DEF vars
  <2> QED
    BY <2>2, <2>3, <2>4, <2>5, <2>6, <2>7, <2>8, <2>9, <2>10 DEF Next, Loop, Stop, StopPanic, Kill
<1>3. TypeOK /\ FirstStop => CloseTwiceNeedsRestart
  BY DEF TypeOK, FirstStop, CloseTwiceNeedsRestart
<1> QED
  BY <1>1, <1>2, <1>3, TypeCorrect, PTL DEF Spec

-----------------------------------------------------------------------------
(* A step that changes the stages of the records of S to s, and of no other, is *)
(* a Move of the sink.                                                          *)
LEMMA StagesMove ==
  ASSUME NEW S, NEW s,
         \A r \in Records : StageOf(r)' = IF r \in S THEN s ELSE StageOf(r)
  PROVE  Sink!Move(S, s)
BY DEF Sink!Move

(* The records that the sink has at a stage, as the mapping gives them. *)
LEMMA SinkAt ==
  ASSUME NEW s
  PROVE  Sink!At(s) = {r \in Records : StageOf(r) = s}
BY DEF Sink!At

(* Which records the sink holds as buffered and as being written. *)
LEMMA SinkHolds ==
  ASSUME TypeOK, RecordInOnePlace
  PROVE  Sink!At("buffered") = buffer /\ Sink!At("writing") = InFlight
<1>1. InFlight \subseteq Records
  BY InFlightMember DEF TypeOK
<1>2. \A r \in Records : (StageOf(r) = "buffered") <=> r \in buffer
  BY DEF RecordInOnePlace, StageOf
<1>3. \A r \in Records : (StageOf(r) = "writing") <=> r \in InFlight
  BY DEF RecordInOnePlace, StageOf
<1> QED
  BY <1>1, <1>2, <1>3, SinkAt DEF TypeOK

(* The buffer implements the record sink. *)
THEOREM Refinement == Spec => ImplementsSink
<1>1. Init => Sink!SinkInit
  BY DEF Init, Sink!SinkInit, StageOf, InFlight
<1>2. TypeOK /\ RecordInOnePlace /\ RecordInOnePlace' /\ HoldersAreWriting /\ [Next]_vars
        => [Sink!SinkNext]_(Sink!sinkVars)
  <2> SUFFICES ASSUME TypeOK, RecordInOnePlace, RecordInOnePlace', HoldersAreWriting, [Next]_vars
               PROVE  Sink!SinkNext \/ UNCHANGED Sink!sinkVars
    OBVIOUS
  <2> USE InFlightMember, InFlightMemberNext
  <2>1. ASSUME UNCHANGED <<buffer, batch, persisted, retryQueue, abandoned, lost, alive>>
        PROVE UNCHANGED Sink!sinkVars
    BY <2>1 DEF Sink!sinkVars, StageOf, InFlight
  <2>2. ASSUME NEW r \in Records, Add(r) PROVE Sink!Accept(r)
    <3>1. StageOf(r) = "new"
      BY <2>2 DEF Add, Added, StageOf
    <3>2. Sink!Move({r}, "buffered")
      <4>1. \A q \in Records : StageOf(q)' = IF q \in {r} THEN "buffered" ELSE StageOf(q)
        BY <2>2 DEF Add, Added, StageOf, RecordInOnePlace
      <4> QED
        BY <4>1, StagesMove
    <3> QED
      BY <2>2, <3>1, <3>2 DEF Add, Sink!Accept
  <2>3. ASSUME NEW t \in Threads, FlushTake(t) PROVE Sink!Collect \/ UNCHANGED Sink!sinkVars
    <3>1. CASE buffer = {}
      <4>1. batch[t] = {}
        BY <2>3 DEF FlushTake, HoldersAreWriting
      <4>2. batch' = batch
        BY <2>3, <3>1, <4>1 DEF FlushTake, TypeOK
      <4> QED
        BY <2>1, <2>3, <3>1, <4>2 DEF FlushTake
    <3>2. CASE buffer # {}
      <4>1. batch[t] = {}
        BY <2>3 DEF FlushTake, HoldersAreWriting
      <4>2. InFlight' = InFlight \union buffer /\ buffer' = {}
        BY <2>3, <4>1 DEF FlushTake, TypeOK
      <4>3. \A q \in Records : StageOf(q)' = IF q \in buffer THEN "writing" ELSE StageOf(q)
        BY <2>3, <4>2 DEF FlushTake, StageOf, RecordInOnePlace
      <4> QED
        BY <2>3, <3>2, <4>3, StagesMove, SinkHolds DEF FlushTake, Sink!Collect
    <3> QED
      BY <3>1, <3>2
  <2>4. ASSUME NEW t \in Threads, FlushInsert(t) PROVE Sink!SinkNext \/ UNCHANGED Sink!sinkVars
    <3>1. InFlight' = InFlight \ batch[t]
      BY <2>4 DEF FlushInsert, TypeOK, RecordInOnePlace
    <3>2. \A q \in Records : StageOf(q)' = IF q \in batch[t] THEN "stored" ELSE StageOf(q)
      BY <2>4, <3>1 DEF FlushInsert, StageOf, RecordInOnePlace
    <3>3. CASE batch[t] = {}
      BY <2>4, <3>2, <3>3 DEF FlushInsert, Sink!sinkVars
    <3>4. CASE batch[t] # {}
      <4>1. Sink!Settle(batch[t], "stored")
        BY <2>4, <3>2, <3>4, StagesMove, SinkHolds DEF FlushInsert, Sink!Settle
      <4> QED
        BY <4>1 DEF Sink!SinkNext, Sink!Settled, TypeOK
    <3> QED
      BY <3>3, <3>4
  <2>5. ASSUME NEW t \in Threads, FlushError(t) PROVE Sink!SinkNext \/ UNCHANGED Sink!sinkVars
    <3>1. CASE hasQueue
      <4>1. \A q \in Records : StageOf(q)' = StageOf(q)
        BY <2>5, <3>1 DEF FlushError, StageOf
      <4> QED
        BY <2>5, <4>1 DEF FlushError, Sink!sinkVars
    <3>2. CASE ~hasQueue
      <4>1. InFlight' = InFlight \ batch[t]
        BY <2>5, <3>2 DEF FlushError, TypeOK, RecordInOnePlace
      <4>2. \A q \in Records : StageOf(q)' = IF q \in batch[t] THEN "dropped" ELSE StageOf(q)
        BY <2>5, <3>2, <4>1 DEF FlushError, StageOf, RecordInOnePlace
      <4>3. CASE batch[t] = {}
        BY <2>5, <4>2, <4>3 DEF FlushError, Sink!sinkVars
      <4>4. CASE batch[t] # {}
        <5>1. Sink!Settle(batch[t], "dropped")
          BY <2>5, <4>2, <4>4, StagesMove, SinkHolds DEF FlushError, Sink!Settle
        <5> QED
          BY <5>1 DEF Sink!SinkNext, Sink!Settled, TypeOK
      <4> QED
        BY <4>3, <4>4
    <3> QED
      BY <3>1, <3>2
  <2>6. ASSUME NEW t \in Threads, NEW r \in Records, Requeue(t, r) PROVE Sink!SinkNext
    <3>1. InFlight' = InFlight \ {r} /\ r \in InFlight
      BY <2>6 DEF Requeue, TypeOK, RecordInOnePlace
    <3>2. PICK s \in {"queued", "dropped"} :
            \A q \in Records : StageOf(q)' = IF q \in {r} THEN s ELSE StageOf(q)
      <4>1. CASE retryQueue' = retryQueue \union {r} /\ UNCHANGED abandoned
        BY <2>6, <3>1, <4>1 DEF Requeue, StageOf, RecordInOnePlace
      <4>2. CASE abandoned' = abandoned \union {r} /\ UNCHANGED retryQueue
        BY <2>6, <3>1, <4>2 DEF Requeue, StageOf, RecordInOnePlace
      <4> QED
        BY <2>6, <4>1, <4>2 DEF Requeue
    <3>3. Sink!Settle({r}, s)
      BY <2>6, <3>1, <3>2, StagesMove, SinkHolds DEF Requeue, Sink!Settle
    <3> QED
      BY <3>3 DEF Sink!SinkNext, Sink!Settled
  <2>7. ASSUME alive, Die PROVE Sink!Die
    <3>1. InFlight' = {} /\ buffer' = {} /\ lost' = buffer \union InFlight /\ lost = {}
      BY <2>7 DEF Die, HoldersAreWriting
    <3>2. \A q \in Records : StageOf(q)' = IF q \in buffer \union InFlight THEN "lost" ELSE StageOf(q)
      BY <2>7, <3>1 DEF Die, StageOf, RecordInOnePlace
    <3> QED
      BY <2>7, <3>2, StagesMove, SinkHolds DEF Die, Sink!Die
  <2>8. ASSUME NEW l \in Loops, Start(l) \/ LoopStop(l) \/ LoopTick(l) \/ LoopWake(l)
        PROVE UNCHANGED Sink!sinkVars
    BY <2>1, <2>8 DEF Start, LoopStop, LoopTick, LoopWake
  <2>9. ASSUME NEW s \in Stoppers, StopBegin(s) \/ StopNotRunning(s) \/ StopClose(s)
        PROVE UNCHANGED Sink!sinkVars
    BY <2>1, <2>9 DEF StopBegin, StopNotRunning, StopClose
  <2>10. ASSUME NEW r \in Records, Signal(r) PROVE UNCHANGED Sink!sinkVars
    BY <2>1, <2>10 DEF Signal
  <2>11. ASSUME UNCHANGED vars PROVE UNCHANGED Sink!sinkVars
    BY <2>1, <2>11 DEF vars
  <2>12. (\E r \in Records : Add(r)) => Sink!SinkNext
    BY <2>2 DEF Sink!SinkNext
  <2>13. (\E t \in Threads : FlushTake(t)) => Sink!SinkNext \/ UNCHANGED Sink!sinkVars
    BY <2>3 DEF Sink!SinkNext
  <2>14. alive /\ Die => Sink!SinkNext
    BY <2>7 DEF Sink!SinkNext
  <2> QED
    BY <2>4, <2>5, <2>6, <2>8, <2>9, <2>10, <2>11, <2>12, <2>13, <2>14
       DEF Next, Loop, Flush, Stop, StopPanic, Kill
<1> QED
  BY <1>1, <1>2, TypeCorrect, OnePlace, HoldersInvariant, PTL
     DEF Spec, ImplementsSink, Sink!SinkSpec

-----------------------------------------------------------------------------
HIDE BufferAssumption DEF Threads

(* The API of alerts.  Every variable has its type. *)
Silence == [by : Requests, nr : Nat \union {None}]
GatewayLabels == Ops \union {"new", "call", "succeeded", "failed", "event", "save", "notify", "done"}
Request == [pc : GatewayLabels, ask : Asks \union {None}, tries : Nat, lost : Nat, made : Nat, todo : SUBSET Alerts,
            copy : Nat \union {None}, at : Nat, status : Statuses \union {None}, answer : Nat \union {None},
            target : Silence \union {None}]
GatewayTypeOK == /\ req \in [Requests -> Request]
                 /\ firing \subseteq Alerts /\ silences \subseteq Silence
                 /\ noise \in [Alerts -> Nat \union {None}]
                 /\ notices \subseteq Requests /\ buffered \subseteq Requests \X Alerts
                 /\ saved \in [Alerts -> Nat] /\ stale \subseteq Alerts

(* A request that was told of success, or is going to be. *)
Well(q) == q.pc = "done" /\ q.status = "ok"
Reached(q) == q.pc \in {"succeeded", "event", "save", "notify"} \/ Well(q)
Fired(q) == CHOOSE a \in q.ask.alerts : TRUE

(* Where a request is says what it asked for. *)
AskedOf(q) ==
    /\ q.pc = "new" => q = New
    /\ q.pc # "new" => q.ask \in Asks
    /\ q.pc \in Ops => q.pc = q.ask.op
    /\ q.pc \in {"call", "succeeded", "failed"} => q.ask.op \in Sends \union Creates \union Deletes
    /\ q.pc \in {"event", "save", "notify"} => q.ask.op = "sendWithRecord"
    /\ q.status = "ok" => q.pc = "done"

(* The silences that Alertmanager has made for a request. *)
MadeOf(q) ==
    /\ q.pc \in Ops \union {"new"} => q.made = 0 /\ q.lost = 0
    /\ q.pc # "new" => q.made = IF q.ask.op \in Creates
                                THEN q.lost + (IF q.pc = "succeeded" \/ Well(q) THEN 1 ELSE 0) ELSE 0
    /\ q.pc = "done" /\ q.status \in {"invalid", "unauthorized", "conflict", "notFound"} => q.made = 0

(* What request r, as q, has done to what was sent (f), silenced (s), noted (n) and buffered (b). *)
Told(r, q, f, s, n, b) ==
    /\ Reached(q) /\ q.ask.op \in Sends => q.ask.alerts \subseteq f
    /\ Reached(q) /\ q.ask.op \in Deletes => q.target \in Silence \ s
    /\ r \in n => Well(q)
    /\ \A a \in Alerts : <<r, a>> \in b => Well(q) \/ q.pc = "webhook"
    /\ Well(q) /\ q.ask.op = "sendWithRecord" => <<r, Fired(q)>> \in b

(* The copy of a record is no newer than the record, and of fires as many as were written then. *)
Copied(q, counts, writes) ==
    q.pc = "save" /\ q.copy # None =>
        /\ q.copy =< q.at /\ q.at =< writes[Fired(q)]
        /\ q.at = writes[Fired(q)] => counts[Fired(q)] = q.copy

Requested == \A r \in Requests : AskedOf(req[r]) /\ MadeOf(req[r])
Outcomes == \A r \in Requests : /\ Told(r, req[r], firing, silences, notices, buffered)
                               /\ Copied(req[r], noise, saved)

(* A silence was made by a request; one that is deleted by who has ended. *)
Makers == /\ \A s \in silences : req[s.by].made > 0
          /\ \A r \in Requests : req[r].target # None => At(req[r].target.by, "done")

(* The inductive invariant. *)
GatewayInvariant == GatewayTypeOK /\ Requested /\ Outcomes /\ Makers /\ FiresAreCounted

(* What step of request r to the record rec does to it and to the rest. *)
GatewayGoes(r, rec) ==
    /\ req' = [req EXCEPT ![r] = rec] /\ req[r].pc # "done"
    /\ rec \in Request /\ AskedOf(rec) /\ MadeOf(rec) /\ rec.made >= req[r].made
    /\ Told(r, rec, firing', silences', notices', buffered') /\ Copied(rec, noise', saved')
    /\ rec.target \notin {None, req[r].target} => At(rec.target.by, "done")
    /\ firing \subseteq firing' /\ firing' \subseteq Alerts
    /\ silences' \subseteq Silence
    /\ \A s \in silences' \ silences : s.by = r /\ rec.made > 0
    /\ notices' \subseteq notices \union {r}
    /\ buffered \subseteq buffered' /\ buffered' \subseteq buffered \union ({r} \X Alerts)
    /\ noise' \in [Alerts -> Nat \union {None}] /\ saved' \in [Alerts -> Nat] /\ stale' \subseteq Alerts
    /\ \A a \in Alerts : (saved'[a] = saved[a] /\ noise'[a] = noise[a]) \/ saved'[a] > saved[a]
    /\ FiresAreCounted'

(* An alert that is sent with a record is an alert. *)
LEMMA FiredIsAlert ==
    ASSUME NEW q \in Request, q.ask \in Asks, q.ask.op = "sendWithRecord" PROVE Fired(q) \in q.ask.alerts /\ Fired(q) \in Alerts
  BY AsksAssumption DEF Fired

(* Such a step keeps the types. *)
LEMMA GatewayStepTyped ==
    ASSUME GatewayTypeOK, NEW r \in Requests, NEW rec, GatewayGoes(r, rec) PROVE GatewayTypeOK'
<1>1. req' \in [Requests -> Request]
  BY DEF GatewayTypeOK, GatewayGoes
<1>2. firing' \subseteq Alerts /\ silences' \subseteq Silence /\ stale' \subseteq Alerts
      /\ noise' \in [Alerts -> Nat \union {None}] /\ saved' \in [Alerts -> Nat]
  BY DEF GatewayGoes
<1>3. notices' \subseteq Requests
  BY DEF GatewayTypeOK, GatewayGoes
<1>4. buffered' \subseteq Requests \X Alerts
  BY DEF GatewayTypeOK, GatewayGoes
<1> QED
  BY <1>1, <1>2, <1>3, <1>4 DEF GatewayTypeOK

(* A step of one request is no step of another's. *)
LEMMA GatewayStepOthers ==
    ASSUME GatewayInvariant, NEW r \in Requests, NEW rec, GatewayGoes(r, rec),
           NEW p \in Requests, p # r
    PROVE  /\ req'[p] = req[p]
           /\ Told(p, req[p], firing', silences', notices', buffered')
           /\ Copied(req[p], noise', saved')
<1> DEFINE q == req[p]
<1>1. q \in Request /\ req[r] \in Request
  BY DEF GatewayInvariant, GatewayTypeOK
<1>2. req'[p] = q
  BY DEF GatewayInvariant, GatewayTypeOK, GatewayGoes
<1>3. /\ AskedOf(q) /\ Told(p, q, firing, silences, notices, buffered) /\ Copied(q, noise, saved)
      /\ q.target # None => At(q.target.by, "done")
  BY DEF GatewayInvariant, Requested, Outcomes, Makers
<1>g. GatewayGoes(r, rec)
  OBVIOUS
<1> HIDE DEF q
<1>4. Reached(q) /\ q.ask.op \in Sends => q.ask.alerts \subseteq firing'
  BY <1>3, <1>g DEF Told, GatewayGoes
<1>5. ASSUME Reached(q), q.ask.op \in Deletes PROVE q.target \in Silence \ silences'
  <2>1. q.target \in Silence \ silences
    BY <1>3, <1>5 DEF Told
  <2>2. q.target # None
    BY <2>1, AsksAssumption DEF Silence
  <2>3. At(q.target.by, "done")
    BY <1>3, <2>2
  <2>4. q.target.by # r
    BY <2>3, <1>g DEF At, GatewayGoes
  <2> QED
    BY <2>1, <2>4, <1>g DEF GatewayGoes
<1>6. p \in notices' => Well(q)
  BY <1>3, <1>g DEF Told, GatewayGoes
<1>7. \A a \in Alerts : <<p, a>> \in buffered' => Well(q) \/ q.pc = "webhook"
  BY <1>3, <1>g DEF Told, GatewayGoes
<1>8. Well(q) /\ q.ask.op = "sendWithRecord" => <<p, Fired(q)>> \in buffered'
  BY <1>3, <1>g DEF Told, GatewayGoes
<1>9. Told(p, q, firing', silences', notices', buffered')
  BY <1>4, <1>5, <1>6, <1>7, <1>8 DEF Told
<1>10. ASSUME q.pc = "save", q.copy # None
       PROVE  /\ q.copy =< q.at /\ q.at =< saved'[Fired(q)]
              /\ q.at = saved'[Fired(q)] => noise'[Fired(q)] = q.copy
  <2>1. Fired(q) \in Alerts
    BY <1>1, <1>3, <1>10, FiredIsAlert DEF AskedOf, Ops
  <2> DEFINE f == Fired(q)
  <2>2. f \in Alerts
    BY <2>1
  <2>3. q.copy =< q.at /\ q.at =< saved[f] /\ (q.at = saved[f] => noise[f] = q.copy)
    BY <1>3, <1>10 DEF Copied
  <2> HIDE DEF f
  <2>4. saved[f] \in Nat /\ saved'[f] \in Nat /\ q.at \in Nat
    BY <2>2, <1>1, <1>g DEF GatewayInvariant, GatewayTypeOK, GatewayGoes, Request
  <2>5. (saved'[f] = saved[f] /\ noise'[f] = noise[f]) \/ saved'[f] > saved[f]
    BY <2>2, <1>g DEF GatewayGoes
  <2>6. /\ q.copy =< q.at /\ q.at =< saved'[f]
        /\ q.at = saved'[f] => noise'[f] = q.copy
    BY <2>3, <2>4, <2>5
  <2> QED
    BY <2>6 DEF f
<1>11. Copied(q, noise', saved')
  BY <1>10 DEF Copied
<1> QED
  BY <1>2, <1>9, <1>11 DEF q

(* And the whole invariant. *)
LEMMA GatewayStep ==
    ASSUME GatewayInvariant, NEW r \in Requests, NEW rec, GatewayGoes(r, rec) PROVE GatewayInvariant'
<1>1. GatewayTypeOK'
  BY GatewayStepTyped DEF GatewayInvariant
<1>2. req'[r] = rec
  BY DEF GatewayInvariant, GatewayTypeOK, GatewayGoes
<1>3. \A p \in Requests : p # r => /\ req'[p] = req[p]
                                   /\ Told(p, req[p], firing', silences', notices', buffered')
                                   /\ Copied(req[p], noise', saved')
  BY GatewayStepOthers
<1>4. Requested'
  <2> SUFFICES ASSUME NEW p \in Requests PROVE AskedOf(req'[p]) /\ MadeOf(req'[p])
    BY DEF Requested
  <2>1. CASE p = r
    BY <2>1, <1>2 DEF GatewayGoes
  <2>2. CASE p # r
    BY <2>2, <1>3 DEF GatewayInvariant, Requested
  <2> QED
    BY <2>1, <2>2
<1>5. Outcomes'
  <2> SUFFICES ASSUME NEW p \in Requests
               PROVE  /\ Told(p, req'[p], firing', silences', notices', buffered')
                      /\ Copied(req'[p], noise', saved')
    BY DEF Outcomes
  <2>1. CASE p = r
    BY <2>1, <1>2 DEF GatewayGoes
  <2>2. CASE p # r
    BY <2>2, <1>3
  <2> QED
    BY <2>1, <2>2
<1>6. \A s \in silences' : req'[s.by].made > 0
  <2> SUFFICES ASSUME NEW s \in silences' PROVE req'[s.by].made > 0
    OBVIOUS
  <2>1. s.by \in Requests
    BY DEF GatewayGoes, Silence
  <2>2. CASE s \notin silences
    BY <2>2, <1>2 DEF GatewayGoes
  <2>3. CASE s \in silences /\ s.by # r
    BY <2>1, <2>3, <1>3 DEF GatewayInvariant, Makers
  <2>4. CASE s \in silences /\ s.by = r
    <3>1. req[r].made > 0 /\ rec.made >= req[r].made
      BY <2>4 DEF GatewayInvariant, Makers, GatewayGoes
    <3>2. req[r].made \in Nat /\ rec.made \in Nat
      BY DEF GatewayInvariant, GatewayTypeOK, GatewayGoes, Request
    <3> QED
      BY <3>1, <3>2, <2>4, <1>2
  <2> QED
    BY <2>2, <2>3, <2>4
<1>7. \A p \in Requests : req'[p].target # None => req'[req'[p].target.by].pc = "done"
  <2> SUFFICES ASSUME NEW p \in Requests, req'[p].target # None PROVE req'[req'[p].target.by].pc = "done"
    OBVIOUS
  <2> DEFINE s == req'[p].target
  <2>1. s \in Silence
    BY <1>1 DEF GatewayTypeOK, Request
  <2>2. s.by \in Requests
    BY <2>1 DEF Silence
  <2>3. At(s.by, "done")
    <3>1. CASE p # r
      BY <3>1, <1>3 DEF GatewayInvariant, Makers
    <3>2. CASE p = r
      BY <3>2, <1>2 DEF GatewayInvariant, Makers, GatewayGoes
    <3> QED
      BY <3>1, <3>2
  <2>4. s.by # r
    BY <2>3 DEF At, GatewayGoes
  <2> QED
    BY <2>2, <2>3, <2>4, <1>3 DEF At
<1>8. Makers'
  BY <1>6, <1>7 DEF Makers, At
<1> QED
  BY <1>1, <1>4, <1>5, <1>8 DEF GatewayInvariant, GatewayGoes

(* A request that only itself goes on. *)
LEMMA AloneStep ==
    ASSUME GatewayInvariant, NEW r \in Requests, NEW rec, Alone, req' = [req EXCEPT ![r] = rec], ~At(r, "done"),
           rec \in Request, AskedOf(rec), MadeOf(rec), rec.made >= req[r].made,
           Told(r, rec, firing, silences, notices, buffered), Copied(rec, noise, saved),
           rec.target \notin {None, req[r].target} => At(rec.target.by, "done")
    PROVE  GatewayInvariant'
<1>1. UNCHANGED <<firing, silences, noise, notices, buffered, saved, stale>>
  BY DEF Alone, alertmanager, records
<1>2. FiresAreCounted'
  BY <1>1 DEF GatewayInvariant, FiresAreCounted
<1>3. GatewayTypeOK
  BY DEF GatewayInvariant
<1>4. buffered \subseteq buffered \union ({r} \X Alerts) /\ notices \subseteq notices \union {r}
  OBVIOUS
<1>5. GatewayGoes(r, rec)
  BY <1>1, <1>2, <1>3, <1>4 DEF GatewayGoes, GatewayTypeOK, At
<1> QED
  BY <1>5, GatewayStep

(* What the invariant says of one request. *)
LEMMA OneRequest ==
    ASSUME GatewayInvariant, NEW r \in Requests
    PROVE  /\ req[r] \in Request /\ AskedOf(req[r]) /\ MadeOf(req[r])
           /\ Told(r, req[r], firing, silences, notices, buffered)
  BY DEF GatewayInvariant, GatewayTypeOK, Requested, Outcomes

(* A request is received. *)
LEMMA ReceiveStep ==
    ASSUME GatewayInvariant, NEW r \in Requests, NEW ask \in Asks, Receive(r, ask) PROVE GatewayInvariant'
<1>1. /\ req[r] \in Request /\ req[r] = New /\ Told(r, req[r], firing, silences, notices, buffered)
  BY OneRequest DEF Receive, At, AskedOf
<1>2. /\ ask.op \in Ops /\ ask.alerts \subseteq Alerts /\ ask.silence \in Requests \union {None}
  BY AsksAssumption
<1>3. r \notin notices /\ \A a \in Alerts : <<r, a>> \notin buffered
  BY <1>1 DEF Told, Well, New
<1>4. ~At(r, "done")
  BY DEF Receive, At
<1>5. ASSUME NEW status \in {"invalid", "unauthorized"},
             req' = [req EXCEPT ![r] = [@ EXCEPT !.ask = ask, !.pc = "done", !.status = status]]
      PROVE  GatewayInvariant'
  <2> DEFINE rec == [New EXCEPT !.ask = ask, !.pc = "done", !.status = status]
  <2>1. req' = [req EXCEPT ![r] = rec]
    BY <1>5, <1>1
  <2>2. rec \in Request
    BY <1>1 DEF Request, GatewayLabels, Statuses
  <2>3. AskedOf(rec) /\ MadeOf(rec)
    BY AsksAssumption DEF AskedOf, MadeOf, Ops, Statuses, New, Well, Creates
  <2>4. Told(r, rec, firing, silences, notices, buffered)
    BY <1>3 DEF Told, Reached, Well, New
  <2>5. Copied(rec, noise, saved) /\ rec.made = 0 /\ req[r].made = 0 /\ rec.target = None
    BY <1>1 DEF Copied, New
  <2> HIDE DEF rec
  <2>6. rec.made >= req[r].made
    BY <2>5
  <2> QED
    BY <2>1, <2>2, <2>3, <2>4, <2>5, <2>6, <1>4, AloneStep DEF Receive
<1>6. ASSUME req' = [req EXCEPT ![r] = [@ EXCEPT !.ask = ask, !.todo = ask.alerts, !.target = Named(ask.silence), !.pc = ask.op]]
      PROVE  GatewayInvariant'
  <2> DEFINE rec == [New EXCEPT !.ask = ask, !.todo = ask.alerts, !.target = Named(ask.silence), !.pc = ask.op]
  <2>1. req' = [req EXCEPT ![r] = rec]
    BY <1>6, <1>1
  <2>7. Named(ask.silence) # None => /\ ask.silence \in Requests /\ At(ask.silence, "done")
                                     /\ Named(ask.silence) = [by |-> ask.silence, nr |-> req[ask.silence].answer]
    BY <1>2, OneRequest DEF Named, AskedOf, At
  <2>8. Named(ask.silence) \in Silence \union {None}
    <3>1. CASE Named(ask.silence) # None
      <4>1. req[ask.silence] \in Request
        BY <3>1, <2>7, OneRequest
      <4> QED
        BY <3>1, <4>1, <2>7 DEF Silence, Request
    <3> QED
      BY <3>1
  <2>2. rec \in Request
    BY <1>1, <1>2, <2>8 DEF Request, GatewayLabels
  <2>9. rec.pc \notin {"new", "call", "succeeded", "failed", "event", "save", "notify", "done"}
    BY <1>2 DEF Ops, New
  <2>10. rec.ask = ask /\ rec.pc = ask.op /\ rec.made = 0 /\ rec.lost = 0 /\ rec.status = None
         /\ req[r].made = 0 /\ rec.target = Named(ask.silence)
    BY <1>1 DEF New
  <2>11. "ok" # None
    BY AsksAssumption DEF Statuses
  <2> HIDE DEF rec
  <2>3. AskedOf(rec) /\ MadeOf(rec)
    BY <2>9, <2>10, <2>11 DEF AskedOf, MadeOf, Well
  <2>4. Told(r, rec, firing, silences, notices, buffered)
    BY <1>3, <2>9 DEF Told, Reached, Well
  <2>5. Copied(rec, noise, saved)
    BY <2>9 DEF Copied
  <2>6. rec.made >= req[r].made
    BY <2>10
  <2>12. rec.target # None => At(rec.target.by, "done")
    BY <2>7, <2>10
  <2> QED
    BY <2>1, <2>2, <2>3, <2>4, <2>5, <2>6, <2>12, <1>4, AloneStep DEF Receive
<1> QED
  BY <1>5, <1>6 DEF Receive

(* A request is answered that nothing more, or an error. *)
LEMMA RefuseStep ==
    ASSUME GatewayInvariant, NEW r \in Requests, NEW status \in Statuses \ {"ok"}, Respond(r, status), Alone,
           req[r].pc \in Ops \union {"failed"}, req[r].pc # "webhook",
           req[r].pc = "failed" => status = "error"
    PROVE  GatewayInvariant'
<1> DEFINE q == req[r]
           rec == [q EXCEPT !.pc = "done", !.status = status]
<1>1. q \in Request /\ AskedOf(q) /\ MadeOf(q) /\ Told(r, q, firing, silences, notices, buffered)
  BY OneRequest
<1>2. q.pc \notin {"done", "new"} /\ q.ask \in Asks /\ q.status # "ok"
  BY <1>1 DEF AskedOf, Ops
<1>3. req' = [req EXCEPT ![r] = rec]
  BY DEF Respond
<1>4. rec \in Request
  BY <1>1 DEF Request, GatewayLabels
<1>5. /\ rec.pc = "done" /\ rec.status = status /\ rec.ask = q.ask /\ rec.made = q.made /\ rec.lost = q.lost
      /\ rec.target = q.target
  BY <1>1 DEF Request
<1>6. q.made \in Nat /\ q.lost \in Nat
  BY <1>1 DEF Request
<1>7. q.pc \in Ops \union {"failed"} /\ q.pc # "webhook" /\ (q.pc = "failed" => status = "error")
  OBVIOUS
<1>a. Respond(r, status) /\ Alone /\ ~At(r, "done")
  BY <1>2 DEF At
<1> HIDE DEF rec, q
<1>8. AskedOf(rec)
  BY <1>5, <1>2 DEF AskedOf, Ops
<1>9. MadeOf(rec)
  <2>1. q.made = IF q.ask.op \in Creates THEN q.lost ELSE 0
    BY <1>1, <1>2, <1>6, <1>7 DEF MadeOf, Well, Ops
  <2>2. status \in {"invalid", "unauthorized", "conflict", "notFound"} => q.made = 0
    BY <1>1, <1>7 DEF MadeOf
  <2> QED
    BY <2>1, <2>2, <1>5, <1>6 DEF MadeOf, Well, Ops
<1>10. Told(r, rec, firing, silences, notices, buffered)
  BY <1>1, <1>5, <1>7, <1>2 DEF Told, Reached, Well
<1>11. Copied(rec, noise, saved)
  BY <1>5 DEF Copied
<1>12. rec.made >= q.made
  BY <1>5, <1>6
<1> QED
  BY <1>3, <1>4, <1>5, <1>8, <1>9, <1>10, <1>11, <1>12, <1>a, AloneStep DEF q

(* A request is passed on to the client. *)
LEMMA CallsStep ==
    ASSUME GatewayInvariant, NEW r \in Requests, Continue(r, "call"), Alone,
           req[r].pc \in Sends \union Creates \union Deletes
    PROVE  GatewayInvariant'
<1> DEFINE q == req[r]
           rec == [q EXCEPT !.pc = "call"]
<1>1. q \in Request /\ AskedOf(q) /\ MadeOf(q) /\ Told(r, q, firing, silences, notices, buffered)
  BY OneRequest
<1>2. q.pc \in Ops /\ q.pc \notin {"done", "new", "webhook"}
  BY DEF Sends, Creates, Deletes, Ops
<1>3. q.pc = q.ask.op /\ q.ask \in Asks /\ q.status # "ok" /\ q.made = 0 /\ q.lost = 0
  BY <1>1, <1>2 DEF AskedOf, MadeOf
<1>4. req' = [req EXCEPT ![r] = rec]
  BY DEF Continue
<1>5. rec \in Request
  BY <1>1 DEF Request, GatewayLabels
<1>6. /\ rec.pc = "call" /\ rec.status = q.status /\ rec.ask = q.ask /\ rec.made = q.made /\ rec.lost = q.lost
      /\ rec.target = q.target
  BY <1>1 DEF Request
<1>7. q.pc \in Sends \union Creates \union Deletes
  OBVIOUS
<1>a. Alone /\ ~At(r, "done")
  BY <1>2 DEF At
<1> HIDE DEF rec, q
<1>8. AskedOf(rec) /\ MadeOf(rec)
  BY <1>3, <1>6, <1>7 DEF AskedOf, MadeOf, Well, Ops
<1>9. Told(r, rec, firing, silences, notices, buffered)
  BY <1>1, <1>2, <1>6 DEF Told, Reached, Well
<1>10. Copied(rec, noise, saved) /\ rec.made >= q.made
  BY <1>3, <1>6 DEF Copied
<1> QED
  BY <1>4, <1>5, <1>6, <1>8, <1>9, <1>10, <1>a, AloneStep DEF q

(* A request is answered that all is well, when no event is left to write. *)
LEMMA AnswerStep ==
    ASSUME GatewayInvariant, NEW r \in Requests, Respond(r, "ok"), Alone,
           \/ req[r].pc \in Ops \ (Sends \union Creates \union Deletes)
           \/ At(r, "succeeded") /\ Op(r) # "sendWithRecord"
    PROVE  GatewayInvariant'
<1> DEFINE q == req[r]
           rec == [q EXCEPT !.pc = "done", !.status = "ok"]
<1>1. q \in Request /\ AskedOf(q) /\ MadeOf(q) /\ Told(r, q, firing, silences, notices, buffered)
  BY OneRequest
<1>2. \/ q.pc \in Ops \ (Sends \union Creates \union Deletes)
      \/ q.pc = "succeeded" /\ q.ask.op # "sendWithRecord"
  BY DEF At, Op
<1>3. q.pc \notin {"done", "new"} /\ q.ask \in Asks /\ q.status # "ok" /\ (q.pc \in Ops => q.pc = q.ask.op)
  BY <1>1, <1>2 DEF AskedOf, Ops
<1>4. req' = [req EXCEPT ![r] = rec]
  BY DEF Respond
<1>5. rec \in Request
  BY <1>1 DEF Request, GatewayLabels, Statuses
<1>6. /\ rec.pc = "done" /\ rec.status = "ok" /\ rec.ask = q.ask /\ rec.made = q.made /\ rec.lost = q.lost
      /\ rec.target = q.target
  BY <1>1 DEF Request
<1>7. q.made \in Nat /\ q.lost \in Nat
  BY <1>1 DEF Request
<1>a. Alone /\ ~At(r, "done")
  BY <1>3 DEF At
<1> HIDE DEF rec, q
<1>8. AskedOf(rec)
  BY <1>3, <1>6 DEF AskedOf, Ops
<1>9. MadeOf(rec)
  <2>1. q.made = IF q.ask.op \in Creates THEN q.lost + 1 ELSE 0
    <3>1. CASE q.pc = "succeeded"
      BY <1>1, <3>1 DEF MadeOf
    <3>2. CASE q.pc \in Ops \ (Sends \union Creates \union Deletes)
      BY <1>1, <1>3, <3>2 DEF MadeOf
    <3> QED
      BY <1>2, <3>1, <3>2
  <2> QED
    BY <2>1, <1>6 DEF MadeOf, Well, Ops
<1>10. Told(r, rec, firing, silences, notices, buffered)
  <2>1. CASE q.pc = "succeeded" /\ q.ask.op # "sendWithRecord"
    BY <1>1, <1>6, <2>1 DEF Told, Reached, Well
  <2>2. CASE q.pc \in Ops \ (Sends \union Creates \union Deletes)
    <3>1. q.ask.op \notin Sends \union Deletes \union {"sendWithRecord"}
      BY <2>2, <1>3 DEF Sends
    <3> QED
      BY <1>1, <1>6, <3>1 DEF Told, Reached, Well
  <2> QED
    BY <1>2, <2>1, <2>2
<1>11. Copied(rec, noise, saved) /\ rec.made >= q.made
  BY <1>6, <1>7 DEF Copied
<1> QED
  BY <1>4, <1>5, <1>6, <1>8, <1>9, <1>10, <1>11, <1>a, AloneStep DEF q

(* An event begins, and reads the record of the alert. *)
LEMMA EventStep ==
    ASSUME GatewayInvariant, NEW r \in Requests, Alone,
           \/ At(r, "succeeded") /\ Op(r) = "sendWithRecord" /\ Continue(r, "event")
           \/ GetByFingerprint(r)
    PROVE  GatewayInvariant'
<1> DEFINE q == req[r]
<1>1. q \in Request /\ AskedOf(q) /\ MadeOf(q) /\ Told(r, q, firing, silences, notices, buffered)
  BY OneRequest
<1>2. /\ q.pc \in {"succeeded", "event"} /\ q.ask.op = "sendWithRecord" /\ q.ask \in Asks /\ q.status # "ok"
  BY <1>1 DEF At, Op, AskedOf, GetByFingerprint
<1>3. Fired(q) \in Alerts /\ AlertOf(r) = Fired(q)
  <2>1. AlertOf(r) = Fired(q)
    BY DEF AlertOf, Fired
  <2>2. q.ask \in Asks /\ q.ask.op = "sendWithRecord"
    BY <1>2
  <2>3. Fired(q) \in Alerts
    BY <1>1, <2>2, FiredIsAlert
  <2> QED
    BY <2>1, <2>3
<1>4. /\ noise \in [Alerts -> Nat \union {None}] /\ saved \in [Alerts -> Nat]
  BY DEF GatewayInvariant, GatewayTypeOK
<1>c. ASSUME NEW label \in {"event", "save"}, NEW copy, NEW at,
             req' = [req EXCEPT ![r] = [q EXCEPT !.pc = label, !.copy = copy, !.at = at]],
             copy \in Nat \union {None}, at \in Nat,
             label = "save" => copy \in {noise[Fired(q)], None} /\ at = saved[Fired(q)]
      PROVE  GatewayInvariant'
  <2> DEFINE rec == [q EXCEPT !.pc = label, !.copy = copy, !.at = at]
  <2>1. req' = [req EXCEPT ![r] = rec]
    BY <1>c
  <2>2. rec \in Request
    BY <1>1, <1>c DEF Request, GatewayLabels
  <2>3. /\ rec.pc = label /\ rec.status = q.status /\ rec.ask = q.ask /\ rec.made = q.made /\ rec.lost = q.lost
        /\ rec.target = q.target /\ rec.copy = copy /\ rec.at = at
    BY <1>1 DEF Request
  <2>4. q.made \in Nat /\ q.lost \in Nat
    BY <1>1 DEF Request
  <2>a. Alone /\ ~At(r, "done")
    BY <1>2 DEF At
  <2>f. Fired(rec) = Fired(q)
    BY <2>3 DEF Fired
  <2>g. FiresAreCounted
    BY DEF GatewayInvariant
  <2> HIDE DEF rec, q
  <2>5. AskedOf(rec)
    BY <1>2, <1>c, <2>3 DEF AskedOf, Ops
  <2>6. MadeOf(rec)
    <3>1. q.made = 0
      BY <1>1, <1>2 DEF MadeOf, Creates
    <3> QED
      BY <3>1, <1>2, <2>3, <1>c DEF MadeOf, Ops, Creates
  <2>7. Told(r, rec, firing, silences, notices, buffered)
    BY <1>1, <1>2, <1>c, <2>3 DEF Told, Reached, Well, Deletes
  <2>8. Copied(rec, noise, saved)
    <3>1. CASE label = "event"
      BY <3>1, <2>3 DEF Copied
    <3>2. CASE label = "save"
      <4> DEFINE f == Fired(q)
      <4>1. f \in Alerts /\ copy \in {noise[f], None} /\ at = saved[f] /\ Fired(rec) = f
        BY <3>2, <1>3, <1>c, <2>f
      <4> HIDE DEF f
      <4>2. noise[f] # None => noise[f] =< saved[f]
        BY <4>1, <2>g DEF FiresAreCounted
      <4>3. saved[f] \in Nat
        BY <4>1, <1>4
      <4> QED
        BY <4>1, <4>2, <4>3, <2>3 DEF Copied
    <3> QED
      BY <1>c, <3>1, <3>2
  <2>9. rec.made >= q.made
    BY <2>3, <2>4
  <2> QED
    BY <2>1, <2>2, <2>3, <2>5, <2>6, <2>7, <2>8, <2>9, <2>a, AloneStep DEF q
<1>5. CASE Continue(r, "event")
  <2>1. req' = [req EXCEPT ![r] = [q EXCEPT !.pc = "event", !.copy = q.copy, !.at = q.at]]
    BY <1>1, <1>5 DEF Continue, Request
  <2>2. q.copy \in Nat \union {None} /\ q.at \in Nat
    BY <1>1 DEF Request
  <2> QED
    BY <2>1, <2>2, <1>c
<1>6. CASE GetByFingerprint(r)
  <2>1. PICK copy \in {noise[AlertOf(r)], None} :
          req' = [req EXCEPT ![r].pc = "save", ![r].copy = copy, ![r].at = saved[AlertOf(r)]]
    BY <1>6 DEF GetByFingerprint
  <2>2. req' = [req EXCEPT ![r] = [q EXCEPT !.pc = "save", !.copy = copy, !.at = saved[AlertOf(r)]]]
    BY <2>1
  <2>3. copy \in Nat \union {None} /\ saved[AlertOf(r)] \in Nat
    BY <1>3, <1>4, <2>1
  <2> QED
    BY <2>1, <2>2, <2>3, <1>3, <1>c
<1> QED
  BY <1>5, <1>6

(* Alertmanager is asked.  Its answer may be lost, and the question repeated. *)
LEMMA CallStep ==
    ASSUME GatewayInvariant, NEW r \in Requests, Call(r) PROVE GatewayInvariant'
<1> DEFINE q == req[r]
           made == IF Op(r) \in Creates THEN q.made + 1 ELSE q.made
<1>1. q \in Request /\ AskedOf(q) /\ MadeOf(q) /\ Told(r, q, firing, silences, notices, buffered)
  BY OneRequest
<1>2. q.pc = "call" /\ q.ask \in Asks /\ q.ask.op \in Sends \union Creates \union Deletes /\ q.status # "ok"
  BY <1>1 DEF Call, At, AskedOf
<1>3. /\ q.made \in Nat /\ q.lost \in Nat /\ q.tries \in Nat
      /\ q.made = IF q.ask.op \in Creates THEN q.lost ELSE 0
  BY <1>1, <1>2 DEF Request, MadeOf, Well
<1>4. made \in Nat /\ made = (IF q.ask.op \in Creates THEN q.made + 1 ELSE q.made) /\ made >= q.made
  BY <1>3 DEF Op
<1>5. q.ask.alerts \subseteq Alerts
  BY <1>2, AsksAssumption
<1>6. r \notin notices /\ \A a \in Alerts : <<r, a>> \notin buffered
  BY <1>1, <1>2 DEF Told, Well
<1>7. UNCHANGED <<noise, notices, buffered, saved, stale>>
  BY DEF Call, records
<1>8. /\ FiresAreCounted' /\ noise' \in [Alerts -> Nat \union {None}] /\ saved' \in [Alerts -> Nat] /\ stale' \subseteq Alerts
      /\ firing \subseteq Alerts /\ silences \subseteq Silence
  BY <1>7 DEF GatewayInvariant, GatewayTypeOK, FiresAreCounted
\* What Alertmanager does, if it does.
<1> DEFINE Does == PostAlerts(r) \/ PostSilence(r) \/ ExpireSilence(r)
           Quiet == UNCHANGED alertmanager
<1>9. ASSUME Does \/ Quiet
      PROVE  /\ firing \subseteq firing' /\ firing' \subseteq Alerts /\ silences' \subseteq Silence
             /\ \A s \in silences' \ silences : s.by = r /\ q.ask.op \in Creates
  <2>1. CASE PostAlerts(r)
    BY <2>1, <1>5, <1>8 DEF PostAlerts
  <2>2. CASE PostSilence(r)
    <3>1. [by |-> r, nr |-> q.made + 1] \in Silence
      BY <1>3 DEF Silence
    <3> QED
      BY <3>1, <2>2, <1>8 DEF PostSilence, Op
  <2>3. CASE ExpireSilence(r)
    BY <2>3, <1>8 DEF ExpireSilence
  <2>4. CASE Quiet
    BY <2>4, <1>8 DEF alertmanager
  <2> QED
    BY <1>9, <2>1, <2>2, <2>3, <2>4
<1>10. Does => /\ q.ask.op \in Sends => q.ask.alerts \subseteq firing'
               /\ q.ask.op \in Deletes => q.target \in Silence \ silences'
  <2>1. CASE PostAlerts(r)
    BY <2>1 DEF PostAlerts, Op, Sends, Deletes
  <2>2. CASE PostSilence(r)
    BY <2>2 DEF PostSilence, Op, Creates, Sends, Deletes
  <2>3. CASE ExpireSilence(r)
    BY <2>3, <1>8 DEF ExpireSilence, Op, Deletes, Sends
  <2> QED
    BY <2>1, <2>2, <2>3
<1> HIDE DEF made, Does, Quiet
\* How the request goes on.
<1>11. ASSUME NEW rec \in Request, req' = [req EXCEPT ![r] = rec],
              rec.pc \in {"call", "failed", "succeeded"}, rec.pc = "succeeded" => Does,
              rec.ask = q.ask, rec.status = q.status, rec.target = q.target,
              Does \/ Quiet, rec.made >= q.made, silences' \subseteq silences \/ rec.made = made,
              rec.made = IF q.ask.op \in Creates THEN rec.lost + (IF rec.pc = "succeeded" THEN 1 ELSE 0) ELSE 0
       PROVE  GatewayInvariant'
  <2>4. Does \/ Quiet
    BY <1>11
  <2>5. /\ firing \subseteq firing' /\ firing' \subseteq Alerts /\ silences' \subseteq Silence
        /\ \A s \in silences' \ silences : s.by = r /\ q.ask.op \in Creates
    BY <2>4, <1>9
  <2>6. req[r].pc # "done"
    BY <1>2
  <2>13. rec.pc = "succeeded" => /\ q.ask.op \in Sends => q.ask.alerts \subseteq firing'
                                 /\ q.ask.op \in Deletes => q.target \in Silence \ silences'
    BY <1>10, <1>11
  <2> HIDE DEF q
  <2>7. AskedOf(rec)
    BY <1>2, <1>11 DEF AskedOf, Ops
  <2>8. MadeOf(rec)
    BY <1>2, <1>11 DEF MadeOf, Well, Ops
  <2>9. Told(r, rec, firing', silences', notices', buffered')
    <3>1. r \notin notices' /\ \A a \in Alerts : <<r, a>> \notin buffered'
      BY <1>6, <1>7
    <3> QED
      BY <3>1, <1>2, <1>11, <2>13 DEF Told, Reached, Well
  <2>10. Copied(rec, noise', saved')
    BY <1>11 DEF Copied
  <2>11. \A s \in silences' \ silences : s.by = r /\ rec.made > 0
    BY <2>5, <1>11, <1>3, <1>4
  <2>12. GatewayGoes(r, rec)
    <3>1. rec.made >= req[r].made /\ rec.target = req[r].target
      BY <1>11 DEF q
    <3>2. /\ notices' \subseteq notices \union {r}
          /\ buffered \subseteq buffered' /\ buffered' \subseteq buffered \union ({r} \X Alerts)
          /\ \A a \in Alerts : (saved'[a] = saved[a] /\ noise'[a] = noise[a]) \/ saved'[a] > saved[a]
      BY <1>7
    <3> QED
      BY <1>11, <2>5, <2>6, <2>7, <2>8, <2>9, <2>10, <2>11, <1>8, <3>1, <3>2 DEF GatewayGoes
  <2> QED
    BY <2>12, GatewayStep
\* A further try, or none.
<1>12. /\ Retry(r) \in Request /\ Retry(r).pc \in {"call", "failed"} /\ Retry(r).ask = q.ask
       /\ Retry(r).status = q.status /\ Retry(r).target = q.target /\ Retry(r).made = q.made /\ Retry(r).lost = q.lost
  BY <1>1, <1>2, GatewayAssumption DEF Retry, Request, GatewayLabels
<1>13. CASE Does /\ req' = [req EXCEPT ![r].pc = "succeeded", ![r].made = made, ![r].answer = made]
  <2> DEFINE rec == [q EXCEPT !.pc = "succeeded", !.made = made, !.answer = made]
  <2>1. req' = [req EXCEPT ![r] = rec]
    BY <1>13
  <2>2. rec \in Request /\ rec.pc = "succeeded" /\ rec.ask = q.ask /\ rec.status = q.status /\ rec.target = q.target
        /\ rec.made = made /\ rec.lost = q.lost
    BY <1>1, <1>4 DEF Request, GatewayLabels
  <2> HIDE DEF rec
  <2>3. rec.made = (IF q.ask.op \in Creates THEN rec.lost + 1 ELSE 0) /\ rec.made >= q.made
    BY <2>2, <1>3, <1>4
  <2> QED
    BY <2>1, <2>2, <2>3, <1>11, <1>13
<1>14. CASE Does /\ req' = [req EXCEPT ![r] = [Retry(r) EXCEPT !.made = made, !.lost = @ + 1]]
  <2> DEFINE rec == [Retry(r) EXCEPT !.made = made, !.lost = @ + 1]
  <2>1. rec \in Request /\ rec.pc \in {"call", "failed"} /\ rec.ask = q.ask /\ rec.status = q.status
        /\ rec.target = q.target /\ rec.made = made /\ rec.lost = q.lost + 1
    <3> DEFINE again == Retry(r)
    <3>1. /\ again \in Request /\ again.pc \in {"call", "failed"} /\ again.ask = q.ask /\ again.status = q.status
          /\ again.target = q.target /\ again.lost = q.lost /\ made \in Nat /\ q.lost \in Nat
      BY <1>3, <1>4, <1>12
    <3>2. rec = [again EXCEPT !.made = made, !.lost = @ + 1]
      OBVIOUS
    <3> HIDE DEF again, rec, q
    <3>3. q.lost + 1 \in Nat /\ rec = [again EXCEPT !.made = made, !.lost = q.lost + 1]
      BY <3>1, <3>2
    <3> QED
      BY <3>1, <3>3 DEF Request
  <2>2. req' = [req EXCEPT ![r] = rec]
    BY <1>14
  <2> HIDE DEF rec
  <2>3. rec.made = (IF q.ask.op \in Creates THEN rec.lost ELSE 0) /\ rec.made >= q.made
    BY <2>1, <1>3, <1>4
  <2>4. rec.made = IF q.ask.op \in Creates THEN rec.lost + (IF rec.pc = "succeeded" THEN 1 ELSE 0) ELSE 0
    BY <2>1, <2>3, <1>3
  <2> QED
    BY <2>1, <2>2, <2>3, <2>4, <1>11, <1>14
<1>15. CASE Quiet /\ req' = [req EXCEPT ![r] = Retry(r)]
  <2>1. silences' = silences
    BY <1>15 DEF Quiet, alertmanager
  <2> DEFINE rec == Retry(r)
  <2>2. rec.made = (IF q.ask.op \in Creates THEN rec.lost + (IF rec.pc = "succeeded" THEN 1 ELSE 0) ELSE 0)
        /\ rec.made >= q.made
    BY <1>3, <1>12
  <2> QED
    BY <2>1, <2>2, <1>11, <1>12, <1>15
<1> QED
  BY <1>13, <1>14, <1>15 DEF Call, Does, Quiet, made

(* What the writes of a record do to it: one event more, or the history of an older copy. *)
LEMMA WriteStep ==
    ASSUME GatewayInvariant, NEW a \in Alerts, NEW n \in Nat, NEW v \in Nat, Write(a, n, v), n =< v + 1, v =< saved[a],
           v = saved[a] => (noise[a] \in Nat /\ n = noise[a] + 1) \/ (noise[a] = None /\ n = 1)
    PROVE  /\ noise' \in [Alerts -> Nat \union {None}] /\ saved' \in [Alerts -> Nat] /\ stale' \subseteq Alerts
           /\ \A b \in Alerts : (saved'[b] = saved[b] /\ noise'[b] = noise[b]) \/ saved'[b] > saved[b]
           /\ FiresAreCounted'
<1>1. /\ noise \in [Alerts -> Nat \union {None}] /\ saved \in [Alerts -> Nat] /\ stale \subseteq Alerts
      /\ FiresAreCounted
  BY DEF GatewayInvariant, GatewayTypeOK
<1>2. saved[a] \in Nat /\ saved[a] + 1 \in Nat
  BY <1>1
<1>3. /\ noise' = [noise EXCEPT ![a] = n] /\ saved' = [saved EXCEPT ![a] = saved[a] + 1]
      /\ stale' = IF v # saved[a] THEN stale \union {a} ELSE stale
  BY DEF Write
<1>4. noise' \in [Alerts -> Nat \union {None}] /\ saved' \in [Alerts -> Nat] /\ stale' \subseteq Alerts
  BY <1>1, <1>2, <1>3
<1>5. /\ noise'[a] = n /\ saved'[a] = saved[a] + 1
      /\ \A b \in Alerts : b # a => noise'[b] = noise[b] /\ saved'[b] = saved[b]
  BY <1>1, <1>2, <1>3
<1>6. \A b \in Alerts : (saved'[b] = saved[b] /\ noise'[b] = noise[b]) \/ saved'[b] > saved[b]
  BY <1>2, <1>5
<1>7. n # None
  BY AsksAssumption
<1>8. stale \subseteq stale' /\ (v # saved[a] => a \in stale')
  BY <1>3
<1>9. FiresAreCounted'
  <2> SUFFICES ASSUME NEW b \in Alerts
               PROVE  LET fires == IF noise'[b] = None THEN 0 ELSE noise'[b]
                      IN fires =< saved'[b] /\ (fires < saved'[b] => b \in stale')
    BY DEF FiresAreCounted
  <2>1. CASE b # a
    BY <2>1, <1>1, <1>5, <1>8 DEF FiresAreCounted
  <2>2. CASE b = a
    <3>1. LET fires == IF noise[a] = None THEN 0 ELSE noise[a]
          IN fires =< saved[a] /\ (fires < saved[a] => a \in stale)
      BY <1>1 DEF FiresAreCounted
    <3>2. noise[a] \in Nat \union {None}
      BY <1>1
    <3>3. n =< saved[a] + 1 /\ (n < saved[a] + 1 => a \in stale')
      <4>1. CASE v # saved[a]
        BY <4>1, <1>2, <1>8
      <4>2. CASE noise[a] \in Nat /\ n = noise[a] + 1
        <5>1. noise[a] # None
          BY <4>2, AsksAssumption
        <5> QED
          BY <4>2, <5>1, <3>1, <1>2, <1>8
      <4>3. CASE noise[a] = None /\ n = 1
        BY <4>3, <3>1, <1>2, <1>8
      <4> QED
        BY <4>1, <4>2, <4>3
    <3> QED
      BY <2>2, <3>3, <1>5, <1>7
  <2> QED
    BY <2>1, <2>2
<1> QED
  BY <1>4, <1>6, <1>9

(* A record is inserted, or is not. *)
LEMMA InsertStep ==
    ASSUME GatewayInvariant, NEW a \in Alerts, Insert(a) \/ UNCHANGED <<noise, saved, stale>>
    PROVE  /\ noise' \in [Alerts -> Nat \union {None}] /\ saved' \in [Alerts -> Nat] /\ stale' \subseteq Alerts
           /\ \A b \in Alerts : (saved'[b] = saved[b] /\ noise'[b] = noise[b]) \/ saved'[b] > saved[b]
           /\ FiresAreCounted'
<1>1. CASE UNCHANGED <<noise, saved, stale>>
  BY <1>1 DEF GatewayInvariant, GatewayTypeOK, FiresAreCounted
<1>2. CASE noise[a] = None /\ Write(a, 1, saved[a])
  <2>1. saved[a] \in Nat
    BY DEF GatewayInvariant, GatewayTypeOK
  <2>2. 1 =< saved[a] + 1 /\ saved[a] =< saved[a]
    BY <2>1
  <2> QED
    BY <2>1, <2>2, <1>2, WriteStep
<1> QED
  BY <1>1, <1>2 DEF Insert

(* The record of an event is saved. *)
LEMMA UpsertStep ==
    ASSUME GatewayInvariant, NEW r \in Requests, Upsert(r) PROVE GatewayInvariant'
<1> DEFINE q == req[r]
           rec == [q EXCEPT !.pc = "notify", !.copy = None]
<1>1. q \in Request /\ AskedOf(q) /\ MadeOf(q) /\ Told(r, q, firing, silences, notices, buffered)
  BY OneRequest
<1>2. q.pc = "save" /\ q.ask.op = "sendWithRecord" /\ q.ask \in Asks /\ q.status # "ok"
  BY <1>1 DEF Upsert, At, AskedOf
<1>3. Fired(q) \in Alerts /\ AlertOf(r) = Fired(q)
  <2>1. AlertOf(r) = Fired(q)
    BY DEF AlertOf, Fired
  <2>2. q.ask \in Asks /\ q.ask.op = "sendWithRecord"
    BY <1>2
  <2>3. Fired(q) \in Alerts
    BY <1>1, <2>2, FiredIsAlert
  <2> QED
    BY <2>1, <2>3
<1>4. /\ noise' \in [Alerts -> Nat \union {None}] /\ saved' \in [Alerts -> Nat] /\ stale' \subseteq Alerts
      /\ \A b \in Alerts : (saved'[b] = saved[b] /\ noise'[b] = noise[b]) \/ saved'[b] > saved[b]
      /\ FiresAreCounted'
  <2>1. CASE Insert(AlertOf(r)) \/ UNCHANGED <<noise, saved, stale>>
    BY <2>1, <1>3, InsertStep
  <2>2. CASE q.copy # None /\ Write(AlertOf(r), q.copy + 1, q.at)
    <3> DEFINE f == Fired(q)
    <3>1. f \in Alerts /\ AlertOf(r) = f
      BY <1>3
    <3>2. q.copy =< q.at /\ q.at =< saved[f] /\ (q.at = saved[f] => noise[f] = q.copy)
      BY <1>2, <2>2 DEF GatewayInvariant, Outcomes, Copied
    <3>3. q.copy \in Nat /\ q.at \in Nat
      BY <1>1, <2>2 DEF Request
    <3> DEFINE n == q.copy + 1
    <3>4. n \in Nat /\ n =< q.at + 1 /\ Write(f, n, q.at)
      BY <2>2, <3>1, <3>2, <3>3
    <3>5. q.at = saved[f] => noise[f] \in Nat /\ n = noise[f] + 1
      BY <3>2, <3>3
    <3> HIDE DEF f, n, q
    <3> QED
      BY <3>1, <3>2, <3>3, <3>4, <3>5, WriteStep
  <2> QED
    BY <2>1, <2>2 DEF Upsert
<1>5. req' = [req EXCEPT ![r] = rec] /\ UNCHANGED <<firing, silences, notices, buffered>>
  BY DEF Upsert, alertmanager
<1>6. rec \in Request
  BY <1>1 DEF Request, GatewayLabels
<1>7. /\ rec.pc = "notify" /\ rec.status = q.status /\ rec.ask = q.ask /\ rec.made = q.made /\ rec.lost = q.lost
      /\ rec.target = q.target
  BY <1>1 DEF Request
<1>8. req[r].pc # "done" /\ firing \subseteq Alerts /\ silences \subseteq Silence /\ q.made \in Nat
  BY <1>1, <1>2 DEF GatewayInvariant, GatewayTypeOK, Request
<1> HIDE DEF rec, q
<1>9. AskedOf(rec) /\ MadeOf(rec)
  <2>1. q.made = 0
    BY <1>1, <1>2 DEF MadeOf, Creates
  <2> QED
    BY <2>1, <1>2, <1>7 DEF AskedOf, MadeOf, Ops, Creates
<1>10. Told(r, rec, firing', silences', notices', buffered')
  BY <1>1, <1>2, <1>5, <1>7 DEF Told, Reached, Well, Deletes
<1>11. Copied(rec, noise', saved')
  BY <1>7 DEF Copied
<1>12. rec.made >= req[r].made /\ rec.target = req[r].target
  BY <1>7, <1>8 DEF q
<1>13. GatewayGoes(r, rec)
  BY <1>4, <1>5, <1>6, <1>8, <1>9, <1>10, <1>11, <1>12 DEF GatewayGoes
<1> QED
  BY <1>13, GatewayStep

(* An event ends, with a notice or without, and its record is handed to the buffer. *)
LEMMA NotifyStep ==
    ASSUME GatewayInvariant, NEW r \in Requests, Notify(r) PROVE GatewayInvariant'
<1> DEFINE q == req[r]
           rec == [q EXCEPT !.pc = "done", !.status = "ok"]
<1>1. q \in Request /\ AskedOf(q) /\ MadeOf(q) /\ Told(r, q, firing, silences, notices, buffered)
  BY OneRequest
<1>2. q.pc = "notify" /\ q.ask.op = "sendWithRecord" /\ q.ask \in Asks
  BY <1>1 DEF Notify, At, AskedOf
<1>3. Fired(q) \in Alerts /\ AlertOf(r) = Fired(q)
  <2>1. AlertOf(r) = Fired(q)
    BY DEF AlertOf, Fired
  <2>2. q.ask \in Asks /\ q.ask.op = "sendWithRecord"
    BY <1>2
  <2>3. Fired(q) \in Alerts
    BY <1>1, <2>2, FiredIsAlert
  <2> QED
    BY <2>1, <2>3
<1>4. /\ req' = [req EXCEPT ![r] = rec] /\ UNCHANGED <<firing, silences, noise, saved, stale>>
      /\ notices' \subseteq notices \union {r} /\ buffered' = buffered \union {<<r, Fired(q)>>}
  BY <1>3 DEF Notify, Respond, alertmanager
<1>5. /\ noise' \in [Alerts -> Nat \union {None}] /\ saved' \in [Alerts -> Nat] /\ stale' \subseteq Alerts
      /\ FiresAreCounted' /\ firing \subseteq Alerts /\ silences \subseteq Silence
  BY <1>4 DEF GatewayInvariant, GatewayTypeOK, FiresAreCounted
<1>6. rec \in Request
  BY <1>1 DEF Request, GatewayLabels, Statuses
<1>7. /\ rec.pc = "done" /\ rec.status = "ok" /\ rec.ask = q.ask /\ rec.made = q.made /\ rec.lost = q.lost
      /\ rec.target = q.target
  BY <1>1 DEF Request
<1>8. Fired(rec) = Fired(q)
  BY <1>7 DEF Fired
<1>9. req[r].pc # "done" /\ q.made \in Nat
  BY <1>1, <1>2 DEF Request
<1> HIDE DEF rec, q
<1>10. AskedOf(rec) /\ MadeOf(rec)
  <2>1. q.made = 0
    BY <1>1, <1>2 DEF MadeOf, Creates
  <2> QED
    BY <2>1, <1>2, <1>7 DEF AskedOf, MadeOf, Ops, Creates
<1>11. Told(r, rec, firing', silences', notices', buffered')
  BY <1>1, <1>2, <1>4, <1>7, <1>8 DEF Told, Reached, Well, Deletes
<1>12. Copied(rec, noise', saved')
  BY <1>7 DEF Copied
<1>13. buffered \subseteq buffered' /\ buffered' \subseteq buffered \union ({r} \X Alerts)
  BY <1>3, <1>4
<1>14. rec.made >= req[r].made /\ rec.target = req[r].target
  BY <1>7, <1>9 DEF q
<1>15. GatewayGoes(r, rec)
  BY <1>4, <1>5, <1>6, <1>9, <1>10, <1>11, <1>12, <1>13, <1>14 DEF GatewayGoes
<1> QED
  BY <1>15, GatewayStep

(* One of the alerts of a webhook is dealt with. *)
LEMMA SyncStep ==
    ASSUME GatewayInvariant, NEW r \in Requests, Sync(r) PROVE GatewayInvariant'
<1> DEFINE q == req[r]
<1>1. q \in Request /\ AskedOf(q) /\ MadeOf(q) /\ Told(r, q, firing, silences, notices, buffered)
  BY OneRequest
<1>2. q.pc = "webhook" /\ q.ask.op = "webhook" /\ q.ask \in Asks /\ q.status # "ok" /\ q.todo \subseteq Alerts
  BY <1>1 DEF Sync, At, AskedOf, Ops, Request
<1>3. PICK a \in q.todo :
        /\ req' = [req EXCEPT ![r].todo = @ \ {a}]
        /\ IF q.ask.form = "empty" THEN UNCHANGED <<noise, saved, stale, buffered>>
           ELSE /\ buffered' = buffered \union {<<r, a>>}
                /\ Insert(a) \/ UNCHANGED <<noise, saved, stale>>
  BY DEF Sync
<1>4. /\ noise' \in [Alerts -> Nat \union {None}] /\ saved' \in [Alerts -> Nat] /\ stale' \subseteq Alerts
      /\ \A b \in Alerts : (saved'[b] = saved[b] /\ noise'[b] = noise[b]) \/ saved'[b] > saved[b]
      /\ FiresAreCounted'
  BY <1>2, <1>3, InsertStep
<1> DEFINE rec == [q EXCEPT !.todo = @ \ {a}]
<1>5. /\ req' = [req EXCEPT ![r] = rec] /\ UNCHANGED <<firing, silences, notices>>
      /\ buffered \subseteq buffered' /\ buffered' \subseteq buffered \union ({r} \X Alerts)
  <2>1. req' = [req EXCEPT ![r] = rec]
    BY <1>3
  <2>2. UNCHANGED <<firing, silences, notices>>
    BY DEF Sync, alertmanager
  <2>3. buffered' \in {buffered, buffered \union {<<r, a>>}} /\ a \in Alerts
    BY <1>2, <1>3
  <2>4. buffered \subseteq buffered' /\ buffered' \subseteq buffered \union ({r} \X Alerts)
    BY <2>3
  <2> QED
    BY <2>1, <2>2, <2>4
<1>6. rec \in Request
  BY <1>1 DEF Request
<1>7. /\ rec.pc = q.pc /\ rec.status = q.status /\ rec.ask = q.ask /\ rec.made = q.made /\ rec.lost = q.lost
      /\ rec.target = q.target
  BY <1>1 DEF Request
<1>8. req[r].pc # "done" /\ firing \subseteq Alerts /\ silences \subseteq Silence /\ q.made \in Nat
  BY <1>1, <1>2 DEF GatewayInvariant, GatewayTypeOK, Request
<1> HIDE DEF rec, q
<1>9. AskedOf(rec) /\ MadeOf(rec)
  <2>1. q.made = 0 /\ q.lost = 0
    BY <1>1, <1>2 DEF MadeOf, Ops
  <2> QED
    BY <2>1, <1>2, <1>7 DEF AskedOf, MadeOf, Creates
<1>10. Told(r, rec, firing', silences', notices', buffered')
  BY <1>1, <1>2, <1>5, <1>7 DEF Told, Reached, Well
<1>11. Copied(rec, noise', saved')
  BY <1>2, <1>7 DEF Copied
<1>12. rec.made >= req[r].made /\ rec.target = req[r].target
  BY <1>7, <1>8 DEF q
<1>13. GatewayGoes(r, rec)
  BY <1>4, <1>5, <1>6, <1>8, <1>9, <1>10, <1>11, <1>12 DEF GatewayGoes
<1> QED
  BY <1>13, GatewayStep

(* Every step preserves the invariant. *)
LEMMA ServeStep ==
    ASSUME GatewayInvariant, NEW r \in Requests, Serve(r) PROVE GatewayInvariant'
<1>1. CASE Send(r)
  BY <1>1, RefuseStep, CallsStep DEF Send, At, Ops, Sends, Statuses
<1>2. CASE SendWithRecord(r)
  BY <1>2, RefuseStep, CallsStep DEF SendWithRecord, BeginOperation, At, Ops, Sends, Statuses
<1>3. CASE CreateSilence(r)
  BY <1>3, RefuseStep, CallsStep DEF CreateSilence, At, Ops, Creates, Statuses
<1>4. CASE CreateSilenceWithRecord(r)
  BY <1>4, RefuseStep, CallsStep DEF CreateSilenceWithRecord, BeginOperation, At, Ops, Creates, Statuses
<1>5. CASE DeleteSilence(r)
  BY <1>5, CallsStep DEF DeleteSilence, At, Deletes
<1>6. CASE DeleteSilenceWithRecord(r)
  BY <1>6, RefuseStep, CallsStep DEF DeleteSilenceWithRecord, BeginOperation, At, Ops, Deletes, Statuses
<1>7. CASE GetAlert(r)
  BY <1>7, RefuseStep DEF GetAlert, At, Ops, Statuses
<1>8. CASE GetAlertFeedback(r)
  BY <1>8, RefuseStep, AnswerStep DEF GetAlertFeedback, At, Ops, Sends, Creates, Deletes, Statuses
<1>9. CASE List(r)
  BY <1>9, RefuseStep, AnswerStep DEF List, Ops, Sends, Creates, Deletes, Statuses
<1>10. CASE Call(r)
  BY <1>10, CallStep
<1>11. CASE Failed(r)
  BY <1>11, RefuseStep DEF Failed, At, Statuses
<1>12. CASE Succeeded(r)
  BY <1>12, AnswerStep, EventStep DEF Succeeded
<1>13. CASE GetByFingerprint(r)
  BY <1>13, EventStep DEF GetByFingerprint
<1>14. CASE Upsert(r)
  BY <1>14, UpsertStep
<1>15. CASE Notify(r)
  BY <1>15, NotifyStep
<1>16. CASE Sync(r)
  BY <1>16, SyncStep
<1>17. CASE ReceiveWebhook(r)
  BY <1>17, AnswerStep DEF ReceiveWebhook, At, Ops, Sends, Creates, Deletes
<1> QED
  BY <1>1, <1>2, <1>3, <1>4, <1>5, <1>6, <1>7, <1>8, <1>9, <1>10, <1>11, <1>12, <1>13, <1>14, <1>15, <1>16,
     <1>17 DEF Serve

(* The invariant holds in every state. *)
LEMMA GatewayInvariantHolds == GatewaySpec => []GatewayInvariant
<1>1. GatewayInit => GatewayInvariant
  <2> SUFFICES ASSUME GatewayInit PROVE GatewayInvariant
    OBVIOUS
  <2> USE DEF GatewayInit
  <2>1. New \in Request
    BY DEF New, Request, GatewayLabels, Ops
  <2>2. GatewayTypeOK
    BY <2>1 DEF GatewayTypeOK
  <2>3. "ok" # None
    BY AsksAssumption DEF Statuses
  <2>4. Requested
    BY <2>3 DEF Requested, AskedOf, MadeOf, New, Ops
  <2>5. Outcomes /\ Makers
    BY DEF Outcomes, Makers, Told, Copied, Reached, Well, New
  <2>6. FiresAreCounted
    BY DEF FiresAreCounted
  <2> QED
    BY <2>2, <2>4, <2>5, <2>6 DEF GatewayInvariant
<1>2. GatewayInvariant /\ [GatewayNext]_gatewayVars => GatewayInvariant'
  <2> SUFFICES ASSUME GatewayInvariant, [GatewayNext]_gatewayVars PROVE GatewayInvariant'
    OBVIOUS
  <2>1. CASE GatewayNext
    BY <2>1, ServeStep, ReceiveStep DEF GatewayNext
  <2>2. CASE UNCHANGED gatewayVars
    BY <2>2 DEF gatewayVars, GatewayInvariant, GatewayTypeOK, Requested, Outcomes, Makers, At, FiresAreCounted
  <2> QED
    BY <2>1, <2>2
<1> QED
  BY <1>1, <1>2, PTL DEF GatewaySpec

(* Every variable of the gateway keeps its type. *)
THEOREM GatewayTypeCorrect == GatewaySpec => []GatewayTypeOK
<1>1. GatewayInvariant => GatewayTypeOK
  BY DEF GatewayInvariant
<1> QED
  BY <1>1, GatewayInvariantHolds, PTL

(* What a request is told is what became of it, whatever the requests, their number,  *)
(* the tries of the client and the answers that are lost: a refusal has changed       *)
(* nothing, and success is told only of what was done, once and for each lost answer. *)
THEOREM OutcomesTold == GatewaySpec => []ResponseTellsOutcome
<1>1. GatewayInvariant => ResponseTellsOutcome
  <2> SUFFICES ASSUME GatewayInvariant, NEW r \in Requests, At(r, "done")
               PROVE  /\ req[r].made = IF Op(r) \in Creates
                                       THEN req[r].lost + (IF req[r].status = "ok" THEN 1 ELSE 0) ELSE 0
                      /\ req[r].status \in {"invalid", "unauthorized", "conflict", "notFound"}
                         => MadeBy(r) = {} /\ r \notin notices /\ \A a \in Alerts : <<r, a>> \notin buffered
                      /\ req[r].status = "ok" /\ Op(r) \in Deletes => req[r].target \notin silences
                      /\ req[r].status = "ok" /\ Op(r) \in Sends => req[r].ask.alerts \subseteq firing
                      /\ req[r].status = "ok" /\ Op(r) = "sendWithRecord" => <<r, AlertOf(r)>> \in buffered
    BY DEF ResponseTellsOutcome
  <2> DEFINE q == req[r]
  <2>1. MadeOf(q) /\ Told(r, q, firing, silences, notices, buffered) /\ q.pc = "done"
    BY OneRequest DEF At
  <2>2. AlertOf(r) = Fired(q) /\ Op(r) = q.ask.op
    BY DEF AlertOf, Fired, Op
  <2>3. \A s \in MadeBy(r) : q.made > 0
    BY DEF GatewayInvariant, Makers, MadeBy
  <2> HIDE DEF q
  <2>4. q.made = IF q.ask.op \in Creates THEN q.lost + (IF q.status = "ok" THEN 1 ELSE 0) ELSE 0
    BY <2>1 DEF MadeOf, Well
  <2>5. q.status \in {"invalid", "unauthorized", "conflict", "notFound"}
        => MadeBy(r) = {} /\ r \notin notices /\ \A a \in Alerts : <<r, a>> \notin buffered
    BY <2>1, <2>3 DEF MadeOf, Told, Well
  <2>6. q.status = "ok" => /\ q.ask.op \in Deletes => q.target \notin silences
                           /\ q.ask.op \in Sends => q.ask.alerts \subseteq firing
                           /\ q.ask.op = "sendWithRecord" => <<r, Fired(q)>> \in buffered
    BY <2>1 DEF Told, Reached, Well
  <2> QED
    BY <2>2, <2>4, <2>5, <2>6 DEF q
<1> QED
  BY <1>1, GatewayInvariantHolds, PTL

(* The record of an alert counts the events written to it, unless one was written *)
(* over another that had come since it read the record.                           *)
THEOREM FiresCounted == GatewaySpec => []FiresAreCounted
<1>1. GatewayInvariant => FiresAreCounted
  BY DEF GatewayInvariant
<1> QED
  BY <1>1, GatewayInvariantHolds, PTL
=============================================================================
