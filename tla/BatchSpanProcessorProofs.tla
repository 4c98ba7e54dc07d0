----------------------- MODULE BatchSpanProcessorProofs -----------------------
(***************************************************************************)
(* Proofs about BatchSpanProcessor for every set of spans and callers,     *)
(* every queue, batch and packet size and both modes of BlockOnQueueFull.  *)
(* The inductive invariant IInv is the conjunction of one invariant per    *)
(* concern; each is preserved by a lemma of its own (TimerNext, PlaceNext, *)
(* FillNext, MutexNext, StopNext, AcceptedNext), and the theorems at the   *)
(* end follow from it.                                                     *)
(***************************************************************************)
EXTENDS BatchSpanProcessor, SequenceLemmas

USE SizeAssumption, NamesAssumption DEF SizeAssumption, NamesAssumption

LEMMA TypeInit == Init => TypeOK
  BY DEF Init, TypeOK, Items, Exporters, CallStates, WorkerStates

\* What a receive leaves of the channel has its type.
LEMMA ReceiveType ==
    ASSUME TypeOK, Receive
    PROVE  /\ queue' \in Seq(Items) /\ Len(queue') <= MaxQueueSize
           /\ sendq' \in Seq(Items)
           /\ call' \in [Items -> CallStates]
           /\ hand' \in Items
<1> USE DEF Receive
<1>0. queue \in Seq(Items) /\ sendq \in Seq(Items) /\ call \in [Items -> CallStates]
      /\ Len(queue) <= MaxQueueSize
  BY DEF TypeOK
<1>1. /\ Head(queue) \in Items /\ Tail(queue) \in Seq(Items)
      /\ Len(Tail(queue)) = Len(queue) - 1 /\ Len(queue) \in Nat
  BY <1>0
<1>2. CASE sendq = <<>>
  <2>1. queue' = Tail(queue) /\ sendq' = sendq /\ call' = call /\ hand' = Head(queue)
    BY <1>2
  <2>2. Len(Tail(queue)) <= MaxQueueSize
    BY <1>0, <1>1
  <2> HIDE DEF Receive
  <2> QED
    BY <1>0, <1>1, <2>1, <2>2
<1>3. CASE sendq # <<>>
  <2>1. Head(sendq) \in Items /\ Tail(sendq) \in Seq(Items)
    BY <1>0, <1>3
  <2>2. /\ Append(Tail(queue), Head(sendq)) \in Seq(Items)
        /\ Len(Append(Tail(queue), Head(sendq))) = Len(queue)
    BY <1>1, <2>1
  <2>3. [call EXCEPT ![Head(sendq)] = "sent"] \in [Items -> CallStates]
    BY <1>0, <2>1 DEF CallStates
  <2> QED
    BY <1>0, <1>1, <1>3, <2>1, <2>2, <2>3
<1> QED
  BY <1>2, <1>3

LEMMA TypeNext == TypeOK /\ [Next]_vars => TypeOK'
<1> SUFFICES ASSUME TypeOK, [Next]_vars PROVE TypeOK'
  OBVIOUS
<1> USE DEF TypeOK, Items, Exporters, CallStates, WorkerStates, chanVars, batchVars,
            timerVars, flushVars, stopVars, At, CallExport, Finish, StartCollect
<1>1. ASSUME NEW i \in Items, Enqueue(i) PROVE TypeOK'
  <2>1. snapshot' \in [Flushers -> SUBSET Spans] /\ flush' \in [Flushers ->
            {"idle", "enqueue", "collect", "nil", "err"}]
    <3>1. CASE i \in Flushers
      <4> DEFINE Sent == {s \in Spans : call[s] = "sent"}
      <4>1. Sent \in SUBSET Spans
        OBVIOUS
      <4>2. snapshot' = [snapshot EXCEPT ![i] = Sent]
        BY <1>1, <3>1 DEF Enqueue
      <4> QED
        BY <1>1, <3>1, <4>1, <4>2 DEF Enqueue
    <3>2. CASE i \notin Flushers
      BY <1>1, <3>2 DEF Enqueue
    <3> QED
      BY <3>1, <3>2
  <2>2. call' \in [Items -> CallStates]
    BY <1>1 DEF Enqueue
  <2> QED
    BY <1>1, <2>1, <2>2 DEF Enqueue
<1>2. ASSUME NEW i \in Items, Send(i) PROVE TypeOK'
  <2>1. queue' \in Seq(Items) /\ Len(queue') <= MaxQueueSize /\ sendq' \in Seq(Items)
    <3>1. CASE queue' = Append(queue, i) /\ Len(queue) < MaxQueueSize /\ sendq' = sendq
      BY <3>1
    <3>2. CASE queue' = queue /\ sendq' = Append(sendq, i)
      BY <3>2
    <3>3. CASE queue' = queue /\ sendq' = sendq
      BY <3>3
    <3> QED
      BY <1>2, <3>1, <3>2, <3>3 DEF Send, HasRoom
  <2>2. call' \in [Items -> CallStates]
    BY <1>2 DEF Send
  <2> QED
    BY <1>2, <2>1, <2>2 DEF Send
<1>3. ASSUME NEW f \in Flushers, CancelSend(f) PROVE TypeOK'
  <2>1. sendq' \in Seq(Items)
    <3>1. ASSUME NEW n \in 1 .. Len(sendq) PROVE RemoveAt(sendq, n) \in Seq(Items)
      <4>1. SubSeq(sendq, 1, n - 1) \in Seq(Items) /\ SubSeq(sendq, n + 1, Len(sendq)) \in Seq(Items)
        BY SubSeqProperties
      <4> QED
        BY <4>1 DEF RemoveAt
    <3> QED
      BY <1>3, <3>1 DEF CancelSend
  <2>2. call' \in [Items -> CallStates]
    BY <1>3 DEF CancelSend
  <2> QED
    BY <1>3, <2>1, <2>2 DEF CancelSend
<1>4. ASSUME NEW f \in Flushers, FlushEnqueued(f) PROVE TypeOK'
  BY <1>4 DEF FlushEnqueued
<1>5. ASSUME NEW f \in Flushers, NEW r \in {"nil", "err"}, FlushReturn(f, r) PROVE TypeOK'
  BY <1>5 DEF FlushReturn
<1>6. ASSUME NEW p \in Exporters, ResetTimer(p) PROVE TypeOK'
  BY <1>6 DEF ResetTimer
<1>7. ASSUME NEW p \in Exporters, LockBatch(p) PROVE TypeOK'
  <2>1. exp' \in [Exporters -> {"idle", "reset", "lock", "export", "ok", "err"}]
    BY <1>7 DEF LockBatch
  <2> QED
    BY <1>7, <2>1 DEF LockBatch
<1>8. ASSUME NEW p \in Exporters, NEW r \in {"ok", "err"}, ExportReturn(p, r) PROVE TypeOK'
  BY <1>8 DEF ExportReturn
<1>9. CASE WorkerStop
  BY <1>9 DEF WorkerStop
<1>10. CASE WorkerTimer
  BY <1>10 DEF WorkerTimer
<1>11. CASE WorkerRecv
  <2>1. hand' \in Items /\ hand' # None
    BY <1>11, ReceiveType DEF WorkerRecv
  <2> QED
    BY <1>11, <2>1, ReceiveType DEF WorkerRecv, Receive
<1>12. CASE WorkerFlush
  BY <1>12 DEF WorkerFlush
<1>13. CASE WorkerAppend
  BY <1>13 DEF WorkerAppend, shouldProcessInBatch
<1>14. CASE WorkerStopTimer
  BY <1>14 DEF WorkerStopTimer
<1>15. CASE WorkerDrainTimer
  BY <1>15 DEF WorkerDrainTimer
<1>16. CASE DrainRecv
  <2>1. hand' \in Items /\ hand' # None
    BY <1>16, ReceiveType DEF DrainRecv
  <2> QED
    BY <1>16, <2>1, ReceiveType DEF DrainRecv, Receive
<1>17. CASE DrainAppend
  BY <1>17 DEF DrainAppend
<1>18. CASE DrainDefault \/ DrainEnd \/ WorkerExit
  BY <1>18 DEF DrainDefault, DrainEnd, WorkerExit
<1>25. CASE DrainClose
  <2>1. call' \in [Items -> CallStates]
    BY <1>25 DEF DrainClose
  <2> QED
    BY <1>25, <2>1 DEF DrainClose
<1>19. CASE TimerFire
  BY <1>19 DEF TimerFire
<1>20. ASSUME NEW k \in Closers, BeginShutdown(k) PROVE TypeOK'
  BY <1>20 DEF BeginShutdown
<1>26. ASSUME NEW k \in Closers, ShutdownAgain(k) PROVE TypeOK'
  BY <1>26 DEF ShutdownAgain
<1>21. ASSUME NEW k \in Closers, NEW r \in {"nil", "err"}, ShutdownReturn(k, r) PROVE TypeOK'
  BY <1>21 DEF ShutdownReturn
<1>22. CASE StopperClose \/ StopperWait
  BY <1>22 DEF StopperClose, StopperWait
<1>23. ASSUME NEW c \in Cancellable, Cancel(c) PROVE TypeOK'
  BY <1>23 DEF Cancel
<1>24. CASE UNCHANGED vars
  BY <1>24 DEF vars
<1> HIDE DEF TypeOK, Items, Exporters, CallStates, WorkerStates, At, CallExport, Finish,
             StartCollect
<1> QED
  BY <1>1, <1>2, <1>3, <1>4, <1>5, <1>6, <1>7, <1>8, <1>9, <1>10, <1>11, <1>12, <1>13,
     <1>14, <1>15, <1>16, <1>17, <1>18, <1>19, <1>20, <1>21, <1>22, <1>23, <1>24,
     <1>25, <1>26
     DEF Next, FlusherStep, ExportStep, WorkerStep, CloserStep

\* Every reachable state of the processor is well typed and its channel never holds
\* more than MaxQueueSize items, for every number of spans and callers.
THEOREM TypeCorrect == Spec => []TypeOK
BY TypeInit, TypeNext, PTL DEF Spec

-----------------------------------------------------------------------------
(* Where the worker is, what it holds and how full the batch is.           *)

\* Only select, drain and last are left for an export.
PlaceInv == worker \notin {"select", "drain", "last"} => exp[Worker] = "idle"

\* A batch is due only on the way to its export; nothing is in an empty batch.
FillInv ==
    /\ Len(batch) <= MaxExportBatchSize
    /\ batch = <<>> => batchedSize = 0
    /\ exp[Worker] = "idle" /\ worker \in {"select", "handle", "drain", "drainAppend", "closing"}
           => Len(batch) < MaxExportBatchSize
    /\ exp[Worker] = "idle" /\ worker \in {"select", "handle"} => batchedSize < MaxPacketSize

\* One exporter at a time, and it has something to export.
MutexInv ==
    /\ \A p \in Exporters : exp[p] = "export" => batch # <<>>
    /\ \A p, q \in Exporters : exp[p] = "export" /\ exp[q] = "export" => p = q

\* What is left when the worker leaves the drain, and who waits for it.
StopInv ==
    /\ chan = "closed" => worker \in {"drain", "drainAppend", "last", "exited"}
    /\ chan = "closed" => \A i \in Items : call[i] # "parked"
    /\ worker \in {"last", "exited"} => chan = "closed" /\ queue = <<>>
    /\ worker = "last" /\ exp[Worker] = "idle" => batch = <<>>
    /\ worker = "exited" => batch = <<>>
    /\ exporter = "down" => worker = "exited"
    /\ stopper = "done" => exporter = "down"
    /\ once = "free" => \A k \in Closers : closer[k] # "nil"
    /\ \A k \in Closers : closer[k] = "nil" => stopper = "done"
    /\ chan = "closed" => sendq = <<>>

\* No accepted span leaves the processor but through ExportSpans.
AcceptedInv ==
    \A s \in Spans : call[s] = "sent"
        => s \in ToSet(exported) \cup ToSet(batch) \cup {hand} \cup ToSet(queue)


\* What a step is to the worker, the batch and the timer.
LEMMA StepKinds ==
    ASSUME [Next]_vars
    PROVE  \/ WorkerStep \/ TimerFire
           \/ \E p \in Exporters : ExportStep(p)
           \/ \E f \in Flushers : /\ StartCollect(f)
                                 /\ UNCHANGED <<batch, batchedSize, timer, tick, hand, worker>>
           \/ UNCHANGED <<batch, batchedSize, timer, tick, hand, worker, exp>>
<1> DEFINE Goal == \/ WorkerStep \/ TimerFire
                   \/ \E p \in Exporters : ExportStep(p)
                   \/ \E f \in Flushers :
                          /\ StartCollect(f)
                          /\ UNCHANGED <<batch, batchedSize, timer, tick, hand, worker>>
                   \/ UNCHANGED <<batch, batchedSize, timer, tick, hand, worker, exp>>
<1>1. ASSUME NEW i \in Items, Enqueue(i) PROVE Goal
  BY <1>1 DEF Enqueue, chanVars, batchVars, timerVars, flushVars, stopVars
<1>2. ASSUME NEW i \in Items, Send(i) PROVE Goal
  BY <1>2 DEF Send, chanVars, batchVars, timerVars, flushVars, stopVars
<1>3. ASSUME NEW f \in Flushers, FlusherStep(f) PROVE Goal
  BY <1>3 DEF FlusherStep, CancelSend, FlushEnqueued, FlushReturn, chanVars, batchVars, timerVars, flushVars, stopVars
<1>4. ASSUME NEW k \in Closers, CloserStep(k) PROVE Goal
  BY <1>4 DEF CloserStep, BeginShutdown, ShutdownAgain, ShutdownReturn, chanVars, batchVars, timerVars, flushVars, stopVars
<1>5. CASE StopperClose \/ StopperWait
  BY <1>5 DEF StopperClose, StopperWait, chanVars, batchVars, timerVars, flushVars, stopVars
<1>6. ASSUME NEW c \in Cancellable, Cancel(c) PROVE Goal
  BY <1>6 DEF Cancel, chanVars, batchVars, timerVars, flushVars, stopVars
<1>7. CASE UNCHANGED vars
  BY <1>7 DEF vars, chanVars, batchVars, timerVars, flushVars, stopVars
<1> QED
  BY <1>1, <1>2, <1>3, <1>4, <1>5, <1>6, <1>7
     DEF Next

\* The timer: only the worker takes a tick, and it resets the timer before it waits again.
LEMMA TimerNext ==
    ASSUME TypeOK, TypeOK', [Next]_vars, TimerArmed
    PROVE  TimerArmed'
<1> USE DEF TypeOK, TimerArmed, Exporters, batchVars, timerVars, At,
            CallExport, Finish, StartCollect
<1>1. CASE WorkerStop
  BY <1>1 DEF WorkerStop
<1>2. CASE WorkerTimer
  BY <1>2 DEF WorkerTimer
<1>3. CASE WorkerRecv \/ WorkerFlush \/ WorkerAppend
  BY <1>3 DEF WorkerRecv, Receive, WorkerFlush, WorkerAppend, shouldProcessInBatch
<1>4. CASE WorkerStopTimer
  BY <1>4 DEF WorkerStopTimer
<1>5. CASE WorkerDrainTimer
  BY <1>5 DEF WorkerDrainTimer
<1>6. CASE DrainRecv \/ DrainAppend \/ DrainDefault \/ DrainClose \/ DrainEnd \/ WorkerExit
  BY <1>6 DEF DrainRecv, Receive, DrainAppend, DrainDefault, DrainClose, DrainEnd, WorkerExit
<1>7. CASE TimerFire
  BY <1>7 DEF TimerFire
<1>8. ASSUME NEW p \in Exporters, ResetTimer(p)
      PROVE  TimerArmed'
  BY <1>8 DEF ResetTimer
<1>9. ASSUME NEW p \in Exporters, LockBatch(p)
      PROVE  TimerArmed'
  BY <1>9 DEF LockBatch
<1>10. ASSUME NEW p \in Exporters, NEW r \in {"ok", "err"}, ExportReturn(p, r)
      PROVE  TimerArmed'
  BY <1>10 DEF ExportReturn
<1>11. ASSUME NEW f \in Flushers, StartCollect(f),
             UNCHANGED <<batch, batchedSize, timer, tick, hand, worker>>
      PROVE  TimerArmed'
  BY <1>11
<1>12. CASE UNCHANGED <<batch, batchedSize, timer, tick, hand, worker, exp>>
  BY <1>12
<1> HIDE DEF TypeOK, TimerArmed, Exporters, batchVars, timerVars, At,
            CallExport, Finish, StartCollect
<1> QED
  BY StepKinds, <1>1, <1>2, <1>3, <1>4, <1>5, <1>6, <1>7, <1>8, <1>9, <1>10, <1>11,
     <1>12
     DEF ExportStep, WorkerStep

\* An export leaves the worker where it called it.
LEMMA PlaceNext ==
    ASSUME TypeOK, TypeOK', [Next]_vars, PlaceInv
    PROVE  PlaceInv'
<1> USE DEF TypeOK, PlaceInv, Exporters, WorkerStates, batchVars, timerVars, At,
            CallExport, Finish, StartCollect
<1>1. CASE WorkerStop \/ WorkerTimer \/ WorkerRecv \/ WorkerFlush
  BY <1>1 DEF WorkerStop, WorkerTimer, WorkerRecv, Receive, WorkerFlush
<1>2. CASE WorkerAppend \/ WorkerStopTimer \/ WorkerDrainTimer
  BY <1>2 DEF WorkerAppend, shouldProcessInBatch, WorkerStopTimer, WorkerDrainTimer
<1>3. CASE DrainRecv \/ DrainAppend \/ DrainDefault \/ DrainClose \/ DrainEnd \/ WorkerExit
  BY <1>3 DEF DrainRecv, Receive, DrainAppend, DrainDefault, DrainClose, DrainEnd, WorkerExit
<1>4. CASE TimerFire
  BY <1>4 DEF TimerFire
<1>5. ASSUME NEW p \in Exporters, ResetTimer(p)
      PROVE  PlaceInv'
  BY <1>5 DEF ResetTimer
<1>6. ASSUME NEW p \in Exporters, LockBatch(p)
      PROVE  PlaceInv'
  BY <1>6 DEF LockBatch
<1>7. ASSUME NEW p \in Exporters, NEW r \in {"ok", "err"}, ExportReturn(p, r)
      PROVE  PlaceInv'
  BY <1>7 DEF ExportReturn
<1>8. ASSUME NEW f \in Flushers, StartCollect(f),
             UNCHANGED <<batch, batchedSize, timer, tick, hand, worker>>
      PROVE  PlaceInv'
  BY <1>8
<1>9. CASE UNCHANGED <<batch, batchedSize, timer, tick, hand, worker, exp>>
  BY <1>9
<1> HIDE DEF TypeOK, PlaceInv, Exporters, WorkerStates, batchVars, timerVars, At,
            CallExport, Finish, StartCollect
<1> QED
  BY StepKinds, <1>1, <1>2, <1>3, <1>4, <1>5, <1>6, <1>7, <1>8, <1>9
     DEF ExportStep, WorkerStep

\* The batch: one append between two looks at its size.
LEMMA FillNext ==
    ASSUME TypeOK, TypeOK', PlaceInv, [Next]_vars, FillInv
    PROVE  FillInv'
<1> USE DEF TypeOK, PlaceInv, FillInv, Exporters, WorkerStates, batchVars, timerVars, At,
            CallExport, Finish, StartCollect
<1>1. CASE WorkerStop \/ WorkerTimer
  BY <1>1 DEF WorkerStop, WorkerTimer
<1>2. CASE WorkerRecv \/ WorkerFlush
  BY <1>2 DEF WorkerRecv, Receive, WorkerFlush
<1>3. CASE WorkerAppend
  BY <1>3 DEF WorkerAppend, shouldProcessInBatch
<1>4. CASE WorkerStopTimer
  BY <1>4 DEF WorkerStopTimer
<1>5. CASE WorkerDrainTimer
  BY <1>5 DEF WorkerDrainTimer
<1>6. CASE DrainRecv
  BY <1>6 DEF DrainRecv, Receive
<1>7. CASE DrainAppend
  BY <1>7 DEF DrainAppend
<1>8. CASE DrainDefault \/ DrainClose \/ DrainEnd \/ WorkerExit
  BY <1>8 DEF DrainDefault, DrainClose, DrainEnd, WorkerExit
<1>9. CASE TimerFire
  BY <1>9 DEF TimerFire
<1>10. ASSUME NEW p \in Exporters, ResetTimer(p)
      PROVE  FillInv'
  BY <1>10 DEF ResetTimer
<1>11. ASSUME NEW p \in Exporters, LockBatch(p)
      PROVE  FillInv'
  BY <1>11 DEF LockBatch
<1>12. ASSUME NEW p \in Exporters, NEW r \in {"ok", "err"}, ExportReturn(p, r)
      PROVE  FillInv'
  BY <1>12 DEF ExportReturn
<1>13. ASSUME NEW f \in Flushers, StartCollect(f),
             UNCHANGED <<batch, batchedSize, timer, tick, hand, worker>>
      PROVE  FillInv'
  BY <1>13
<1>14. CASE UNCHANGED <<batch, batchedSize, timer, tick, hand, worker, exp>>
  BY <1>14
<1> HIDE DEF TypeOK, PlaceInv, FillInv, Exporters, WorkerStates, batchVars, timerVars, At,
            CallExport, Finish, StartCollect
<1> QED
  BY StepKinds, <1>1, <1>2, <1>3, <1>4, <1>5, <1>6, <1>7, <1>8, <1>9, <1>10, <1>11,
     <1>12, <1>13, <1>14
     DEF ExportStep, WorkerStep

\* The mutex: an export starts when no other runs, and only it empties the batch.
LEMMA MutexNext ==
    ASSUME TypeOK, TypeOK', PlaceInv, [Next]_vars, MutexInv
    PROVE  MutexInv'
<1> USE DEF TypeOK, MutexInv, MutexFree, Exporters, batchVars, timerVars, At,
            CallExport, Finish, StartCollect
<1>1. CASE WorkerStop \/ WorkerTimer \/ WorkerRecv \/ WorkerFlush
  BY <1>1 DEF WorkerStop, WorkerTimer, WorkerRecv, Receive, WorkerFlush
<1>2. CASE WorkerAppend
  BY <1>2 DEF WorkerAppend, shouldProcessInBatch
<1>3. CASE WorkerStopTimer \/ WorkerDrainTimer
  BY <1>3 DEF WorkerStopTimer, WorkerDrainTimer
<1>4. CASE DrainAppend
  BY <1>4 DEF DrainAppend
<1>5. CASE DrainRecv \/ DrainDefault \/ DrainClose \/ DrainEnd \/ WorkerExit
  BY <1>5 DEF DrainRecv, Receive, DrainDefault, DrainClose, DrainEnd, WorkerExit
<1>6. CASE TimerFire
  BY <1>6 DEF TimerFire
<1>7. ASSUME NEW p \in Exporters, ResetTimer(p)
      PROVE  MutexInv'
  BY <1>7 DEF ResetTimer
<1>8. ASSUME NEW p \in Exporters, LockBatch(p)
      PROVE  MutexInv'
  BY <1>8 DEF LockBatch
<1>9. ASSUME NEW p \in Exporters, NEW r \in {"ok", "err"}, ExportReturn(p, r)
      PROVE  MutexInv'
  BY <1>9 DEF ExportReturn
<1>10. ASSUME NEW f \in Flushers, StartCollect(f),
             UNCHANGED <<batch, batchedSize, timer, tick, hand, worker>>
      PROVE  MutexInv'
  BY <1>10
<1>11. CASE UNCHANGED <<batch, batchedSize, timer, tick, hand, worker, exp>>
  BY <1>11
<1> HIDE DEF TypeOK, MutexInv, MutexFree, Exporters, batchVars, timerVars, At,
            CallExport, Finish, StartCollect
<1> QED
  BY StepKinds, <1>1, <1>2, <1>3, <1>4, <1>5, <1>6, <1>7, <1>8, <1>9, <1>10, <1>11
     DEF ExportStep, WorkerStep

-----------------------------------------------------------------------------

\* The end: the worker exits with an empty batch and a closed, empty channel, and only
\* then is the exporter shut down and does Shutdown return.
LEMMA StopNext ==
    ASSUME TypeOK, TypeOK', PlaceInv, MutexInv, [Next]_vars, StopInv
    PROVE  StopInv'
<1> USE DEF TypeOK, PlaceInv, MutexInv, StopInv, Items, Exporters,
            WorkerStates, chanVars, batchVars, timerVars, flushVars, stopVars, At,
            CallExport, Finish, StartCollect
<1>1. ASSUME NEW i \in Items, Enqueue(i) PROVE StopInv'
  BY <1>1 DEF Enqueue
<1>2. ASSUME NEW i \in Items, Send(i) PROVE StopInv'
  BY <1>2 DEF Send, HasRoom
<1>3. ASSUME NEW f \in Flushers, CancelSend(f) PROVE StopInv'
  BY <1>3 DEF CancelSend
<1>4. ASSUME NEW f \in Flushers, FlushEnqueued(f) PROVE StopInv'
  BY <1>4 DEF FlushEnqueued
<1>5. ASSUME NEW f \in Flushers, NEW r \in {"nil", "err"}, FlushReturn(f, r) PROVE StopInv'
  BY <1>5 DEF FlushReturn
<1>6. ASSUME NEW p \in Exporters, ResetTimer(p) \/ LockBatch(p)
      PROVE  StopInv'
  BY <1>6 DEF ResetTimer, LockBatch
<1>7. ASSUME NEW p \in Exporters, NEW r \in {"ok", "err"}, ExportReturn(p, r) PROVE StopInv'
  BY <1>7 DEF ExportReturn
<1>8. CASE WorkerStop \/ WorkerTimer
  BY <1>8 DEF WorkerStop, WorkerTimer
<1>9. CASE WorkerRecv
  BY <1>9 DEF WorkerRecv, Receive
<1>10. CASE WorkerFlush \/ WorkerStopTimer \/ WorkerDrainTimer
  BY <1>10 DEF WorkerFlush, WorkerStopTimer, WorkerDrainTimer
<1>11. CASE WorkerAppend
  BY <1>11 DEF WorkerAppend, shouldProcessInBatch
<1>12. CASE DrainRecv
  BY <1>12 DEF DrainRecv, Receive
<1>13. CASE DrainAppend
  BY <1>13 DEF DrainAppend
<1>14. CASE DrainDefault
  BY <1>14 DEF DrainDefault
<1>15. CASE DrainClose
  BY <1>15 DEF DrainClose
<1>16. CASE DrainEnd \/ WorkerExit
  BY <1>16 DEF DrainEnd, WorkerExit
<1>17. CASE TimerFire
  BY <1>17 DEF TimerFire
<1>18. ASSUME NEW k \in Closers, BeginShutdown(k) \/ ShutdownAgain(k)
      PROVE  StopInv'
  BY <1>18 DEF BeginShutdown, ShutdownAgain
<1>19. ASSUME NEW k \in Closers, NEW r \in {"nil", "err"}, ShutdownReturn(k, r) PROVE StopInv'
  BY <1>19 DEF ShutdownReturn
<1>20. CASE StopperClose \/ StopperWait
  BY <1>20 DEF StopperClose, StopperWait, StopperExited
<1>21. ASSUME NEW c \in Cancellable, Cancel(c) PROVE StopInv'
  BY <1>21 DEF Cancel
<1>22. CASE UNCHANGED vars
  BY <1>22 DEF vars
<1> HIDE DEF TypeOK, PlaceInv, MutexInv, StopInv, Items, Exporters,
            WorkerStates, chanVars, batchVars, timerVars, flushVars, stopVars, At,
            CallExport, Finish, StartCollect
<1> QED
  BY <1>1, <1>2, <1>3, <1>4, <1>5, <1>6, <1>7, <1>8, <1>9, <1>10, <1>11, <1>12, <1>13,
     <1>14, <1>15, <1>16, <1>17, <1>18, <1>19, <1>20, <1>21, <1>22
     DEF Next, FlusherStep, ExportStep, WorkerStep, CloserStep



\* A receive moves the head of the channel to the hand and a parked sender's item in.
LEMMA ReceiveKeeps ==
    ASSUME TypeOK, TypeOK', AcceptedInv, Receive, hand = None,
           batch' = batch, exported' = exported
    PROVE  AcceptedInv'
<1>1. ToSet(queue) \subseteq {hand'} \cup ToSet(Tail(queue)) /\ Tail(queue) \in Seq(Items)
  BY ToSetTail DEF Receive, TypeOK
<1>2. CASE sendq = <<>>
  <2>1. queue' = Tail(queue) /\ call' = call
    BY <1>2 DEF Receive
  <2> QED
    BY <1>1, <2>1 DEF AcceptedInv, TypeOK
<1>3. CASE sendq # <<>>
  <2>1. Head(sendq) \in Items
    BY <1>3 DEF TypeOK
  <2>2. queue' = Append(Tail(queue), Head(sendq)) /\ call' = [call EXCEPT ![Head(sendq)] = "sent"]
    BY <1>3 DEF Receive
  <2>3. ToSet(queue') = ToSet(Tail(queue)) \cup {Head(sendq)}
    <3> DEFINE q == Tail(queue)
               i == Head(sendq)
    <3>1. q \in Seq(Items) /\ i \in Items
      BY <1>1, <2>1
    <3>2. queue' = Append(q, i)
      BY <2>2
    <3> HIDE DEF q, i
    <3>3. ToSet(Append(q, i)) = ToSet(q) \cup {i}
      BY <3>1, ToSetAppend
    <3> QED
      BY <3>2, <3>3 DEF q, i
  <2>4. \A s \in Spans : s # Head(sendq) => call'[s] = call[s]
    BY <2>2 DEF TypeOK, Items
  <2> QED
    BY <1>1, <2>3, <2>4 DEF AcceptedInv, TypeOK, Items
<1> QED
  BY <1>2, <1>3

\* Every accepted span stays in the channel, the hand or the batch until it is exported.
LEMMA AcceptedNext ==
    ASSUME TypeOK, TypeOK', [Next]_vars, AcceptedInv
    PROVE  AcceptedInv'
<1> USE DEF TypeOK, AcceptedInv, Items, Exporters, chanVars,
            batchVars, timerVars, flushVars, stopVars, At, CallExport, Finish, StartCollect
<1>1. ASSUME NEW i \in Items, Enqueue(i) PROVE AcceptedInv'
  BY <1>1 DEF Enqueue
<1>2. ASSUME NEW i \in Items, Send(i) PROVE AcceptedInv'
  <2>0. ToSet(Append(queue, i)) = ToSet(queue) \cup {i}
    <3>1. queue \in Seq(Items) /\ i \in Items
      OBVIOUS
    <3> QED
      BY ONLY <3>1, ToSetAppend
  <2>1. ToSet(queue) \subseteq ToSet(queue')
    BY <1>2, <2>0 DEF Send
  <2>2. call'[i] = "sent" => i \in ToSet(queue')
    BY <1>2, <2>0 DEF Send
  <2>3. \A s \in Spans : s # i => call'[s] = call[s]
    BY <1>2 DEF Send
  <2> QED
    BY <1>2, <2>1, <2>2, <2>3 DEF Send
<1>3. ASSUME NEW f \in Flushers, CancelSend(f) PROVE AcceptedInv'
  BY <1>3 DEF CancelSend
<1>4. ASSUME NEW f \in Flushers, FlushEnqueued(f) PROVE AcceptedInv'
  BY <1>4 DEF FlushEnqueued
<1>5. ASSUME NEW f \in Flushers, NEW r \in {"nil", "err"}, FlushReturn(f, r) PROVE AcceptedInv'
  BY <1>5 DEF FlushReturn
<1>6. ASSUME NEW p \in Exporters, ResetTimer(p) \/ LockBatch(p)
      PROVE  AcceptedInv'
  BY <1>6 DEF ResetTimer, LockBatch
<1>7. ASSUME NEW p \in Exporters, NEW r \in {"ok", "err"}, ExportReturn(p, r) PROVE AcceptedInv'
  <2>1. ToSet(exported') = ToSet(exported) \cup ToSet(batch)
    BY <1>7, ToSetConcat DEF ExportReturn
  <2> QED
    BY <1>7, <2>1 DEF ExportReturn
<1>8. CASE WorkerStop \/ WorkerTimer
  BY <1>8 DEF WorkerStop, WorkerTimer
<1>9. CASE WorkerRecv
  <2>1. Receive /\ batch' = batch /\ exported' = exported /\ hand = None
    BY <1>9 DEF WorkerRecv, DrainRecv
  <2> QED
    BY <2>1, ReceiveKeeps
<1>10. CASE WorkerFlush
  BY <1>10 DEF WorkerFlush
<1>11. CASE WorkerStopTimer \/ WorkerDrainTimer
  BY <1>11 DEF WorkerStopTimer, WorkerDrainTimer
<1>12. CASE WorkerAppend
  <2>1. ToSet(batch') = ToSet(batch) \cup {hand}
    <3>1. batch \in Seq(Items) /\ hand \in Items /\ batch' = Append(batch, hand)
      BY <1>12 DEF WorkerAppend
    <3> QED
      BY ONLY <3>1, ToSetAppend
  <2> QED
    BY <1>12, <2>1 DEF WorkerAppend
<1>13. CASE DrainRecv
  <2>1. Receive /\ batch' = batch /\ exported' = exported /\ hand = None
    BY <1>13 DEF WorkerRecv, DrainRecv
  <2> QED
    BY <2>1, ReceiveKeeps
<1>14. CASE DrainAppend
  <2>1. ToSet(batch') = ToSet(batch) \cup {hand}
    <3>1. batch \in Seq(Items) /\ hand \in Items /\ batch' = Append(batch, hand)
      BY <1>14 DEF DrainAppend
    <3> QED
      BY ONLY <3>1, ToSetAppend
  <2> QED
    BY <1>14, <2>1 DEF DrainAppend
<1>15. CASE DrainDefault
  BY <1>15 DEF DrainDefault
<1>16. CASE DrainClose
  BY <1>16 DEF DrainClose
<1>17. CASE DrainEnd \/ WorkerExit
  BY <1>17 DEF DrainEnd, WorkerExit
<1>18. CASE TimerFire
  BY <1>18 DEF TimerFire
<1>19. ASSUME NEW k \in Closers, BeginShutdown(k) \/ ShutdownAgain(k)
      PROVE  AcceptedInv'
  BY <1>19 DEF BeginShutdown, ShutdownAgain
<1>20. ASSUME NEW k \in Closers, NEW r \in {"nil", "err"}, ShutdownReturn(k, r) PROVE AcceptedInv'
  BY <1>20 DEF ShutdownReturn
<1>21. CASE StopperClose \/ StopperWait
  BY <1>21 DEF StopperClose, StopperWait, StopperExited
<1>22. ASSUME NEW c \in Cancellable, Cancel(c) PROVE AcceptedInv'
  BY <1>22 DEF Cancel
<1>23. CASE UNCHANGED vars
  BY <1>23 DEF vars
<1> HIDE DEF TypeOK, AcceptedInv, Items, Exporters, chanVars,
            batchVars, timerVars, flushVars, stopVars, At, CallExport, Finish, StartCollect
<1> QED
  BY <1>1, <1>2, <1>3, <1>4, <1>5, <1>6, <1>7, <1>8, <1>9, <1>10, <1>11, <1>12, <1>13,
     <1>14, <1>15, <1>16, <1>17, <1>18, <1>19, <1>20, <1>21, <1>22, <1>23
     DEF Next, FlusherStep, ExportStep, WorkerStep, CloserStep

-----------------------------------------------------------------------------
(* The theorems.                                                           *)

IInv == TypeOK /\ TimerArmed /\ PlaceInv /\ FillInv /\ MutexInv /\ StopInv /\ AcceptedInv

LEMMA IInvInductive == (Init => IInv) /\ (IInv /\ [Next]_vars => IInv')
<1>1. Init => TimerArmed /\ PlaceInv /\ FillInv /\ MutexInv /\ StopInv /\ AcceptedInv
  BY DEF Init, TimerArmed, PlaceInv, FillInv, MutexInv, StopInv, AcceptedInv, Items, Exporters
<1> QED
  BY <1>1, TypeInit, TypeNext, TimerNext, PlaceNext, FillNext, MutexNext, StopNext, AcceptedNext
     DEF IInv

\* The inductive invariant behind the theorems below.
THEOREM Inductive == Spec => []IInv
BY IInvInductive, PTL DEF Spec

\* The tick the worker waits for always comes, however many ForceFlush calls reset the
\* timer between the worker's timer.Stop and its receive.
THEOREM TimerNeverLost == Spec => []TimerArmed
BY Inductive, PTL DEF IInv

\* No batch outgrows MaxExportBatchSize and none that is due waits in select.
THEOREM BatchesBounded == Spec => []BatchBounded
<1>1. IInv => BatchBounded
  BY DEF IInv, FillInv, BatchBounded, At
<1> QED
  BY <1>1, Inductive, PTL

\* Once the exporter is shut down nothing is exported and nothing is left to export.
THEOREM QuietAfterShutdown == Spec => []NoExportAfterShutdown
<1>1. IInv => NoExportAfterShutdown
  BY DEF IInv, StopInv, MutexInv, MutexFree, NoExportAfterShutdown
<1> QED
  BY <1>1, Inductive, PTL

\* A Shutdown that returned nil left no accepted span and no waiting OnEnd behind.
THEOREM ShutdownDrains == Spec => []ShutdownComplete
<1>1. IInv => ShutdownComplete
  <2> SUFFICES ASSUME IInv, NEW k \in Closers, closer[k] = "nil", NEW s \in Spans
               PROVE  /\ call[s] = "sent" => s \in ToSet(exported)
                      /\ call[s] # "parked"
    BY DEF ShutdownComplete
  <2>1. worker = "exited" /\ batch = <<>> /\ queue = <<>> /\ chan = "closed"
    BY DEF IInv, StopInv
  <2>2. hand = None /\ s # None
    BY <2>1 DEF IInv, TypeOK
  <2>3. ToSet(batch) = {} /\ ToSet(queue) = {}
    BY <2>1 DEF ToSet
  <2> QED
    BY <2>1, <2>2, <2>3 DEF IInv, StopInv, AcceptedInv, Items
<1> QED
  BY <1>1, Inductive, PTL


=============================================================================
