-------------------------- MODULE LogPipelineProofs --------------------------
(***************************************************************************)
(* Proofs about the log batch processor and the pipeline it makes with the *)
(* OTLP exporter, for every set of records and Shutdown calls, every queue *)
(* and batch size and every set of connections.                            *)
(*                                                                         *)
(* The first half is about LogBatchProcessor alone, whose exporter may     *)
(* return when it likes: IInv is inductive, and every step is one of       *)
(* BatchPipeline. In the second half every step of the pipeline is one of  *)
(* the processor or leaves it alone, so that all of this carries over; the *)
(* exporter's own invariant is Connected.                                  *)
(***************************************************************************)
EXTENDS LogPipeline, SequenceLemmas

USE LogAssumption DEF LogAssumption

-----------------------------------------------------------------------------
(* The processor.                                                          *)

\* A batch is full only on its way to the exporter, which never gets an empty one.
FillInv ==
    /\ Len(batch) <= DefaultMaxExportBatchSize
    /\ exp = "idle" /\ worker \in {"select", "drain", "closing"}
           => Len(batch) < DefaultMaxExportBatchSize
    /\ exp = "call" => batch # <<>>

\* What is left when the worker leaves the drain, and who waits for it.
StopInv ==
    /\ worker \in {"stopTimer", "drainTimer", "closing", "exited"} => exp = "idle"
    /\ chan = "closed" => worker \in {"drain", "last", "exited"}
    /\ worker \in {"last", "exited"} => chan = "closed" /\ queue = <<>>
    /\ worker = "last" /\ exp = "idle" => batch = <<>>
    /\ worker = "exited" => batch = <<>>
    /\ stopper \in {"exporter", "done"} => worker = "exited"
    /\ once = "free" => stopper = "none"
    /\ \A k \in Closers : closer[k] = "nil" => stopper = "done"

\* Exactly the records Enqueue has accepted are in the queue, the batch or exported.
Inside == ToSet(queue) \cup ToSet(batch) \cup ToSet(exported)
AcceptedInv == \A l \in Logs : call[l] = "sent" <=> l \in Inside

IInv == LogTypeOK /\ FillInv /\ StopInv /\ AcceptedInv

LEMMA ProcessorInit == Init => IInv
<1> SUFFICES ASSUME Init PROVE IInv
  OBVIOUS
<1>1. LogTypeOK
  BY DEF Init, LogTypeOK
<1>2. FillInv /\ StopInv
  BY DEF Init, FillInv, StopInv
<1>3. AcceptedInv
  BY ToSetEmpty DEF Init, AcceptedInv, Inside
<1> QED
  BY <1>1, <1>2, <1>3 DEF IInv

\* The step of a receive, in the select and in the drain.
Receives == /\ queue # <<>>
            /\ queue' = Tail(queue)
            /\ batch' = Append(batch, Head(queue))
            /\ exported' = exported /\ call' = call

LEMMA ReceiveKeeps ==
    ASSUME LogTypeOK, Receives
    PROVE  /\ queue' \in Seq(Logs) /\ Len(queue') <= DefaultMaxQueueSize
           /\ batch' \in Seq(Logs) /\ Len(batch') = Len(batch) + 1
           /\ Head(queue) \in Logs
           /\ Inside' = Inside
<1> USE DEF LogTypeOK, Receives
<1>1. /\ Tail(queue) \in Seq(Logs) /\ Len(Tail(queue)) = Len(queue) - 1
      /\ Head(queue) \in Logs
  OBVIOUS
<1>2. ToSet(queue) = {Head(queue)} \cup ToSet(Tail(queue))
  BY ToSetTail
<1>3. ToSet(Append(batch, Head(queue))) = ToSet(batch) \cup {Head(queue)}
  BY <1>1, ToSetAppend
<1> QED
  BY <1>1, <1>2, <1>3 DEF Inside

LEMMA EnqueueNext ==
    ASSUME IInv, NEW l \in Logs, Enqueue(l) \/ Send(l)
    PROVE  IInv'
<1> USE DEF IInv, LogTypeOK, batchVars, timerVars, stopVars
<1>1. CASE Enqueue(l)
  <2>1. LogTypeOK'
    BY <1>1 DEF Enqueue
  <2>2. FillInv' /\ StopInv'
    BY <1>1 DEF Enqueue, FillInv, StopInv
  <2>3. AcceptedInv'
    BY <1>1 DEF Enqueue, AcceptedInv, Inside
  <2> QED
    BY <2>1, <2>2, <2>3
<1>2. CASE Send(l)
  <2>1. CASE queue' = Append(queue, l) /\ call' = [call EXCEPT ![l] = "sent"]
              /\ chan = "open" /\ HasRoom
    <3>1. queue' \in Seq(Logs) /\ Len(queue') = Len(queue) + 1
      BY <2>1
    <3>2. LogTypeOK'
      BY <1>2, <2>1, <3>1 DEF Send, HasRoom
    <3>3. FillInv' /\ StopInv'
      BY <1>2, <2>1 DEF Send, FillInv, StopInv
    <3>4. ToSet(queue') = ToSet(queue) \cup {l}
      BY <2>1, ToSetAppend
    <3>5. AcceptedInv'
      BY <1>2, <2>1, <3>4 DEF Send, AcceptedInv, Inside
    <3> QED
      BY <3>2, <3>3, <3>5
  <2>2. CASE queue' = queue /\ \E r \in {"panicked", "dropped"} : call' = [call EXCEPT ![l] = r]
    <3>1. LogTypeOK'
      BY <1>2, <2>2 DEF Send
    <3>2. FillInv' /\ StopInv'
      BY <1>2, <2>2 DEF Send, FillInv, StopInv
    <3>3. AcceptedInv'
      BY <1>2, <2>2 DEF Send, AcceptedInv, Inside
    <3> QED
      BY <3>1, <3>2, <3>3
  <2> QED
    BY <1>2, <2>1, <2>2 DEF Send
<1> QED
  BY <1>1, <1>2

LEMMA WorkerNext ==
    ASSUME IInv, WorkerStep
    PROVE  IInv'
<1> USE DEF IInv, LogTypeOK, chanVars, batchVars, timerVars, stopVars, At, CallExport
<1>1. CASE WorkerRecv
  <2>1. Receives
    BY <1>1 DEF WorkerRecv, Receives
  <2>2. LogSize[Head(queue)] \in Nat
    BY <2>1, ReceiveKeeps
  <2>3. LogTypeOK'
    <3>1. queue' \in Seq(Logs) /\ Len(queue') <= DefaultMaxQueueSize /\ batch' \in Seq(Logs)
      BY <2>1, ReceiveKeeps
    <3>2. /\ worker' \in {"stopTimer", "select"} /\ batchedSize' = batchedSize + LogSize[Head(queue)]
          /\ UNCHANGED <<chan, call, exported, timerVars, stopVars, exp>>
      BY <1>1 DEF WorkerRecv
    <3>3. batchedSize' \in Nat
      BY <2>2, <3>2
    <3> QED
      BY <3>1, <3>2, <3>3
  <2>4. FillInv'
    BY <1>1, <2>1, ReceiveKeeps DEF WorkerRecv, FillInv, shouldProcessInBatch
  <2>5. StopInv'
    BY <1>1, <2>1, ReceiveKeeps DEF WorkerRecv, StopInv
  <2>6. AcceptedInv'
    BY <1>1, <2>1, ReceiveKeeps DEF WorkerRecv, AcceptedInv
  <2> QED
    BY <2>3, <2>4, <2>5, <2>6
<1>2. CASE DrainRecv
  <2>1. Receives
    BY <1>2 DEF DrainRecv, Receives
  <2>3. LogTypeOK'
    BY <1>2, <2>1, ReceiveKeeps DEF DrainRecv
  <2>4. FillInv'
    <3>1. /\ batch \in Seq(Logs) /\ batch' \in Seq(Logs) /\ Len(batch') = Len(batch) + 1
          /\ Len(batch) < DefaultMaxExportBatchSize
          /\ exp = "idle" /\ worker = "drain" /\ worker' = "drain"
      BY <1>2, <2>1, ReceiveKeeps DEF DrainRecv, FillInv
    <3>2. exp' = IF Len(batch') = DefaultMaxExportBatchSize THEN "reset" ELSE "idle"
      BY <1>2, <3>1 DEF DrainRecv
    <3> QED
      BY <3>1, <3>2 DEF FillInv
  <2>6. StopInv'
    BY <1>2 DEF DrainRecv, StopInv
  <2>5. AcceptedInv'
    BY <1>2, <2>1, ReceiveKeeps DEF DrainRecv, AcceptedInv
  <2> QED
    BY <2>3, <2>4, <2>5, <2>6
<1>3. ASSUME WorkerStep, ~WorkerRecv, ~DrainRecv
      PROVE  IInv'
  <2> USE <1>3 DEF WorkerStep, WorkerStop, WorkerTimer, WorkerStopTimer, WorkerDrainTimer,
                   ResetTimer, DrainDefault, DrainClose, DrainEnd, WorkerExit
  <2>1. queue' = queue /\ batch' = batch /\ exported' = exported /\ call' = call
    OBVIOUS
  <2>2. LogTypeOK'
    BY <2>1
  <2>3. FillInv'
    BY DEF FillInv, StopInv
  <2>4. StopInv'
    BY DEF FillInv, StopInv
  <2>5. AcceptedInv'
    BY <2>1 DEF AcceptedInv, Inside
  <2> QED
    BY <2>2, <2>3, <2>4, <2>5
<1> QED
  BY <1>1, <1>2, <1>3

LEMMA ExportNext ==
    ASSUME IInv, NEW r \in {"ok", "err"}, ExportReturn(r)
    PROVE  IInv'
<1> USE DEF IInv, LogTypeOK, chanVars, timerVars, stopVars, ExportReturn
<1>1. LogTypeOK' /\ FillInv'
  BY DEF FillInv
<1>2. StopInv'
  BY DEF StopInv
<1>3. AcceptedInv'
  <2>1. ToSet(exported') = ToSet(exported) \cup ToSet(batch) /\ ToSet(batch') = {}
    BY ToSetConcat, ToSetEmpty
  <2> QED
    BY <2>1 DEF AcceptedInv, Inside
<1> QED
  BY <1>1, <1>2, <1>3

LEMMA CloserNext ==
    ASSUME IInv,
           \/ TimerFire \/ StopperClose \/ StopperWait \/ StopperDone
           \/ \E k \in Closers : CloserStep(k) \/ Cancel(k)
    PROVE  IInv'
<1> USE DEF IInv, chanVars, batchVars, timerVars, stopVars
<1>1. /\ UNCHANGED <<queue, chan, call, batch, batchedSize, exported, worker, exp>>
      /\ ToSet(queue') = ToSet(queue)
  BY DEF TimerFire, StopperClose, StopperWait, StopperDone, CloserStep, BeginShutdown,
         ShutdownAgain, ShutdownReturn, Cancel
<1>2. FillInv' /\ AcceptedInv'
  BY <1>1 DEF FillInv, AcceptedInv, Inside
<1>3. LogTypeOK' /\ StopInv'
  <2> USE DEF LogTypeOK, StopInv
  <2>1. CASE TimerFire
    BY <2>1 DEF TimerFire
  <2>2. CASE StopperClose
    BY <2>2 DEF StopperClose
  <2>3. CASE StopperWait
    BY <2>3 DEF StopperWait
  <2>4. CASE StopperDone
    BY <2>4 DEF StopperDone
  <2>5. ASSUME NEW k \in Closers, BeginShutdown(k)
        PROVE  LogTypeOK' /\ StopInv'
    BY <2>5 DEF BeginShutdown
  <2>6. ASSUME NEW k \in Closers, ShutdownAgain(k)
        PROVE  LogTypeOK' /\ StopInv'
    BY <2>6 DEF ShutdownAgain
  <2>7. ASSUME NEW k \in Closers, NEW r \in {"nil", "err"}, ShutdownReturn(k, r)
        PROVE  LogTypeOK' /\ StopInv'
    BY <2>7 DEF ShutdownReturn
  <2>8. ASSUME NEW k \in Closers, Cancel(k)
        PROVE  LogTypeOK' /\ StopInv'
    BY <2>8 DEF Cancel
  <2> QED
    BY <2>1, <2>2, <2>3, <2>4, <2>5, <2>6, <2>7, <2>8 DEF CloserStep
<1> QED
  BY <1>2, <1>3

LEMMA ProcessorNext == IInv /\ [Next]_logVars => IInv'
<1> SUFFICES ASSUME IInv, [Next]_logVars PROVE IInv'
  OBVIOUS
<1>1. CASE UNCHANGED logVars
  BY <1>1 DEF logVars, chanVars, batchVars, timerVars, stopVars, IInv, LogTypeOK, FillInv,
              StopInv, AcceptedInv, Inside
<1>2. CASE Next
  BY <1>2, EnqueueNext, WorkerNext, ExportNext, CloserNext DEF Next, OwnStep
<1> QED
  BY <1>1, <1>2

\* The inductive invariant behind the theorems about the processor.
THEOREM ProcessorInductive == Spec => []IInv
BY ProcessorInit, ProcessorNext, PTL DEF Spec

LEMMA IInvShutdownComplete == IInv => ShutdownComplete
<1> SUFFICES ASSUME IInv, NEW k \in Closers, closer[k] = "nil",
                    NEW l \in Logs, call[l] = "sent"
             PROVE  l \in ToSet(exported)
  BY DEF ShutdownComplete
<1>1. worker = "exited" /\ queue = <<>> /\ batch = <<>>
  BY DEF IInv, StopInv
<1>2. l \in Inside
  BY DEF IInv, AcceptedInv
<1> QED
  BY <1>1, <1>2, ToSetEmpty DEF Inside

-----------------------------------------------------------------------------
(* Refinement: the processor implements BatchPipeline.                     *)

Pending == batch \o queue

LEMMA PipelineInit == Init => Pipeline!Init
BY DEF Init, Pipeline!Init

\* Enqueue stutters, an accepting Send is Accept.
LEMMA SendRefines ==
    ASSUME IInv, NEW l \in Logs, Send(l)
    PROVE  [Pipeline!Next]_(Pipeline!pipeVars)
<1> USE DEF IInv, LogTypeOK, batchVars, timerVars, stopVars
<1>1. CASE UNCHANGED queue
  BY <1>1 DEF Send, Pipeline!pipeVars
<1>2. CASE queue' = Append(queue, l) /\ chan = "open"
  <2>1. UNCHANGED <<batch, exported, worker>> /\ call[l] = "sending"
    BY DEF Send
  <2>2. Pending' = Append(Pending, l)
    BY <1>2, <2>1, ConcatAppend DEF Pending
  <2>3. l \notin ToSet(Pending) \cup ToSet(exported)
    BY <2>1, ToSetConcat DEF AcceptedInv, Inside, Pending
  <2>4. worker # "exited"
    BY <1>2 DEF StopInv
  <2>5. Pipeline!Fresh(l)
    BY <2>3 DEF Pipeline!Fresh, Pending, ToSet, Pipeline!ToSet
  <2>6. UNCHANGED <<exported, worker = "exited">>
    BY <2>1
  <2>7. Pipeline!Accept(l)
    BY <2>2, <2>4, <2>5, <2>6 DEF Pipeline!Accept, Pending
  <2> QED
    BY <2>7 DEF Pipeline!Next
<1> QED
  BY <1>1, <1>2 DEF Send

\* A receive moves a record inside the pipeline, and the end of the worker closes it.
LEMMA WorkerRefines ==
    ASSUME IInv, WorkerStep
    PROVE  [Pipeline!Next]_(Pipeline!pipeVars)
<1> USE DEF IInv, LogTypeOK, chanVars, batchVars, timerVars, stopVars, At
<1>1. CASE WorkerRecv \/ DrainRecv
  <2>1. Receives /\ worker # "exited" /\ worker' # "exited"
    BY <1>1 DEF WorkerRecv, DrainRecv, Receives
  <2>2. Pending' = Pending
    <3>1. Append(batch, Head(queue)) \o Tail(queue) = batch \o queue
      BY <2>1, MoveHead DEF Receives
    <3> QED
      BY <2>1, <3>1 DEF Receives, Pending
  <2> QED
    BY <2>1, <2>2 DEF Receives, Pending, Pipeline!pipeVars
<1>2. CASE WorkerExit
  <2>1. batch = <<>> /\ queue = <<>> /\ UNCHANGED <<batch, queue, exported>>
    BY <1>2 DEF WorkerExit, StopInv
  <2>2. Pipeline!Close
    BY <1>2, <2>1 DEF WorkerExit, Pipeline!Close
  <2> QED
    BY <2>2 DEF Pipeline!Next
<1>3. ASSUME ~WorkerRecv, ~DrainRecv, ~WorkerExit
      PROVE  UNCHANGED Pipeline!pipeVars
  BY <1>3 DEF WorkerStep, WorkerStop, WorkerTimer, WorkerStopTimer, WorkerDrainTimer,
              ResetTimer, DrainDefault, DrainClose, DrainEnd, Pipeline!pipeVars
<1> QED
  BY <1>1, <1>2, <1>3

\* An export delivers the batch, which is not empty and not larger than allowed.
LEMMA ExportRefines ==
    ASSUME IInv, NEW r \in {"ok", "err"}, ExportReturn(r)
    PROVE  Pipeline!Next
<1> USE DEF IInv, LogTypeOK, chanVars
<1>1. /\ exported' = exported \o batch /\ batch' = <<>>
      /\ queue' = queue /\ worker' = worker /\ batch # <<>>
  BY DEF ExportReturn, FillInv
<1>2. /\ Len(batch) \in 1 .. DefaultMaxExportBatchSize
      /\ Len(batch) <= Len(Pending)
  BY <1>1 DEF FillInv, Pending
<1>3. /\ SubSeq(Pending, 1, Len(batch)) = batch
      /\ SubSeq(Pending, Len(batch) + 1, Len(Pending)) = queue
  BY SplitConcat DEF Pending
<1>4. Pending' = queue
  BY <1>1 DEF Pending
<1>5. Pipeline!Deliver(Len(batch))
  BY <1>1, <1>2, <1>3, <1>4 DEF Pipeline!Deliver, Pending
<1> QED
  BY <1>2, <1>5 DEF Pipeline!Next

LEMMA NextRefines == IInv /\ [Next]_logVars => [Pipeline!Next]_(Pipeline!pipeVars)
<1> SUFFICES ASSUME IInv, [Next]_logVars PROVE [Pipeline!Next]_(Pipeline!pipeVars)
  OBVIOUS
<1> USE DEF chanVars, batchVars, timerVars, stopVars
<1>1. CASE UNCHANGED logVars
  BY <1>1 DEF logVars, Pipeline!pipeVars
<1>2. ASSUME NEW l \in Logs, Enqueue(l) PROVE UNCHANGED Pipeline!pipeVars
  BY <1>2 DEF Enqueue, Pipeline!pipeVars
<1>3. ASSUME TimerFire \/ StopperClose \/ StopperWait \/ StopperDone
      PROVE  UNCHANGED Pipeline!pipeVars
  BY <1>3 DEF TimerFire, StopperClose, StopperWait, StopperDone, Pipeline!pipeVars
<1>4. ASSUME NEW k \in Closers, CloserStep(k) \/ Cancel(k)
      PROVE  UNCHANGED Pipeline!pipeVars
  BY <1>4 DEF CloserStep, BeginShutdown, ShutdownAgain, ShutdownReturn, Cancel, Pipeline!pipeVars
<1> QED
  BY <1>1, <1>2, <1>3, <1>4, SendRefines, WorkerRefines, ExportRefines DEF Next, OwnStep

-----------------------------------------------------------------------------
(* The pipeline: a step of it is a step of the processor, or none.         *)

LEMMA PipeStepIsProcessorStep == [PipeNext]_vars => [Next]_logVars
<1> SUFFICES ASSUME [PipeNext]_vars PROVE [Next]_logVars
  OBVIOUS
<1> QED
  BY DEF PipeNext, Next, vars, CallExporter, ExporterReturns, CallShutdown, ShutdownReturned,
         ExporterStep

\* Whatever the exporter does, the processor behaves as its own specification says.
THEOREM PipelineRunsProcessor == PipeSpec => Spec
<1>1. PipeInit => Init
  BY DEF PipeInit
<1> QED
  BY <1>1, PipeStepIsProcessorStep, PTL DEF PipeSpec, Spec

\* The inductive invariant, of the processor inside the pipeline.
COROLLARY PipelineInductive == PipeSpec => []IInv
BY PipelineRunsProcessor, ProcessorInductive, PTL

\* A Shutdown of the log pipeline that returns nil leaves no accepted record behind: the
\* worker has exited by then, and what it exported is all that was accepted.
THEOREM ShutdownExportsAccepted == PipeSpec => []ShutdownComplete
BY PipelineInductive, IInvShutdownComplete, PTL

\* The log pipeline implements BatchPipeline: each accepted record is exported once, in the
\* order of acceptance, in batches that are not larger than allowed.
THEOREM LogImplementsPipeline == PipeSpec => PipelineSpec
<1>1. Spec => Pipeline!Spec
  BY PipelineInit, NextRefines, ProcessorInductive, PTL DEF Spec, Pipeline!Spec
<1> QED
  BY <1>1, PipelineRunsProcessor, PTL DEF PipelineSpec

-----------------------------------------------------------------------------
(* The exporter inside the pipeline.                                       *)

\* Nobody has signalled or is about to connect.
Calm == token = 0 /\ bg \in {"select", "pause", "done", "gone"}

\* Who may be where: ExportLogs runs inside export, Shutdown on behalf of the stopper.
CallInv ==
    /\ exp # "call" => at[Worker] = "idle"
    /\ sd # "idle" => stopper \in {"exporter", "done"}

\* While the exporter counts as connected, and until a failure of its caller has been
\* signalled, the background goroutine keeps away from the connection.
SignalInv ==
    /\ lastErr = "nil" \/ at[Worker] = "signal" => Calm
    /\ at[Worker] \in {"lock", "export", "save"} => lastErr = "nil"
    /\ at[Worker] = "signal" => lastErr = "err"
    /\ bg \in {"dial", "check", "lock", "swap", "connected", "fail", "signal"} => token = 0

\* Until Shutdown closes it, the connection of a connected exporter is open.
OpenInv ==
    sd = "idle"
        => /\ lastErr = "nil" \/ bg = "connected" => conn \in open
           /\ bg \in {"check", "lock", "swap"} => dialed \in open /\ dialed # conn
           /\ at[Worker] = "export" => rpc[Worker] = conn

Connected == Exporter!OtlpTypeOK /\ CallInv /\ SignalInv /\ OpenInv

LEMMA ConnectedInit == PipeInit => Connected
BY DEF PipeInit, Init, Exporter!OtlpInit, Exporter!ConnInit, Connected, Exporter!OtlpTypeOK,
       Exporter!ConnTypeOK, Exporter!BgStates, CallInv, SignalInv, OpenInv, Calm

\* Shutdown of the exporter is called when the worker is gone, and ExportLogs returned.
LEMMA ShutdownAlone == IInv /\ Connected /\ sd # "idle" => at[Worker] = "idle"
BY DEF IInv, StopInv, Connected, CallInv

\* A step of the processor that is not about its exporter.
LEMMA OwnConnected ==
    ASSUME Connected, IInv, OwnStep, UNCHANGED expVars
    PROVE  Connected'
<1>1. /\ Exporter!OtlpTypeOK' /\ SignalInv' /\ OpenInv'
  BY DEF Connected, expVars, Exporter!OtlpTypeOK, Exporter!ConnTypeOK, SignalInv, OpenInv, Calm
<1>2. exp = "call" => exp' = "call"
  BY DEF OwnStep, Enqueue, Send, WorkerStep, WorkerStop, WorkerTimer, WorkerRecv,
         WorkerStopTimer, WorkerDrainTimer, ResetTimer, DrainRecv, DrainDefault, DrainClose,
         DrainEnd, WorkerExit, TimerFire, CloserStep, BeginShutdown, ShutdownAgain,
         ShutdownReturn, Cancel, StopperClose, StopperWait, At
<1>3. stopper \in {"exporter", "done"} => stopper' \in {"exporter", "done"}
  BY DEF IInv, StopInv, LogTypeOK, stopVars,
         OwnStep, Enqueue, Send, WorkerStep, WorkerStop, WorkerTimer, WorkerRecv,
         WorkerStopTimer, WorkerDrainTimer, ResetTimer, DrainRecv, DrainDefault, DrainClose,
         DrainEnd, WorkerExit, TimerFire, CloserStep, BeginShutdown, ShutdownAgain,
         ShutdownReturn, Cancel, StopperClose, StopperWait
<1>4. CallInv'
  BY <1>2, <1>3 DEF Connected, CallInv, expVars
<1> QED
  BY <1>1, <1>4 DEF Connected

\* The worker calls ExportLogs and gets its result.
LEMMA CallConnected ==
    ASSUME Connected, IInv, CallExporter \/ \E r \in {"ok", "err"} : ExporterReturns(r)
    PROVE  Connected'
<1> USE DEF Connected, Exporter!OtlpTypeOK, Exporter!ConnTypeOK, CallInv, SignalInv, OpenInv,
            Calm, Exporter!Goto, Exporter!connVars, Exporter!shutVars
<1>1. CASE CallExporter
  BY <1>1 DEF CallExporter, Exporter!ExportLogs, logVars, stopVars
<1>2. ASSUME NEW r \in {"ok", "err"}, ExporterReturns(r)
      PROVE  Connected'
  BY <1>2 DEF ExporterReturns, Exporter!Returned, ExportReturn, stopVars
<1> QED
  BY <1>1, <1>2

LEMMA SendConnected ==
    ASSUME Connected, Exporter!SendStep(Worker), UNCHANGED logVars
    PROVE  Connected'
<1> USE DEF Connected, Exporter!OtlpTypeOK, Exporter!ConnTypeOK, CallInv, SignalInv, OpenInv,
            Calm, Exporter!Goto, Exporter!connVars, Exporter!shutVars, logVars, stopVars
<1>1. CASE Exporter!LockSender(Worker)
  BY <1>1 DEF Exporter!LockSender
<1>2. CASE Exporter!Export(Worker)
  BY <1>2 DEF Exporter!Export
<1>3. CASE Exporter!ExportSave(Worker)
  BY <1>3 DEF Exporter!ExportSave, Exporter!SaveError
<1>4. CASE Exporter!ExportSignal(Worker)
  BY <1>4 DEF Exporter!ExportSignal, Exporter!Signal
<1> QED
  BY <1>1, <1>2, <1>3, <1>4 DEF Exporter!SendStep

\* The background goroutine, whatever is referred to.
LEMMA BackgroundConnected ==
    ASSUME Connected, Exporter!ConnectionStep, UNCHANGED logVars
    PROVE  Connected'
<1> USE DEF Connected, Exporter!OtlpTypeOK, Exporter!ConnTypeOK, Exporter!BgStates, CallInv,
            SignalInv, OpenInv, Calm, Exporter!exportVars, Exporter!shutVars, logVars, stopVars
<1>1. UNCHANGED <<at, rpc, sd, cc, exp, stopper>>
  BY DEF Exporter!ConnectionStep
<1>2. CASE Exporter!BgStop \/ Exporter!BgSignalled \/ Exporter!BgPaused
  BY <1>1, <1>2 DEF Exporter!BgStop, Exporter!BgSignalled, Exporter!BgPaused
<1>3. CASE Exporter!BgDial(Exporter!Referred)
  BY <1>1, <1>3 DEF Exporter!BgDial
<1>4. CASE Exporter!BgCheckStarted \/ Exporter!BgLock
  BY <1>1, <1>4 DEF Exporter!BgCheckStarted, Exporter!BgLock
<1>5. CASE Exporter!BgSwap(TRUE)
  BY <1>1, <1>5 DEF Exporter!BgSwap
<1>6. CASE Exporter!BgConnected
  BY <1>1, <1>6 DEF Exporter!BgConnected
<1>7. CASE Exporter!BgFailed \/ Exporter!BgSignal
  BY <1>1, <1>7 DEF Exporter!BgFailed, Exporter!BgSignal
<1> QED
  BY <1>2, <1>3, <1>4, <1>5, <1>6, <1>7 DEF Exporter!ConnectionStep, Exporter!BgStep

LEMMA ShutdownConnected ==
    ASSUME Connected, IInv,
           \/ CallShutdown \/ ShutdownReturned
           \/ Exporter!ShutdownStep(ctxEnded) /\ UNCHANGED logVars
    PROVE  Connected'
<1> USE DEF Connected, Exporter!OtlpTypeOK, Exporter!ConnTypeOK, Exporter!BgStates, CallInv,
            SignalInv, OpenInv, Calm, Exporter!exportVars, Exporter!connVars, logVars, stopVars
<1>1. CASE CallShutdown
  BY <1>1 DEF CallShutdown, Exporter!BeginShutdown
<1>2. CASE ShutdownReturned
  BY <1>2 DEF ShutdownReturned, StopperDone, expVars
<1>3. CASE Exporter!CloseConn /\ UNCHANGED logVars
  BY <1>3 DEF Exporter!CloseConn
<1>4. CASE (Exporter!MarkStopped \/ Exporter!CloseStop) /\ UNCHANGED logVars
  BY <1>4 DEF Exporter!MarkStopped, Exporter!CloseStop
<1>5. CASE Exporter!Join(ctxEnded) /\ UNCHANGED logVars
  BY <1>5 DEF Exporter!Join
<1> QED
  BY <1>1, <1>2, <1>3, <1>4, <1>5 DEF Exporter!ShutdownStep

LEMMA ConnectedNext == IInv /\ Connected /\ [PipeNext]_vars => Connected'
<1> SUFFICES ASSUME IInv, Connected, [PipeNext]_vars PROVE Connected'
  OBVIOUS
<1>1. CASE UNCHANGED vars
  BY <1>1 DEF vars, expVars, logVars, stopVars, Connected, Exporter!OtlpTypeOK,
              Exporter!ConnTypeOK, CallInv, SignalInv, OpenInv, Calm
<1>2. CASE PipeNext
  BY <1>2, OwnConnected, CallConnected, SendConnected, BackgroundConnected, ShutdownConnected
     DEF PipeNext, ExporterStep
<1> QED
  BY <1>1, <1>2

THEOREM ConnectedInductive == PipeSpec => []Connected
BY ConnectedInit, ConnectedNext, PipelineInductive, PTL DEF PipeSpec

\* Every variable of the processor and of its exporter has its type.
THEOREM LogPipelineTypeOK == PipeSpec => []TypeOK
<1>1. IInv /\ Connected => TypeOK
  BY DEF IInv, Connected, TypeOK
<1> QED
  BY <1>1, PipelineInductive, ConnectedInductive, PTL

\* The unlocked use of the connection by ExportLogs is safe: while the exporter counts as
\* connected the background goroutine has no signal and keeps away, and Shutdown is only
\* called when the worker, its one caller, has exited.
THEOREM UnlockedUseIsSafe == PipeSpec => []UnlockedUseSafe
<1>1. IInv /\ Connected => UnlockedUseSafe
  <2> SUFFICES ASSUME IInv, Connected PROVE UnlockedUseSafe
    OBVIOUS
  <2>1. at[Worker] # "idle" => sd = "idle"
    BY ShutdownAlone
  <2> QED
    BY <2>1 DEF Connected, SignalInv, OpenInv, Calm, UnlockedUseSafe
<1> QED
  BY <1>1, PipelineInductive, ConnectedInductive, PTL

LEMMA StuckNext ==
    ASSUME Connected, NeverStuckDisconnected, [PipeNext]_vars
    PROVE  NeverStuckDisconnected'
<1> USE DEF NeverStuckDisconnected, Connected, Exporter!OtlpTypeOK, Exporter!ConnTypeOK,
            Exporter!Goto, Exporter!connVars, Exporter!exportVars, expVars
<1>1. CASE UNCHANGED expVars
  BY <1>1
<1>2. CASE CallExporter \/ \E r \in {"ok", "err"} : ExporterReturns(r)
  BY <1>2 DEF CallExporter, Exporter!ExportLogs, ExporterReturns, Exporter!Returned
<1>3. CASE Exporter!SendStep(Worker)
  BY <1>3 DEF Exporter!SendStep, Exporter!LockSender, Exporter!Export, Exporter!ExportSave,
              Exporter!SaveError, Exporter!ExportSignal, Exporter!Signal
<1>4. CASE Exporter!ConnectionStep
  BY <1>4 DEF Exporter!ConnectionStep, Exporter!BgStep, Exporter!BgStop, Exporter!BgSignalled,
              Exporter!BgDial, Exporter!BgCheckStarted, Exporter!BgLock, Exporter!BgSwap,
              Exporter!BgConnected, Exporter!BgFailed, Exporter!BgSignal, Exporter!BgPaused
<1>5. CASE CallShutdown \/ Exporter!ShutdownStep(ctxEnded)
  BY <1>5 DEF CallShutdown, Exporter!BeginShutdown, Exporter!ShutdownStep, Exporter!CloseConn,
              Exporter!MarkStopped, Exporter!CloseStop, Exporter!Join
<1> QED
  BY <1>1, <1>2, <1>3, <1>4, <1>5 DEF PipeNext, ExporterStep, ShutdownReturned, vars

\* The signal of a failed export is never lost: the disconnected exporter has it pending, is
\* about to give it, or is in an attempt to connect that gives the next one when it fails.
THEOREM SignalNeverLost == PipeSpec => []NeverStuckDisconnected
<1>1. PipeInit => NeverStuckDisconnected
  BY DEF PipeInit, Exporter!OtlpInit, Exporter!ConnInit, NeverStuckDisconnected
<1> QED
  BY <1>1, StuckNext, ConnectedInductive, PTL DEF PipeSpec
=============================================================================
