--------------------------- MODULE LogBatchProcessor ---------------------------
(***************************************************************************)
(* The batch processor of the log SDK, sdk/log/batch_processor.go: Enqueue *)
(* puts log records into a bounded Go channel and drops them when it is    *)
(* full, one worker goroutine batches and exports them, Shutdown closes    *)
(* stopCh and the worker drains and closes the channel.  Unlike the trace  *)
(* processor nobody else touches the batch, and nothing recovers the panic *)
(* of a send on the closed channel: it ends the process.                   *)
(*                                                                         *)
(* The exporter is abstract here: ExportLogs and Shutdown return when they *)
(* like.  LogPipeline puts the OTLP exporter in their place.               *)
(***************************************************************************)
EXTENDS Naturals, Sequences, SequencesExt

CONSTANTS Logs,               \* the log records, one Enqueue call each
          Closers,            \* the Shutdown calls
          Cancellable,        \* those whose context may end
          DefaultMaxQueueSize, DefaultMaxExportBatchSize, DefaultMaxBatchedPacketSize,
          LogSize             \* calcLogSize of each record

ASSUME LogAssumption ==
    /\ DefaultMaxQueueSize \in Nat \ {0}
    /\ DefaultMaxExportBatchSize \in Nat \ {0}
    /\ DefaultMaxBatchedPacketSize \in Nat \ {0}
    /\ LogSize \in [Logs -> Nat]
    /\ Cancellable \subseteq Closers

VARIABLES
    queue, chan,         \* the channel: its buffer, and "open" or "closed"
    call,                \* where each Enqueue is, and how it ended
    stopCh,              \* "open" or "closed"
    batch, batchedSize,
    timer, tick,         \* "running" or "stopped"; the ticks its channel holds
    worker, exp,         \* where the worker goroutine is, and where inside export
    once, closer,        \* stopOnce and the Shutdown calls
    ctxDone,             \* those whose context ended
    stopper,             \* the goroutine of the first of them
    exported             \* history: everything passed to ExportLogs, in order

chanVars  == <<queue, chan, call>>
batchVars == <<batch, batchedSize, exported>>
timerVars == <<timer, tick>>
stopVars  == <<stopCh, once, closer, ctxDone, stopper>>
logVars == <<chanVars, batchVars, timerVars, stopVars, worker, exp>>

Init ==
    /\ queue = <<>> /\ chan = "open"
    /\ call = [l \in Logs |-> "idle"]
    /\ stopCh = "open"
    /\ batch = <<>> /\ batchedSize = 0 /\ exported = <<>>
    /\ timer = "running" /\ tick = 0
    /\ worker = "select" /\ exp = "idle"
    /\ once = "free" /\ closer = [k \in Closers |-> "idle"] /\ ctxDone = {} /\ stopper = "none"

Crashed == \E l \in Logs : call[l] = "panicked"

-----------------------------------------------------------------------------
(* Enqueue; DefaultBlockOnQueueFull is the constant false.                 *)

\* Mutant: a channel with one slot more.
HasRoomOneMore == Len(queue) <= DefaultMaxQueueSize
HasRoom == Len(queue) < DefaultMaxQueueSize

Enqueue(l) ==
    /\ call[l] = "idle"
    /\ call' = [call EXCEPT ![l] = IF stopCh = "closed" THEN "stopped" ELSE "sending"]
    /\ UNCHANGED <<queue, chan, batchVars, timerVars, stopVars, worker, exp>>

Send(l) ==
    /\ call[l] = "sending"
    /\ \/ /\ chan = "closed"
          /\ call' = [call EXCEPT ![l] = "panicked"]
          /\ UNCHANGED queue
       \/ /\ chan = "open" /\ HasRoom
          /\ queue' = Append(queue, l)
          /\ call' = [call EXCEPT ![l] = "sent"]
       \/ /\ chan = "open" /\ ~HasRoom
          /\ call' = [call EXCEPT ![l] = "dropped"]
          /\ UNCHANGED queue
    /\ UNCHANGED <<chan, batchVars, timerVars, stopVars, worker, exp>>

-----------------------------------------------------------------------------
(* processQueue and export; the worker is at a step of its own when exp is *)
(* "idle".                                                                 *)

At(l) == worker = l /\ exp = "idle"
CallExport == exp' = "reset"

WorkerStop ==
    /\ At("select")
    /\ stopCh = "closed"
    /\ worker' = "drain"
    /\ timer' = "stopped"
    /\ UNCHANGED <<chanVars, batchVars, tick, stopVars, exp>>

WorkerTimer ==
    /\ At("select")
    /\ tick = 1
    /\ tick' = 0
    /\ CallExport
    /\ UNCHANGED <<chanVars, batchVars, timer, stopVars, worker>>

shouldProcessInBatch == \/ Len(batch') = DefaultMaxExportBatchSize
                        \/ batchedSize' >= DefaultMaxBatchedPacketSize

WorkerRecv ==
    /\ At("select")
    /\ queue # <<>>
    /\ queue' = Tail(queue)
    /\ batch' = Append(batch, Head(queue))
    /\ batchedSize' = batchedSize + LogSize[Head(queue)]
    /\ worker' = IF shouldProcessInBatch THEN "stopTimer" ELSE "select"
    /\ UNCHANGED <<chan, call, exported, timerVars, stopVars, exp>>

\* timer.Stop reports whether it stopped a running timer; if not, a tick is awaited.
WorkerStopTimer ==
    /\ At("stopTimer")
    /\ timer' = "stopped"
    /\ IF timer = "running"
       THEN worker' = "select" /\ CallExport
       ELSE worker' = "drainTimer" /\ UNCHANGED exp
    /\ UNCHANGED <<chanVars, batchVars, tick, stopVars>>

WorkerDrainTimer ==
    /\ At("drainTimer")
    /\ tick = 1
    /\ tick' = 0
    /\ worker' = "select"
    /\ CallExport
    /\ UNCHANGED <<chanVars, batchVars, timer, stopVars>>

\* export: the timer is reset, and the exporter is called unless the batch is empty.
ResetTimer ==
    /\ exp = "reset"
    /\ timer' = "running"
    /\ exp' = IF batch = <<>> THEN "idle" ELSE "call"
    /\ UNCHANGED <<chanVars, batchVars, tick, stopVars, worker>>

\* Mutant: the batch is emptied only when the export succeeded.
ExportReturnKeepFailed(r) ==
    /\ exp = "call"
    /\ exported' = exported \o batch
    /\ batch' = IF r = "ok" THEN <<>> ELSE batch
    /\ batchedSize' = 0
    /\ exp' = "idle"
    /\ UNCHANGED <<chanVars, timerVars, stopVars, worker>>

\* ExportLogs returns; with or without an error the batch is emptied.
ExportReturn(r) ==
    /\ exp = "call"
    /\ exported' = exported \o batch
    /\ batch' = <<>>
    /\ batchedSize' = 0
    /\ exp' = "idle"
    /\ UNCHANGED <<chanVars, timerVars, stopVars, worker>>

-----------------------------------------------------------------------------
(* drainQueue.                                                             *)

DrainRecv ==
    /\ At("drain")
    /\ queue # <<>>
    /\ queue' = Tail(queue)
    /\ batch' = Append(batch, Head(queue))
    /\ IF Len(batch') = DefaultMaxExportBatchSize THEN CallExport ELSE UNCHANGED exp
    /\ UNCHANGED <<chan, call, batchedSize, exported, timerVars, stopVars, worker>>

\* Nothing to receive: the default case is chosen ...
DrainDefault ==
    /\ At("drain")
    /\ queue = <<>> /\ chan = "open"
    /\ worker' = "closing"
    /\ UNCHANGED <<chanVars, batchVars, timerVars, stopVars, exp>>

\* ... and closes the channel, which may have been filled again.
DrainClose ==
    /\ At("closing")
    /\ chan' = "closed"
    /\ worker' = "drain"
    /\ UNCHANGED <<queue, call, batchVars, timerVars, stopVars, exp>>

\* Mutant: the last batch is forgotten.
DrainEndNoExport ==
    /\ At("drain")
    /\ queue = <<>> /\ chan = "closed"
    /\ worker' = "last"
    /\ UNCHANGED <<chanVars, batchVars, timerVars, stopVars, exp>>

\* A nil from the closed and empty channel: the last batch is exported.
DrainEnd ==
    /\ At("drain")
    /\ queue = <<>> /\ chan = "closed"
    /\ worker' = "last"
    /\ CallExport
    /\ UNCHANGED <<chanVars, batchVars, timerVars, stopVars>>

WorkerExit ==
    /\ At("last")
    /\ worker' = "exited"
    /\ UNCHANGED <<chanVars, batchVars, timerVars, stopVars, exp>>

TimerFire ==
    /\ timer = "running"
    /\ timer' = "stopped"
    /\ tick' = 1
    /\ UNCHANGED <<chanVars, batchVars, stopVars, worker, exp>>

-----------------------------------------------------------------------------
(* Shutdown.  stopOnce makes later calls wait for the first and return nil. *)

BeginShutdown(k) ==
    /\ closer[k] = "idle"
    /\ once = "free"
    /\ once' = "running"
    /\ closer' = [closer EXCEPT ![k] = "waiting"]
    /\ stopper' = "close"
    /\ UNCHANGED <<chanVars, batchVars, timerVars, stopCh, ctxDone, worker, exp>>

ShutdownAgain(k) ==
    /\ closer[k] = "idle"
    /\ once = "done"
    /\ closer' = [closer EXCEPT ![k] = "again"]
    /\ UNCHANGED <<chanVars, batchVars, timerVars, stopCh, once, ctxDone, stopper, worker, exp>>

StopperClose ==
    /\ stopper = "close"
    /\ stopCh' = "closed"
    /\ stopper' = "wait"
    /\ UNCHANGED <<chanVars, batchVars, timerVars, once, closer, ctxDone, worker, exp>>

\* stopWait.Wait returned: the exporter is shut down ...
StopperWait ==
    /\ stopper = "wait"
    /\ worker = "exited"
    /\ stopper' = "exporter"
    /\ UNCHANGED <<chanVars, batchVars, timerVars, stopCh, once, closer, ctxDone, worker, exp>>

\* ... and when that has returned, with or without an error, wait is closed.
StopperDone ==
    /\ stopper = "exporter"
    /\ stopper' = "done"
    /\ UNCHANGED <<chanVars, batchVars, timerVars, stopCh, once, closer, ctxDone, worker, exp>>

ShutdownReturn(k, r) ==
    /\ closer[k] = "waiting"
    /\ \/ r = "nil" /\ stopper = "done"
       \/ r = "err" /\ k \in ctxDone
    /\ closer' = [closer EXCEPT ![k] = r]
    /\ once' = "done"
    /\ UNCHANGED <<chanVars, batchVars, timerVars, stopCh, ctxDone, stopper, worker, exp>>

Cancel(k) ==
    /\ k \in Cancellable \ ctxDone
    /\ closer[k] = "waiting"
    /\ ctxDone' = ctxDone \cup {k}
    /\ UNCHANGED <<chanVars, batchVars, timerVars, stopCh, once, closer, stopper, worker, exp>>

-----------------------------------------------------------------------------

\* The steps of the processor that do not concern its exporter.
WorkerStep == \/ WorkerStop \/ WorkerTimer \/ WorkerRecv \/ WorkerStopTimer
              \/ WorkerDrainTimer \/ ResetTimer \/ DrainRecv \/ DrainDefault
              \/ DrainClose \/ DrainEnd \/ WorkerExit

CloserStep(k) == BeginShutdown(k) \/ ShutdownAgain(k) \/ \E r \in {"nil", "err"} : ShutdownReturn(k, r)

OwnStep == \/ \E l \in Logs : Enqueue(l) \/ Send(l)
           \/ WorkerStep \/ TimerFire
           \/ \E k \in Closers : CloserStep(k) \/ Cancel(k)
           \/ StopperClose \/ StopperWait

Next == /\ ~Crashed
        /\ \/ OwnStep
           \/ \E r \in {"ok", "err"} : ExportReturn(r)
           \/ StopperDone

Spec == Init /\ [][Next]_logVars

-----------------------------------------------------------------------------
(* Properties.                                                             *)

\* Every variable of the processor has its type and the channel respects its capacity.
LogTypeOK ==
    /\ queue \in Seq(Logs) /\ Len(queue) <= DefaultMaxQueueSize
    /\ batch \in Seq(Logs) /\ exported \in Seq(Logs) /\ batchedSize \in Nat
    /\ chan \in {"open", "closed"} /\ stopCh \in {"open", "closed"}
    /\ call \in [Logs -> {"idle", "sending", "sent", "dropped", "stopped", "panicked"}]
    /\ timer \in {"running", "stopped"} /\ tick \in 0 .. 1
    /\ worker \in {"select", "stopTimer", "drainTimer", "drain", "closing", "last", "exited"}
    /\ exp \in {"idle", "reset", "call"}
    /\ once \in {"free", "running", "done"}
    /\ closer \in [Closers -> {"idle", "waiting", "again", "nil", "err"}]
    /\ ctxDone \subseteq Closers
    /\ stopper \in {"none", "close", "wait", "exporter", "done"}

\* The Shutdown call that ran and returned nil leaves no accepted record behind, and
\* none gets in afterwards, although an Enqueue may be between its check and its send.
ShutdownComplete ==
    (\E k \in Closers : closer[k] = "nil")
        => \A l \in Logs : call[l] = "sent" => l \in ToSet(exported)

\* The processor implements the pipeline: no accepted record is lost, duplicated or
\* overtaken, in batches of at most DefaultMaxExportBatchSize.
Pipeline == INSTANCE BatchPipeline
    WITH Item <- Logs, MaxBatch <- DefaultMaxExportBatchSize, pending <- batch \o queue,
         delivered <- exported, closed <- worker = "exited"
PipelineSpec == Pipeline!Spec

\* opentelemetry.go:450 "Shutdown report all data before process exit": when the process
\* ends every record Enqueue has accepted has been passed to the exporter.  Violated: an
\* Enqueue that checked stopCh before Shutdown panics on the channel drainQueue closed,
\* while accepted records are still in the queue or the batch.
ReportedBeforeExit ==
    Crashed => \A l \in Logs : call[l] = "sent" => l \in ToSet(exported)
=============================================================================
