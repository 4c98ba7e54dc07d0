-------------------------- MODULE BatchWriteSyncer --------------------------
(***************************************************************************)
(* The zap batch writer, otelzap/writer.go. Goroutines that log call Write,*)
(* which filters an entry and puts its record into a bounded channel; one  *)
(* worker collects records into a batch and exports it when it is full or  *)
(* a timer fires. Sync exports the batch too, on its caller's goroutine    *)
(* and without a lock; zap calls it after every entry above error, and a   *)
(* fatal entry ends the process afterwards.                                *)
(*                                                                         *)
(* bp.batch is one array and a length: bp.batch[:0] forgets the length and *)
(* keeps the array, of which ExportLogs has been given a slice. The OTLP   *)
(* exporter reads that slice until its RPC is marshalled; the asynchronous *)
(* one returns at once and a worker of its own reads it later. Loads and   *)
(* stores of the length and the size are steps of their own.               *)
(*                                                                         *)
(* stopCh is never closed and there is no Shutdown: the goroutine stays in *)
(* processQueue, and drainQueue (440-458) is never reached.                *)
(***************************************************************************)
EXTENDS Naturals, Sequences, SequencesExt

CONSTANTS Entries,      \* the log entries, each written by a goroutine of its own
          Attr,         \* Attr[e]: its level, sampled field, size, and whether its IDs are valid
          Syncers,      \* other goroutines calling Sync, once each
          Worker,       \* the goroutine of NewBatchWriteSyncer
          NoEntry,
          AsyncQueueSize \* batches the asynchronous exporter queues

ASSUME BatchWriterAssumption ==
    /\ Worker \notin Entries \cup Syncers /\ Entries \cap Syncers = {} /\ NoEntry \notin Entries
    /\ \A e \in Entries : Attr[e].size \in Nat

VARIABLES
    opt, exporter,      \* BatchSyncerOptions; "otlp" or "async"
    queue,              \* bp.queue
    array, len, size,   \* the array and the length of bp.batch, bp.batchedSize
    timer, fired,       \* bp.timer, "armed" or "idle", and the ticks in timer.C, 0 or 1
    at, hand, local,    \* where each goroutine is; the worker's record; what it has loaded
    exports,            \* the slices given to ExportLogs and not yet marshalled, oldest first
    fate,               \* what became of each entry
    altered,            \* "yes" when a slice was marshalled with other records than it was given with
    exited              \* "yes" when a fatal entry has ended the process

batchVars == <<array, len, size>>
timerVars == <<timer, fired>>
procVars  == <<at, hand, local>>
outVars   == <<exports, altered>>
batchWriterVars == <<opt, exporter, queue, batchVars, timerVars, procVars, outVars, fate, exited>>

Procs == Entries \cup Syncers \cup {Worker}
Batch == SubSeq(array, 1, len)

\* NewBatchWriteSyncer. cap(bp.batch) is MaxExportBatchSize. The goroutines that will
\* use the writer are those in users.
NewBatchWriteSyncer(options, exp, users) ==
    /\ opt = options /\ exporter = exp
    /\ queue = <<>>
    /\ array = [i \in 1..options.MaxExportBatchSize |-> NoEntry] /\ len = 0 /\ size = 0
    /\ timer = "armed" /\ fired = 0
    /\ at = [p \in Procs |-> IF p = Worker THEN "select" ELSE IF p \in users THEN "idle" ELSE "absent"]
    /\ hand = NoEntry /\ local = 0
    /\ exports = <<>> /\ altered = "no"
    /\ fate = [e \in Entries |-> "none"]
    /\ exited = "no"

Goto(p, l) == at' = [at EXCEPT ![p] = l]

-----------------------------------------------------------------------------
(* Write and Enqueue.                                                      *)

levelGreaterThanError(l) == l \in {"error", "fatal"}

shouldKeep(e) == \/ ~opt.EnableSampler
                 \/ Attr[e].sampled
                 \/ opt.EnableSamplerError /\ levelGreaterThanError(Attr[e].level)

\* zap's ioCore calls Sync itself when the level is above error.
AfterWrite(e) == IF Attr[e].level = "fatal" THEN "reset" ELSE "done"

\* Write as far as the channel. A record whose IDs have a wrong length is left out.
Write(e) ==
    /\ at[e] = "idle"
    /\ IF shouldKeep(e) /\ Attr[e].valid
       THEN Goto(e, "enqueue") /\ UNCHANGED fate
       ELSE Goto(e, AfterWrite(e)) /\ fate' = [fate EXCEPT ![e] = "filtered"]
    /\ UNCHANGED <<opt, exporter, queue, batchVars, timerVars, hand, local, outVars, exited>>

\* A full channel drops the record unless the option is to wait for room.
Enqueue(e) ==
    /\ at[e] = "enqueue"
    /\ IF Len(queue) < opt.MaxQueueSize
       THEN queue' = Append(queue, e) /\ fate' = [fate EXCEPT ![e] = "queued"]
       ELSE ~opt.BlockOnQueueFull /\ fate' = [fate EXCEPT ![e] = "dropped"] /\ UNCHANGED queue
    /\ Goto(e, AfterWrite(e))
    /\ UNCHANGED <<opt, exporter, batchVars, timerVars, hand, local, outVars, exited>>

\* Sync: any other goroutine.
Sync(p) ==
    /\ at[p] = "idle" /\ p \in Syncers
    /\ Goto(p, "reset")
    /\ UNCHANGED <<opt, exporter, queue, batchVars, timerVars, hand, local, outVars, fate, exited>>

-----------------------------------------------------------------------------
(* processQueue.                                                           *)

\* Mutant: the tick is taken and nothing exported.
WorkerTimerIgnored ==
    /\ at[Worker] = "select" /\ fired = 1
    /\ fired' = 0
    /\ UNCHANGED <<opt, exporter, queue, batchVars, timer, procVars, outVars, fate, exited>>

WorkerTimer ==
    /\ at[Worker] = "select" /\ fired = 1
    /\ fired' = 0
    /\ Goto(Worker, "reset")
    /\ UNCHANGED <<opt, exporter, queue, batchVars, timer, hand, local, outVars, fate, exited>>

WorkerRecv ==
    /\ at[Worker] = "select" /\ queue # <<>>
    /\ hand' = Head(queue) /\ queue' = Tail(queue)
    /\ Goto(Worker, "load")
    /\ UNCHANGED <<opt, exporter, batchVars, timerVars, local, outVars, fate, exited>>

\* append: the length is read and the slot after it written, in a larger array if there
\* is none ...
AppendLoad ==
    /\ at[Worker] = "load"
    /\ local' = len
    /\ array' = IF len < Len(array) THEN [array EXCEPT ![len + 1] = hand] ELSE Append(array, hand)
    /\ Goto(Worker, "store")
    /\ UNCHANGED <<opt, exporter, queue, len, size, timerVars, hand, outVars, fate, exited>>

\* ... then the new length is stored, which undoes a truncation in between. The old
\* size is loaded for the addition.
AppendStore ==
    /\ at[Worker] = "store"
    /\ len' = local + 1
    /\ local' = size
    /\ fate' = [e \in Entries |->
                  IF fate[e] \in {"queued", "lost"} /\ \E i \in 1..len' : array[i] = e
                  THEN "batched" ELSE fate[e]]
    /\ Goto(Worker, "size")
    /\ UNCHANGED <<opt, exporter, queue, array, size, timerVars, hand, outVars, exited>>

AddSize ==
    /\ at[Worker] = "size"
    /\ size' = local + Attr[hand].size
    /\ hand' = NoEntry /\ local' = 0
    /\ Goto(Worker, "should")
    /\ UNCHANGED <<opt, exporter, queue, array, len, timerVars, outVars, fate, exited>>

\* Mutant: only the packet size is looked at.
sizeOnly == size >= opt.MaxPacketSize
shouldProcessInBatch == len = opt.MaxExportBatchSize \/ size >= opt.MaxPacketSize

ShouldProcess ==
    /\ at[Worker] = "should"
    /\ Goto(Worker, IF shouldProcessInBatch THEN "stop" ELSE "select")
    /\ UNCHANGED <<opt, exporter, queue, batchVars, timerVars, hand, local, outVars, fate, exited>>

StopTimer ==
    /\ at[Worker] = "stop"
    /\ timer' = "idle"
    /\ Goto(Worker, IF timer = "armed" THEN "reset" ELSE "drain")
    /\ UNCHANGED <<opt, exporter, queue, batchVars, fired, hand, local, outVars, fate, exited>>

DrainTimer ==
    /\ at[Worker] = "drain" /\ fired = 1
    /\ fired' = 0
    /\ Goto(Worker, "reset")
    /\ UNCHANGED <<opt, exporter, queue, batchVars, timer, hand, local, outVars, fate, exited>>

\* time.Timer: an expired timer sends unless the channel still holds a tick.
TimerFire ==
    /\ timer = "armed"
    /\ timer' = "idle" /\ fired' = 1
    /\ UNCHANGED <<opt, exporter, queue, batchVars, procVars, outVars, fate, exited>>

-----------------------------------------------------------------------------
(* export, run by the worker and by every goroutine in Sync.               *)

\* Where export returns to. A fatal entry ends the process.
AfterExport(p) == IF p = Worker THEN "select" ELSE "done"
Return(p) ==
    /\ Goto(p, AfterExport(p))
    /\ exited' = IF p \in Entries THEN "yes" ELSE exited

\* Mutant: the timer is not set again.
ResetForgotten(p) ==
    /\ at[p] = "reset"
    /\ Goto(p, "check")
    /\ UNCHANGED <<opt, exporter, queue, batchVars, timerVars, hand, local, outVars, fate, exited>>

ResetTimer(p) ==
    /\ at[p] = "reset"
    /\ timer' = "armed"
    /\ Goto(p, "check")
    /\ UNCHANGED <<opt, exporter, queue, batchVars, fired, hand, local, outVars, fate, exited>>

CheckEmpty(p) ==
    /\ at[p] = "check"
    /\ IF len > 0 THEN Goto(p, "call") /\ UNCHANGED exited ELSE Return(p)
    /\ UNCHANGED <<opt, exporter, queue, batchVars, timerVars, hand, local, outVars, fate>>

\* ExportLogs is given the slice bp.batch as it is now. A full queue of the
\* asynchronous exporter holds its caller.
CallExport(p) ==
    /\ at[p] = "call"
    /\ exporter = "async" => Len(exports) < AsyncQueueSize
    /\ exports' = Append(exports, [by |-> p, given |-> Batch])
    /\ fate' = [e \in Entries |-> IF e \notin ToSet(Batch) THEN fate[e]
                                  ELSE IF fate[e] = "handed" THEN "twice" ELSE "handed"]
    /\ Goto(p, IF exporter = "async" THEN "truncate" ELSE "rpc")
    /\ UNCHANGED <<opt, exporter, queue, batchVars, timerVars, hand, local, altered, exited>>

\* The slice of call i is read when the RPC is marshalled.
Marshal(i) ==
    /\ exports' = RemoveAt(exports, i)
    /\ altered' = IF SubSeq(array, 1, Len(exports[i].given)) = exports[i].given THEN altered ELSE "yes"

\* Mutant: the RPC runs on a goroutine of its own.
OtlpExportBeside(p) ==
    /\ \/ /\ at[p] = "rpc"
          /\ Goto(p, "truncate") /\ UNCHANGED outVars
       \/ /\ at[p] # "rpc"
          /\ \E i \in DOMAIN exports : exports[i].by = p /\ Marshal(i)
          /\ UNCHANGED at
    /\ UNCHANGED <<opt, exporter, queue, batchVars, timerVars, hand, local, fate, exited>>

\* ExportLogs of the OTLP exporter: the RPC is made by the calling goroutine.
OtlpExport(p) ==
    /\ at[p] = "rpc"
    /\ \E i \in DOMAIN exports : exports[i].by = p /\ Marshal(i)
    /\ Goto(p, "truncate")
    /\ UNCHANGED <<opt, exporter, queue, batchVars, timerVars, hand, local, fate, exited>>

\* A worker of the asynchronous exporter sends the first call queued.
AsyncExport ==
    /\ exporter = "async" /\ exports # <<>>
    /\ Marshal(1)
    /\ UNCHANGED <<opt, exporter, queue, batchVars, timerVars, procVars, fate, exited>>

\* Mutant: the batch is kept after the export.
TruncateForgotten(p) ==
    /\ at[p] = "truncate"
    /\ Goto(p, "zero")
    /\ UNCHANGED <<opt, exporter, queue, batchVars, timerVars, hand, local, outVars, fate, exited>>

\* bp.batch = bp.batch[:0]: what was appended after ExportLogs was called is forgotten.
Truncate(p) ==
    /\ at[p] = "truncate"
    /\ len' = 0
    /\ fate' = [e \in Entries |-> IF fate[e] = "batched" THEN "lost" ELSE fate[e]]
    /\ Goto(p, "zero")
    /\ UNCHANGED <<opt, exporter, queue, array, size, timerVars, hand, local, outVars, exited>>

ZeroSize(p) ==
    /\ at[p] = "zero"
    /\ size' = 0
    /\ Return(p)
    /\ UNCHANGED <<opt, exporter, queue, array, len, timerVars, hand, local, outVars, fate>>

export(p) == ResetTimer(p) \/ CheckEmpty(p) \/ CallExport(p) \/ OtlpExport(p) \/ Truncate(p)
             \/ ZeroSize(p)

-----------------------------------------------------------------------------
processQueue == \/ WorkerTimer \/ WorkerRecv \/ AppendLoad \/ AppendStore \/ AddSize
                \/ ShouldProcess \/ StopTimer \/ DrainTimer

\* The process that has exited takes no step.
BatchWriterNext ==
    /\ exited = "no"
    /\ \/ processQueue \/ TimerFire \/ AsyncExport
       \/ \E e \in Entries : Write(e) \/ Enqueue(e)
       \/ \E p \in Syncers : Sync(p)
       \/ \E p \in Procs : export(p)

\* A Go program runs its runnable goroutines; a select with two ready cases takes each
\* now and then; timers expire and RPCs end.
BatchWriterFairness ==
    LET A(act) == exited = "no" /\ act IN
    /\ SF_batchWriterVars(A(WorkerTimer)) /\ SF_batchWriterVars(A(WorkerRecv))
    /\ WF_batchWriterVars(A(AppendLoad \/ AppendStore \/ AddSize \/ ShouldProcess
                            \/ StopTimer \/ DrainTimer))
    /\ WF_batchWriterVars(A(TimerFire)) /\ WF_batchWriterVars(A(AsyncExport))
    /\ \A p \in Procs : WF_batchWriterVars(A(export(p)))

-----------------------------------------------------------------------------
(* Properties.                                                             *)

BatchWriterTypeOK ==
    /\ queue \in Seq(Entries) /\ Len(queue) <= opt.MaxQueueSize
    /\ array \in [1..opt.MaxExportBatchSize -> Entries \cup {NoEntry}]
    /\ len \in 0..opt.MaxExportBatchSize /\ size \in Nat
    /\ timer \in {"armed", "idle"} /\ fired \in {0, 1}
    /\ at \in [Procs -> {"absent", "idle", "enqueue", "done", "select", "load", "store", "size", "should",
                         "stop", "drain", "reset", "check", "call", "rpc", "truncate", "zero"}]
    /\ hand \in Entries \cup {NoEntry} /\ local \in Nat
    /\ fate \in [Entries -> {"none", "filtered", "dropped", "queued", "batched", "handed", "twice", "lost"}]
    /\ altered \in {"yes", "no"} /\ exited \in {"yes", "no"}

\* Whatever Syncs run beside it, the worker that found the timer expired finds the tick
\* in timer.C and never waits for one that does not come, and whenever it waits for
\* work the timer will wake it (writer.go:409, 410, 419).
WorkerWakesUp ==
    /\ at[Worker] = "drain" => fired = 1
    /\ at[Worker] = "select" => timer = "armed" \/ fired = 1

\* Only a Sync beside the worker loses a record or exports it twice: as long as none
\* has been called, a record the worker has taken is in the batch or in exactly one
\* call of ExportLogs (writer.go:405, 429).
Synced == \/ \E p \in Procs \ {Worker} : at[p] \in {"reset", "check", "call", "rpc", "truncate", "zero"}
          \/ \E p \in Syncers : at[p] = "done"
OnlySyncLoses ==
    Synced \/ exited = "yes" \/ \A e \in Entries : fate[e] \notin {"lost", "twice"}

\* What reaches the collector is what was handed over, with the OTLP exporter and no
\* Sync. Either of the two lets the array change under a call: the asynchronous exporter
\* keeps the slice while the worker refills it, a second export overlaps the first
\* (writer.go:425, 429).
DeliveredIntact ==
    altered = "yes" => exporter = "async" \/ Synced \/ exited = "yes"

\* A record the channel accepted is handed to the exporter without Shutdown or Sync,
\* unless a Sync loses it or the process exits first (writer.go:394-416).
RecordSettled ==
    \A e \in Entries : fate[e] = "queued" ~> fate[e] \in {"handed", "twice", "lost"} \/ exited = "yes"
=============================================================================
