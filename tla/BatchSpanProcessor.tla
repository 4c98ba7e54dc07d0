-------------------------- MODULE BatchSpanProcessor --------------------------
(***************************************************************************)
(* The trace batch processor, sdk/trace/batch_span_processor.go: OnEnd and *)
(* ForceFlush put spans and flush markers into a bounded Go channel, one   *)
(* worker goroutine moves them into a batch and exports it, a timer bounds *)
(* how long a batch is built, Shutdown closes stopCh and the worker drains *)
(* and closes the channel.  Every operation between two points where the   *)
(* goroutines can be interleaved is one action.                            *)
(*                                                                         *)
(* A channel is its buffer plus the FIFO of parked senders the Go runtime  *)
(* keeps: a receive from a full buffer moves the first parked item in.     *)
(***************************************************************************)
EXTENDS Naturals, Sequences, SequencesExt

CONSTANTS Spans,              \* the spans that end, one OnEnd call each
          Flushers,           \* the ForceFlush calls; a flush marker is named by its caller
          Closers,            \* the Shutdown calls
          Cancellable,        \* the calls of both kinds whose context may end
          MaxQueueSize, MaxExportBatchSize, MaxPacketSize,
          BlockOnQueueFull,
          SpanSize,           \* calcSpanSize of each span
          Worker,             \* the goroutine of NewBatchSpanProcessor
          None

ASSUME SizeAssumption ==
    /\ MaxQueueSize \in Nat \ {0}
    /\ MaxExportBatchSize \in Nat \ {0}
    /\ MaxPacketSize \in Nat \ {0}
    /\ SpanSize \in [Spans -> Nat]
    /\ BlockOnQueueFull \in BOOLEAN

ASSUME NamesAssumption ==
    /\ Spans \cap Flushers = {}
    /\ Worker \notin Flushers
    /\ None \notin Spans \cup Flushers
    /\ Cancellable \subseteq Flushers \cup Closers

Items == Spans \cup Flushers
Exporters == Flushers \cup {Worker}

VARIABLES
    queue, chan, sendq,    \* the channel: buffer, "open" or "closed", items of parked senders
    stopCh,                \* "open" or "closed"
    batch, batchedSize,
    hand,                  \* the item the worker received and has not yet handled
    timer, tick,           \* "running" or "stopped"; the ticks its channel holds
    worker,                \* where the worker goroutine is
    exp,                   \* where each goroutine is inside exportSpans
    call,                  \* where each enqueue is, and how it ended
    flush, flushed,        \* where each ForceFlush is; markers whose channel is closed
    ctxDone,               \* ForceFlush and Shutdown calls whose context ended
    once, closer, stopper, \* stopOnce, the Shutdown calls, the goroutine of the first one
    exporter,              \* "up", or "down" once its Shutdown was called
    exported,              \* history: everything passed to ExportSpans, in order
    snapshot               \* history: spans accepted when ForceFlush was called

chanVars  == <<queue, chan, sendq, call>>
batchVars == <<batch, batchedSize, exported>>
timerVars == <<timer, tick>>
flushVars == <<flush, flushed, snapshot>>
stopVars  == <<stopCh, once, closer, stopper, exporter>>
vars == <<chanVars, batchVars, timerVars, flushVars, stopVars,
          hand, worker, exp, ctxDone>>

Init ==
    /\ queue = <<>> /\ chan = "open" /\ sendq = <<>>
    /\ stopCh = "open"
    /\ batch = <<>> /\ batchedSize = 0 /\ hand = None
    /\ timer = "running" /\ tick = 0
    /\ worker = "select"
    /\ exp = [p \in Exporters |-> "idle"]
    /\ call = [i \in Items |-> "idle"]
    /\ flush = [f \in Flushers |-> "idle"] /\ flushed = {}
    /\ ctxDone = {}
    /\ once = "free" /\ closer = [k \in Closers |-> "idle"] /\ stopper = "none"
    /\ exporter = "up"
    /\ exported = <<>> /\ snapshot = [f \in Flushers |-> {}]

-----------------------------------------------------------------------------
(* enqueueBlockOnQueueFull, run by OnEnd and by ForceFlush.                *)

Blocking(i) == i \in Flushers \/ BlockOnQueueFull
\* Mutant: a channel with one slot more.
HasRoomOneMore == Len(queue) <= MaxQueueSize
HasRoom == Len(queue) < MaxQueueSize

\* The check of stopCh.  ForceFlush starts here too.
Enqueue(i) ==
    /\ call[i] = "idle"
    /\ call' = [call EXCEPT ![i] = IF stopCh = "closed" THEN "stopped" ELSE "sending"]
    /\ IF i \in Flushers
       THEN /\ flush' = [flush EXCEPT ![i] = "enqueue"]
            /\ snapshot' = [snapshot EXCEPT ![i] = {s \in Spans : call[s] = "sent"}]
       ELSE UNCHANGED <<flush, snapshot>>
    /\ UNCHANGED <<queue, chan, sendq, batchVars, timerVars, flushed, stopVars,
                   hand, worker, exp, ctxDone>>

\* The send: the deferred recover swallows the panic of a closed channel.
Send(i) ==
    /\ call[i] = "sending"
    /\ \/ /\ chan = "closed"
          /\ call' = [call EXCEPT ![i] = "recovered"]
          /\ UNCHANGED <<queue, sendq>>
       \/ /\ chan = "open" /\ HasRoom
          /\ queue' = Append(queue, i)
          /\ call' = [call EXCEPT ![i] = "sent"]
          /\ UNCHANGED sendq
       \/ /\ chan = "open" /\ ~HasRoom /\ Blocking(i)
          /\ sendq' = Append(sendq, i)
          /\ call' = [call EXCEPT ![i] = "parked"]
          /\ UNCHANGED queue
       \/ /\ chan = "open" /\ ~HasRoom /\ ~Blocking(i)
          /\ call' = [call EXCEPT ![i] = "dropped"]
          /\ UNCHANGED <<queue, sendq>>
    /\ UNCHANGED <<chan, batchVars, timerVars, flushVars, stopVars,
                   hand, worker, exp, ctxDone>>

\* ctx.Done wins the select of the send; OnEnd passes context.TODO.
CancelSend(f) ==
    /\ f \in ctxDone
    /\ call[f] \in {"sending", "parked"}
    /\ call' = [call EXCEPT ![f] = "cancelled"]
    /\ IF call[f] = "parked"
       THEN \E n \in 1 .. Len(sendq) : sendq[n] = f /\ sendq' = RemoveAt(sendq, n)
       ELSE UNCHANGED sendq
    /\ UNCHANGED <<queue, chan, batchVars, timerVars, flushVars, stopVars,
                   hand, worker, exp, ctxDone>>

\* What a receive does to the channel.
Receive ==
    /\ queue # <<>>
    /\ hand' = Head(queue)
    /\ IF sendq = <<>>
       THEN queue' = Tail(queue) /\ UNCHANGED <<sendq, call>>
       ELSE /\ queue' = Append(Tail(queue), Head(sendq))
            /\ sendq' = Tail(sendq)
            /\ call' = [call EXCEPT ![Head(sendq)] = "sent"]
    /\ UNCHANGED chan

-----------------------------------------------------------------------------
(* exportSpans, run by the worker and by the goroutine of a ForceFlush.    *)

\* The goroutine holding batchMutex across ExportSpans; every other critical
\* section is one action.
MutexFree == \A p \in Exporters : exp[p] # "export"

\* exportSpans returns: the worker goes on, ForceFlush's goroutine sends the result.
Finish(p, r) == exp' = [exp EXCEPT ![p] = IF p = Worker THEN "idle" ELSE r]

\* Mutant: the timer is not reset.
ResetTimerForgotten(p) ==
    /\ exp[p] = "reset"
    /\ exp' = [exp EXCEPT ![p] = "lock"]
    /\ UNCHANGED <<chanVars, batchVars, timerVars, flushVars, stopVars, hand, worker, ctxDone>>

ResetTimer(p) ==
    /\ exp[p] = "reset"
    /\ timer' = "running"
    /\ exp' = [exp EXCEPT ![p] = "lock"]
    /\ UNCHANGED <<chanVars, batchVars, tick, flushVars, stopVars, hand, worker, ctxDone>>

LockBatch(p) ==
    /\ exp[p] = "lock"
    /\ MutexFree
    /\ IF batch = <<>> THEN Finish(p, "ok") ELSE exp' = [exp EXCEPT ![p] = "export"]
    /\ UNCHANGED <<chanVars, batchVars, timerVars, flushVars, stopVars, hand, worker, ctxDone>>

\* Mutant: a batch whose export failed is kept.
ExportReturnKeepFailed(p, r) ==
    /\ exp[p] = "export"
    /\ exported' = exported \o batch
    /\ batch' = IF r = "ok" THEN <<>> ELSE batch
    /\ batchedSize' = 0
    /\ Finish(p, r)
    /\ UNCHANGED <<chanVars, timerVars, flushVars, stopVars, hand, worker, ctxDone>>

\* ExportSpans returns, with or without an error: the batch is emptied either way.
ExportReturn(p, r) ==
    /\ exp[p] = "export"
    /\ exported' = exported \o batch
    /\ batch' = <<>>
    /\ batchedSize' = 0
    /\ Finish(p, r)
    /\ UNCHANGED <<chanVars, timerVars, flushVars, stopVars, hand, worker, ctxDone>>

-----------------------------------------------------------------------------
(* processQueue.  The worker is at a step of its own when exp[Worker] is   *)
(* "idle"; Go's select picks any of its ready cases.                       *)

At(l) == worker = l /\ exp[Worker] = "idle"
CallExport == exp' = [exp EXCEPT ![Worker] = "reset"]

\* Mutant: the queue is not drained.
WorkerStopNoDrain ==
    /\ At("select")
    /\ stopCh = "closed"
    /\ worker' = "last"
    /\ timer' = "stopped"
    /\ UNCHANGED <<chanVars, batchVars, tick, flushVars, stopVars, hand, exp, ctxDone>>

\* stopCh is closed; the deferred timer.Stop runs.
WorkerStop ==
    /\ At("select")
    /\ stopCh = "closed"
    /\ worker' = "drain"
    /\ timer' = "stopped"
    /\ UNCHANGED <<chanVars, batchVars, tick, flushVars, stopVars, hand, exp, ctxDone>>

WorkerTimer ==
    /\ At("select")
    /\ tick = 1
    /\ tick' = 0
    /\ CallExport
    /\ UNCHANGED <<chanVars, batchVars, timer, flushVars, stopVars, hand, worker, ctxDone>>

WorkerRecv ==
    /\ At("select")
    /\ Receive
    /\ worker' = "handle"
    /\ UNCHANGED <<batchVars, timerVars, flushVars, stopVars, exp, ctxDone>>

\* Mutant: the caller is not woken.
WorkerFlushForgotten ==
    /\ At("handle")
    /\ hand \in Flushers
    /\ hand' = None
    /\ worker' = "select"
    /\ UNCHANGED <<chanVars, batchVars, timerVars, flushVars, stopVars, exp, ctxDone>>

\* The item is a flush marker: its caller is woken.
WorkerFlush ==
    /\ At("handle")
    /\ hand \in Flushers
    /\ flushed' = flushed \cup {hand}
    /\ hand' = None
    /\ worker' = "select"
    /\ UNCHANGED <<chanVars, batchVars, timerVars, flush, snapshot, stopVars, exp, ctxDone>>

\* Mutant: a batch is due one span and one byte late.
shouldProcessLate == \/ Len(batch') > MaxExportBatchSize
                     \/ batchedSize' > MaxPacketSize

shouldProcessInBatch == \/ Len(batch') = MaxExportBatchSize
                        \/ batchedSize' >= MaxPacketSize

WorkerAppend ==
    /\ At("handle")
    /\ hand \in Spans
    /\ MutexFree
    /\ batch' = Append(batch, hand)
    /\ batchedSize' = batchedSize + SpanSize[hand]
    /\ hand' = None
    /\ worker' = IF shouldProcessInBatch THEN "stopTimer" ELSE "select"
    /\ UNCHANGED <<chanVars, exported, timerVars, flushVars, stopVars, exp, ctxDone>>

\* timer.Stop reports whether it stopped a running timer; if not, a tick is awaited.
WorkerStopTimer ==
    /\ At("stopTimer")
    /\ timer' = "stopped"
    /\ IF timer = "running"
       THEN worker' = "select" /\ CallExport
       ELSE worker' = "drainTimer" /\ UNCHANGED exp
    /\ UNCHANGED <<chanVars, batchVars, tick, flushVars, stopVars, hand, ctxDone>>

WorkerDrainTimer ==
    /\ At("drainTimer")
    /\ tick = 1
    /\ tick' = 0
    /\ worker' = "select"
    /\ CallExport
    /\ UNCHANGED <<chanVars, batchVars, timer, flushVars, stopVars, hand, ctxDone>>

-----------------------------------------------------------------------------
(* drainQueue.                                                             *)

DrainRecv ==
    /\ At("drain")
    /\ Receive
    /\ worker' = "drainAppend"
    /\ UNCHANGED <<batchVars, timerVars, flushVars, stopVars, exp, ctxDone>>

\* Whatever was received goes into the batch, without its size.
DrainAppend ==
    /\ At("drainAppend")
    /\ MutexFree
    /\ batch' = Append(batch, hand)
    /\ hand' = None
    /\ worker' = "drain"
    /\ IF Len(batch') = MaxExportBatchSize THEN CallExport ELSE UNCHANGED exp
    /\ UNCHANGED <<chanVars, batchedSize, exported, timerVars, flushVars, stopVars, ctxDone>>

\* Nothing to receive: the default case is chosen ...
DrainDefault ==
    /\ At("drain")
    /\ queue = <<>> /\ chan = "open"
    /\ worker' = "closing"
    /\ UNCHANGED <<chanVars, batchVars, timerVars, flushVars, stopVars, hand, exp, ctxDone>>

\* Mutant: the channel is not closed.
DrainCloseForgotten ==
    /\ At("closing")
    /\ worker' = "drain"
    /\ UNCHANGED <<chanVars, batchVars, timerVars, flushVars, stopVars, hand, exp, ctxDone>>

\* ... and closes the channel, which may have been filled again; the senders
\* parked on it panic and recover.
DrainClose ==
    /\ At("closing")
    /\ chan' = "closed"
    /\ call' = [i \in Items |-> IF call[i] = "parked" THEN "recovered" ELSE call[i]]
    /\ sendq' = <<>>
    /\ worker' = "drain"
    /\ UNCHANGED <<queue, batchVars, timerVars, flushVars, stopVars, hand, exp, ctxDone>>

\* Mutant: the last batch is forgotten.
DrainEndNoExport ==
    /\ At("drain")
    /\ queue = <<>> /\ chan = "closed"
    /\ worker' = "last"
    /\ UNCHANGED <<chanVars, batchVars, timerVars, flushVars, stopVars, hand, exp, ctxDone>>

\* A nil from the closed and empty channel: the last batch is exported.
DrainEnd ==
    /\ At("drain")
    /\ queue = <<>> /\ chan = "closed"
    /\ worker' = "last"
    /\ CallExport
    /\ UNCHANGED <<chanVars, batchVars, timerVars, flushVars, stopVars, hand, ctxDone>>

WorkerExit ==
    /\ At("last")
    /\ worker' = "exited"
    /\ UNCHANGED <<chanVars, batchVars, timerVars, flushVars, stopVars, hand, exp, ctxDone>>

\* The runtime's timer: the tick is lost when the channel already holds one.
TimerFire ==
    /\ timer = "running"
    /\ timer' = "stopped"
    /\ tick' = 1
    /\ UNCHANGED <<chanVars, batchVars, flushVars, stopVars, hand, worker, exp, ctxDone>>

-----------------------------------------------------------------------------
(* ForceFlush after the enqueue.                                           *)

StartCollect(f) ==
    /\ flush' = [flush EXCEPT ![f] = "collect"]
    /\ exp' = [exp EXCEPT ![f] = "reset"]

\* Mutant: the marker is not awaited.
FlushNoWait(f) ==
    /\ flush[f] = "enqueue"
    /\ call[f] \in {"sent", "stopped", "recovered", "cancelled"}
    /\ StartCollect(f)
    /\ UNCHANGED <<chanVars, batchVars, timerVars, flushed, snapshot, stopVars,
                   hand, worker, ctxDone>>

FlushEnqueued(f) ==
    /\ flush[f] = "enqueue"
    /\ \/ call[f] = "sent" /\ f \in flushed
       \/ call[f] \in {"stopped", "recovered", "cancelled"}
    /\ StartCollect(f)
    /\ UNCHANGED <<chanVars, batchVars, timerVars, flushed, snapshot, stopVars,
                   hand, worker, ctxDone>>

FlushReturn(f, r) ==
    /\ \/ r = "nil" /\ flush[f] = "collect" /\ exp[f] = "ok"
       \/ r = "err" /\ flush[f] = "collect" /\ exp[f] = "err"
       \/ r = "err" /\ flush[f] = "collect" /\ f \in ctxDone
       \/ r = "err" /\ flush[f] = "enqueue" /\ call[f] = "sent" /\ f \in ctxDone
    /\ flush' = [flush EXCEPT ![f] = r]
    /\ UNCHANGED <<chanVars, batchVars, timerVars, flushed, snapshot, stopVars,
                   hand, worker, exp, ctxDone>>

\* The context of a running call ends.  One that had ended before the call ends at
\* its start, one that ends after the return has no effect.
Cancel(c) ==
    /\ c \in Cancellable \ ctxDone
    /\ \/ c \in Flushers /\ flush[c] \in {"enqueue", "collect"}
       \/ c \in Closers /\ closer[c] = "waiting"
    /\ ctxDone' = ctxDone \cup {c}
    /\ UNCHANGED <<chanVars, batchVars, timerVars, flushVars, stopVars, hand, worker, exp>>

-----------------------------------------------------------------------------
(* Shutdown.  stopOnce makes later calls wait for the first and return nil. *)

BeginShutdown(k) ==
    /\ closer[k] = "idle"
    /\ once = "free"
    /\ once' = "running"
    /\ closer' = [closer EXCEPT ![k] = "waiting"]
    /\ stopper' = "close"
    /\ UNCHANGED <<chanVars, batchVars, timerVars, flushVars, stopCh, exporter,
                   hand, worker, exp, ctxDone>>

ShutdownAgain(k) ==
    /\ closer[k] = "idle"
    /\ once = "done"
    /\ closer' = [closer EXCEPT ![k] = "again"]
    /\ UNCHANGED <<chanVars, batchVars, timerVars, flushVars, stopCh, once, stopper,
                   exporter, hand, worker, exp, ctxDone>>

StopperClose ==
    /\ stopper = "close"
    /\ stopCh' = "closed"
    /\ stopper' = "wait"
    /\ UNCHANGED <<chanVars, batchVars, timerVars, flushVars, once, closer, exporter,
                   hand, worker, exp, ctxDone>>

\* Mutant: the worker is not awaited.
StopperNoWait == stopCh = "closed"
StopperExited == worker = "exited"

\* stopWait.Wait returned: the exporter is shut down and wait is closed.
StopperWait ==
    /\ stopper = "wait"
    /\ StopperExited
    /\ exporter' = "down"
    /\ stopper' = "done"
    /\ UNCHANGED <<chanVars, batchVars, timerVars, flushVars, stopCh, once, closer,
                   hand, worker, exp, ctxDone>>

ShutdownReturn(k, r) ==
    /\ closer[k] = "waiting"
    /\ \/ r = "nil" /\ stopper = "done"
       \/ r = "err" /\ k \in ctxDone
    /\ closer' = [closer EXCEPT ![k] = r]
    /\ once' = "done"
    /\ UNCHANGED <<chanVars, batchVars, timerVars, flushVars, stopCh, stopper,
                   exporter, hand, worker, exp, ctxDone>>

-----------------------------------------------------------------------------

ExportStep(p) == \/ ResetTimer(p) \/ LockBatch(p)
                 \/ \E r \in {"ok", "err"} : ExportReturn(p, r)

WorkerStep == \/ WorkerStop \/ WorkerTimer \/ WorkerRecv \/ WorkerFlush
              \/ WorkerAppend \/ WorkerStopTimer \/ WorkerDrainTimer
              \/ DrainRecv \/ DrainAppend \/ DrainDefault \/ DrainClose
              \/ DrainEnd \/ WorkerExit

FlusherStep(f) == CancelSend(f) \/ FlushEnqueued(f) \/ \E r \in {"nil", "err"} : FlushReturn(f, r)

CloserStep(k) == BeginShutdown(k) \/ ShutdownAgain(k) \/ \E r \in {"nil", "err"} : ShutdownReturn(k, r)

Next ==
    \/ \E i \in Items : Enqueue(i) \/ Send(i)
    \/ \E f \in Flushers : FlusherStep(f)
    \/ \E p \in Exporters : ExportStep(p)
    \/ WorkerStep
    \/ TimerFire
    \/ \E k \in Closers : CloserStep(k)
    \/ StopperClose \/ StopperWait
    \/ \E c \in Cancellable : Cancel(c)

Spec == Init /\ [][Next]_vars

-----------------------------------------------------------------------------
(***************************************************************************)
(* Fairness.  A goroutine that can run eventually runs (the Go scheduler is *)
(* preemptive): weak fairness of every step of a goroutine that has         *)
(* started.  An export returns because ExportTimeout bounds its context.    *)
(* A select with several ready cases picks one uniformly at random, so a    *)
(* case that is ready again and again is taken: strong fairness of the      *)
(* cases of the worker's select.  A sync.Mutex in starvation mode is handed *)
(* to its first waiter: strong fairness of the lock.  No call has to be     *)
(* made and no context has to end.                                          *)
(***************************************************************************)
Fairness ==
    /\ SF_vars(WorkerStop) /\ SF_vars(WorkerTimer) /\ SF_vars(WorkerRecv)
    /\ SF_vars(WorkerAppend) /\ SF_vars(DrainAppend)
    /\ WF_vars(WorkerStep) /\ WF_vars(TimerFire)
    /\ \A p \in Exporters : WF_vars(ExportStep(p)) /\ SF_vars(LockBatch(p))
    /\ \A i \in Items : WF_vars(Send(i))
    /\ \A f \in Flushers : WF_vars(FlusherStep(f))
    /\ \A k \in Closers : WF_vars(\E r \in {"nil", "err"} : ShutdownReturn(k, r))
    /\ WF_vars(StopperClose \/ StopperWait)

FairSpec == Spec /\ Fairness
-----------------------------------------------------------------------------
(* Properties.                                                             *)

CallStates == {"idle", "sending", "parked", "sent", "dropped", "stopped",
               "recovered", "cancelled"}
WorkerStates == {"select", "handle", "stopTimer", "drainTimer", "drain",
                 "drainAppend", "closing", "last", "exited"}

\* Every variable has its type, the channel never holds more than its capacity, and
\* the worker has an item in hand exactly between a receive and its handling.
TypeOK ==
    /\ queue \in Seq(Items) /\ Len(queue) <= MaxQueueSize
    /\ sendq \in Seq(Items) /\ batch \in Seq(Items) /\ exported \in Seq(Items)
    /\ chan \in {"open", "closed"} /\ stopCh \in {"open", "closed"}
    /\ exporter \in {"up", "down"}
    /\ timer \in {"running", "stopped"} /\ tick \in 0 .. 1
    /\ batchedSize \in Nat
    /\ hand \in Items \cup {None}
    /\ worker \in WorkerStates
    /\ hand # None <=> worker \in {"handle", "drainAppend"}
    /\ exp \in [Exporters -> {"idle", "reset", "lock", "export", "ok", "err"}]
    /\ call \in [Items -> CallStates]
    /\ flush \in [Flushers -> {"idle", "enqueue", "collect", "nil", "err"}]
    /\ flushed \subseteq Flushers
    /\ snapshot \in [Flushers -> SUBSET Spans]
    /\ ctxDone \subseteq Flushers \cup Closers
    /\ once \in {"free", "running", "done"}
    /\ closer \in [Closers -> {"idle", "waiting", "again", "nil", "err"}]
    /\ stopper \in {"none", "close", "wait", "done"}

\* While the worker waits in select a tick is in the channel or on its way, and the
\* receive after a failed timer.Stop (331-333) never waits for a tick that cannot
\* come, whichever ForceFlush resets the timer in between.
TimerArmed ==
    /\ worker \in {"select", "handle", "stopTimer"} /\ exp[Worker] # "reset"
         => timer = "running" \/ tick = 1
    /\ worker = "drainTimer" => tick = 1

\* A batch never exceeds MaxExportBatchSize although shouldProcessInBatch compares
\* with =, and the worker never goes back to select with a batch that is due.
BatchBounded ==
    /\ Len(batch) <= MaxExportBatchSize
    /\ At("select") => Len(batch) < MaxExportBatchSize /\ batchedSize < MaxPacketSize

\* After the exporter's Shutdown no export is running or can still find anything
\* to export, also not by the goroutine of a ForceFlush that returned long ago.
NoExportAfterShutdown ==
    exporter = "down" => batch = <<>> /\ MutexFree

\* A ForceFlush whose marker went through the queue and that returned nil has
\* exported every span accepted before it was called, whatever Shutdown, timeouts
\* and exports of the worker did meanwhile.
FlushComplete ==
    \A f \in Flushers : flush[f] = "nil" /\ call[f] = "sent"
                            => snapshot[f] \subseteq ToSet(exported)

\* The Shutdown call that ran and returned nil leaves no accepted span behind, and
\* none is accepted afterwards.
ShutdownComplete ==
    (\E k \in Closers : closer[k] = "nil")
        => \A s \in Spans : /\ call[s] = "sent" => s \in ToSet(exported)
                            /\ call[s] # "parked"

\* The spans inside the processor, in the order they were accepted.
OnlySpans(seq) ==
    LET kept[n \in 0 .. Len(seq)] ==
            IF n = 0 THEN <<>>
            ELSE IF seq[n] \in Spans THEN Append(kept[n - 1], seq[n]) ELSE kept[n - 1]
    IN  kept[Len(seq)]
Inside == OnlySpans(batch \o (IF hand = None THEN <<>> ELSE <<hand>>) \o queue)

\* The processor implements the pipeline: no accepted span is lost, duplicated or
\* overtaken between OnEnd and ExportSpans, in batches of at most MaxExportBatchSize.
Pipeline == INSTANCE BatchPipeline
    WITH Item <- Spans, MaxBatch <- MaxExportBatchSize, pending <- Inside,
         delivered <- OnlySpans(exported), closed <- worker = "exited"
PipelineSpec == Pipeline!Spec

\* Every accepted span is exported in the end, with or without Shutdown: by size,
\* by the timer or by the drain.
EventuallyExported ==
    \A s \in Spans : call[s] = "sent" ~> s \in ToSet(exported)

\* OnEnd returns, also when it waits for room while the processor shuts down.
OnEndReturns ==
    \A s \in Spans : call[s] \in {"sending", "parked"} ~> call[s] \notin {"sending", "parked"}

\* Shutdown returns: the worker notices stopCh, drains and exits.
ShutdownReturns ==
    \A k \in Closers : closer[k] = "waiting" ~> closer[k] \in {"nil", "err"}

\* A ForceFlush that is not overtaken by Shutdown returns.
ForceFlushReturns ==
    \A f \in Flushers : flush[f] = "enqueue" ~> flush[f] \in {"nil", "err"} \/ stopCh = "closed"

-----------------------------------------------------------------------------
(* What the comments say and the code does not do.                         *)

\* :342 "drainQueue awaits any caller that had added to bsp.stopWait to finish the
\* enqueue, then exports the final batch": a caller that passed the check of stopCh
\* gets its span into the queue or dropped.  Violated: nobody adds to stopWait, the
\* channel is closed under a caller and the span is neither exported nor counted.
DrainAwaitsCallers == \A s \in Spans : call[s] # "recovered"

\* :205 "Processed any items in queue prior to ForceFlush being called": the worker
\* closes the channel of every marker it takes out of the queue, so the call returns.
\* Violated: drainQueue takes the marker for a span, and a ForceFlush without a
\* deadline that was overtaken by Shutdown waits for ever.
FlushAlwaysReturns ==
    \A f \in Flushers : flush[f] = "enqueue" ~> flush[f] \in {"nil", "err"}
=============================================================================
