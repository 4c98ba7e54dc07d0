---------------------------- MODULE AsyncExporter ----------------------------
(***************************************************************************)
(* The concurrent log exporter, exporter/asyncexporter/exporter.go:        *)
(* ExportLogs puts a batch into a bounded Go channel, worker goroutines    *)
(* send the batches over the current connection, CollectorConnection       *)
(* replaces a connection that failed, Shutdown closes the channel, waits   *)
(* for the workers and stops the background goroutine.                     *)
(*                                                                         *)
(* A panic nobody recovers ends the process: Next requires ~Crashed.       *)
(***************************************************************************)
EXTENDS CollectorConnection, Sequences

CONSTANTS Batches,    \* the batches, one ExportLogs call each
          Workers,    \* the goroutines running exportBatches
          Closers,    \* the Shutdown calls
          Cancellable,\* those whose context may end
          QueueSize,  \* capacity of logsBatchCh; the code takes 2*concurrency
          NoBatch

ASSUME ExporterAssumption ==
    /\ QueueSize \in Nat \ {0}
    /\ Workers # {}
    /\ NoBatch \notin Batches
    /\ Cancellable \subseteq Closers

VARIABLES
    queue, qchan, sendq, \* logsBatchCh: buffer, "open" or "closed", parked ExportLogs calls
    call,                \* where each batch is, and what became of it
    at, hand,            \* where each worker is, and the batch it holds
    rpc,                 \* the connection the RPC of each worker runs on
    closer, cc,          \* the Shutdown calls and the connection each has read
    ctxDone              \* Shutdown calls whose context ended

queueVars == <<queue, qchan, sendq>>
workVars  == <<call, at, hand, rpc>>
stopVars  == <<closer, cc, ctxDone>>
vars == <<connVars, queueVars, workVars, stopVars>>

Init ==
    /\ ConnInit
    /\ queue = <<>> /\ qchan = "open" /\ sendq = <<>>
    /\ call = [b \in Batches |-> "idle"]
    /\ at = [w \in Workers |-> "recv"] /\ hand = [w \in Workers |-> NoBatch]
    /\ rpc = [w \in Workers |-> NoConn]
    /\ closer = [k \in Closers |-> "idle"] /\ cc = [k \in Closers |-> NoConn]
    /\ ctxDone = {}

\* ExportLogs recovers only a panic with a text Go never produces (124) and panics
\* again; Shutdown recovers nothing.
Crashed == \/ \E b \in Batches : call[b] = "panicked"
           \/ \E k \in Closers : closer[k] = "panicked"

-----------------------------------------------------------------------------
(* ExportLogs.                                                             *)

\* Mutant: a channel with one slot more.
HasRoomOneMore == Len(queue) <= QueueSize
HasRoom == Len(queue) < QueueSize

ExportLogs(b) ==
    /\ call[b] = "idle"
    /\ \/ /\ qchan = "closed"
          /\ call' = [call EXCEPT ![b] = "panicked"]
          /\ UNCHANGED <<queue, sendq>>
       \/ /\ qchan = "open" /\ HasRoom
          /\ queue' = Append(queue, b)
          /\ call' = [call EXCEPT ![b] = "queued"]
          /\ UNCHANGED sendq
       \/ /\ qchan = "open" /\ ~HasRoom
          /\ sendq' = Append(sendq, b)
          /\ call' = [call EXCEPT ![b] = "parked"]
          /\ UNCHANGED queue
    /\ UNCHANGED <<connVars, qchan, at, hand, rpc, stopVars>>

-----------------------------------------------------------------------------
(* exportBatches and exportLogsInternal, run by every worker.              *)

\* The batch of w ends as r; the worker goes on at l.
Settle(w, r) == call' = [call EXCEPT ![hand[w]] = r]
Goto(w, l) == at' = [at EXCEPT ![w] = l]
Release(w) == hand' = [hand EXCEPT ![w] = NoBatch] /\ Goto(w, "recv")

\* A receive from a full channel lets the first parked sender in.
WorkerRecv(w) ==
    /\ at[w] = "recv"
    /\ queue # <<>>
    /\ hand' = [hand EXCEPT ![w] = Head(queue)]
    /\ Goto(w, "check")
    /\ IF sendq = <<>>
       THEN /\ queue' = Tail(queue)
            /\ call' = [call EXCEPT ![Head(queue)] = "taken"]
            /\ UNCHANGED sendq
       ELSE /\ queue' = Append(Tail(queue), Head(sendq))
            /\ sendq' = Tail(sendq)
            /\ call' = [call EXCEPT ![Head(queue)] = "taken", ![Head(sendq)] = "queued"]
    /\ UNCHANGED <<connVars, qchan, rpc, stopVars>>

\* The channel is closed and empty: the range loop ends.
WorkerExit(w) ==
    /\ at[w] = "recv"
    /\ queue = <<>> /\ qchan = "closed"
    /\ Goto(w, "exited")
    /\ UNCHANGED <<connVars, queueVars, call, hand, rpc, stopVars>>

\* errDisconnected or errStopped: the batch is counted as failed and forgotten.
WorkerCheck(w) ==
    /\ at[w] = "check"
    /\ IF lastErr = "err" \/ stopCh = "closed"
       THEN Settle(w, "dropped") /\ Release(w)
       ELSE Goto(w, "lock") /\ UNCHANGED <<call, hand>>
    /\ UNCHANGED <<connVars, queueVars, rpc, stopVars>>

WorkerLock(w) ==
    /\ at[w] = "lock"
    /\ ~MuWanted
    /\ rpc' = [rpc EXCEPT ![w] = conn]
    /\ Goto(w, "export")
    /\ UNCHANGED <<connVars, queueVars, call, hand, stopVars>>

\* The RPC on the connection read under the lock ends, retries included.
WorkerExport(w) ==
    /\ at[w] = "export"
    /\ \/ Settle(w, "sent") /\ Release(w)
       \/ Settle(w, "failed") /\ Goto(w, "save") /\ UNCHANGED hand
    /\ rpc' = [rpc EXCEPT ![w] = NoConn]
    /\ UNCHANGED <<connVars, queueVars, stopVars>>

WorkerSave(w) ==
    /\ at[w] = "save"
    /\ SaveError
    /\ Goto(w, "signal")
    /\ UNCHANGED <<queueVars, call, hand, rpc, stopVars>>

\* Mutant: the background goroutine is not woken.
WorkerSignalForgotten(w) ==
    /\ at[w] = "signal"
    /\ Release(w)
    /\ UNCHANGED <<connVars, queueVars, call, rpc, stopVars>>

\* Mutant: a failed export ends the loop of the worker.
WorkerSignalReturns(w) ==
    /\ at[w] = "signal"
    /\ Signal
    /\ hand' = [hand EXCEPT ![w] = NoBatch]
    /\ Goto(w, "exited")
    /\ UNCHANGED <<queueVars, call, rpc, stopVars>>

WorkerSignal(w) ==
    /\ at[w] = "signal"
    /\ Signal
    /\ Release(w)
    /\ UNCHANGED <<queueVars, call, rpc, stopVars>>

WorkerStep(w) == \/ WorkerRecv(w) \/ WorkerExit(w) \/ WorkerCheck(w) \/ WorkerLock(w)
                 \/ WorkerExport(w) \/ WorkerSave(w) \/ WorkerSignal(w)

NoReader == \A w \in Workers : at[w] # "export"

Referred == {cc[k] : k \in Closers}

ConnectionStep == BgStep(NoReader, Referred) /\ UNCHANGED <<queueVars, workVars, stopVars>>

-----------------------------------------------------------------------------
(* Shutdown, one action per step another goroutine can see.                *)

CloserGoto(k, l) == closer' = [closer EXCEPT ![k] = l]

\* The state is read under RLock; an exporter that is not started has nothing to do.
BeginShutdown(k) ==
    /\ closer[k] = "idle"
    /\ ~MuWanted
    /\ cc' = [cc EXCEPT ![k] = conn]
    /\ CloserGoto(k, IF started = "yes" THEN "close" ELSE "nil")
    /\ UNCHANGED <<connVars, queueVars, workVars, ctxDone>>

\* Closing a closed channel panics; so do the senders parked on an open one.
CloseQueue(k) ==
    /\ closer[k] = "close"
    /\ \/ qchan = "closed" /\ CloserGoto(k, "panicked") /\ UNCHANGED <<qchan, sendq, call>>
       \/ /\ qchan = "open"
          /\ qchan' = "closed"
          /\ call' = [b \in Batches |-> IF call[b] = "parked" THEN "panicked" ELSE call[b]]
          /\ sendq' = <<>>
          /\ CloserGoto(k, "wait")
    /\ UNCHANGED <<connVars, queue, at, hand, rpc, cc, ctxDone>>

\* Mutant: the connection is closed at once.
NoWait(k) ==
    /\ closer[k] = "wait"
    /\ CloserGoto(k, "conn")
    /\ UNCHANGED <<connVars, queueVars, workVars, cc, ctxDone>>

WaitWorkers(k) ==
    /\ closer[k] = "wait"
    /\ \A w \in Workers : at[w] = "exited"
    /\ CloserGoto(k, "conn")
    /\ UNCHANGED <<connVars, queueVars, workVars, cc, ctxDone>>

\* The connection read at the start is closed; its error is only returned.
CloseConn(k) ==
    /\ closer[k] = "conn"
    /\ open' = open \ {cc[k]}
    /\ CloserGoto(k, "mark")
    /\ UNCHANGED <<started, stopCh, conn, lastErr, token, bg, dialed>>
    /\ UNCHANGED <<queueVars, workVars, cc, ctxDone>>

MarkStopped(k) ==
    /\ closer[k] = "mark"
    /\ ~MuWanted
    /\ started' = "no"
    /\ CloserGoto(k, "stop")
    /\ UNCHANGED <<stopCh, conn, open, lastErr, token, bg, dialed>>
    /\ UNCHANGED <<queueVars, workVars, cc, ctxDone>>

\* Mutant: stopCh is not closed.
CloseStopForgotten(k) ==
    /\ closer[k] = "stop"
    /\ CloserGoto(k, "join")
    /\ UNCHANGED <<connVars, queueVars, workVars, cc, ctxDone>>

CloseStop(k) ==
    /\ closer[k] = "stop"
    /\ stopCh' = "closed"
    /\ CloserGoto(k, "join")
    /\ UNCHANGED <<started, conn, open, lastErr, token, bg, dialed>>
    /\ UNCHANGED <<queueVars, workVars, cc, ctxDone>>

\* The background goroutine hands over its end on an unbuffered channel, or the
\* context ends and it keeps waiting.
Join(k) ==
    /\ closer[k] = "join"
    /\ \/ bg = "done" /\ bg' = "gone" /\ CloserGoto(k, "nil")
       \/ k \in ctxDone /\ CloserGoto(k, "err") /\ UNCHANGED bg
    /\ UNCHANGED <<started, stopCh, conn, open, lastErr, token, dialed>>
    /\ UNCHANGED <<queueVars, workVars, cc, ctxDone>>

Cancel(k) ==
    /\ k \in Cancellable \ ctxDone
    /\ closer[k] \notin {"idle", "nil", "err"}
    /\ ctxDone' = ctxDone \cup {k}
    /\ UNCHANGED <<connVars, queueVars, workVars, closer, cc>>

ShutdownStep(k) == \/ CloseQueue(k) \/ WaitWorkers(k) \/ CloseConn(k) \/ MarkStopped(k)
                   \/ CloseStop(k) \/ Join(k)

Next ==
    /\ ~Crashed
    /\ \/ \E b \in Batches : ExportLogs(b)
       \/ \E w \in Workers : WorkerStep(w)
       \/ ConnectionStep
       \/ \E k \in Closers : BeginShutdown(k) \/ ShutdownStep(k) \/ Cancel(k)

Spec == Init /\ [][Next]_vars

-----------------------------------------------------------------------------
(***************************************************************************)
(* Fairness.  Goroutines that can run do run; a channel serves its blocked *)
(* receivers in order and a sync.RWMutex lets the readers that waited for  *)
(* a writer in before the next one: strong fairness of WorkerRecv and      *)
(* WorkerLock.  A select picks one of its ready cases at random: strong    *)
(* fairness of the stopCh case of the background goroutine.  No deadline   *)
(* bounds the RPC of a worker (279, 164); that it ends is an assumption    *)
(* about the collector, without which Shutdown waits for ever.  No call    *)
(* has to be made.                                                         *)
(***************************************************************************)
Fairness ==
    /\ \A w \in Workers : /\ WF_vars(~Crashed /\ WorkerStep(w))
                          /\ SF_vars(~Crashed /\ WorkerRecv(w))
                          /\ SF_vars(~Crashed /\ WorkerLock(w))
    /\ WF_vars(~Crashed /\ ConnectionStep)
    /\ SF_vars(~Crashed /\ BgStop /\ UNCHANGED <<queueVars, workVars, stopVars>>)
    /\ \A k \in Closers : WF_vars(~Crashed /\ ShutdownStep(k))

FairSpec == Spec /\ Fairness

-----------------------------------------------------------------------------
(* Properties.                                                             *)

WorkerStates == {"recv", "check", "lock", "export", "save", "signal", "exited"}
CallStates == {"idle", "parked", "queued", "taken", "sent", "failed", "dropped", "panicked"}
CloserStates == {"idle", "close", "wait", "conn", "mark", "stop", "join", "nil", "err",
                 "panicked"}

\* Every variable has its type, the channel respects its capacity and a worker holds a
\* batch exactly while it handles one.
TypeOK ==
    /\ ConnTypeOK
    /\ queue \in Seq(Batches) /\ Len(queue) <= QueueSize
    /\ sendq \in Seq(Batches) /\ qchan \in {"open", "closed"}
    /\ call \in [Batches -> CallStates]
    /\ at \in [Workers -> WorkerStates]
    /\ hand \in [Workers -> Batches \cup {NoBatch}]
    /\ rpc \in [Workers -> Conns \cup {NoConn}]
    /\ \A w \in Workers : hand[w] = NoBatch <=> at[w] \in {"recv", "exited"}
    /\ closer \in [Closers -> CloserStates]
    /\ cc \in [Closers -> Conns \cup {NoConn}]
    /\ ctxDone \subseteq Closers

\* The connection an RPC started on stays open until the RPC has ended: the reconnect
\* waits for the readers, Shutdown for the workers (162-172, 254, 418-432).
InFlightConnOpen == \A w \in Workers : at[w] = "export" => rpc[w] \in open

\* An exporter that is disconnected is on its way to reconnect: a signal is pending,
\* about to be given, or the attempt that will give the next one is under way.  Since
\* the error is saved before the signal, no interleaving of a failing worker with a
\* finishing reconnect leaves it disconnected for good (347-353).
NeverStuckDisconnected ==
    lastErr = "err"
        => \/ token = 1
           \/ bg \in {"dial", "check", "lock", "swap", "connected", "fail", "signal",
                      "done", "gone"}
           \/ \E w \in Workers : at[w] = "signal"

\* Until Shutdown stops it the exporter never has more than the connection in use and
\* the one it is about to enable open, however often it reconnects (426-430).
NoConnectionLeak == started = "yes" => open \subseteq {conn, dialed}

\* Once Shutdown has waited for the workers every batch an ExportLogs call got into the
\* channel has been sent, has failed or was dropped while disconnected (253-254).
QueueSent ==
    (\E k \in Closers : closer[k] \in {"conn", "mark", "stop", "join"})
        => \A b \in Batches : call[b] \notin {"parked", "queued", "taken"}

\* A batch accepted by ExportLogs is sent, failed or dropped in the end, if the process
\* survives: no lock, reconnect or shutdown leaves it waiting.
BatchSettled ==
    \A b \in Batches :
        call[b] \in {"parked", "queued", "taken"}
            ~> call[b] \in {"sent", "failed", "dropped"} \/ Crashed

\* A disconnected exporter gets connected or tries to connect again, or is told to stop:
\* a failed attempt arms the next one (316-340).
Reattempted ==
    lastErr = "err" ~> lastErr = "nil" \/ bg = "dial" \/ stopCh = "closed" \/ Crashed

\* Shutdown returns, even if its context never ends.
ShutdownReturns ==
    \A k \in Closers : closer[k] = "close" ~> closer[k] \in {"nil", "err"} \/ Crashed

-----------------------------------------------------------------------------
(* What a comment says and the code does not do.                           *)

\* :239 "Shutdown closes all connections and releases resources currently being used by
\* the exporter": after the call that did it returned nil none is open.  Violated: the
\* background goroutine replaces the connection Shutdown has read (243) before stopCh
\* is closed (265), and nobody closes the new one.
ConnectionsClosed == (\E k \in Closers : closer[k] = "nil") => open = {}
=============================================================================
