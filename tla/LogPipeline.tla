----------------------------- MODULE LogPipeline -----------------------------
(***************************************************************************)
(* The log pipeline setupLog builds (opentelemetry.go:272-291): a          *)
(* LogBatchProcessor whose exporter is the OtlpExporter.  The worker of    *)
(* the processor is the only caller of ExportLogs and its stopper the only *)
(* caller of the exporter's Shutdown, with the context of the first        *)
(* Shutdown of the processor.                                              *)
(***************************************************************************)
EXTENDS LogBatchProcessor

CONSTANTS Conns, NoConn, Worker

VARIABLES started, expStopCh, conn, open, lastErr, token, bg, dialed, at, rpc, sd, cc

Exporter == INSTANCE OtlpExporter WITH stopCh <- expStopCh, Callers <- {Worker}

expVars == <<started, expStopCh, conn, open, lastErr, token, bg, dialed, at, rpc, sd, cc>>
vars == <<logVars, expVars>>

PipeInit == Init /\ Exporter!OtlpInit

\* The worker calls ExportLogs ...
CallExporter ==
    /\ exp = "call"
    /\ at[Worker] = "idle"
    /\ Exporter!ExportLogs(Worker)
    /\ UNCHANGED logVars

\* ... and goes on with its result.
ExporterReturns(r) == Exporter!Returned(Worker, r) /\ ExportReturn(r)

\* The stopper calls Shutdown; the context is the one of the call that runs.
CallShutdown ==
    /\ stopper = "exporter"
    /\ Exporter!BeginShutdown
    /\ UNCHANGED logVars

ShutdownReturned ==
    /\ sd = "returned"
    /\ StopperDone
    /\ UNCHANGED expVars

ctxEnded == ctxDone # {}

ExporterStep == /\ \/ Exporter!SendStep(Worker)
                   \/ Exporter!ConnectionStep
                   \/ Exporter!ShutdownStep(ctxEnded)
                /\ UNCHANGED logVars

PipeNext ==
    /\ ~Crashed
    /\ \/ OwnStep /\ UNCHANGED expVars
       \/ CallExporter
       \/ \E r \in {"ok", "err"} : ExporterReturns(r)
       \/ CallShutdown \/ ShutdownReturned
       \/ ExporterStep

PipeSpec == PipeInit /\ [][PipeNext]_vars

-----------------------------------------------------------------------------
(* Properties.                                                             *)

\* Both components are well typed.
TypeOK == LogTypeOK /\ Exporter!OtlpTypeOK

\* ExportLogs reads e.logExporter and uses its connection without e.mu
\* (exporter/otlp/exporter.go:135-147): with one caller this is safe, because nobody
\* swaps or closes a connection between the check of connected and the end of the RPC.
UnlockedUseSafe ==
    /\ at[Worker] \in {"lock", "export"} => bg \notin {"lock", "swap", "connected"}
    /\ at[Worker] = "export" => rpc[Worker] \in open

\* A failed export is never forgotten: the disconnected exporter has a signal pending,
\* about to be given, or is in an attempt that gives the next one.
NeverStuckDisconnected ==
    lastErr = "err"
        => \/ token = 1 \/ at[Worker] = "signal"
           \/ bg \in {"dial", "check", "lock", "swap", "connected", "fail", "signal",
                      "done", "gone"}
=============================================================================
