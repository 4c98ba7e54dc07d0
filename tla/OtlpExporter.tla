----------------------------- MODULE OtlpExporter -----------------------------
(***************************************************************************)
(* The synchronous log exporter, exporter/otlp/exporter.go: ExportLogs     *)
(* sends over the connection that CollectorConnection (the same code in    *)
(* both exporters) keeps up.  Sends exclude one another by senderMu but    *)
(* not the swap of the connection: ExportLogs reads e.logExporter without  *)
(* e.mu, and Shutdown waits for nobody.                                    *)
(***************************************************************************)
EXTENDS CollectorConnection

CONSTANT Callers    \* the goroutines that call ExportLogs

VARIABLES
    at,    \* where each caller is inside ExportLogs, "ok" or "failed" at its end
    rpc,   \* the connection the RPC of each caller runs on
    sd,    \* where the Shutdown call is
    cc     \* the connection it has read

exportVars == <<at, rpc>>
shutVars == <<sd, cc>>
otlpVars == <<connVars, exportVars, shutVars>>

OtlpInit ==
    /\ ConnInit
    /\ at = [c \in Callers |-> "idle"] /\ rpc = [c \in Callers |-> NoConn]
    /\ sd = "idle" /\ cc = NoConn

Goto(c, l) == at' = [at EXCEPT ![c] = l]

-----------------------------------------------------------------------------
(* ExportLogs.                                                             *)

\* errDisconnected or errStopped is returned at once.
ExportLogs(c) ==
    /\ at[c] = "idle"
    /\ Goto(c, IF lastErr = "err" \/ stopCh = "closed" THEN "failed" ELSE "lock")
    /\ UNCHANGED <<connVars, rpc, shutVars>>

LockSender(c) ==
    /\ at[c] = "lock"
    /\ \A d \in Callers : at[d] # "export"
    /\ rpc' = [rpc EXCEPT ![c] = conn]
    /\ Goto(c, "export")
    /\ UNCHANGED <<connVars, shutVars>>

\* The RPC ends, retries included; stopCh cancels it.
Export(c) ==
    /\ at[c] = "export"
    /\ \E l \in {"ok", "save"} : Goto(c, l)
    /\ rpc' = [rpc EXCEPT ![c] = NoConn]
    /\ UNCHANGED <<connVars, shutVars>>

ExportSave(c) ==
    /\ at[c] = "save"
    /\ SaveError
    /\ Goto(c, "signal")
    /\ UNCHANGED <<rpc, shutVars>>

\* Mutant: the background goroutine is not woken.
ExportSignalForgotten(c) ==
    /\ at[c] = "signal"
    /\ Goto(c, "failed")
    /\ UNCHANGED <<connVars, rpc, shutVars>>

ExportSignal(c) ==
    /\ at[c] = "signal"
    /\ Signal
    /\ Goto(c, "failed")
    /\ UNCHANGED <<rpc, shutVars>>

\* ExportLogs returns to its caller.
Returned(c, r) ==
    /\ at[c] = IF r = "ok" THEN "ok" ELSE "failed"
    /\ Goto(c, "idle")
    /\ UNCHANGED <<connVars, rpc, shutVars>>

SendStep(c) == LockSender(c) \/ Export(c) \/ ExportSave(c) \/ ExportSignal(c)

Referred == {cc} \cup {rpc[c] : c \in Callers}
ConnectionStep == BgStep(TRUE, Referred) /\ UNCHANGED <<exportVars, shutVars>>

-----------------------------------------------------------------------------
(* Shutdown.                                                               *)

BeginShutdown ==
    /\ sd = "idle"
    /\ ~MuWanted
    /\ cc' = conn
    /\ sd' = "conn"
    /\ UNCHANGED <<connVars, exportVars>>

CloseConn ==
    /\ sd = "conn"
    /\ open' = open \ {cc}
    /\ sd' = "mark"
    /\ UNCHANGED <<started, stopCh, conn, lastErr, token, bg, dialed, exportVars, cc>>

MarkStopped ==
    /\ sd = "mark"
    /\ ~MuWanted
    /\ started' = "no"
    /\ sd' = "stop"
    /\ UNCHANGED <<stopCh, conn, open, lastErr, token, bg, dialed, exportVars, cc>>

CloseStop ==
    /\ sd = "stop"
    /\ stopCh' = "closed"
    /\ sd' = "join"
    /\ UNCHANGED <<started, conn, open, lastErr, token, bg, dialed, exportVars, cc>>

Join(ctxEnded) ==
    /\ sd = "join"
    /\ \/ bg = "done" /\ bg' = "gone"
       \/ ctxEnded /\ UNCHANGED bg
    /\ sd' = "returned"
    /\ UNCHANGED <<started, stopCh, conn, open, lastErr, token, dialed, exportVars, cc>>

ShutdownStep(ctxEnded) == CloseConn \/ MarkStopped \/ CloseStop \/ Join(ctxEnded)

OtlpTypeOK ==
    /\ ConnTypeOK
    /\ at \in [Callers -> {"idle", "lock", "export", "save", "signal", "ok", "failed"}]
    /\ rpc \in [Callers -> Conns \cup {NoConn}]
    /\ sd \in {"idle", "conn", "mark", "stop", "join", "returned"}
    /\ cc \in Conns \cup {NoConn}
=============================================================================
