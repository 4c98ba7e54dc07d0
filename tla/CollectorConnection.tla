------------------------- MODULE CollectorConnection -------------------------
(***************************************************************************)
(* The connection of a log exporter to the collector: the part that        *)
(* exporter/asyncexporter/exporter.go and exporter/otlp/exporter.go have   *)
(* in common (the lines mapped are the first one's).  A failed export      *)
(* saves the error and then signals disconnectedCh; the background         *)
(* goroutine takes the signal, dials, swaps the connection and clears the  *)
(* error, at most once per reconnection period.                            *)
(***************************************************************************)
EXTENDS Naturals

CONSTANTS Conns,   \* the gRPC connections; bounds how many are open at one time
          NoConn

ASSUME ConnAssumption == NoConn \notin Conns

VARIABLES
    started,   \* "yes" until Shutdown says "no"
    stopCh,    \* "open" or "closed"
    conn,      \* grpcClientConn
    open,      \* the connections dialed and not closed
    lastErr,   \* lastConnectErr: "nil" or "err"
    token,     \* what disconnectedCh holds, 0 or 1
    bg,        \* where indefiniteBackgroundConnection is
    dialed     \* the connection it is about to enable

connVars == <<started, stopCh, conn, open, lastErr, token, bg, dialed>>

\* After Start: the first attempt to connect succeeded or failed.
ConnInit ==
    /\ started = "yes" /\ stopCh = "open"
    /\ bg = "select" /\ dialed = NoConn
    /\ \/ \E c \in Conns : conn = c /\ open = {c} /\ lastErr = "nil" /\ token = 0
       \/ conn = NoConn /\ open = {} /\ lastErr = "err" /\ token = 1

\* setStateDisconnected is two steps: the error is saved, then the goroutine that
\* reconnects is woken unless it already will be.
SaveError == lastErr' = "err" /\ UNCHANGED <<started, stopCh, conn, open, token, bg, dialed>>
Signal == token' = 1 /\ UNCHANGED <<started, stopCh, conn, open, lastErr, bg, dialed>>

-----------------------------------------------------------------------------
(* indefiniteBackgroundConnection.                                         *)

BgStop ==
    /\ bg \in {"select", "pause"}
    /\ stopCh = "closed"
    /\ bg' = "done"
    /\ UNCHANGED <<started, stopCh, conn, open, lastErr, token, dialed>>

BgSignalled ==
    /\ bg = "select"
    /\ token = 1
    /\ token' = 0
    /\ bg' = "dial"
    /\ UNCHANGED <<started, stopCh, conn, open, lastErr, dialed>>

\* A dialed connection is none of those still open or referred to.
BgDial(referred) ==
    /\ bg = "dial"
    /\ \/ bg' = "fail" /\ UNCHANGED <<open, dialed>>
       \/ \E c \in Conns \ (open \cup {conn} \cup referred) :
              open' = open \cup {c} /\ dialed' = c /\ bg' = "check"
    /\ UNCHANGED <<started, stopCh, conn, lastErr, token>>

\* Mutant: the exporter counts as connected before the connection is enabled.
BgCheckConnected ==
    /\ bg = "check"
    /\ bg' = IF started = "yes" THEN "lock" ELSE "fail"
    /\ lastErr' = "nil"
    /\ UNCHANGED <<started, stopCh, conn, open, token, dialed>>

\* enableConnections reads started under RLock ...
BgCheckStarted ==
    /\ bg = "check"
    /\ bg' = IF started = "yes" THEN "lock" ELSE "fail"
    /\ UNCHANGED <<started, stopCh, conn, open, lastErr, token, dialed>>

\* ... and asks for the lock; from now on no reader gets it.
BgLock ==
    /\ bg = "lock"
    /\ bg' = "swap"
    /\ UNCHANGED <<started, stopCh, conn, open, lastErr, token, dialed>>

MuWanted == bg = "swap"

\* Mutant: the connection is swapped without the lock.
BgSwapUnlocked(noReader) ==
    /\ bg = "swap"
    /\ open' = open \ {conn}
    /\ conn' = dialed
    /\ dialed' = NoConn
    /\ bg' = "connected"
    /\ UNCHANGED <<started, stopCh, lastErr, token>>

\* Mutant: the old connection is not closed.
BgSwapKeepsOld(noReader) ==
    /\ bg = "swap"
    /\ noReader
    /\ conn' = dialed
    /\ dialed' = NoConn
    /\ bg' = "connected"
    /\ UNCHANGED <<started, stopCh, open, lastErr, token>>

\* With no reader left the old connection is closed and replaced.
BgSwap(noReader) ==
    /\ bg = "swap"
    /\ noReader
    /\ open' = open \ {conn}
    /\ conn' = dialed
    /\ dialed' = NoConn
    /\ bg' = "connected"
    /\ UNCHANGED <<started, stopCh, lastErr, token>>

BgConnected ==
    /\ bg = "connected"
    /\ lastErr' = "nil"
    /\ bg' = "pause"
    /\ UNCHANGED <<started, stopCh, conn, open, token, dialed>>

\* connect failed: setStateDisconnected again.  A connection that was dialed but not
\* enabled is forgotten without being closed.
BgFailed ==
    /\ bg = "fail"
    /\ lastErr' = "err"
    /\ dialed' = NoConn
    /\ bg' = "signal"
    /\ UNCHANGED <<started, stopCh, conn, open, token>>

\* Mutant: a failed attempt does not ask for another one.
BgSignalForgotten ==
    /\ bg = "signal"
    /\ bg' = "pause"
    /\ UNCHANGED <<started, stopCh, conn, open, lastErr, token, dialed>>

BgSignal ==
    /\ bg = "signal"
    /\ token' = 1
    /\ bg' = "pause"
    /\ UNCHANGED <<started, stopCh, conn, open, lastErr, dialed>>

\* The reconnection period and its jitter are over.
BgPaused ==
    /\ bg = "pause"
    /\ bg' = "select"
    /\ UNCHANGED <<started, stopCh, conn, open, lastErr, token, dialed>>

BgStep(noReader, referred) ==
    \/ BgStop \/ BgSignalled \/ BgDial(referred) \/ BgCheckStarted \/ BgLock \/ BgSwap(noReader)
    \/ BgConnected \/ BgFailed \/ BgSignal \/ BgPaused

-----------------------------------------------------------------------------

BgStates == {"select", "dial", "check", "lock", "swap", "connected", "fail", "signal",
             "pause", "done", "gone"}

ConnTypeOK ==
    /\ started \in {"yes", "no"} /\ stopCh \in {"open", "closed"}
    /\ conn \in Conns \cup {NoConn} /\ dialed \in Conns \cup {NoConn}
    /\ open \subseteq Conns
    /\ lastErr \in {"nil", "err"}
    /\ token \in 0 .. 1
    /\ bg \in BgStates
=============================================================================
