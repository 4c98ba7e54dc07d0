------------------------- MODULE AsyncExporterProofs -------------------------
(***************************************************************************)
(* Proofs about AsyncExporter for every number of batches, workers,        *)
(* Shutdown calls and connections and every capacity of the channel.  The  *)
(* inductive invariant IInv adds to the properties what makes them         *)
(* inductive: where the dialed connection can be (DialInv), that the       *)
(* current one is open while a worker can still use it (CurrentInv), the   *)
(* order in which the exporter is taken down (ExitInv) and where every     *)
(* batch is (PlaceInv).                                                    *)
(***************************************************************************)
EXTENDS AsyncExporter, TLAPS, SequenceTheorems

USE ConnAssumption, ExporterAssumption DEF ConnAssumption, ExporterAssumption

Late == {"conn", "mark", "stop", "join"}

\* The connection being enabled is open, nobody else's, and is forgotten only once the
\* exporter is stopped; nothing else is open until then.
DialInv ==
    /\ bg \in {"check", "lock", "swap"}
         => dialed \in open /\ dialed # conn /\ dialed \notin Referred
    /\ bg \notin {"check", "lock", "swap", "fail"} => dialed = NoConn
    /\ bg = "fail" /\ dialed # NoConn => started = "no"
    /\ started = "yes" => open \subseteq {conn, dialed}

\* Without a connection no worker gets past its check; with one it is open until every
\* worker has exited.
CurrentInv ==
    /\ conn = NoConn => /\ lastErr = "err" /\ bg # "connected"
                        /\ \A w \in Workers : at[w] \in {"recv", "check", "exited"}
    /\ (\E w \in Workers : at[w] # "exited") => conn = NoConn \/ conn \in open
    /\ \A w \in Workers : at[w] = "export" => rpc[w] = conn

\* The workers exit from a closed and empty channel, Shutdown goes on after the last one.
ExitInv ==
    /\ \A w \in Workers : at[w] = "exited" => qchan = "closed" /\ queue = <<>>
    /\ qchan = "closed" => sendq = <<>>
    /\ \A k \in Closers : closer[k] = "wait" => qchan = "closed"
    /\ \A k \in Closers : closer[k] \in Late => /\ qchan = "closed" /\ queue = <<>>
                                                /\ \A w \in Workers : at[w] = "exited"

Within(b, s) == \E n \in 1 .. Len(s) : s[n] = b

\* A batch is where its state says.
PlaceInv ==
    \A b \in Batches : /\ call[b] = "queued" => Within(b, queue)
                       /\ call[b] = "parked" => Within(b, sendq)
                       /\ call[b] = "taken" => \E w \in Workers : hand[w] = b
                                                  /\ at[w] \in {"check", "lock", "export"}

IInv == /\ TypeOK /\ DialInv /\ CurrentInv /\ ExitInv /\ PlaceInv
        /\ NeverStuckDisconnected

-----------------------------------------------------------------------------
(* Sequences.                                                              *)

LEMMA WithinAppend ==
    ASSUME NEW S, NEW s \in Seq(S), NEW e, NEW b
    PROVE  /\ Within(b, s) => Within(b, Append(s, e))
           /\ Within(e, Append(s, e))
<1>1. Len(Append(s, e)) = Len(s) + 1 /\ Len(s) \in Nat
  OBVIOUS
<1>2. \A n \in 1 .. Len(s) : Append(s, e)[n] = s[n]
  OBVIOUS
<1>3. Append(s, e)[Len(s) + 1] = e
  OBVIOUS
<1> QED
  BY <1>1, <1>2, <1>3 DEF Within

LEMMA WithinTail ==
    ASSUME NEW S, NEW s \in Seq(S), s # <<>>, NEW b, Within(b, s), b # Head(s)
    PROVE  Within(b, Tail(s))
<1>1. PICK n \in 1 .. Len(s) : s[n] = b
  BY DEF Within
<1>2. n # 1
  BY <1>1
<1>3. n - 1 \in 1 .. Len(Tail(s)) /\ Tail(s)[n - 1] = s[n]
  BY <1>2
<1> QED
  BY <1>1, <1>3 DEF Within

-----------------------------------------------------------------------------
(* Types.                                                                  *)

LEMMA TypeInit == Init => TypeOK
<1> SUFFICES ASSUME Init PROVE TypeOK
  OBVIOUS
<1>1. ConnTypeOK
  BY DEF Init, ConnInit, ConnTypeOK, BgStates
<1> QED
  BY <1>1 DEF Init, TypeOK, CallStates, WorkerStates, CloserStates

\* The background goroutine keeps the types of the connection's variables.
LEMMA ConnectionType ==
    ASSUME ConnTypeOK, BgStep(NoReader, Referred)
    PROVE  ConnTypeOK'
<1> USE DEF ConnTypeOK, BgStates
<1>1. CASE BgStop \/ BgSignalled \/ BgCheckStarted \/ BgLock
  BY <1>1 DEF BgStop, BgSignalled, BgCheckStarted, BgLock
<1>2. CASE BgDial(Referred)
  BY <1>2 DEF BgDial
<1>3. CASE BgSwap(NoReader)
  BY <1>3 DEF BgSwap
<1>4. CASE BgConnected \/ BgFailed \/ BgSignal \/ BgPaused
  BY <1>4 DEF BgConnected, BgFailed, BgSignal, BgPaused
<1> QED
  BY <1>1, <1>2, <1>3, <1>4 DEF BgStep

LEMMA ExportLogsType == ASSUME TypeOK, NEW b \in Batches, ExportLogs(b) PROVE TypeOK'
<1> USE DEF ExportLogs, TypeOK
<1>1. ConnTypeOK'
  BY DEF connVars, ConnTypeOK
<1>2. call' \in [Batches -> CallStates]
  BY DEF CallStates
<1>3. queue' \in Seq(Batches) /\ Len(queue') <= QueueSize /\ sendq' \in Seq(Batches)
  <2>1. queue \in Seq(Batches) /\ sendq \in Seq(Batches) /\ Len(queue) \in Nat
    OBVIOUS
  <2>2. /\ Append(queue, b) \in Seq(Batches) /\ Append(sendq, b) \in Seq(Batches)
        /\ Len(Append(queue, b)) = Len(queue) + 1
    BY <2>1
  <2>3. CASE queue' = queue
    BY <2>1, <2>2, <2>3
  <2>4. CASE queue' = Append(queue, b) /\ HasRoom /\ UNCHANGED sendq
    BY <2>1, <2>2, <2>4 DEF HasRoom
  <2> QED
    BY <2>3, <2>4
<1> QED
  BY <1>1, <1>2, <1>3 DEF stopVars

LEMMA WorkerRecvType == ASSUME TypeOK, NEW w \in Workers, WorkerRecv(w) PROVE TypeOK'
<1> USE DEF WorkerRecv, TypeOK, Goto
<1>1. ConnTypeOK'
  BY DEF connVars, ConnTypeOK
<1>2. /\ Head(queue) \in Batches /\ Tail(queue) \in Seq(Batches)
      /\ Len(Tail(queue)) = Len(queue) - 1 /\ Len(queue) \in Nat
  OBVIOUS
<1>3. /\ queue' \in Seq(Batches) /\ Len(queue') <= QueueSize /\ sendq' \in Seq(Batches)
      /\ call' \in [Batches -> CallStates]
  <2>1. CASE sendq = <<>>
    <3>1. /\ queue' = Tail(queue) /\ sendq' = sendq
          /\ call' = [call EXCEPT ![Head(queue)] = "taken"]
      BY <2>1
    <3>2. Len(Tail(queue)) <= QueueSize
      BY <1>2
    <3> QED
      BY <1>2, <3>1, <3>2 DEF CallStates
  <2>2. CASE sendq # <<>>
    <3>1. Head(sendq) \in Batches /\ Tail(sendq) \in Seq(Batches)
      BY <2>2
    <3>2. Append(Tail(queue), Head(sendq)) \in Seq(Batches)
          /\ Len(Append(Tail(queue), Head(sendq))) = Len(queue)
      BY <1>2, <3>1
    <3> QED
      BY <1>2, <2>2, <3>1, <3>2 DEF CallStates
  <2> QED
    BY <2>1, <2>2
<1>4. at' \in [Workers -> WorkerStates] /\ hand' \in [Workers -> Batches \cup {NoBatch}]
  BY <1>2 DEF WorkerStates
<1>5. \A v \in Workers : hand'[v] = NoBatch <=> at'[v] \in {"recv", "exited"}
  BY <1>2
<1>6. UNCHANGED <<qchan, rpc, closer, cc, ctxDone>>
  BY DEF stopVars
<1> QED
  BY <1>1, <1>3, <1>4, <1>5, <1>6

LEMMA WorkerType ==
    ASSUME TypeOK, NEW w \in Workers,
           \/ WorkerExit(w) \/ WorkerCheck(w) \/ WorkerLock(w) \/ WorkerExport(w)
           \/ WorkerSave(w) \/ WorkerSignal(w)
    PROVE  TypeOK'
<1> USE DEF TypeOK, Goto, Settle, Release, WorkerStates, CallStates, queueVars, stopVars,
            connVars
<1>0. hand[w] # NoBatch => hand[w] \in Batches
  OBVIOUS
<1>1. CASE WorkerExit(w)
  BY <1>1 DEF WorkerExit, ConnTypeOK
<1>2. CASE WorkerCheck(w)
  <2>1. ConnTypeOK'
    BY <1>2 DEF WorkerCheck, ConnTypeOK
  <2>2. hand[w] \in Batches
    BY <1>0, <1>2 DEF WorkerCheck
  <2>3. CASE lastErr = "err" \/ stopCh = "closed"
    BY <1>2, <2>1, <2>2, <2>3 DEF WorkerCheck
  <2>4. CASE ~(lastErr = "err" \/ stopCh = "closed")
    BY <1>2, <2>1, <2>2, <2>4 DEF WorkerCheck
  <2> QED
    BY <2>3, <2>4
<1>3. CASE WorkerLock(w)
  BY <1>3 DEF WorkerLock, ConnTypeOK
<1>4. CASE WorkerExport(w)
  <2>1. ConnTypeOK'
    BY <1>4 DEF WorkerExport, ConnTypeOK
  <2>2. hand[w] \in Batches
    BY <1>0, <1>4 DEF WorkerExport
  <2>3. CASE Settle(w, "sent") /\ Release(w)
    BY <1>4, <2>1, <2>2, <2>3 DEF WorkerExport
  <2>4. CASE Settle(w, "failed") /\ Goto(w, "save") /\ UNCHANGED hand
    BY <1>4, <2>1, <2>2, <2>4 DEF WorkerExport
  <2> QED
    BY <1>4, <2>3, <2>4 DEF WorkerExport
<1>5. CASE WorkerSave(w)
  BY <1>5 DEF WorkerSave, SaveError, ConnTypeOK
<1>6. CASE WorkerSignal(w)
  BY <1>6 DEF WorkerSignal, Signal, ConnTypeOK
<1> QED
  BY <1>1, <1>2, <1>3, <1>4, <1>5, <1>6

LEMMA CloserType ==
    ASSUME TypeOK, NEW k \in Closers, BeginShutdown(k) \/ ShutdownStep(k) \/ Cancel(k)
    PROVE  TypeOK'
<1> USE DEF TypeOK, CloserGoto, queueVars, workVars, connVars, ConnTypeOK
<1>1. CASE BeginShutdown(k)
  BY <1>1 DEF BeginShutdown, CloserStates
<1>2. CASE CloseQueue(k)
  <2>1. CASE qchan = "open"
    <3>1. /\ call' = [b \in Batches |-> IF call[b] = "parked" THEN "panicked" ELSE call[b]]
          /\ sendq' = <<>>
      BY <1>2, <2>1 DEF CloseQueue
    <3>2. call' \in [Batches -> CallStates]
      BY <3>1 DEF CallStates
    <3>3. sendq' \in Seq(Batches)
      BY <3>1
    <3>4. qchan' \in {"open", "closed"} /\ closer' \in [Closers -> CloserStates]
      BY <1>2, <2>1 DEF CloseQueue, CloserStates
    <3> QED
      BY <1>2, <3>2, <3>3, <3>4 DEF CloseQueue
  <2>2. CASE qchan # "open"
    BY <1>2, <2>2 DEF CloseQueue, CloserStates
  <2> QED
    BY <2>1, <2>2
<1>3. CASE WaitWorkers(k)
  BY <1>3 DEF WaitWorkers, CloserStates
<1>4. CASE CloseConn(k)
  BY <1>4 DEF CloseConn, CloserStates
<1>5. CASE MarkStopped(k)
  BY <1>5 DEF MarkStopped, CloserStates
<1>6. CASE CloseStop(k)
  BY <1>6 DEF CloseStop, CloserStates
<1>7. CASE Join(k)
  BY <1>7 DEF Join, CloserStates, BgStates
<1>8. CASE Cancel(k)
  BY <1>8 DEF Cancel
<1> QED
  BY <1>1, <1>2, <1>3, <1>4, <1>5, <1>6, <1>7, <1>8 DEF ShutdownStep

LEMMA TypeNext == TypeOK /\ [Next]_vars => TypeOK'
<1> SUFFICES ASSUME TypeOK, [Next]_vars PROVE TypeOK'
  OBVIOUS
<1>1. ASSUME NEW b \in Batches, ExportLogs(b) PROVE TypeOK'
  BY <1>1, ExportLogsType
<1>2. ASSUME NEW w \in Workers, WorkerStep(w) PROVE TypeOK'
  BY <1>2, WorkerRecvType, WorkerType DEF WorkerStep
<1>3. CASE ConnectionStep
  <2>1. ConnTypeOK'
    BY <1>3, ConnectionType DEF ConnectionStep, TypeOK
  <2> QED
    BY <1>3, <2>1 DEF ConnectionStep, TypeOK, queueVars, workVars, stopVars
<1>4. ASSUME NEW k \in Closers, BeginShutdown(k) \/ ShutdownStep(k) \/ Cancel(k) PROVE TypeOK'
  BY <1>4, CloserType
<1>5. CASE UNCHANGED vars
  BY <1>5 DEF vars, connVars, queueVars, workVars, stopVars, TypeOK, ConnTypeOK
<1> QED
  BY <1>1, <1>2, <1>3, <1>4, <1>5 DEF Next

-----------------------------------------------------------------------------
(* A failure is never forgotten.                                           *)

LEMMA SignalNext ==
    ASSUME TypeOK, NeverStuckDisconnected, [Next]_vars
    PROVE  NeverStuckDisconnected'
<1> USE DEF NeverStuckDisconnected
<1>0. at \in [Workers -> WorkerStates] /\ ConnTypeOK
  BY DEF TypeOK
<1>1. ASSUME NEW b \in Batches, ExportLogs(b) PROVE NeverStuckDisconnected'
  BY <1>1 DEF ExportLogs, connVars
<1>2. ASSUME NEW w \in Workers, WorkerStep(w) PROVE NeverStuckDisconnected'
  <2> USE DEF Goto, Release
  <2>1. CASE WorkerRecv(w) \/ WorkerExit(w) \/ WorkerCheck(w) \/ WorkerLock(w) \/ WorkerExport(w)
    <3>1. at[w] # "signal" /\ UNCHANGED connVars
      BY <2>1 DEF WorkerRecv, WorkerExit, WorkerCheck, WorkerLock, WorkerExport
    <3>2. \A v \in Workers : v # w => at'[v] = at[v]
      BY <1>0, <2>1 DEF WorkerRecv, WorkerExit, WorkerCheck, WorkerLock, WorkerExport
    <3> QED
      BY <3>1, <3>2 DEF connVars
  <2>2. CASE WorkerSave(w)
    BY <1>0, <2>2 DEF WorkerSave
  <2>3. CASE WorkerSignal(w)
    BY <2>3 DEF WorkerSignal, Signal
  <2> QED
    BY <1>2, <2>1, <2>2, <2>3 DEF WorkerStep
<1>3. CASE ConnectionStep
  <2>1. UNCHANGED at
    BY <1>3 DEF ConnectionStep, workVars
  <2>2. CASE BgStop \/ BgSignalled \/ BgCheckStarted \/ BgLock
    BY <2>1, <2>2 DEF BgStop, BgSignalled, BgCheckStarted, BgLock
  <2>3. CASE BgDial(Referred) \/ BgSwap(NoReader)
    BY <2>1, <2>3 DEF BgDial, BgSwap
  <2>4. CASE BgConnected \/ BgFailed \/ BgSignal \/ BgPaused
    BY <2>1, <2>4 DEF BgConnected, BgFailed, BgSignal, BgPaused
  <2> QED
    BY <1>3, <2>2, <2>3, <2>4 DEF ConnectionStep, BgStep
<1>4. ASSUME NEW k \in Closers, BeginShutdown(k) \/ ShutdownStep(k) \/ Cancel(k)
      PROVE  NeverStuckDisconnected'
  <2>1. UNCHANGED <<lastErr, token, at>> /\ (bg' = bg \/ bg' = "gone")
    BY <1>4 DEF BeginShutdown, ShutdownStep, CloseQueue, WaitWorkers, CloseConn, MarkStopped,
                CloseStop, Join, Cancel, connVars, workVars
  <2> QED
    BY <2>1
<1>5. CASE UNCHANGED vars
  BY <1>5 DEF vars, connVars, workVars
<1> QED
  BY <1>1, <1>2, <1>3, <1>4, <1>5 DEF Next

-----------------------------------------------------------------------------
(* Connections.                                                            *)

LEMMA DialNext ==
    ASSUME TypeOK, DialInv, [Next]_vars
    PROVE  DialInv'
<1> USE DEF DialInv, Referred
<1>0. /\ conn \in Conns \cup {NoConn} /\ dialed \in Conns \cup {NoConn} /\ open \subseteq Conns
      /\ started \in {"yes", "no"} /\ cc \in [Closers -> Conns \cup {NoConn}]
  BY DEF TypeOK, ConnTypeOK
<1>a. ASSUME UNCHANGED <<started, conn, open, bg, dialed, cc>> PROVE DialInv'
  BY <1>a
<1>1. ASSUME NEW b \in Batches, ExportLogs(b) PROVE DialInv'
  BY <1>1, <1>a DEF ExportLogs, connVars, stopVars
<1>2. ASSUME NEW w \in Workers, WorkerStep(w) PROVE DialInv'
  BY <1>2, <1>a DEF WorkerStep, WorkerRecv, WorkerExit, WorkerCheck, WorkerLock, WorkerExport,
                    WorkerSave, WorkerSignal, SaveError, Signal, connVars, stopVars
<1>3. CASE ConnectionStep
  <2>1. UNCHANGED cc
    BY <1>3 DEF ConnectionStep, stopVars
  <2>2. CASE BgStop \/ BgSignalled \/ BgLock \/ BgConnected \/ BgSignal \/ BgPaused
    BY <2>1, <2>2 DEF BgStop, BgSignalled, BgLock, BgConnected, BgSignal, BgPaused
  <2>3. CASE BgDial(Referred)
    <3>1. CASE bg' = "fail" /\ UNCHANGED <<open, dialed>>
      BY <2>1, <2>3, <3>1 DEF BgDial
    <3>2. ASSUME NEW c \in Conns \ (open \cup {conn} \cup Referred),
                 open' = open \cup {c}, dialed' = c, bg' = "check"
          PROVE  DialInv'
      BY <1>0, <2>1, <2>3, <3>2 DEF BgDial
    <3> QED
      BY <2>3, <3>1, <3>2 DEF BgDial
  <2>4. CASE BgCheckStarted
    BY <1>0, <2>1, <2>4 DEF BgCheckStarted
  <2>5. CASE BgSwap(NoReader)
    BY <1>0, <2>1, <2>5 DEF BgSwap
  <2>6. CASE BgFailed
    BY <1>0, <2>1, <2>6 DEF BgFailed
  <2> QED
    BY <1>3, <2>2, <2>3, <2>4, <2>5, <2>6 DEF ConnectionStep, BgStep
<1>4. ASSUME NEW k \in Closers, BeginShutdown(k) \/ ShutdownStep(k) \/ Cancel(k)
      PROVE  DialInv'
  <2>1. CASE BeginShutdown(k)
    BY <1>0, <2>1 DEF BeginShutdown, connVars
  <2>2. CASE CloseQueue(k) \/ WaitWorkers(k) \/ CloseStop(k) \/ Cancel(k)
    BY <2>2, <1>a DEF CloseQueue, WaitWorkers, CloseStop, Cancel, connVars
  <2>3. CASE CloseConn(k)
    <3>1. cc[k] \in Referred /\ UNCHANGED <<started, conn, bg, dialed, cc>>
      BY <2>3 DEF CloseConn
    <3> QED
      BY <2>3, <3>1 DEF CloseConn
  <2>4. CASE MarkStopped(k)
    BY <2>4 DEF MarkStopped
  <2>5. CASE Join(k)
    BY <2>5 DEF Join
  <2> QED
    BY <1>4, <2>1, <2>2, <2>3, <2>4, <2>5 DEF ShutdownStep
<1>5. CASE UNCHANGED vars
  BY <1>5, <1>a DEF vars, connVars, stopVars
<1> QED
  BY <1>1, <1>2, <1>3, <1>4, <1>5 DEF Next

LEMMA CurrentNext ==
    ASSUME TypeOK, DialInv, CurrentInv, ExitInv, [Next]_vars
    PROVE  CurrentInv'
<1> USE DEF CurrentInv
<1>0. /\ conn \in Conns \cup {NoConn} /\ dialed \in Conns \cup {NoConn} /\ open \subseteq Conns
      /\ at \in [Workers -> WorkerStates] /\ rpc \in [Workers -> Conns \cup {NoConn}]
      /\ lastErr \in {"nil", "err"}
  BY DEF TypeOK, ConnTypeOK
<1>a. ASSUME UNCHANGED <<conn, lastErr, open, bg, at, rpc>> PROVE CurrentInv'
  BY <1>a
<1>1. ASSUME NEW b \in Batches, ExportLogs(b) PROVE CurrentInv'
  BY <1>1, <1>a DEF ExportLogs, connVars
<1>2. ASSUME NEW w \in Workers, WorkerStep(w) PROVE CurrentInv'
  <2> USE DEF Goto, Release
  <2>1. CASE WorkerRecv(w) \/ WorkerExit(w)
    BY <1>0, <2>1 DEF WorkerRecv, WorkerExit, connVars
  <2>2. CASE WorkerCheck(w)
    BY <1>0, <2>2 DEF WorkerCheck, connVars
  <2>3. CASE WorkerLock(w)
    BY <1>0, <2>3 DEF WorkerLock, connVars
  <2>4. CASE WorkerExport(w)
    BY <1>0, <2>4 DEF WorkerExport, connVars
  <2>5. CASE WorkerSave(w)
    BY <1>0, <2>5 DEF WorkerSave, SaveError
  <2>6. CASE WorkerSignal(w)
    BY <1>0, <2>6 DEF WorkerSignal, Signal
  <2> QED
    BY <1>2, <2>1, <2>2, <2>3, <2>4, <2>5, <2>6 DEF WorkerStep
<1>3. CASE ConnectionStep
  <2>1. UNCHANGED <<at, rpc>>
    BY <1>3 DEF ConnectionStep, workVars
  <2>2. CASE BgStop \/ BgSignalled \/ BgCheckStarted \/ BgLock \/ BgFailed \/ BgSignal \/ BgPaused
    BY <2>1, <2>2 DEF BgStop, BgSignalled, BgCheckStarted, BgLock, BgFailed, BgSignal, BgPaused
  <2>3. CASE BgDial(Referred)
    BY <2>1, <2>3 DEF BgDial
  <2>4. CASE BgSwap(NoReader)
    <3>1. dialed \in open /\ dialed # conn /\ dialed # NoConn
      BY <1>0, <2>4 DEF BgSwap, DialInv
    <3> QED
      BY <2>1, <2>4, <3>1 DEF BgSwap, NoReader
  <2>5. CASE BgConnected
    BY <2>1, <2>5 DEF BgConnected
  <2> QED
    BY <1>3, <2>2, <2>3, <2>4, <2>5 DEF ConnectionStep, BgStep
<1>4. ASSUME NEW k \in Closers, BeginShutdown(k) \/ ShutdownStep(k) \/ Cancel(k)
      PROVE  CurrentInv'
  <2>1. CASE CloseConn(k)
    <3>1. \A w \in Workers : at[w] = "exited"
      BY <2>1 DEF CloseConn, ExitInv, Late
    <3> QED
      BY <2>1, <3>1 DEF CloseConn, workVars
  <2>2. CASE Join(k)
    BY <2>2 DEF Join, workVars
  <2>3. CASE ~CloseConn(k) /\ ~Join(k)
    BY <1>4, <2>3, <1>a DEF BeginShutdown, ShutdownStep, CloseQueue, WaitWorkers, MarkStopped,
                            CloseStop, Cancel, connVars, workVars
  <2> QED
    BY <2>1, <2>2, <2>3
<1>5. CASE UNCHANGED vars
  BY <1>5, <1>a DEF vars, connVars, workVars
<1> QED
  BY <1>1, <1>2, <1>3, <1>4, <1>5 DEF Next

-----------------------------------------------------------------------------
(* The order in which the exporter is taken down.                          *)

LEMMA ExitNext ==
    ASSUME TypeOK, ExitInv, [Next]_vars
    PROVE  ExitInv'
<1> USE DEF ExitInv, Late
<1>0. /\ at \in [Workers -> WorkerStates] /\ closer \in [Closers -> CloserStates]
      /\ qchan \in {"open", "closed"}
  BY DEF TypeOK
<1>a. ASSUME UNCHANGED <<queue, qchan, sendq, at, closer>> PROVE ExitInv'
  BY <1>a
<1>1. ASSUME NEW b \in Batches, ExportLogs(b) PROVE ExitInv'
  BY <1>1 DEF ExportLogs, stopVars
<1>2. ASSUME NEW w \in Workers, WorkerStep(w) PROVE ExitInv'
  <2>1. UNCHANGED <<qchan, closer>>
    BY <1>2 DEF WorkerStep, WorkerRecv, WorkerExit, WorkerCheck, WorkerLock, WorkerExport,
                WorkerSave, WorkerSignal, queueVars, stopVars
  <2>2. CASE WorkerRecv(w)
    BY <1>0, <2>1, <2>2 DEF WorkerRecv, Goto
  <2>3. CASE ~WorkerRecv(w)
    <3>1. /\ UNCHANGED <<queue, sendq>> /\ at[w] # "exited"
          /\ \A v \in Workers : v # w => at'[v] = at[v]
      BY <1>0, <1>2, <2>3 DEF WorkerStep, WorkerExit, WorkerCheck, WorkerLock, WorkerExport,
                WorkerSave, WorkerSignal, Release, Goto, queueVars
    <3>2. at'[w] = "exited" => qchan = "closed" /\ queue = <<>>
      BY <1>0, <1>2, <2>3 DEF WorkerStep, WorkerExit, WorkerCheck, WorkerLock, WorkerExport,
                WorkerSave, WorkerSignal, Release, Goto
    <3> QED
      BY <2>1, <3>1, <3>2
  <2> QED
    BY <2>2, <2>3
<1>3. CASE ConnectionStep
  BY <1>3, <1>a DEF ConnectionStep, queueVars, workVars, stopVars
<1>4. ASSUME NEW k \in Closers, BeginShutdown(k) \/ ShutdownStep(k) \/ Cancel(k)
      PROVE  ExitInv'
  <2> USE DEF CloserGoto
  <2>1. CASE CloseQueue(k)
    BY <1>0, <2>1 DEF CloseQueue
  <2>2. CASE WaitWorkers(k)
    BY <1>0, <2>2 DEF WaitWorkers, queueVars, workVars
  <2>3. CASE BeginShutdown(k) \/ CloseConn(k) \/ MarkStopped(k) \/ CloseStop(k) \/ Join(k)
    <3>1. UNCHANGED <<queue, qchan, sendq, at>>
      BY <2>3 DEF BeginShutdown, CloseConn, MarkStopped, CloseStop, Join, queueVars, workVars
    <3>2. /\ \A j \in Closers : j # k => closer'[j] = closer[j]
          /\ closer'[k] # "wait" /\ (closer'[k] \in Late => closer[k] \in Late)
      BY <1>0, <2>3 DEF BeginShutdown, CloseConn, MarkStopped, CloseStop, Join
    <3> QED
      BY <3>1, <3>2
  <2>4. CASE Cancel(k)
    BY <2>4, <1>a DEF Cancel, queueVars, workVars
  <2> QED
    BY <1>4, <2>1, <2>2, <2>3, <2>4 DEF ShutdownStep
<1>5. CASE UNCHANGED vars
  BY <1>5, <1>a DEF vars, queueVars, workVars, stopVars
<1> QED
  BY <1>1, <1>2, <1>3, <1>4, <1>5 DEF Next

-----------------------------------------------------------------------------
(* Where the batches are.                                                  *)

LEMMA PlaceNext ==
    ASSUME TypeOK, PlaceInv, [Next]_vars
    PROVE  PlaceInv'
<1> USE DEF PlaceInv
<1>0. /\ queue \in Seq(Batches) /\ sendq \in Seq(Batches)
      /\ call \in [Batches -> CallStates] /\ at \in [Workers -> WorkerStates]
      /\ hand \in [Workers -> Batches \cup {NoBatch}]
      /\ \A w \in Workers : hand[w] = NoBatch <=> at[w] \in {"recv", "exited"}
  BY DEF TypeOK
<1>a. ASSUME UNCHANGED <<queue, sendq, call, at, hand>> PROVE PlaceInv'
  BY <1>a DEF Within
<1>1. ASSUME NEW b \in Batches, ExportLogs(b) PROVE PlaceInv'
  <2>1. UNCHANGED <<at, hand>> /\ \A c \in Batches : c # b => call'[c] = call[c]
    BY <1>0, <1>1 DEF ExportLogs
  <2>2. CASE qchan = "closed"
    BY <1>0, <1>1, <2>1, <2>2 DEF ExportLogs, Within
  <2>3. CASE qchan = "open" /\ HasRoom
    <3>1. queue' = Append(queue, b) /\ call'[b] = "queued" /\ sendq' = sendq
      BY <1>0, <1>1, <2>3 DEF ExportLogs
    <3>2. \A c \in Batches : (Within(c, queue) => Within(c, queue')) /\ Within(b, queue')
      BY <1>0, <3>1, WithinAppend
    <3>3. \A c \in Batches : Within(c, sendq) => Within(c, sendq')
      BY <3>1 DEF Within
    <3> QED
      BY <2>1, <3>1, <3>2, <3>3
  <2>4. CASE qchan = "open" /\ ~HasRoom
    <3>1. sendq' = Append(sendq, b) /\ call'[b] = "parked" /\ queue' = queue
      BY <1>0, <1>1, <2>4 DEF ExportLogs
    <3>2. \A c \in Batches : (Within(c, sendq) => Within(c, sendq')) /\ Within(b, sendq')
      BY <1>0, <3>1, WithinAppend
    <3>3. \A c \in Batches : Within(c, queue) => Within(c, queue')
      BY <3>1 DEF Within
    <3> QED
      BY <2>1, <3>1, <3>2, <3>3
  <2> QED
    BY <1>1, <2>2, <2>3, <2>4 DEF ExportLogs
<1>2. ASSUME NEW w \in Workers, WorkerRecv(w) PROVE PlaceInv'
  <2> DEFINE h == Head(queue)
  <2>1. /\ h \in Batches /\ Tail(queue) \in Seq(Batches) /\ at[w] = "recv"
        /\ hand'[w] = h /\ at'[w] = "check"
        /\ \A v \in Workers : v # w => hand'[v] = hand[v] /\ at'[v] = at[v]
    BY <1>0, <1>2 DEF WorkerRecv, Goto
  <2>2. \A b \in Batches : Within(b, queue) /\ b # h => Within(b, Tail(queue))
    BY <1>0, <1>2, WithinTail DEF WorkerRecv
  <2>3. \A b \in Batches : (\E v \in Workers : hand[v] = b /\ at[v] \in {"check", "lock", "export"})
            => \E v \in Workers : hand'[v] = b /\ at'[v] \in {"check", "lock", "export"}
    BY <1>0, <2>1
  <2>4. CASE sendq = <<>>
    <3>1. queue' = Tail(queue) /\ sendq' = sendq /\ call' = [call EXCEPT ![h] = "taken"]
      BY <1>2, <2>4 DEF WorkerRecv
    <3>2. \A b \in Batches : Within(b, sendq) => Within(b, sendq')
      BY <3>1 DEF Within
    <3> HIDE DEF h
    <3> QED
      BY <1>0, <2>1, <2>2, <2>3, <3>1, <3>2
  <2>5. CASE sendq # <<>>
    <3> DEFINE p == Head(sendq)
    <3>1. /\ queue' = Append(Tail(queue), p) /\ sendq' = Tail(sendq)
          /\ call' = [call EXCEPT ![h] = "taken", ![p] = "queued"]
      BY <1>2, <2>5 DEF WorkerRecv
    <3>2. p \in Batches /\ \A b \in Batches : Within(b, sendq) /\ b # p => Within(b, sendq')
      BY <1>0, <2>5, <3>1, WithinTail
    <3>3. \A b \in Batches : (Within(b, Tail(queue)) => Within(b, queue')) /\ Within(p, queue')
      BY <2>1, <3>1, WithinAppend
    <3> HIDE DEF h, p
    <3>4. /\ call'[p] = "queued" /\ (h # p => call'[h] = "taken")
          /\ \A b \in Batches \ {h, p} : call'[b] = call[b]
      BY <1>0, <2>1, <3>1, <3>2
    <3> QED
      BY <2>1, <2>2, <2>3, <3>2, <3>3, <3>4
  <2> QED
    BY <2>4, <2>5
<1>3. ASSUME NEW w \in Workers, WorkerStep(w), ~WorkerRecv(w) PROVE PlaceInv'
  <2>1. UNCHANGED <<queue, sendq>>
    BY <1>3 DEF WorkerStep, WorkerExit, WorkerCheck, WorkerLock, WorkerExport, WorkerSave,
                WorkerSignal, queueVars
  <2>2. \A b \in Batches : (Within(b, queue) => Within(b, queue')) /\ (Within(b, sendq) => Within(b, sendq'))
    BY <2>1 DEF Within
  <2>3. \A v \in Workers : v # w => hand'[v] = hand[v] /\ at'[v] = at[v]
    BY <1>0, <1>3 DEF WorkerStep, WorkerExit, WorkerCheck, WorkerLock, WorkerExport, WorkerSave,
                      WorkerSignal, Release, Goto
  <2>4. CASE at[w] \notin {"check", "lock", "export"}
    <3>1. UNCHANGED call
      BY <1>3, <2>4 DEF WorkerStep, WorkerExit, WorkerCheck, WorkerLock, WorkerExport, WorkerSave,
                        WorkerSignal
    <3> QED
      BY <2>2, <2>3, <2>4, <3>1
  <2> DEFINE settled(r) == call' = [call EXCEPT ![hand[w]] = r]
  <2>5. CASE /\ at[w] \in {"check", "lock"} /\ UNCHANGED <<call, hand>>
             /\ at'[w] \in {"lock", "export"}
    BY <2>2, <2>3, <2>5
  <2>6. CASE /\ at[w] \in {"check", "lock", "export"}
             /\ \E r \in {"dropped", "sent", "failed"} : settled(r)
    <3>1. hand[w] \in Batches
      BY <1>0, <2>6
    <3>2. PICK r \in {"dropped", "sent", "failed"} : call' = [call EXCEPT ![hand[w]] = r]
      BY <2>6
    <3>3. /\ call'[hand[w]] \notin {"queued", "parked", "taken"}
          /\ \A b \in Batches : b # hand[w] => call'[b] = call[b]
      BY <1>0, <3>1, <3>2
    <3> QED
      BY <2>2, <2>3, <3>1, <3>3
  <2>7. CASE WorkerCheck(w)
    <3>1. CASE lastErr = "err" \/ stopCh = "closed"
      BY <2>6, <2>7, <3>1 DEF WorkerCheck, Settle
    <3>2. CASE ~(lastErr = "err" \/ stopCh = "closed")
      BY <1>0, <2>5, <2>7, <3>2 DEF WorkerCheck, Goto
    <3> QED
      BY <3>1, <3>2
  <2>8. CASE WorkerLock(w)
    BY <1>0, <2>5, <2>8 DEF WorkerLock, Goto
  <2>9. CASE WorkerExport(w)
    BY <2>6, <2>9 DEF WorkerExport, Settle
  <2>10. CASE WorkerExit(w) \/ WorkerSave(w) \/ WorkerSignal(w)
    BY <2>4, <2>10 DEF WorkerExit, WorkerSave, WorkerSignal
  <2> QED
    BY <1>3, <2>7, <2>8, <2>9, <2>10 DEF WorkerStep
<1>4. CASE ConnectionStep
  BY <1>4, <1>a DEF ConnectionStep, queueVars, workVars
<1>5. ASSUME NEW k \in Closers, BeginShutdown(k) \/ ShutdownStep(k) \/ Cancel(k)
      PROVE  PlaceInv'
  <2>1. CASE CloseQueue(k)
    <3>1. CASE qchan = "closed"
      BY <2>1, <3>1, <1>a DEF CloseQueue
    <3>2. CASE qchan = "open"
      <4>1. /\ UNCHANGED <<queue, at, hand>>
            /\ \A b \in Batches : call'[b] # "parked" /\ (call'[b] = call[b] \/ call'[b] = "panicked")
        BY <2>1, <3>2 DEF CloseQueue
      <4>2. \A b \in Batches : Within(b, queue) => Within(b, queue')
        BY <4>1 DEF Within
      <4> QED
        BY <4>1, <4>2
    <3> QED
      BY <2>1, <3>1, <3>2 DEF CloseQueue
  <2>2. CASE ~CloseQueue(k)
    BY <1>5, <2>2, <1>a DEF BeginShutdown, ShutdownStep, WaitWorkers, CloseConn, MarkStopped,
                            CloseStop, Join, Cancel, queueVars, workVars
  <2> QED
    BY <2>1, <2>2
<1>6. CASE UNCHANGED vars
  BY <1>6, <1>a DEF vars, queueVars, workVars
<1> QED
  BY <1>1, <1>2, <1>3, <1>4, <1>5, <1>6 DEF Next

-----------------------------------------------------------------------------
(* The theorems.                                                           *)

LEMMA IInvInit == Init => IInv
<1> SUFFICES ASSUME Init PROVE IInv
  OBVIOUS
<1>1. DialInv
  BY DEF Init, ConnInit, DialInv
<1>2. CurrentInv
  BY DEF Init, ConnInit, CurrentInv
<1>3. ExitInv
  BY DEF Init, ExitInv, Late
<1>4. PlaceInv
  BY DEF Init, PlaceInv
<1>5. NeverStuckDisconnected
  BY DEF Init, ConnInit, NeverStuckDisconnected
<1> QED
  BY <1>1, <1>2, <1>3, <1>4, <1>5, TypeInit DEF IInv

LEMMA IInvNext == IInv /\ [Next]_vars => IInv'
  BY TypeNext, DialNext, CurrentNext, ExitNext, PlaceNext, SignalNext DEF IInv

\* IInv is an invariant of every instance (it adds to TypeOK where each batch and each
\* connection is).
THEOREM Inductive == Spec => []IInv
  BY IInvInit, IInvNext, PTL DEF Spec

\* Every reachable state has its type: the channel of Start never overflows and a worker
\* holds a batch exactly while it handles one.
THEOREM TypeCorrect == Spec => []TypeOK
<1>1. IInv => TypeOK
  BY DEF IInv
<1> QED
  BY <1>1, Inductive, PTL

\* No reconnect and no Shutdown closes a connection under an RPC.
THEOREM RpcsKeepTheirConnection == Spec => []InFlightConnOpen
<1>1. IInv => InFlightConnOpen
  BY DEF IInv, CurrentInv, InFlightConnOpen
<1> QED
  BY <1>1, Inductive, PTL

\* A failed export or reconnect always leads to another attempt: the error and the
\* signal cannot be separated by any interleaving.
THEOREM FailuresAreSignalled == Spec => []NeverStuckDisconnected
<1>1. IInv => NeverStuckDisconnected
  BY DEF IInv
<1> QED
  BY <1>1, Inductive, PTL

\* Reconnecting never piles up connections.
THEOREM ReconnectsDoNotLeak == Spec => []NoConnectionLeak
<1>1. IInv => NoConnectionLeak
  BY DEF IInv, DialInv, NoConnectionLeak
<1> QED
  BY <1>1, Inductive, PTL

\* Shutdown settles every batch an ExportLogs call got into the channel.
THEOREM ShutdownSendsTheQueue == Spec => []QueueSent
<1>1. IInv => QueueSent
  <2> SUFFICES ASSUME IInv, NEW k \in Closers, closer[k] \in Late, NEW b \in Batches
               PROVE  call[b] \notin {"parked", "queued", "taken"}
    BY DEF QueueSent, Late
  <2>1. queue = <<>> /\ sendq = <<>> /\ \A w \in Workers : at[w] = "exited"
    BY DEF IInv, ExitInv
  <2>2. ~Within(b, queue) /\ ~Within(b, sendq)
    BY <2>1 DEF Within
  <2> QED
    BY <2>1, <2>2 DEF IInv, PlaceInv
<1> QED
  BY <1>1, Inductive, PTL
=============================================================================
