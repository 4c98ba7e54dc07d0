----------------------- MODULE BatchSpanPipelineProofs -----------------------
(***************************************************************************)
(* Proofs about what BatchSpanProcessor promises its callers: it           *)
(* implements BatchPipeline, and a ForceFlush that its marker went through *)
(* the queue for has exported what was accepted before it.                 *)
(*                                                                         *)
(* Both need more than the invariant of BatchSpanProcessorProofs: an item  *)
(* is inside the processor only if its enqueue has succeeded (SentInv),    *)
(* each parked item waits once (WaitInv), and what a flush marker has      *)
(* ahead of it in the queue (FlushInv).                                    *)
(***************************************************************************)
EXTENDS BatchSpanProcessorProofs

-----------------------------------------------------------------------------
(* OnlySpans, by induction over the sequence.                              *)

\* What the recursion of OnlySpans asks of its function.
Keeps(seq, f) ==
    f = [n \in 0 .. Len(seq) |->
            IF n = 0 THEN <<>>
            ELSE IF seq[n] \in Spans THEN Append(f[n - 1], seq[n]) ELSE f[n - 1]]

LEMMA KeepsStep ==
    ASSUME NEW S, NEW seq \in Seq(S), NEW f, Keeps(seq, f)
    PROVE  /\ f[0] = <<>>
           /\ \A n \in 1 .. Len(seq) :
                  f[n] = IF seq[n] \in Spans THEN Append(f[n - 1], seq[n]) ELSE f[n - 1]
<1> DEFINE body(g, n) == IF n = 0 THEN <<>>
                         ELSE IF seq[n] \in Spans THEN Append(g[n - 1], seq[n]) ELSE g[n - 1]
<1>1. \A n \in 0 .. Len(seq) : f[n] = body(f, n)
  <2>1. f = [n \in 0 .. Len(seq) |-> body(f, n)]
    BY DEF Keeps
  <2> HIDE DEF body
  <2> QED
    BY <2>1
<1>2. 0 \in 0 .. Len(seq) /\ \A n \in 1 .. Len(seq) : n \in 0 .. Len(seq) /\ n # 0
  OBVIOUS
<1> QED
  BY <1>1, <1>2

\* Any function that keeps the spans gives the value of OnlySpans.
LEMMA KeepsValue ==
    ASSUME NEW S, NEW seq \in Seq(S), NEW f, Keeps(seq, f)
    PROVE  OnlySpans(seq) = f[Len(seq)]
<1> DEFINE F == CHOOSE g : g = [n \in 0 .. Len(seq) |->
                    IF n = 0 THEN <<>>
                    ELSE IF seq[n] \in Spans THEN Append(g[n - 1], seq[n]) ELSE g[n - 1]]
           N == {n \in Nat : n <= Len(seq) => F[n] = f[n]}
<1>1. Keeps(seq, F) /\ OnlySpans(seq) = F[Len(seq)]
  BY DEF Keeps, OnlySpans
<1> HIDE DEF F
<1>2. 0 \in N
  BY <1>1, KeepsStep
<1>3. ASSUME NEW n \in N PROVE n + 1 \in N
  <2> SUFFICES ASSUME n + 1 <= Len(seq) PROVE F[n + 1] = f[n + 1]
    OBVIOUS
  <2>1. F[n] = f[n] /\ n + 1 \in 0 .. Len(seq) /\ n + 1 # 0 /\ (n + 1) - 1 = n
    OBVIOUS
  <2> QED
    BY <1>1, <2>1, KeepsStep
<1> HIDE DEF N
<1>4. N = Nat
  <2>1. N \subseteq Nat
    BY DEF N
  <2> QED
    BY <1>2, <1>3, <2>1, NatSetInduction
<1>5. Len(seq) \in N
  BY <1>4
<1> QED
  BY <1>1, <1>5 DEF N

\* The function for a longer sequence, from the one for the shorter.
LEMMA KeepsNext ==
    ASSUME NEW S, NEW seq \in Seq(S), NEW x \in S, NEW f, Keeps(seq, f)
    PROVE  \E g : /\ Keeps(Append(seq, x), g)
                  /\ g[Len(seq) + 1] = IF x \in Spans THEN Append(f[Len(seq)], x) ELSE f[Len(seq)]
<1> DEFINE last == IF x \in Spans THEN Append(f[Len(seq)], x) ELSE f[Len(seq)]
           g == [n \in 0 .. Len(seq) + 1 |-> IF n <= Len(seq) THEN f[n] ELSE last]
<1>1. Len(Append(seq, x)) = Len(seq) + 1 /\ Len(seq) \in Nat
  OBVIOUS
<1>2. ASSUME NEW n \in 0 .. Len(seq) + 1
      PROVE  g[n] = IF n = 0 THEN <<>>
                    ELSE IF Append(seq, x)[n] \in Spans
                         THEN Append(g[n - 1], Append(seq, x)[n]) ELSE g[n - 1]
  <2>1. CASE n = 0
    BY <1>1, <2>1, KeepsStep
  <2>2. CASE n \in 1 .. Len(seq)
    <3>1. Append(seq, x)[n] = seq[n] /\ g[n] = f[n] /\ g[n - 1] = f[n - 1]
      BY <1>1, <2>2
    <3> QED
      BY <2>2, <3>1, KeepsStep
  <2>3. CASE n = Len(seq) + 1
    <3>1. Append(seq, x)[n] = x /\ g[n] = last /\ g[n - 1] = f[Len(seq)] /\ n # 0
      BY <1>1, <2>3
    <3> QED
      BY <3>1
  <2> QED
    BY <1>1, <2>1, <2>2, <2>3
<1>3. Keeps(Append(seq, x), g)
  BY <1>1, <1>2 DEF Keeps
<1>4. g[Len(seq) + 1] = last
  BY <1>1
<1> QED
  BY <1>3, <1>4

LEMMA KeepsExists ==
    ASSUME NEW S, NEW seq \in Seq(S)
    PROVE  \E f : Keeps(seq, f)
<1> DEFINE T == {s \in Seq(S) : \E f : Keeps(s, f)}
<1>1. <<>> \in T
  <2>1. Keeps(<<>>, [n \in 0 .. 0 |-> <<>>])
    BY DEF Keeps
  <2> QED
    BY <2>1
<1>2. ASSUME NEW s \in T, NEW x \in S PROVE Append(s, x) \in T
  BY KeepsNext
<1> HIDE DEF T
<1>3. T = Seq(S)
  <2>1. T \subseteq Seq(S)
    BY DEF T
  <2> QED
    BY <1>1, <1>2, <2>1, SeqSetInduction
<1> QED
  BY <1>3 DEF T

LEMMA OnlySpansEmpty == OnlySpans(<<>>) = <<>>
<1>1. Keeps(<<>>, [n \in 0 .. 0 |-> <<>>])
  BY DEF Keeps
<1> QED
  BY <1>1, KeepsValue, EmptySeq

LEMMA OnlySpansAppend ==
    ASSUME NEW S, NEW seq \in Seq(S), NEW x \in S
    PROVE  OnlySpans(Append(seq, x)) = IF x \in Spans THEN Append(OnlySpans(seq), x) ELSE OnlySpans(seq)
<1>1. PICK f : Keeps(seq, f)
  BY KeepsExists
<1>2. PICK g : /\ Keeps(Append(seq, x), g)
               /\ g[Len(seq) + 1] = IF x \in Spans THEN Append(f[Len(seq)], x) ELSE f[Len(seq)]
  BY <1>1, KeepsNext
<1>3. OnlySpans(seq) = f[Len(seq)]
  BY <1>1, KeepsValue
<1>4. OnlySpans(Append(seq, x)) = g[Len(seq) + 1]
  <2>1. Append(seq, x) \in Seq(S) /\ Len(Append(seq, x)) = Len(seq) + 1
    OBVIOUS
  <2> QED
    BY <1>2, <2>1, KeepsValue
<1> QED
  BY <1>2, <1>3, <1>4

\* OnlySpans gives a sequence of spans, not longer than the whole, with the same spans.
LEMMA OnlySpansType ==
    ASSUME NEW S, NEW seq \in Seq(S)
    PROVE  /\ OnlySpans(seq) \in Seq(Spans)
           /\ Len(OnlySpans(seq)) <= Len(seq)
           /\ ToSet(OnlySpans(seq)) = ToSet(seq) \cap Spans
<1> DEFINE T == {s \in Seq(S) : /\ OnlySpans(s) \in Seq(Spans)
                                /\ Len(OnlySpans(s)) <= Len(s)
                                /\ ToSet(OnlySpans(s)) = ToSet(s) \cap Spans}
<1>1. <<>> \in T
  <2>1. OnlySpans(<<>>) = <<>> /\ ToSet(<<>>) = {} /\ <<>> \in Seq(S) /\ <<>> \in Seq(Spans)
    BY OnlySpansEmpty, ToSetEmpty
  <2>2. Len(OnlySpans(<<>>)) <= Len(<<>>)
    BY <2>1
  <2>3. ToSet(OnlySpans(<<>>)) = ToSet(<<>>) \cap Spans
    BY <2>1
  <2> QED
    BY <2>1, <2>2, <2>3
<1>2. ASSUME NEW s \in T, NEW x \in S PROVE Append(s, x) \in T
  <2>1. Append(s, x) \in Seq(S) /\ Len(Append(s, x)) = Len(s) + 1
    OBVIOUS
  <2>2. ToSet(Append(s, x)) = ToSet(s) \cup {x}
    BY ToSetAppend
  <2>3. CASE x \in Spans
    <3>1. OnlySpans(Append(s, x)) = Append(OnlySpans(s), x)
      BY <2>3, OnlySpansAppend
    <3>2. ToSet(Append(OnlySpans(s), x)) = ToSet(OnlySpans(s)) \cup {x}
      BY <2>3, ToSetAppend
    <3>3. /\ Append(OnlySpans(s), x) \in Seq(Spans)
          /\ Len(Append(OnlySpans(s), x)) = Len(OnlySpans(s)) + 1
      BY <2>3
    <3>4. ToSet(OnlySpans(s)) \cup {x} = (ToSet(s) \cup {x}) \cap Spans
      BY <2>3
    <3>5. Len(OnlySpans(s)) + 1 <= Len(s) + 1
      BY <2>1, <3>3
    <3> QED
      BY <2>1, <2>2, <3>1, <3>2, <3>3, <3>4, <3>5
  <2>4. CASE x \notin Spans
    <3>1. OnlySpans(Append(s, x)) = OnlySpans(s)
      BY <2>4, OnlySpansAppend
    <3> QED
      BY <2>1, <2>2, <2>4, <3>1
  <2> QED
    BY <2>3, <2>4
<1> HIDE DEF T
<1>3. T = Seq(S)
  <2>1. T \subseteq Seq(S)
    BY DEF T
  <2> QED
    BY <1>1, <1>2, <2>1, SeqSetInduction
<1> QED
  BY <1>3 DEF T

LEMMA OnlySpansConcat ==
    ASSUME NEW S, NEW s \in Seq(S), NEW t \in Seq(S)
    PROVE  OnlySpans(s \o t) = OnlySpans(s) \o OnlySpans(t)
<1> DEFINE T == {r \in Seq(S) : OnlySpans(s \o r) = OnlySpans(s) \o OnlySpans(r)}
<1>1. <<>> \in T
  <2>1. OnlySpans(<<>>) = <<>> /\ s \o <<>> = s /\ OnlySpans(s) \in Seq(Spans)
    BY OnlySpansEmpty, OnlySpansType, ConcatEmptySeq
  <2>2. OnlySpans(s) \o <<>> = OnlySpans(s)
    BY <2>1, ConcatEmptySeq
  <2> QED
    BY <2>1, <2>2, EmptySeq
<1>2. ASSUME NEW r \in T, NEW x \in S PROVE Append(r, x) \in T
  <2>1. s \o Append(r, x) = Append(s \o r, x) /\ s \o r \in Seq(S) /\ Append(r, x) \in Seq(S)
    BY ConcatAppend
  <2>2. OnlySpans(s) \in Seq(Spans) /\ OnlySpans(r) \in Seq(Spans)
    BY OnlySpansType
  <2>3. OnlySpans(s \o r) = OnlySpans(s) \o OnlySpans(r)
    OBVIOUS
  <2>4. CASE x \in Spans
    <3>1. OnlySpans(Append(s \o r, x)) = Append(OnlySpans(s \o r), x)
      BY <2>1, <2>4, OnlySpansAppend
    <3>2. OnlySpans(Append(r, x)) = Append(OnlySpans(r), x)
      BY <2>4, OnlySpansAppend
    <3>3. OnlySpans(s) \o Append(OnlySpans(r), x) = Append(OnlySpans(s) \o OnlySpans(r), x)
      BY <2>2, <2>4, ConcatAppend
    <3> QED
      BY <2>1, <2>3, <3>1, <3>2, <3>3
  <2>5. CASE x \notin Spans
    <3>1. OnlySpans(Append(s \o r, x)) = OnlySpans(s \o r)
      BY <2>1, <2>5, OnlySpansAppend
    <3>2. OnlySpans(Append(r, x)) = OnlySpans(r)
      BY <2>5, OnlySpansAppend
    <3> QED
      BY <2>1, <2>3, <3>1, <3>2
  <2> QED
    BY <2>4, <2>5
<1> HIDE DEF T
<1>3. T = Seq(S)
  <2>1. T \subseteq Seq(S)
    BY DEF T
  <2> QED
    BY <1>1, <1>2, <2>1, SeqSetInduction
<1> QED
  BY <1>3 DEF T

-----------------------------------------------------------------------------
(* What is inside the processor, and who waits for it.                     *)

USE SizeAssumption, NamesAssumption DEF SizeAssumption, NamesAssumption

Hand == IF hand = None THEN <<>> ELSE <<hand>>
Whole == batch \o Hand \o queue
Out == ToSet(exported) \cup ToSet(batch)

\* Whatever is inside the processor or has left it was accepted.
SentInv == \A i \in Items : i \in Out \cup {hand} \cup ToSet(queue) => call[i] = "sent"

\* Each parked item waits once.
WaitInv ==
    /\ \A n \in DOMAIN sendq : call[sendq[n]] = "parked"
    /\ \A m, n \in DOMAIN sendq : sendq[m] = sendq[n] => m = n

\* What a ForceFlush has to wait for is ahead of its marker, all the way.
Ahead(f) ==
    /\ \A n \in DOMAIN queue : queue[n] = f
           => snapshot[f] \subseteq Out \cup {hand} \cup {queue[m] : m \in 1 .. n - 1}
    /\ hand = f /\ worker = "handle" => snapshot[f] \subseteq Out
    /\ f \in flushed => call[f] = "sent" /\ snapshot[f] \subseteq Out
FlushAt(f) ==
    /\ \A s \in snapshot[f] : call[s] = "sent"
    /\ flush[f] \in {"idle", "enqueue"} => exp[f] = "idle"
    /\ exp[f] # "idle" => \/ call[f] \in {"stopped", "recovered", "cancelled"}
                          \/ call[f] = "sent" /\ f \in flushed
    /\ exp[f] = "ok" /\ call[f] = "sent" => snapshot[f] \subseteq ToSet(exported)
    /\ flush[f] = "nil" => exp[f] = "ok"
FlushInv == \A f \in Flushers : Ahead(f) /\ FlushAt(f)


\* What a receive does to the channel, as a set and in order.
LEMMA ReceiveItems ==
    ASSUME TypeOK, Receive
    PROVE  /\ Head(queue) \in Items /\ Tail(queue) \in Seq(Items)
           /\ ToSet(queue) = {hand'} \cup ToSet(Tail(queue))
           /\ hand' = queue[1] /\ 1 \in DOMAIN queue
           /\ \A n \in DOMAIN Tail(queue) : n + 1 \in DOMAIN queue /\ Tail(queue)[n] = queue[n + 1]
           /\ sendq # <<>> => /\ Head(sendq) \in Items /\ Tail(sendq) \in Seq(Items)
                              /\ ToSet(queue') = ToSet(Tail(queue)) \cup {Head(sendq)}
                              /\ Head(sendq) = sendq[1] /\ 1 \in DOMAIN sendq
<1>1. queue # <<>> /\ hand' = Head(queue) /\ queue \in Seq(Items) /\ sendq \in Seq(Items)
  BY DEF TypeOK, Receive
<1>2. ToSet(queue) = {Head(queue)} \cup ToSet(Tail(queue))
  BY <1>1, ToSetTail
<1>3. Head(queue) \in Items /\ Tail(queue) \in Seq(Items)
  BY <1>1
<1>4. ASSUME sendq # <<>>
      PROVE  /\ Head(sendq) \in Items /\ Tail(sendq) \in Seq(Items)
             /\ ToSet(queue') = ToSet(Tail(queue)) \cup {Head(sendq)}
             /\ Head(sendq) = sendq[1] /\ 1 \in DOMAIN sendq
  <2>1. Head(sendq) \in Items /\ Tail(sendq) \in Seq(Items)
    BY <1>1, <1>4
  <2>2. queue' = Append(Tail(queue), Head(sendq))
    BY <1>4 DEF Receive
  <2>3. ToSet(Append(Tail(queue), Head(sendq))) = ToSet(Tail(queue)) \cup {Head(sendq)}
    <3> DEFINE q == Tail(queue)
               i == Head(sendq)
    <3>1. q \in Seq(Items) /\ i \in Items
      BY <1>3, <2>1
    <3> HIDE DEF q, i
    <3>2. ToSet(Append(q, i)) = ToSet(q) \cup {i}
      BY <3>1, ToSetAppend
    <3> QED
      BY <3>2 DEF q, i
  <2> QED
    BY <1>1, <1>4, <2>1, <2>2, <2>3
<1>5. /\ hand' = queue[1] /\ 1 \in DOMAIN queue
      /\ \A n \in DOMAIN Tail(queue) : n + 1 \in DOMAIN queue /\ Tail(queue)[n] = queue[n + 1]
  BY <1>1
<1> QED
  BY <1>1, <1>2, <1>3, <1>4, <1>5

\* Steps that change neither the channel nor what is inside.
LEMMA CallNext ==
    ASSUME TypeOK, [Next]_vars, SentInv, WaitInv
    PROVE  SentInv' /\ WaitInv'
<1> USE DEF TypeOK, SentInv, WaitInv, Out, CallStates, chanVars, batchVars, timerVars, flushVars,
            stopVars
<1>1. ASSUME NEW i \in Items, Enqueue(i) PROVE SentInv' /\ WaitInv'
  BY <1>1 DEF Enqueue
<1>2. ASSUME NEW i \in Items, Send(i) PROVE SentInv' /\ WaitInv'
  <2>1. CASE queue' = Append(queue, i) /\ call' = [call EXCEPT ![i] = "sent"] /\ sendq' = sendq
    <3>1. ToSet(queue') = ToSet(queue) \cup {i}
      BY <2>1, ToSetAppend
    <3> QED
      BY <1>2, <2>1, <3>1 DEF Send
  <2>2. CASE queue' = queue /\ sendq' = Append(sendq, i) /\ call' = [call EXCEPT ![i] = "parked"]
    <3>1. /\ DOMAIN sendq' = DOMAIN sendq \cup {Len(sendq) + 1} /\ sendq'[Len(sendq) + 1] = i
          /\ \A n \in DOMAIN sendq : sendq'[n] = sendq[n] /\ sendq[n] \in Items
      BY <2>2
    <3>2. SentInv'
      BY <1>2, <2>2 DEF Send
    <3>3. WaitInv'
      BY <1>2, <2>2, <3>1 DEF Send
    <3> QED
      BY <3>2, <3>3
  <2>3. CASE queue' = queue /\ sendq' = sendq
             /\ \E r \in {"recovered", "dropped"} : call' = [call EXCEPT ![i] = r]
    BY <1>2, <2>3 DEF Send
  <2> QED
    BY <1>2, <2>1, <2>2, <2>3 DEF Send
<1>3. ASSUME NEW f \in Flushers, CancelSend(f) PROVE SentInv' /\ WaitInv'
  <2>1. f \in Items /\ call' = [call EXCEPT ![f] = "cancelled"] /\ call[f] \in {"sending", "parked"}
    BY <1>3 DEF CancelSend, Items
  <2>2. SentInv'
    BY <1>3, <2>1 DEF CancelSend
  <2>3. CASE call[f] = "sending" /\ sendq' = sendq
    <3>1. WaitInv'
      BY <2>1, <2>3
    <3> QED
      BY <2>2, <3>1
  <2>4. ASSUME NEW n \in 1 .. Len(sendq), sendq[n] = f, sendq' = RemoveAt(sendq, n)
        PROVE  WaitInv'
    <3>1. /\ DOMAIN sendq' = 1 .. Len(sendq) - 1
          /\ \A i \in 1 .. Len(sendq) - 1 :
                 sendq'[i] = IF i < n THEN sendq[i] ELSE sendq[i + 1]
      <4>1. /\ RemoveAt(sendq, n) \in Seq(Items) /\ Len(RemoveAt(sendq, n)) = Len(sendq) - 1
            /\ \A i \in 1 .. Len(sendq) - 1 :
                   RemoveAt(sendq, n)[i] = IF i < n THEN sendq[i] ELSE sendq[i + 1]
        BY RemoveAtItems
      <4> QED
        BY <2>4, <4>1
    <3> DEFINE was(i) == IF i < n THEN i ELSE i + 1
    <3>4. \A i \in DOMAIN sendq' : was(i) \in DOMAIN sendq /\ was(i) # n /\ sendq'[i] = sendq[was(i)]
      <4>1. DOMAIN sendq = 1 .. Len(sendq) /\ Len(sendq) \in Nat
        OBVIOUS
      <4> QED
        BY <3>1, <4>1
    <3>5. \A i, j \in DOMAIN sendq' : was(i) = was(j) => i = j
      BY <3>1
    <3>6. \A i \in DOMAIN sendq : sendq[i] \in Items
      OBVIOUS
    <3> HIDE DEF was
    <3>2. \A i \in DOMAIN sendq' : sendq'[i] # f /\ call[sendq'[i]] = "parked" /\ sendq'[i] \in Items
      BY <2>4, <3>4, <3>6
    <3>3. \A i, j \in DOMAIN sendq' : sendq'[i] = sendq'[j] => i = j
      BY <3>4, <3>5
    <3> QED
      BY <2>1, <3>2, <3>3
  <2> QED
    BY <1>3, <2>2, <2>3, <2>4 DEF CancelSend
<1>4. CASE WorkerRecv \/ DrainRecv
  <2>1. Receive /\ hand = None /\ UNCHANGED <<batch, exported>>
    BY <1>4 DEF WorkerRecv, DrainRecv, At
  <2>2. CASE sendq = <<>>
    <3>1. queue' = Tail(queue) /\ UNCHANGED <<sendq, call>>
      BY <2>1, <2>2 DEF Receive
    <3>2. ToSet(queue) = {hand'} \cup ToSet(queue')
      BY <2>1, <3>1, ReceiveItems
    <3> QED
      BY <2>1, <3>1, <3>2
  <2>3. CASE sendq # <<>>
    <3>1. /\ sendq' = Tail(sendq) /\ call' = [call EXCEPT ![sendq[1]] = "sent"]
          /\ sendq[1] \in Items
      BY <2>1, <2>3, ReceiveItems DEF Receive
    <3>2. \A n \in DOMAIN sendq' : n + 1 \in DOMAIN sendq /\ sendq'[n] = sendq[n + 1] /\ n + 1 # 1
      BY <2>3, <3>1
    <3>3. SentInv'
      BY <2>1, <2>3, <3>1, ReceiveItems
    <3>4. WaitInv'
      <4>1. ASSUME NEW n \in DOMAIN sendq' PROVE call'[sendq'[n]] = "parked"
        BY <2>3, <3>1, <3>2, ReceiveItems
      <4>2. ASSUME NEW m \in DOMAIN sendq', NEW n \in DOMAIN sendq', sendq'[m] = sendq'[n]
            PROVE  m = n
        <5>1. sendq[m + 1] = sendq[n + 1] /\ m + 1 \in DOMAIN sendq /\ n + 1 \in DOMAIN sendq
          BY <3>2, <4>2
        <5>2. m + 1 = n + 1
          BY <5>1
        <5> QED
          BY <5>2, <3>1, <2>3, ReceiveItems, <2>1
      <4> QED
        BY <4>1, <4>2
    <3> QED
      BY <3>3, <3>4
  <2> QED
    BY <2>2, <2>3
<1>5. CASE DrainClose
  <2>1. SentInv'
    BY <1>5 DEF DrainClose
  <2>2. WaitInv'
    BY <1>5 DEF DrainClose
  <2> QED
    BY <2>1, <2>2
<1>6. CASE WorkerAppend \/ DrainAppend
  <2>1. ToSet(batch') = ToSet(batch) \cup {hand} /\ hand' = None /\ UNCHANGED <<chanVars, exported>>
    <3>1. batch \in Seq(Items) /\ hand \in Items /\ batch' = Append(batch, hand)
      BY <1>6 DEF WorkerAppend, DrainAppend, At
    <3>2. ToSet(Append(batch, hand)) = ToSet(batch) \cup {hand}
      BY <3>1, ToSetAppend
    <3> QED
      BY <1>6, <3>1, <3>2 DEF WorkerAppend, DrainAppend
  <2>2. None \notin Items
    BY DEF Items
  <2> QED
    BY <2>1, <2>2
<1>7. ASSUME NEW p \in Exporters, NEW r \in {"ok", "err"}, ExportReturn(p, r)
      PROVE  SentInv' /\ WaitInv'
  <2>1. ToSet(exported') = ToSet(exported) \cup ToSet(batch) /\ ToSet(batch') = {}
    BY <1>7, ToSetConcat, ToSetEmpty DEF ExportReturn
  <2> QED
    BY <1>7, <2>1 DEF ExportReturn
<1>8. ASSUME UNCHANGED <<chanVars, batch, exported>>, hand' \in {hand, None}
      PROVE  SentInv' /\ WaitInv'
  <2>1. None \notin Items /\ ToSet(queue') = ToSet(queue) /\ Out' = Out
    BY <1>8 DEF Items
  <2> QED
    BY <1>8, <2>1
<1>9. CASE UNCHANGED vars
  BY <1>9 DEF vars
<1> HIDE DEF TypeOK, SentInv, WaitInv, Out, CallStates
<1>10. ASSUME NEW p \in Exporters, ResetTimer(p) \/ LockBatch(p) PROVE SentInv' /\ WaitInv'
  BY <1>10, <1>8 DEF ResetTimer, LockBatch
<1>11. ASSUME \/ WorkerStop \/ WorkerTimer \/ WorkerFlush \/ WorkerStopTimer \/ WorkerDrainTimer
             \/ DrainDefault \/ DrainEnd \/ WorkerExit \/ TimerFire
      PROVE  SentInv' /\ WaitInv'
  BY <1>11, <1>8 DEF WorkerStop, WorkerTimer, WorkerFlush, WorkerStopTimer, WorkerDrainTimer,
                     DrainDefault, DrainEnd, WorkerExit, TimerFire
<1>12. ASSUME NEW f \in Flushers, FlushEnqueued(f) PROVE SentInv' /\ WaitInv'
  BY <1>12, <1>8 DEF FlushEnqueued
<1>13. ASSUME NEW f \in Flushers, NEW r \in {"nil", "err"}, FlushReturn(f, r)
       PROVE  SentInv' /\ WaitInv'
  BY <1>13, <1>8 DEF FlushReturn
<1>14. ASSUME NEW k \in Closers, CloserStep(k) PROVE SentInv' /\ WaitInv'
  BY <1>14, <1>8 DEF CloserStep, BeginShutdown, ShutdownAgain, ShutdownReturn
<1>15. CASE StopperClose \/ StopperWait
  BY <1>15, <1>8 DEF StopperClose, StopperWait
<1>16. ASSUME NEW c \in Cancellable, Cancel(c) PROVE SentInv' /\ WaitInv'
  BY <1>16, <1>8 DEF Cancel
<1> HIDE DEF chanVars, batchVars, timerVars, flushVars, stopVars
<1> QED
  BY <1>1, <1>2, <1>3, <1>4, <1>5, <1>6, <1>7, <1>9, <1>10, <1>11, <1>12, <1>13,
     <1>14, <1>15, <1>16 DEF Next, FlusherStep, ExportStep, WorkerStep

-----------------------------------------------------------------------------
(* Refinement: the processor implements BatchPipeline.                     *)

\* The parts of the whole are sequences of items, and so is the whole.
LEMMA WholeType ==
    ASSUME TypeOK
    PROVE  /\ Hand \in Seq(Items) /\ batch \o Hand \in Seq(Items) /\ Whole \in Seq(Items)
           /\ Inside = OnlySpans(Whole)
           /\ ToSet(Whole) = ToSet(batch) \cup ToSet(Hand) \cup ToSet(queue)
           /\ ToSet(Hand) \subseteq {hand}
<1>1. queue \in Seq(Items) /\ batch \in Seq(Items) /\ hand \in Items \cup {None}
  BY DEF TypeOK
<1>2. Hand \in Seq(Items) /\ ToSet(Hand) \subseteq {hand}
  BY <1>1 DEF Hand, ToSet
<1>3. batch \o Hand \in Seq(Items)
  BY <1>1, <1>2
<1>4. ToSet(Whole) = ToSet(batch \o Hand) \cup ToSet(queue) /\ Whole \in Seq(Items)
  <2> DEFINE s == batch \o Hand
  <2>1. s \in Seq(Items) /\ Whole = s \o queue
    BY <1>3 DEF Whole
  <2> HIDE DEF s
  <2>2. ToSet(s \o queue) = ToSet(s) \cup ToSet(queue) /\ s \o queue \in Seq(Items)
    BY <1>1, <2>1, ToSetConcat
  <2> QED
    BY <2>1, <2>2 DEF s
<1>5. ToSet(batch \o Hand) = ToSet(batch) \cup ToSet(Hand)
  BY <1>1, <1>2, ToSetConcat
<1>6. Inside = OnlySpans(Whole)
  BY DEF Inside, Whole, Hand
<1> QED
  BY <1>2, <1>3, <1>4, <1>5, <1>6

\* An item that enters the channel: a span is accepted, a flush marker is not seen.
LEMMA EntryRefines ==
    ASSUME TypeOK, TypeOK', SentInv, NEW i \in Items, call[i] # "sent", Whole' = Append(Whole, i),
           exported' = exported, worker # "exited", worker' # "exited"
    PROVE  [Pipeline!Next]_(Pipeline!pipeVars)
<1>1. Whole \in Seq(Items) /\ Inside = OnlySpans(Whole) /\ Inside' = OnlySpans(Whole')
  BY WholeType DEF Inside, Whole, Hand
<1>2. Inside' = IF i \in Spans THEN Append(Inside, i) ELSE Inside
  BY <1>1, OnlySpansAppend
<1>3. CASE i \in Spans
  <2>1. i \notin ToSet(Whole) \cup ToSet(exported)
    BY WholeType DEF SentInv, Out
  <2>2. i \notin ToSet(Inside) \cup ToSet(OnlySpans(exported))
    <3>1. ToSet(OnlySpans(Whole)) = ToSet(Whole) \cap Spans
      BY <1>1, OnlySpansType
    <3>2. ToSet(OnlySpans(exported)) = ToSet(exported) \cap Spans
      <4>1. exported \in Seq(Items)
        BY DEF TypeOK
      <4> QED
        BY <4>1, OnlySpansType
    <3> QED
      BY <1>1, <2>1, <3>1, <3>2
  <2>3. Pipeline!Fresh(i)
    BY <2>2 DEF Pipeline!Fresh, ToSet, Pipeline!ToSet
  <2>4. UNCHANGED <<OnlySpans(exported), worker = "exited">>
    OBVIOUS
  <2>5. Inside' = Append(Inside, i)
    BY <1>2, <1>3
  <2>6. Pipeline!Accept(i)
    BY <2>3, <2>4, <2>5 DEF Pipeline!Accept
  <2> QED
    BY <1>3, <2>6 DEF Pipeline!Next
<1>4. CASE i \notin Spans
  BY <1>2, <1>4 DEF Pipeline!pipeVars
<1> QED
  BY <1>3, <1>4

LEMMA SendRefines ==
    ASSUME TypeOK, TypeOK', SentInv, StopInv, NEW i \in Items, Send(i)
    PROVE  [Pipeline!Next]_(Pipeline!pipeVars)
<1> USE DEF TypeOK, batchVars, timerVars, flushVars, stopVars
<1>1. UNCHANGED <<batch, hand, exported, worker>> /\ call[i] = "sending"
  BY DEF Send
<1>2. CASE queue' = queue
  BY <1>1, <1>2 DEF Inside, Pipeline!pipeVars
<1>3. CASE queue' = Append(queue, i) /\ chan = "open"
  <2>1. Whole' = (batch \o Hand) \o Append(queue, i)
    BY <1>1, <1>3 DEF Whole, Hand
  <2>2. (batch \o Hand) \o Append(queue, i) = Append(Whole, i)
    <3> DEFINE s == batch \o Hand
    <3>1. s \in Seq(Items) /\ Whole = s \o queue /\ queue \in Seq(Items)
      BY WholeType DEF Whole
    <3> HIDE DEF s
    <3>2. i \in Items
      OBVIOUS
    <3>3. s \o Append(queue, i) = Append(s \o queue, i)
      BY ONLY <3>1, <3>2, ConcatAppend
    <3> QED
      BY <3>1, <3>3 DEF s
  <2>3. worker # "exited"
    BY <1>3 DEF StopInv
  <2> QED
    BY <1>1, <2>1, <2>2, <2>3, EntryRefines
<1> QED
  BY <1>2, <1>3 DEF Send

\* A receive takes the head of the queue in the hand, and lets the first parked sender in.
LEMMA ReceiveRefines ==
    ASSUME TypeOK, TypeOK', SentInv, WaitInv, Receive, hand = None,
           UNCHANGED <<batch, exported>>, worker # "exited", worker' # "exited"
    PROVE  [Pipeline!Next]_(Pipeline!pipeVars)
<1> DEFINE kept == (batch \o <<hand'>>) \o Tail(queue)
<1>1. kept = Whole /\ batch \o <<hand'>> \in Seq(Items)
  <2>1. /\ queue \in Seq(Items) /\ queue # <<>> /\ batch \in Seq(Items)
        /\ hand' = Head(queue)
    BY DEF TypeOK, Receive
  <2>2. Append(batch, Head(queue)) \o Tail(queue) = batch \o queue
    BY <2>1, MoveHead
  <2>3. Append(batch, hand') = batch \o <<hand'>> /\ batch \o <<>> = batch
    BY <2>1, AppendIsConcat, ConcatEmptySeq, ReceiveItems
  <2> QED
    BY <2>1, <2>2, <2>3, ReceiveItems DEF Whole, Hand
<1>2. hand' # None
  BY ReceiveItems DEF Items
<1>3. CASE sendq = <<>>
  <2>1. Whole' = kept
    BY <1>2, <1>3 DEF Whole, Hand, Receive
  <2> QED
    BY <1>1, <2>1 DEF Inside, Whole, Hand, Pipeline!pipeVars
<1>4. CASE sendq # <<>>
  <2>1. /\ Head(sendq) \in Items /\ Tail(queue) \in Seq(Items)
        /\ call[Head(sendq)] = "parked"
    BY <1>4, ReceiveItems DEF WaitInv
  <2>2. queue' = Append(Tail(queue), Head(sendq))
    BY <1>4 DEF Receive
  <2>3. Whole' = (batch \o <<hand'>>) \o Append(Tail(queue), Head(sendq))
    BY <1>2, <2>2 DEF Whole, Hand
  <2>4. (batch \o <<hand'>>) \o Append(Tail(queue), Head(sendq)) = Append(kept, Head(sendq))
    BY <1>1, <2>1, ConcatAppend
  <2> QED
    BY <1>1, <2>1, <2>3, <2>4, EntryRefines
<1> QED
  BY <1>3, <1>4

\* What the worker does with the item in its hand.
LEMMA HandleRefines ==
    ASSUME TypeOK, TypeOK', WorkerFlush \/ WorkerAppend \/ DrainAppend
    PROVE  UNCHANGED Pipeline!pipeVars
<1> USE DEF chanVars, batchVars, At
<1>1. /\ hand \in Items /\ hand' = None /\ batch \in Seq(Items) /\ queue \in Seq(Items)
      /\ UNCHANGED <<queue, exported>> /\ worker # "exited" /\ worker' # "exited"
      /\ None \notin Items
  BY DEF TypeOK, WorkerFlush, WorkerAppend, DrainAppend, Items
<1>2. Whole = Append(batch, hand) \o queue
  <2>1. Append(batch, hand) = batch \o <<hand>>
    BY <1>1, AppendIsConcat
  <2> QED
    BY <1>1, <2>1 DEF Whole, Hand
<1>3. CASE WorkerAppend \/ DrainAppend
  <2>1. batch' = Append(batch, hand)
    BY <1>3 DEF WorkerAppend, DrainAppend
  <2>2. Append(batch, hand) \o <<>> = Append(batch, hand)
    BY <1>1
  <2>3. Whole' = Whole
    BY <1>1, <1>2, <2>1, <2>2 DEF Whole, Hand
  <2> QED
    BY <1>1, <2>3 DEF Inside, Whole, Hand, Pipeline!pipeVars
<1>4. CASE WorkerFlush
  <2>1. batch' = batch /\ hand \notin Spans
    BY <1>4 DEF WorkerFlush
  <2>2. Whole' = batch \o queue
    <3>1. batch \o <<>> = batch
      BY <1>1
    <3> QED
      BY <1>1, <2>1, <3>1 DEF Whole, Hand
  <2>3. Append(batch, hand) \in Seq(Items)
    BY <1>1
  <2>4. OnlySpans(Whole) = OnlySpans(Append(batch, hand)) \o OnlySpans(queue)
    BY <1>1, <1>2, <2>3, OnlySpansConcat
  <2>5. OnlySpans(Append(batch, hand)) = OnlySpans(batch)
    BY <1>1, <2>1, OnlySpansAppend
  <2>6. OnlySpans(Whole') = OnlySpans(batch) \o OnlySpans(queue)
    BY <1>1, <2>2, OnlySpansConcat
  <2>7. Inside' = Inside
    BY <2>4, <2>5, <2>6 DEF Inside, Whole, Hand
  <2> QED
    BY <1>1, <2>7 DEF Pipeline!pipeVars
<1> QED
  BY <1>3, <1>4

\* An export delivers the spans of the batch; a batch of flush markers alone delivers none.
LEMMA ExportRefines ==
    ASSUME TypeOK, TypeOK', FillInv, NEW p \in Exporters, NEW r \in {"ok", "err"}, ExportReturn(p, r)
    PROVE  [Pipeline!Next]_(Pipeline!pipeVars)
<1> USE DEF chanVars, stopVars
<1> DEFINE spans == OnlySpans(batch)
           rest == OnlySpans(Hand \o queue)
<1>1. /\ exported' = exported \o batch /\ batch' = <<>> /\ UNCHANGED <<queue, hand, worker>>
      /\ batch \in Seq(Items) /\ queue \in Seq(Items) /\ exported \in Seq(Items)
      /\ Len(batch) <= MaxExportBatchSize
  BY DEF ExportReturn, TypeOK, FillInv
<1>2. /\ Hand \in Seq(Items) /\ Hand \o queue \in Seq(Items)
      /\ (batch \o Hand) \o queue = batch \o (Hand \o queue)
      /\ <<>> \o Hand = Hand
  <2>1. Hand \in Seq(Items)
    BY WholeType
  <2> HIDE DEF Hand
  <2> QED
    BY <1>1, <2>1
<1>3. spans \in Seq(Spans) /\ rest \in Seq(Spans) /\ Len(spans) <= Len(batch)
  BY <1>1, <1>2, OnlySpansType
<1>4. Inside = spans \o rest
  <2>1. OnlySpans(batch \o (Hand \o queue)) = OnlySpans(batch) \o OnlySpans(Hand \o queue)
    BY <1>1, <1>2, OnlySpansConcat
  <2>2. Inside = OnlySpans((batch \o Hand) \o queue)
    BY WholeType DEF Whole
  <2> QED
    BY <1>2, <2>1, <2>2
<1>5. Inside' = rest
  BY <1>1, <1>2 DEF Inside, Hand
<1>6. OnlySpans(exported') = OnlySpans(exported) \o spans /\ OnlySpans(exported) \in Seq(Spans)
  BY <1>1, OnlySpansConcat, OnlySpansType
<1> HIDE DEF spans, rest
<1>7. CASE spans = <<>>
  <2>1. Inside' = Inside /\ OnlySpans(exported') = OnlySpans(exported)
    BY <1>3, <1>4, <1>5, <1>6, <1>7, ConcatEmptySeq
  <2> QED
    BY <1>1, <2>1 DEF Pipeline!pipeVars
<1>8. CASE spans # <<>>
  <2>1. Len(spans) \in 1 .. MaxExportBatchSize /\ Len(spans) <= Len(Inside)
    BY <1>1, <1>3, <1>4, <1>8
  <2>2. /\ SubSeq(Inside, 1, Len(spans)) = spans
        /\ SubSeq(Inside, Len(spans) + 1, Len(Inside)) = rest
    BY <1>3, <1>4, SplitConcat
  <2>3. UNCHANGED (worker = "exited")
    BY <1>1
  <2>4. Pipeline!Deliver(Len(spans))
    BY <1>5, <1>6, <2>1, <2>2, <2>3 DEF Pipeline!Deliver
  <2> QED
    BY <2>1, <2>4 DEF Pipeline!Next
<1> QED
  BY <1>7, <1>8

LEMMA ExitRefines ==
    ASSUME TypeOK, StopInv, WorkerExit
    PROVE  Pipeline!Next
<1>1. batch = <<>> /\ queue = <<>> /\ hand = None /\ UNCHANGED <<batch, queue, hand, exported>>
  BY DEF TypeOK, StopInv, WorkerExit, At, chanVars, batchVars
<1>2. Whole = <<>> /\ Whole' = <<>>
  BY <1>1 DEF Whole, Hand
<1>3. Inside = <<>> /\ Inside' = <<>>
  BY <1>2, OnlySpansEmpty DEF Inside, Whole, Hand
<1>4. OnlySpans(exported)' = OnlySpans(exported) /\ (worker = "exited")'
  BY <1>1 DEF WorkerExit
<1>5. Pipeline!Close
  BY <1>3, <1>4 DEF Pipeline!Close
<1> QED
  BY <1>5 DEF Pipeline!Next

LEMMA NextRefines ==
    ASSUME IInv, IInv', SentInv, WaitInv, [Next]_vars
    PROVE  [Pipeline!Next]_(Pipeline!pipeVars)
<1> DEFINE Goal == [Pipeline!Next]_(Pipeline!pipeVars)
<1>1. ASSUME UNCHANGED <<queue, batch, hand, exported>>,
             worker' = worker \/ (worker # "exited" /\ worker' # "exited")
      PROVE  Goal
  <2>1. Inside' = Inside /\ OnlySpans(exported') = OnlySpans(exported)
    BY <1>1 DEF Inside
  <2>2. UNCHANGED (worker = "exited")
    BY <1>1
  <2> QED
    BY <2>1, <2>2 DEF Pipeline!pipeVars
<1>2. TypeOK /\ TypeOK' /\ StopInv /\ FillInv
  BY DEF IInv
<1>3. CASE WorkerRecv \/ DrainRecv
  <2>1. /\ Receive /\ UNCHANGED <<batch, exported>> /\ hand = None
        /\ worker # "exited" /\ worker' # "exited"
    BY <1>2, <1>3 DEF WorkerRecv, DrainRecv, At, batchVars, TypeOK
  <2> QED
    BY <1>2, <2>1, ReceiveRefines
<1>4. CASE WorkerFlush \/ WorkerAppend \/ DrainAppend
  BY <1>2, <1>4, HandleRefines
<1>5. CASE WorkerExit
  BY <1>2, <1>5, ExitRefines
<1>6. ASSUME NEW i \in Items, Send(i) PROVE Goal
  BY <1>2, <1>6, SendRefines
<1>7. ASSUME NEW p \in Exporters, NEW r \in {"ok", "err"}, ExportReturn(p, r) PROVE Goal
  BY <1>2, <1>7, ExportRefines
<1> HIDE DEF Goal
<1> USE DEF chanVars, batchVars, timerVars, flushVars, stopVars
<1>8. ASSUME UNCHANGED vars PROVE Goal
  BY <1>1, <1>8 DEF vars
<1>9. ASSUME NEW i \in Items, Enqueue(i) PROVE Goal
  BY <1>1, <1>9 DEF Enqueue
<1>10. ASSUME NEW p \in Exporters, ResetTimer(p) \/ LockBatch(p) PROVE Goal
  BY <1>1, <1>10 DEF ResetTimer, LockBatch
<1>11. ASSUME \/ WorkerStop \/ WorkerTimer \/ WorkerStopTimer \/ WorkerDrainTimer
             \/ DrainDefault \/ DrainClose \/ DrainEnd \/ TimerFire
       PROVE  Goal
  BY <1>1, <1>11 DEF WorkerStop, WorkerTimer, WorkerStopTimer, WorkerDrainTimer,
                     DrainDefault, DrainClose, DrainEnd, TimerFire, At
<1>12. ASSUME NEW f \in Flushers, FlusherStep(f) PROVE Goal
  BY <1>1, <1>12 DEF FlusherStep, CancelSend, FlushEnqueued, FlushReturn
<1>13. ASSUME NEW k \in Closers, CloserStep(k) PROVE Goal
  BY <1>1, <1>13 DEF CloserStep, BeginShutdown, ShutdownAgain, ShutdownReturn
<1>14. ASSUME StopperClose \/ StopperWait \/ \E c \in Cancellable : Cancel(c) PROVE Goal
  BY <1>1, <1>14 DEF StopperClose, StopperWait, Cancel
<1> HIDE DEF chanVars, batchVars, timerVars, flushVars, stopVars
<1>15. Goal
  BY <1>3, <1>4, <1>5, <1>6, <1>7, <1>8, <1>9, <1>10, <1>11, <1>12, <1>13, <1>14
     DEF Next, ExportStep, WorkerStep, Goal
<1> QED
  BY <1>15 DEF Goal

LEMMA InitRefines == Init => Pipeline!Init /\ SentInv /\ WaitInv
<1> SUFFICES ASSUME Init PROVE Pipeline!Init /\ SentInv /\ WaitInv
  OBVIOUS
<1>1. Inside = <<>> /\ OnlySpans(exported) = <<>>
  <2>1. batch \o Hand \o queue = <<>>
    BY DEF Init, Hand
  <2> QED
    BY <2>1, OnlySpansEmpty DEF Init, Inside, Hand
<1>2. SentInv /\ WaitInv
  BY ToSetEmpty DEF Init, SentInv, WaitInv, Out, Items
<1> QED
  BY <1>1, <1>2 DEF Init, Pipeline!Init

\* The trace processor implements BatchPipeline: each accepted span is exported once, in the
\* order of acceptance, whoever exports, and flush markers disturb nothing.
THEOREM SpansImplementPipeline == Spec => PipelineSpec
<1>1. IInv /\ SentInv /\ WaitInv /\ [Next]_vars => (SentInv /\ WaitInv)'
  BY CallNext DEF IInv
<1>2. Spec => [](SentInv /\ WaitInv)
  BY <1>1, InitRefines, Inductive, PTL DEF Spec
<1> QED
  BY <1>2, InitRefines, NextRefines, Inductive, PTL DEF Spec, PipelineSpec, Pipeline!Spec

-----------------------------------------------------------------------------
(* ForceFlush.                                                             *)

\* The stages of a flush marker: in the queue, in the hand, in flushed.
LEMMA AheadNext ==
    ASSUME TypeOK, TypeOK', AcceptedInv, SentInv, WaitInv, [Next]_vars,
           NEW f \in Flushers, Ahead(f), FlushAt(f)
    PROVE  Ahead(f)'
<1> DEFINE Goal == Ahead(f)'
<1>1. /\ f \in Items /\ f \notin Spans /\ f # None /\ f # Worker /\ snapshot[f] \subseteq Spans
      /\ queue \in Seq(Items) /\ batch \in Seq(Items) /\ exported \in Seq(Items)
      /\ hand \in Items \cup {None} /\ Spans \subseteq Items /\ None \notin Items
  BY DEF TypeOK, Items
<1>2. ASSUME UNCHANGED <<queue, snapshot, flushed, hand>>, Out \subseteq Out',
             call[f] = "sent" => call'[f] = "sent", worker' = worker \/ hand = None
      PROVE  Goal
  BY <1>1, <1>2 DEF Ahead
<1>3. ASSUME NEW i \in Items, Enqueue(i) PROVE Goal
  <2>1. CASE i = f
    <3>1. f \notin ToSet(queue) /\ hand # f /\ f \notin flushed
      BY <1>1, <1>3, <2>1 DEF Enqueue, SentInv, Ahead
    <3>2. \A n \in DOMAIN queue : queue[n] # f
      BY <3>1 DEF ToSet
    <3>3. UNCHANGED <<queue, hand, flushed>>
      BY <1>3 DEF Enqueue
    <3> QED
      BY <3>1, <3>2, <3>3 DEF Ahead
  <2>2. CASE i # f
    <3>1. /\ UNCHANGED <<queue, batch, exported, flushed, hand, worker>> /\ call'[f] = call[f]
          /\ snapshot'[f] = snapshot[f]
      BY <1>1, <1>3, <2>2 DEF Enqueue, TypeOK, batchVars
    <3> QED
      BY <3>1 DEF Ahead, Out
  <2> QED
    BY <2>1, <2>2
<1>4. ASSUME NEW i \in Items, Send(i) PROVE Goal
  <2>1. /\ UNCHANGED <<batch, exported, snapshot, flushed, hand, worker>> /\ Out' = Out
        /\ call[i] = "sending"
        /\ call[f] = "sent" => call'[f] = "sent"
    BY <1>1, <1>4 DEF Send, TypeOK, batchVars, flushVars, Out
  <2>2. CASE queue' = queue
    BY <1>2, <2>1, <2>2
  <2>3. CASE queue' = Append(queue, i)
    <3>1. /\ DOMAIN queue' = 1 .. Len(queue) + 1 /\ queue'[Len(queue) + 1] = i
          /\ DOMAIN queue = 1 .. Len(queue) /\ Len(queue) \in Nat
          /\ \A n \in 1 .. Len(queue) : queue'[n] = queue[n]
      BY <1>1, <2>3
    <3>2. ASSUME i = f
          PROVE  snapshot[f] \subseteq Out \cup {hand} \cup {queue[m] : m \in 1 .. Len(queue)}
      BY <1>1, <3>1 DEF FlushAt, AcceptedInv, Out, ToSet
    <3>3. ASSUME NEW n \in DOMAIN queue', queue'[n] = f
          PROVE  snapshot[f] \subseteq Out \cup {hand} \cup {queue'[m] : m \in 1 .. n - 1}
      <4>1. CASE n = Len(queue) + 1
        <5>1. n - 1 = Len(queue) /\ i = f
          BY <3>1, <3>3, <4>1
        <5> QED
          BY <3>1, <3>2, <5>1
      <4>2. CASE n \in 1 .. Len(queue)
        <5>1. queue[n] = f /\ n \in DOMAIN queue /\ \A m \in 1 .. n - 1 : queue'[m] = queue[m]
          BY <3>1, <3>3, <4>2
        <5>2. snapshot[f] \subseteq Out \cup {hand} \cup {queue[m] : m \in 1 .. n - 1}
          BY <5>1 DEF Ahead
        <5> QED
          BY <5>1, <5>2
      <4> QED
        BY <3>1, <3>3, <4>1, <4>2
    <3> QED
      BY <2>1, <3>3 DEF Ahead
  <2> QED
    BY <1>4, <2>2, <2>3 DEF Send
<1>5. CASE WorkerRecv \/ DrainRecv
  <2>1. /\ Receive /\ hand = None /\ UNCHANGED <<batch, exported, flushed, snapshot>> /\ Out' = Out
        /\ worker # "handle"
    BY <1>5 DEF WorkerRecv, DrainRecv, At, TypeOK, batchVars, flushVars, Out
  <2> DEFINE q == Tail(queue)
  <2>2. /\ q \in Seq(Items) /\ hand' = queue[1] /\ 1 \in DOMAIN queue
        /\ \A n \in DOMAIN q : n + 1 \in DOMAIN queue /\ q[n] = queue[n + 1]
    BY <2>1, ReceiveItems
  <2>3. ASSUME NEW n \in DOMAIN q, q[n] = f
        PROVE  snapshot[f] \subseteq Out \cup {hand'} \cup {q[m] : m \in 1 .. n - 1}
    <3>1. snapshot[f] \subseteq Out \cup {queue[m] : m \in 1 .. n}
      <4>1. (n + 1) - 1 = n /\ queue[n + 1] = f /\ n + 1 \in DOMAIN queue
        BY <2>2, <2>3
      <4>2. snapshot[f] \subseteq Out \cup {hand} \cup {queue[m] : m \in 1 .. n}
        BY <4>1 DEF Ahead
      <4> QED
        BY <1>1, <2>1, <4>2
    <3>2. ASSUME NEW m \in 1 .. n, m # 1 PROVE m - 1 \in 1 .. n - 1 /\ q[m - 1] = queue[m]
      BY <2>2, <2>3, <3>2
    <3>3. \A m \in 1 .. n : queue[m] = hand' \/ \E k \in 1 .. n - 1 : q[k] = queue[m]
      BY <2>2, <3>2
    <3> QED
      BY <3>1, <3>3
  <2>4. hand' = f => snapshot[f] \subseteq Out
    <3>1. ASSUME queue[1] = f PROVE snapshot[f] \subseteq Out \cup {hand} \cup {queue[m] : m \in 1 .. 1 - 1}
      BY <2>2, <3>1 DEF Ahead
    <3>2. {queue[m] : m \in 1 .. 1 - 1} = {}
      OBVIOUS
    <3> QED
      BY <1>1, <2>1, <2>2, <3>1, <3>2
  <2>5. call[f] = "sent" => call'[f] = "sent"
    BY <1>1, <2>1, ReceiveItems DEF Receive, TypeOK
  <2>6. CASE sendq = <<>>
    <3>1. queue' = q
      BY <2>1, <2>6 DEF Receive
    <3> HIDE DEF q
    <3> QED
      BY <2>1, <2>3, <2>4, <2>5, <3>1 DEF Ahead
  <2>7. CASE sendq # <<>>
    <3> DEFINE i == Head(sendq)
    <3>1. queue' = Append(q, i) /\ i \in Items /\ call[i] = "parked"
      BY <2>1, <2>7, ReceiveItems DEF Receive, WaitInv
    <3>2. ASSUME i = f
          PROVE  snapshot[f] \subseteq Out \cup {hand'} \cup {q[m] : m \in 1 .. Len(q)}
      <4>1. snapshot[f] \subseteq Out \cup {hand} \cup ToSet(queue)
        BY <1>1 DEF FlushAt, AcceptedInv, Out
      <4>2. ToSet(queue) = {hand'} \cup ToSet(q)
        BY <2>1, ReceiveItems
      <4> HIDE DEF q
      <4>3. ToSet(q) = {q[m] : m \in 1 .. Len(q)}
        BY <2>2 DEF ToSet
      <4> QED
        BY <1>1, <2>1, <4>1, <4>2, <4>3
    <3> HIDE DEF q, i
    <3>3. /\ DOMAIN queue' = 1 .. Len(q) + 1 /\ queue'[Len(q) + 1] = i
          /\ DOMAIN q = 1 .. Len(q) /\ Len(q) \in Nat
          /\ \A n \in 1 .. Len(q) : queue'[n] = q[n]
      BY <2>2, <3>1
    <3>4. ASSUME NEW n \in DOMAIN queue', queue'[n] = f
          PROVE  snapshot[f] \subseteq Out \cup {hand'} \cup {queue'[m] : m \in 1 .. n - 1}
      <4>1. CASE n = Len(q) + 1
        <5>1. n - 1 = Len(q) /\ i = f
          BY <3>3, <3>4, <4>1
        <5> QED
          BY <3>2, <3>3, <5>1
      <4>2. CASE n \in 1 .. Len(q)
        <5>1. q[n] = f /\ n \in DOMAIN q /\ \A m \in 1 .. n - 1 : queue'[m] = q[m]
          BY <3>3, <3>4, <4>2
        <5> QED
          BY <2>3, <5>1
      <4> QED
        BY <3>3, <3>4, <4>1, <4>2
    <3> QED
      BY <2>1, <2>4, <2>5, <3>4 DEF Ahead
  <2> QED
    BY <2>6, <2>7
<1>6. CASE WorkerFlush
  <2>1. /\ UNCHANGED <<queue, call, batch, exported, snapshot>> /\ Out' = Out
        /\ flushed' = flushed \cup {hand} /\ hand' = None /\ hand \in Flushers /\ worker = "handle"
    BY <1>6 DEF WorkerFlush, At, chanVars, batchVars, Out
  <2>2. hand \notin Spans /\ hand \in Items /\ call[hand] = "sent"
    BY <1>1, <2>1 DEF Items, SentInv
  <2> QED
    BY <1>1, <2>1, <2>2 DEF Ahead
<1>7. CASE WorkerAppend \/ DrainAppend
  <2>1. /\ UNCHANGED <<queue, call, exported, flushed, snapshot>> /\ hand' = None
        /\ batch' = Append(batch, hand) /\ hand \in Items
    BY <1>7 DEF WorkerAppend, DrainAppend, At, TypeOK, chanVars, flushVars
  <2>2. ToSet(Append(batch, hand)) = ToSet(batch) \cup {hand}
    BY <1>1, <2>1, ToSetAppend
  <2>3. Out' = Out \cup {hand}
    BY <2>1, <2>2 DEF Out
  <2> QED
    BY <1>1, <2>1, <2>3 DEF Ahead
<1>8. ASSUME NEW p \in Exporters, NEW r \in {"ok", "err"}, ExportReturn(p, r) PROVE Goal
  <2>1. ToSet(exported') = ToSet(exported) \cup ToSet(batch)
    BY <1>1, <1>8, ToSetConcat DEF ExportReturn
  <2>2. Out \subseteq Out'
    BY <2>1 DEF Out
  <2> QED
    BY <1>2, <1>8, <2>2 DEF ExportReturn, chanVars, flushVars
<1>9. CASE DrainClose
  BY <1>1, <1>2, <1>9 DEF DrainClose, batchVars, flushVars, At, TypeOK, Out
<1>10. ASSUME NEW g \in Flushers, CancelSend(g) PROVE Goal
  BY <1>1, <1>2, <1>10 DEF CancelSend, batchVars, flushVars, TypeOK, Out
<1> HIDE DEF Goal
<1> USE DEF chanVars, batchVars, timerVars, flushVars, stopVars, Out
<1>11. ASSUME UNCHANGED vars PROVE Goal
  BY <1>2, <1>11 DEF vars
<1>12. ASSUME NEW p \in Exporters, ResetTimer(p) \/ LockBatch(p) PROVE Goal
  BY <1>2, <1>12 DEF ResetTimer, LockBatch
<1>13. ASSUME \/ WorkerStop \/ WorkerTimer \/ WorkerStopTimer \/ WorkerDrainTimer
             \/ DrainDefault \/ DrainEnd \/ WorkerExit \/ TimerFire
       PROVE  Goal
  BY <1>2, <1>13 DEF WorkerStop, WorkerTimer, WorkerStopTimer, WorkerDrainTimer,
                     DrainDefault, DrainEnd, WorkerExit, TimerFire, At, TypeOK
<1>14. ASSUME NEW g \in Flushers, NEW r \in {"nil", "err"}, FlushEnqueued(g) \/ FlushReturn(g, r)
       PROVE  Goal
  BY <1>2, <1>14 DEF FlushEnqueued, FlushReturn
<1>15. ASSUME NEW k \in Closers, CloserStep(k) PROVE Goal
  BY <1>2, <1>15 DEF CloserStep, BeginShutdown, ShutdownAgain, ShutdownReturn
<1>16. ASSUME StopperClose \/ StopperWait \/ \E c \in Cancellable : Cancel(c) PROVE Goal
  BY <1>2, <1>16 DEF StopperClose, StopperWait, Cancel
<1> HIDE DEF chanVars, batchVars, timerVars, flushVars, stopVars, Out
<1>17. ASSUME NEW g \in Flushers, FlusherStep(g) PROVE Goal
  BY <1>10, <1>14, <1>17 DEF FlusherStep, Goal
<1>18. Goal
  BY <1>3, <1>4, <1>5, <1>6, <1>7, <1>8, <1>9, <1>11, <1>12, <1>13, <1>15, <1>16, <1>17
     DEF Next, ExportStep, WorkerStep, Goal
<1> QED
  BY <1>18 DEF Goal

\* The states of the call itself.
LEMMA FlushAtNext ==
    ASSUME TypeOK, TypeOK', WaitInv, [Next]_vars, NEW f \in Flushers, Ahead(f), FlushAt(f)
    PROVE  FlushAt(f)'
<1> DEFINE Goal == FlushAt(f)'
<1>1. /\ f \in Items /\ f \notin Spans /\ f # Worker /\ f \in Exporters /\ Worker \in Exporters
      /\ snapshot[f] \subseteq Spans /\ Spans \subseteq Items /\ call \in [Items -> CallStates]
      /\ exp \in [Exporters -> {"idle", "reset", "lock", "export", "ok", "err"}]
      /\ batch \in Seq(Items) /\ exported \in Seq(Items)
  BY DEF TypeOK, Items, Exporters
<1>2. ASSUME flush'[f] = flush[f], snapshot'[f] = snapshot[f], flushed \subseteq flushed',
             exp'[f] = exp[f], ToSet(exported) \subseteq ToSet(exported'),
             \A i \in Items : call'[i] = call[i] \/ call[i] \in {"idle", "sending", "parked"}
      PROVE  Goal
  BY <1>1, <1>2 DEF FlushAt
<1>3. ASSUME NEW i \in Items, Enqueue(i) PROVE Goal
  <2>1. /\ UNCHANGED <<exp, exported, flushed>> /\ call[i] = "idle"
        /\ call' = [call EXCEPT ![i] = IF stopCh = "closed" THEN "stopped" ELSE "sending"]
    BY <1>3 DEF Enqueue, batchVars
  <2>2. CASE i # f
    <3>1. flush'[f] = flush[f] /\ snapshot'[f] = snapshot[f]
      BY <1>3, <2>2 DEF Enqueue, TypeOK
    <3> QED
      BY <1>1, <1>2, <2>1, <3>1
  <2>3. CASE i = f
    <3>1. exp[f] = "idle" /\ flush[f] # "nil"
      BY <2>1, <2>3 DEF FlushAt
    <3>2. snapshot'[f] = {s \in Spans : call[s] = "sent"} /\ flush'[f] = "enqueue"
      <4> DEFINE Sent == {s \in Spans : call[s] = "sent"}
      <4>1. snapshot' = [snapshot EXCEPT ![f] = Sent] /\ flush' = [flush EXCEPT ![f] = "enqueue"]
        BY <1>3, <2>3 DEF Enqueue
      <4> HIDE DEF Sent
      <4>2. snapshot'[f] = Sent /\ flush'[f] = "enqueue"
        BY <4>1 DEF TypeOK
      <4> QED
        BY <4>2 DEF Sent
    <3>3. \A s \in snapshot'[f] : call'[s] = "sent"
      BY <1>1, <2>1, <2>3, <3>2
    <3> QED
      BY <2>1, <3>1, <3>2, <3>3 DEF FlushAt
  <2> QED
    BY <2>2, <2>3
<1>4. ASSUME NEW p \in Exporters, NEW r \in {"ok", "err"}, ExportReturn(p, r) PROVE Goal
  <2>1. /\ UNCHANGED <<call, flush, flushed, snapshot>> /\ exp[p] = "export"
        /\ exp' = [exp EXCEPT ![p] = IF p = Worker THEN "idle" ELSE r]
    BY <1>4 DEF ExportReturn, Finish, chanVars, flushVars
  <2>2. ToSet(exported') = Out
    BY <1>1, <1>4, ToSetConcat DEF ExportReturn, Out
  <2>3. CASE p = f
    <3>1. /\ exp'[f] \in {"ok", "err"} /\ flush[f] \notin {"idle", "enqueue", "nil"}
          /\ call[f] = "sent" => snapshot[f] \subseteq Out
      BY <1>1, <2>1, <2>3 DEF FlushAt, Ahead
    <3> QED
      BY <2>1, <2>2, <2>3, <3>1 DEF FlushAt
  <2>4. CASE p # f
    BY <1>1, <1>2, <2>1, <2>2, <2>4 DEF Out
  <2> QED
    BY <2>3, <2>4
<1>5. ASSUME NEW p \in Exporters, ResetTimer(p) \/ LockBatch(p) PROVE Goal
  <2>1. /\ UNCHANGED <<call, flush, flushed, snapshot, exported>> /\ exp[p] \in {"reset", "lock"}
        /\ \E l \in {"lock", "export", "idle", "ok"} :
               /\ exp' = [exp EXCEPT ![p] = l]
               /\ l = "idle" => p = Worker
               /\ l = "ok" => batch = <<>>
    BY <1>5 DEF ResetTimer, LockBatch, Finish, chanVars, batchVars, flushVars
  <2>2. CASE p = f
    <3>1. /\ exp'[f] \in {"lock", "export", "ok"} /\ flush[f] \notin {"idle", "enqueue", "nil"}
          /\ exp'[f] = "ok" => batch = <<>>
          /\ call[f] = "sent" => snapshot[f] \subseteq Out
      BY <1>1, <2>1, <2>2 DEF FlushAt, Ahead
    <3>2. batch = <<>> => Out = ToSet(exported)
      BY ToSetEmpty DEF Out
    <3> QED
      BY <2>1, <2>2, <3>1, <3>2 DEF FlushAt
  <2>3. CASE p # f
    BY <1>1, <1>2, <2>1, <2>3
  <2> QED
    BY <2>2, <2>3
<1>6. ASSUME NEW g \in Flushers, FlushEnqueued(g) PROVE Goal
  <2>1. /\ UNCHANGED <<call, flushed, snapshot, exported>>
        /\ \/ call[g] = "sent" /\ g \in flushed
           \/ call[g] \in {"stopped", "recovered", "cancelled"}
        /\ flush' = [flush EXCEPT ![g] = "collect"] /\ exp' = [exp EXCEPT ![g] = "reset"]
        /\ g \in Exporters
    BY <1>6 DEF FlushEnqueued, StartCollect, chanVars, batchVars, Exporters
  <2>2. CASE g = f
    BY <1>1, <2>1, <2>2 DEF FlushAt, TypeOK
  <2>3. CASE g # f
    BY <1>1, <1>2, <2>1, <2>3 DEF TypeOK
  <2> QED
    BY <2>2, <2>3
<1>7. ASSUME NEW g \in Flushers, NEW r \in {"nil", "err"}, FlushReturn(g, r) PROVE Goal
  <2>1. /\ UNCHANGED <<call, flushed, snapshot, exported, exp>>
        /\ flush' = [flush EXCEPT ![g] = r]
        /\ r = "nil" => exp[g] = "ok"
    BY <1>7 DEF FlushReturn, chanVars, batchVars
  <2>2. CASE g = f
    BY <1>1, <2>1, <2>2 DEF FlushAt, TypeOK
  <2>3. CASE g # f
    BY <1>1, <1>2, <2>1, <2>3 DEF TypeOK
  <2> QED
    BY <2>2, <2>3
<1>8. CASE WorkerRecv \/ DrainRecv
  <2>1. /\ Receive /\ UNCHANGED <<exported, flush, flushed, snapshot, exp>>
    BY <1>8 DEF WorkerRecv, DrainRecv, batchVars, flushVars
  <2>2. \A i \in Items : call'[i] = call[i] \/ call[i] \in {"idle", "sending", "parked"}
    BY <1>1, <2>1, ReceiveItems DEF Receive, WaitInv
  <2> QED
    BY <1>2, <2>1, <2>2
<1>9. ASSUME NEW i \in Items, Send(i) PROVE Goal
  BY <1>1, <1>2, <1>9 DEF Send, batchVars, flushVars
<1>10. ASSUME NEW g \in Flushers, CancelSend(g) PROVE Goal
  BY <1>1, <1>2, <1>10 DEF CancelSend, batchVars, flushVars
<1>11. CASE DrainClose
  BY <1>1, <1>2, <1>11 DEF DrainClose, batchVars, flushVars
<1> HIDE DEF Goal
<1> USE DEF chanVars, batchVars, timerVars, flushVars, stopVars
<1>12. ASSUME UNCHANGED vars PROVE Goal
  BY <1>2, <1>12 DEF vars
<1>13. ASSUME \/ WorkerStop \/ WorkerTimer \/ WorkerFlush \/ WorkerAppend \/ WorkerStopTimer
             \/ WorkerDrainTimer \/ DrainAppend \/ DrainDefault \/ DrainEnd \/ WorkerExit
             \/ TimerFire
       PROVE  Goal
  BY <1>1, <1>2, <1>13
     DEF WorkerStop, WorkerTimer, WorkerFlush, WorkerAppend, WorkerStopTimer, WorkerDrainTimer,
         DrainAppend, DrainDefault, DrainEnd, WorkerExit, TimerFire, CallExport
<1>14. ASSUME NEW k \in Closers, CloserStep(k) PROVE Goal
  BY <1>2, <1>14 DEF CloserStep, BeginShutdown, ShutdownAgain, ShutdownReturn
<1>15. ASSUME StopperClose \/ StopperWait \/ \E c \in Cancellable : Cancel(c) PROVE Goal
  BY <1>2, <1>15 DEF StopperClose, StopperWait, Cancel
<1> HIDE DEF chanVars, batchVars, timerVars, flushVars, stopVars
<1>16. ASSUME NEW g \in Flushers, FlusherStep(g) PROVE Goal
  BY <1>6, <1>7, <1>10, <1>16 DEF FlusherStep, Goal
<1>17. Goal
  BY <1>3, <1>4, <1>5, <1>8, <1>9, <1>11, <1>12, <1>13, <1>14, <1>15, <1>16
     DEF Next, ExportStep, WorkerStep, Goal
<1> QED
  BY <1>17 DEF Goal

LEMMA FlushInit == Init => FlushInv
BY DEF Init, FlushInv, Ahead, FlushAt, Exporters, Items

\* A ForceFlush whose marker went through the queue and that returned nil has exported
\* every span accepted before it was called, whatever the worker, Shutdown and other
\* ForceFlush calls did meanwhile.
THEOREM FlushIsComplete == Spec => []FlushComplete
<1>1. IInv /\ IInv' /\ SentInv /\ WaitInv /\ FlushInv /\ [Next]_vars
        => (SentInv /\ WaitInv /\ FlushInv)'
  BY CallNext, AheadNext, FlushAtNext DEF IInv, FlushInv
<1>2. FlushInv => FlushComplete
  BY DEF FlushInv, FlushAt, FlushComplete
<1> QED
  BY <1>1, <1>2, InitRefines, FlushInit, Inductive, PTL DEF Spec
=============================================================================
