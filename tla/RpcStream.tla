------------------------------ MODULE RpcStream ------------------------------
(***************************************************************************)
(* The stream filters of oteltrpc/metrics/prometheus: a stream is counted  *)
(* as started when it is made, a client's as handled by each RecvMsg that  *)
(* ends it, a server's when its handler returns. Messages are counted one  *)
(* by one. A time is only kept for what a reporter observes.               *)
(***************************************************************************)
EXTENDS Naturals, FiniteSets

CONSTANTS Streams,      \* streams of the process
          Desc,         \* Desc[s]: [role, clientStreams, serverStreams]
          MaxMessages,  \* bound: messages of a stream, each way
          MaxEnds       \* bound: calls of RecvMsg after the first that ended

VARIABLES
    stream,             \* state of each stream: "idle", "open", "half" or "closed"
    sent,               \* messages counted as sent
    received,           \* messages counted as received
    startedStreams,     \* reporters made
    handledStreams,     \* [code -> times handled], "0" or "error"
    answers             \* [stream -> the times its user was told that it ended, by code]

streamVars == <<stream, sent, received, startedStreams, handledStreams, answers>>

\* clientStreamType, serverStreamType: the label of the stream's counters.
RpcType(desc) ==
    IF desc.clientStreams
    THEN IF desc.serverStreams THEN "bidi_stream" ELSE "client_stream"
    ELSE IF desc.serverStreams THEN "server_stream" ELSE "unary"

InitStreams ==
    /\ stream = [s \in Streams |-> "idle"]
    /\ sent = [t \in {RpcType(Desc[s]) : s \in Streams} |-> 0] /\ received = sent
    /\ startedStreams = {}
    /\ handledStreams = [code \in {"0", "error"} |-> 0]
    /\ answers = [s \in Streams |-> handledStreams]

Count(counter, s) == [counter EXCEPT ![RpcType(Desc[s])] = @ + 1]
Told(s, code) == answers' = [answers EXCEPT ![s][code] = @ + 1]
HandledWith(code) == handledStreams' = [handledStreams EXCEPT ![code] = @ + 1]

\* Mutant: the end of a stream is an error like another.
EveryEndFails(answer) == HandledWith("error")
\* io.EOF is the code 0, another error has its own.
HandledEnd(answer) == HandledWith(IF answer = "EOF" THEN "0" ELSE "error")

-----------------------------------------------------------------------------
(* A client's stream.                                                      *)

\* StreamClientFilter: a stream that cannot be made is handled at once.
Create(s, answer) ==
    /\ Desc[s].role = "client" /\ stream[s] = "idle"
    /\ startedStreams' = startedStreams \cup {s}
    /\ stream' = [stream EXCEPT ![s] = IF answer = "ok" THEN "open" ELSE "closed"]
    /\ IF answer = "ok" THEN UNCHANGED <<handledStreams, answers>>
       ELSE HandledEnd(answer) /\ Told(s, IF answer = "EOF" THEN "0" ELSE "error")
    /\ UNCHANGED <<sent, received>>

SendMsg(s, ok) ==
    /\ Desc[s].role = "client" /\ stream[s] = "open"
    /\ sent' = IF ok /\ sent[RpcType(Desc[s])] < MaxMessages THEN Count(sent, s) ELSE sent
    /\ ok => sent' # sent
    /\ UNCHANGED <<stream, received, startedStreams, handledStreams, answers>>

RecvMessage(s) ==
    /\ Desc[s].role = "client" /\ stream[s] = "open" /\ received[RpcType(Desc[s])] < MaxMessages
    /\ received' = Count(received, s)
    /\ UNCHANGED <<stream, sent, startedStreams, handledStreams, answers>>

\* RecvMsg: the stream has ended, and says so as often as it is asked.
RecvEnd(s, answer) ==
    /\ Desc[s].role = "client" /\ stream[s] \in {"open", "half"}
    /\ answers[s]["0"] + answers[s]["error"] <= MaxEnds
    /\ stream' = [stream EXCEPT ![s] = "half"]
    /\ HandledEnd(answer) /\ Told(s, IF answer = "EOF" THEN "0" ELSE "error")
    /\ UNCHANGED <<sent, received, startedStreams>>

\* The user does not read on.
Leave(s) ==
    /\ Desc[s].role = "client" /\ stream[s] \in {"open", "half"}
    /\ stream' = [stream EXCEPT ![s] = "closed"]
    /\ UNCHANGED <<sent, received, startedStreams, handledStreams, answers>>

-----------------------------------------------------------------------------
(* A server's stream.                                                      *)

\* StreamServerFilter, before and after the handler, which may panic.
Accept(s) ==
    /\ Desc[s].role = "server" /\ stream[s] = "idle"
    /\ stream' = [stream EXCEPT ![s] = "open"]
    /\ startedStreams' = startedStreams \cup {s}
    /\ UNCHANGED <<sent, received, handledStreams, answers>>

ServeMessage(s, direction) ==
    /\ Desc[s].role = "server" /\ stream[s] = "open"
    /\ \/ /\ direction = "send" /\ sent[RpcType(Desc[s])] < MaxMessages
          /\ sent' = Count(sent, s) /\ UNCHANGED received
       \/ /\ direction = "recv" /\ received[RpcType(Desc[s])] < MaxMessages
          /\ received' = Count(received, s) /\ UNCHANGED sent
    /\ UNCHANGED <<stream, startedStreams, handledStreams, answers>>

HandlerEnds(s, code) ==
    /\ Desc[s].role = "server" /\ stream[s] = "open"
    /\ stream' = [stream EXCEPT ![s] = "closed"]
    /\ HandledWith(code) /\ Told(s, code)
    /\ UNCHANGED <<sent, received, startedStreams>>

HandlerPanics(s) ==
    /\ Desc[s].role = "server" /\ stream[s] = "open"
    /\ stream' = [stream EXCEPT ![s] = "closed"]
    /\ UNCHANGED <<sent, received, startedStreams, handledStreams, answers>>

StreamNext ==
    \E s \in Streams :
       \/ \E answer \in {"ok", "EOF", "error"} : Create(s, answer)
       \/ \E ok \in BOOLEAN : SendMsg(s, ok)
       \/ RecvMessage(s) \/ Leave(s) \/ Accept(s) \/ HandlerPanics(s)
       \/ \E answer \in {"EOF", "error"} : RecvEnd(s, answer)
       \/ \E direction \in {"send", "recv"} : ServeMessage(s, direction)
       \/ \E code \in {"0", "error"} : HandlerEnds(s, code)

\* A stream is handled when, and as often as, its user learns that it ended: not at all if
\* he leaves before, and again when he asks again (stream_filter.go:136-139), so that more
\* streams may be handled than were started. One that ended in good order is a success.
Answered(code) == UNION {{s} \X (1 .. answers[s][code]) : s \in Streams}
StreamsCounted ==
    /\ \A code \in {"0", "error"} : handledStreams[code] = Cardinality(Answered(code))
    /\ \A s \in Streams : answers[s]["0"] + answers[s]["error"] # 0 => s \in startedStreams
    /\ handledStreams["0"] + handledStreams["error"] > Cardinality(startedStreams) =>
          \E s \in Streams : answers[s]["0"] + answers[s]["error"] > 1
=============================================================================
