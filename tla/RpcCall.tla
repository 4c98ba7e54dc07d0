------------------------------- MODULE RpcCall -------------------------------
(***************************************************************************)
(* A unary call through the filter chain of oteltrpc: the trace filter,    *)
(* the metric filter, the recovery filter of a server, and the handler. A  *)
(* server call makes client calls while it is handled, and a client call   *)
(* reaches another server call; the span context travels in the metadata.  *)
(* The callee may still run when its caller has given up waiting.          *)
(*                                                                         *)
(* Attributes, events' contents and labels are left out; addresses and     *)
(* deadlines are attributes. Time is counted in units of the slow option.  *)
(***************************************************************************)
EXTENDS Sampling, RemoteConfig

CONSTANTS Calls,        \* the calls of a scenario
          Kind,         \* Kind[c]: "server" or "client"
          Caller,       \* Caller[c]: the call it is made by, or "none"
          Source,       \* Source[c]: [service, method] the message names as its caller
          Callee,       \* Callee[c]: [service, method, path], path "" when not HTTP
          Message,      \* Message[c]: [dyeingKey, force, body], "" for none; body a length
          MaxStringLength, SuffixLength, \* of an event's message, and of what marks a cut one
          HttpPaths,    \* methods that are HTTP paths
          Patterns,     \* Patterns[path]: the pattern registered for it
          Sampler,      \* configuration of the head sampler
          MaxNow        \* bound of the clock

\* A message is marshalled into some text, at least {}; servers are called by clients.
ASSUME CallAssumption ==
    /\ MaxNow \in Nat /\ MaxStringLength \in Nat \ {0} /\ SuffixLength \in 0..MaxStringLength
    /\ \A c \in Calls : /\ Caller[c] \in Calls \cup {"none"}
                        /\ Message[c].body \in Nat \ {0}
                        /\ Kind[c] = "server" /\ Caller[c] # "none" => Kind[Caller[c]] = "client"
    /\ "none" \notin Calls

VARIABLES
    filters,            \* options the plugin's Setup gave the filters
    traceStatus,        \* hot switch: "on" or "off"
    now,                \* clock
    at,                 \* step of each call
    carried,            \* span contexts each call carries: <<in the metadata, in the header>>
    span,               \* span of each call
    meter,              \* reporter of each call, and what it counted
    outcome,            \* how the handler of each call ended
    ended               \* what became of each call's span

callVars == <<filters, traceStatus, now, at, carried, span, meter, outcome, ended>>

SpanContext == [trace : Int, sampled : BOOLEAN]
NoContext == [trace |-> -1, sampled |-> FALSE]
NoSpan    == [trace |-> -1, decision |-> "none", start |-> 0]
NoMeter   == [start |-> 0, started |-> 0, handled |-> 0, type |-> "none", exemplars |-> {}]
NotEnded  == [kept |-> FALSE, status |-> "none", type |-> "none", body |-> 0, logged |-> FALSE]

Traced(c) == span[c] # NoSpan
Goto(c, step) == at' = [at EXCEPT ![c] = step]

\* setupFilters: what the chain takes from the plugin's configuration; without Setup the
\* chain of the package's variables is in force.
setupFilters(cfg) ==
    [ mode          |-> cfg.traceLogMode,      exclude  |-> cfg.exclude,
      noBody        |-> cfg.disableTraceBody,  noParent |-> cfg.disableParentSampling,
      noRecovery    |-> cfg.disableRecovery,   metrics  |-> cfg.metrics,
      methodMapping |-> ~(cfg.metrics /\ cfg.disableRPCMethodMapping),
      deferred      |-> cfg.deferred ]
DefaultFilters(deferred) ==
    [ mode |-> "oneline", exclude |-> {}, noBody |-> FALSE, noParent |-> FALSE, noRecovery |-> FALSE,
      metrics |-> TRUE, methodMapping |-> TRUE, deferred |-> deferred ]

InitCalls(setups, remotes) ==
    /\ filters \in setups
    /\ traceStatus = "on" /\ now = 0
    /\ at = [c \in Calls |-> "idle"]
    /\ carried \in [Calls -> remotes]
    /\ \A c \in Calls : Caller[c] # "none" => carried[c] = <<NoContext, NoContext>>
    /\ span = [c \in Calls |-> NoSpan] /\ meter = [c \in Calls |-> NoMeter]
    /\ outcome = [c \in Calls |-> [kind |-> "none", code |-> "0"]]
    /\ ended = [c \in Calls |-> NotEnded]

Tick ==
    /\ now < MaxNow
    /\ now' = now + 1
    /\ UNCHANGED <<filters, traceStatus, at, carried, span, meter, outcome, ended>>

\* DisableTrace, EnableTrace.
Toggle ==
    /\ traceStatus' = IF traceStatus = "on" THEN "off" ELSE "on"
    /\ UNCHANGED <<filters, now, at, carried, span, meter, outcome, ended>>

-----------------------------------------------------------------------------
(* The trace filter, before the handler.                                   *)

\* What a call carries when it starts: a client call the metadata of the server call it
\* is made by, cloned, a server call what its caller sent.
Carried(c) ==
    IF Caller[c] = "none" THEN carried[c]
    ELSE IF Kind[c] = "client" THEN <<carried[Caller[c]][1], NoContext>>
    ELSE carried[Caller[c]]

\* The carriers' Get: the first that has a value. Set writes the metadata, and the header
\* of an HTTP request.
Get(carriers) ==
    IF carriers[1] # NoContext THEN carriers[1] ELSE carriers[2]
Set(c, context) == <<context, IF Callee[c].path # "" THEN context ELSE NoContext>>

\* startServerSpan, startClientSpan: the remote span context, or the caller's span.
Parent(c) ==
    IF Kind[c] = "server"
    THEN [Get(Carried(c)) EXCEPT !.sampled = @ /\ ~filters.noParent]
    ELSE IF Caller[c] # "none" /\ Traced(Caller[c])
         THEN [trace |-> span[Caller[c]].trace, sampled |-> span[Caller[c]].decision = "sample"]
         ELSE NoContext

\* fromTRPCDyeingKey, forceSampleFromMetadata.
SamplingAttributes(c) ==
    {<<"dyeing", v>> : v \in {Message[c].dyeingKey} \ {""}}
    \cup {<<"force", v>> : v \in {Message[c].force} \ {""}}

Start(c, trace) ==
    [ trace    |-> trace, start |-> now,
      decision |-> ShouldSample(getSamplerConfig(Sampler), filters.deferred, Parent(c).sampled,
                                SamplingAttributes(c), trace, Callee[c].service, Callee[c].method) ]

TraceFilter(c) ==
    /\ at[c] = "idle" /\ (Caller[c] # "none" => at[Caller[c]] = "handling")
    /\ \E trace \in IF Parent(c).trace # -1 THEN {Parent(c).trace} ELSE 0..Scale-1 :
          IF traceStatus = "off"
          THEN span' = span /\ carried' = [carried EXCEPT ![c] = Carried(c)]
          ELSE /\ span' = [span EXCEPT ![c] = Start(c, trace)]
               /\ carried' = [carried EXCEPT ![c] =
                     IF Kind[c] = "server" THEN Carried(c)
                     ELSE Set(c, [trace |-> trace, sampled |-> Start(c, trace).decision = "sample"])]
    /\ Goto(c, "traced")
    /\ UNCHANGED <<filters, traceStatus, now, meter, outcome, ended>>

-----------------------------------------------------------------------------
(* The metric filter and the handler.                                      *)

CleanRPCMethod(method) ==
    IF ~filters.methodMapping THEN method
    ELSE IF method = "" THEN "-"
    ELSE IF method \notin HttpPaths THEN method
    ELSE IF method \in DOMAIN Patterns THEN Patterns[method] ELSE "default_pattern_method"
cleanServiceName(service) == IF service = "" THEN "-" ELSE service

\* The method a reporter is made with: an HTTP server's is its verb and path.
MetricMethod(c) ==
    CleanRPCMethod(IF Kind[c] = "server" /\ Callee[c].path # ""
                   THEN "[GET]" \o CleanRPCMethod(Callee[c].path) ELSE Callee[c].method)

\* NewServerReporter, NewClientReporter.
MetricFilter(c) ==
    /\ at[c] = "traced"
    /\ meter' = IF filters.metrics THEN [meter EXCEPT ![c].start = now, ![c].started = 1] ELSE meter
    /\ Goto(c, "handling")
    /\ UNCHANGED <<filters, traceStatus, now, carried, span, outcome, ended>>

\* LogRecoveryFilter: a panic is an error of the framework, or goes on.
LogRecovery(o) == IF o.kind = "panic" /\ ~filters.noRecovery THEN [kind |-> "errs", code |-> "31"] ELSE o

\* A server's handler has waited for the calls it made.
HandlerReturns(c, o) ==
    /\ at[c] = "handling"
    /\ Kind[c] = "server" => \A d \in Calls : Caller[d] = c => at[d] \in {"idle", "done"}
    /\ Kind[c] = "client" => o.kind # "panic"
    /\ outcome' = [outcome EXCEPT ![c] = LogRecovery(o)]
    /\ Goto(c, IF LogRecovery(o).kind = "panic" THEN "panicked" ELSE "returned")
    /\ UNCHANGED <<filters, traceStatus, now, carried, span, meter, ended>>

\* DefaultGetCodeFunc; errs.Code finds the error that another one wraps.
GetCode(o) == IF o.kind = "plain" THEN "999" ELSE o.code

\* Handled of either reporter. The exemplar names the trace of the context, none if the
\* trace filter was off.
Handled(c) ==
    /\ at[c] = "returned"
    /\ LET type == CodeType(GetCode(outcome[c]), cleanServiceName(Callee[c].service), MetricMethod(c))
           cost == now - meter[c].start
       IN meter' = IF ~filters.metrics THEN meter ELSE
             [meter EXCEPT
                ![c].handled = @ + 1, ![c].type = type,
                ![c].exemplars =
                   {e \in {"counter", "histogram"} :
                      IF e = "counter" THEN counterNeedUseExemplar(filters.deferred, span[c].decision, type)
                      ELSE histogramNeedUseExemplar(filters.deferred, span[c].decision, cost)}]
    /\ Goto(c, "metered")
    /\ UNCHANGED <<filters, traceStatus, now, carried, span, outcome, ended>>

-----------------------------------------------------------------------------
(* The trace filter, after the handler.                                    *)

\* getErrCode: only the error itself is looked at, not one it wraps.
getErrCode(o) == IF o.kind \in {"plain", "wrapped"} THEN "999" ELSE o.code
IsError(o) == o.kind # "rsp"

\* handleError, with the names of the message as they are.
SpanType(c) == CodeType(getErrCode(outcome[c]), Callee[c].service, Callee[c].method)
handleError(c) == IF SpanType(c) = "success" THEN "Ok" ELSE "Error"

needToTraceBody(c) ==
    /\ ~filters.noBody
    /\ span[c].decision = "sample" \/ filters.mode # "disable" \/ IsError(outcome[c])

\* addEvent: a message that is too long is cut, and marked.
fixStringTooLong(length) == IF length > MaxStringLength THEN MaxStringLength - SuffixLength + SuffixLength
                            ELSE length

\* doFlowLog: an exclude rule names a service and a method, of either side, and a code, ""
\* for any.
Excluded(c) ==
    \E rule \in filters.exclude : /\ rule.service \in {"", Source[c].service, Callee[c].service}
                                  /\ rule.method \in {"", Source[c].method, Callee[c].method}
                                  /\ rule.code \in {"", getErrCode(outcome[c])}
doFlowLog(c) == filters.mode # "disable" /\ ~Excluded(c)

Ended(c, status) == [decision |-> span[c].decision, status |-> status, duration |-> now - span[c].start]

Finish(c) ==
    /\ at[c] = "metered"
    /\ ended' = IF ~Traced(c) THEN ended ELSE
          [ended EXCEPT ![c] = [ kept   |-> OnEnd(filters.deferred, Ended(c, handleError(c))),
                                 status |-> handleError(c), type |-> SpanType(c),
                                 body   |-> IF needToTraceBody(c) THEN fixStringTooLong(Message[c].body) ELSE 0,
                                 logged |-> doFlowLog(c) ]]
    /\ Goto(c, "done")
    /\ UNCHANGED <<filters, traceStatus, now, carried, span, meter, outcome>>

\* The panic goes through both filters: span.End is deferred, Handled is not.
Unwind(c) ==
    /\ at[c] = "panicked"
    /\ ended' = IF ~Traced(c) THEN ended ELSE
          [ended EXCEPT ![c] = [NotEnded EXCEPT !.kept = OnEnd(filters.deferred, Ended(c, "Unset")),
                                                !.status = "Unset"]]
    /\ Goto(c, "done")
    /\ UNCHANGED <<filters, traceStatus, now, carried, span, meter, outcome>>

CallNext(outcomes, toggles) ==
    \/ Tick \/ (toggles /\ Toggle)
    \/ \E c \in Calls : \/ TraceFilter(c) \/ MetricFilter(c) \/ Handled(c) \/ Finish(c) \/ Unwind(c)
                        \/ \E o \in outcomes : HandlerReturns(c, o)

-----------------------------------------------------------------------------
(* Properties.                                                             *)

Done(c) == at[c] = "done" /\ Traced(c)

\* What an operator may rely on in the traces. With deferred sampling of errors the span
\* of every call that failed, or whose handler panicked past the disabled recovery
\* (filter.go:107, recovery.go:54), is kept, and its flow log is only missing when an
\* exclude rule names its code or any (traces/log.go:33-43). A call made by a traced
\* client call is in the same trace, and kept when that one was sampled at the head
\* unless parent sampling is disabled (filter.go:199).
SpansKept ==
    \A c \in Calls : Done(c) =>
       /\ filters.deferred.enabled /\ filters.deferred.error /\ ended[c].status # "Ok" => ended[c].kept
       /\ ended[c].status = "Error" /\ IsError(outcome[c]) =>
             /\ filters.noBody \/ ended[c].body \in 1..MaxStringLength
             /\ ended[c].logged \/ filters.mode = "disable"
                \/ \E rule \in filters.exclude : rule.code \in {"", getErrCode(outcome[c])}
       /\ Kind[c] = "server" /\ Caller[c] # "none" /\ Traced(Caller[c]) =>
             /\ span[c].trace = span[Caller[c]].trace
             /\ span[Caller[c]].decision = "sample" /\ ~filters.noParent => ended[c].kept

\* A metric's exemplar leads to a span that is stored (rpc_client_reporter.go:163-177):
\* the counter's unless span and metric disagree on the meaning of the code, for which
\* they use different names, and the histogram's unless no slow duration is configured,
\* when every observation names its trace.
ExemplarResolves ==
    \A c \in Calls : Done(c) /\ outcome[c].kind # "panic" =>
       /\ "counter" \in meter[c].exemplars /\ meter[c].type = ended[c].type => ended[c].kept
       /\ "histogram" \in meter[c].exemplars
             /\ (filters.deferred.enabled => filters.deferred.slow # 0) => ended[c].kept

\* A call is counted as handled once, unless its handler panicked past the filters.
UnaryCounted ==
    \A c \in Calls : at[c] = "done" => \/ meter[c].handled = meter[c].started
                                       \/ outcome[c].kind = "panic"
=============================================================================
