------------------------------ MODULE Telemetry ------------------------------
(***************************************************************************)
(* The facade, opentelemetry.go: the set-up options, Setup, which builds   *)
(* the parts of the three signals one after the other and returns at the   *)
(* first error, and Shutdown, which shuts the three down one after the     *)
(* other and returns at the first error. A set-up is known by its number;  *)
(* a part is a pair <<kind, number of its set-up>>.                        *)
(*                                                                         *)
(* A part whose Shutdown was called once does nothing the next time: a     *)
(* meter provider reports that it is shut already, tracer provider and     *)
(* logger return nil, whatever came of the first call.                     *)
(***************************************************************************)
EXTENDS ExporterOptions

CONSTANTS DefaultTenantID, MaxShutdowns

VARIABLES setups,       \* number of set-ups begun
          stage,        \* of the set-up: "idle", "exporter", "log", "metric", "tracer"
          addr,         \* its address, [scheme, host]
          options,      \* its options applied, setupOptions
          started,      \* parts whose goroutines run
          global,       \* kind -> number of the set-up whose part is the global one, 0 for none
          failed,       \* set-ups that returned an error
          stopping,     \* of Shutdown: "idle" or the kind it is at
          result,       \* what the last Shutdown returned: "none", "nil", "error"
          shutdowns,    \* number of calls
          shut,         \* parts shut down
          gaveUp        \* parts whose Shutdown failed, or was cut short by its context

setupVars == <<setups, stage, addr, options, started, global, failed>>
shutdownVars == <<stopping, result, shutdowns, shut, gaveUp>>
telemetryVars == <<setupVars, shutdownVars>>

Kinds == {"meter", "tracer", "logger"}

-----------------------------------------------------------------------------
(* Options.                                                                *)

defaultSetupOptions ==
    [ tenantID |-> DefaultTenantID, sampler |-> "always", serviceName |-> "", serviceNamespace |-> "",
      grpcDialOptions |-> "none", resourceLabels |-> "none", logEnabled |-> FALSE,
      enabledLogLevel |-> "info", metricEnabled |-> FALSE, httpEnabled |-> FALSE,
      zPageEnabled |-> FALSE, ServerOwner |-> "", CmdbID |-> "", additionalLabels |-> <<>>,
      deferredSampler |-> "default", batchSpanOption |-> {}, idGenerator |-> "none",
      otlptraceHeader |-> {} ]

SetupAssigns ==
    [ WithLogEnabled |-> "logEnabled", WithLevelEnable |-> "enabledLogLevel",
      WithServerOwner |-> "ServerOwner", WithGRPCDialOption |-> "grpcDialOptions",
      WithResource |-> "resourceLabels", WithSampler |-> "sampler", WithServiceName |-> "serviceName",
      WithLabels |-> "additionalLabels", WithServiceNamespace |-> "serviceNamespace",
      WithDeferredSampler |-> "deferredSampler", WithBatchSpanProcessorOption |-> "batchSpanOption",
      WithMetricEnabled |-> "metricEnabled", WithHTTPEnabled |-> "httpEnabled",
      WithIDGenerator |-> "idGenerator", WithZPageSpanProcessor |-> "zPageEnabled" ]

SetupOptionNames == DOMAIN SetupAssigns \union {"WithHeader", "WithTenantID"}

\* WithHeader adds to the headers, WithTenantID sets the tenant and its header.
ApplySetupOption(o, option) ==
    CASE option.opt \in DOMAIN SetupAssigns -> [o EXCEPT ![SetupAssigns[option.opt]] = option.arg]
      [] option.opt = "WithHeader" ->
            [o EXCEPT !.otlptraceHeader = option.arg
                          \union {h \in @ : \A g \in option.arg : g[1] # h[1]}]
      [] option.opt = "WithTenantID" ->
            [o EXCEPT !.tenantID = option.arg,
                      !.otlptraceHeader = SetHeader(@, TenantHeader, option.arg)]

SetupOptions(list) ==
    LET o[i \in 0..Len(list)] ==
            IF i = 0 THEN defaultSetupOptions ELSE ApplySetupOption(o[i - 1], list[i])
    IN o[Len(list)]

AsyncSetup(tenantID, sampler) ==
    << [opt |-> "WithTenantID", arg |-> tenantID], [opt |-> "WithSampler", arg |-> sampler] >>

\* The span exporter: over HTTP the scheme is cut off the address and http:// asks for
\* no encryption; gRPC is never encrypted.
newTraceExporter(a, o) ==
    IF o.httpEnabled
    THEN [ protocol |-> "http", endpoint |-> a.host, insecure |-> a.scheme = "http://", headers |-> o.otlptraceHeader ]
    ELSE [ protocol |-> "grpc", endpoint |-> a.scheme \o a.host, insecure |-> TRUE, headers |-> o.otlptraceHeader ]

\* The metric exporter: the address as it is, and never encrypted.
newMetricExporter(a, o) ==
    [ protocol |-> IF o.httpEnabled THEN "http" ELSE "grpc", endpoint |-> a.scheme \o a.host,
      insecure |-> TRUE, headers |-> o.otlptraceHeader ]

\* The options setupLog gives the log exporter; gRPC whatever httpEnabled says.
LogExporterOptions(a, o) ==
    << [opt |-> "WithInsecure"], [opt |-> "WithAddress", arg |-> a.scheme \o a.host],
       [opt |-> "WithTenantID", arg |-> o.tenantID], [opt |-> "WithCompressor", arg |-> "gzip"],
       [opt |-> "WithHeaders", arg |-> o.otlptraceHeader], [opt |-> "WithRetryConfig", arg |-> "default"] >>

\* The attributes of the resource all three signals share. What WithResource set is not
\* among them.
ResourceOf(o) ==
    [ tenant |-> o.tenantID, owner |-> o.ServerOwner, cmdb |-> o.CmdbID, labels |-> o.additionalLabels,
      service |-> o.serviceName, namespace |-> o.serviceNamespace ]

-----------------------------------------------------------------------------
(* Setup.                                                                  *)

InitTelemetry ==
    /\ setups = 0 /\ stage = "idle" /\ addr = [scheme |-> "", host |-> "localhost:12520"]
    /\ options = defaultSetupOptions /\ started = {} /\ global = [k \in Kinds |-> 0] /\ failed = {}
    /\ stopping = "idle" /\ result = "none" /\ shutdowns = 0 /\ shut = {} /\ gaveUp = {}

BeginSetup(a, list) ==
    /\ stage = "idle" /\ stopping = "idle"
    /\ setups' = setups + 1 /\ stage' = "exporter"
    /\ addr' = a /\ options' = SetupOptions(list) /\ result' = "none"
    /\ UNCHANGED <<started, global, failed, stopping, shutdowns, shut, gaveUp>>

\* Setup returns err; what it has started stays.
SetupFails ==
    /\ stage' = "idle" /\ failed' = failed \union {setups}
    /\ UNCHANGED <<setups, addr, options, started, global, shutdownVars>>

\* The batch span processor runs from here on, although the provider that would shut it
\* down is made last.
SetupTraces(ok) ==
    /\ stage = "exporter"
    /\ IF ~ok THEN SetupFails
       ELSE /\ started' = started \union {<<"tracer", setups>>}
            /\ stage' = "log"
            /\ UNCHANGED <<setups, addr, options, global, failed, shutdownVars>>

SetupLog(ok) ==
    /\ stage = "log"
    /\ IF options.logEnabled /\ ~ok THEN SetupFails
       ELSE /\ IF options.logEnabled
               THEN /\ started' = started \union {<<"logger", setups>>}
                    /\ global' = [global EXCEPT !["logger"] = setups]
               ELSE UNCHANGED <<started, global>>
            /\ stage' = "metric" /\ UNCHANGED <<setups, addr, options, failed, shutdownVars>>

SetupMetric(ok) ==
    /\ stage = "metric"
    /\ IF options.metricEnabled /\ ~ok THEN SetupFails
       ELSE /\ IF options.metricEnabled
               THEN /\ started' = started \union {<<"meter", setups>>}
                    /\ global' = [global EXCEPT !["meter"] = setups]
               ELSE UNCHANGED <<started, global>>
            /\ stage' = "tracer" /\ UNCHANGED <<setups, addr, options, failed, shutdownVars>>

SetTracerProvider ==
    /\ stage = "tracer" /\ stage' = "idle"
    /\ global' = [global EXCEPT !["tracer"] = setups]
    /\ UNCHANGED <<setups, addr, options, started, failed, shutdownVars>>

-----------------------------------------------------------------------------
(* Shutdown.                                                               *)

After == [meter |-> "tracer", tracer |-> "logger", logger |-> "idle"]

BeginShutdown ==
    /\ stage = "idle" /\ stopping = "idle" /\ shutdowns < MaxShutdowns
    /\ stopping' = "meter" /\ result' = "none" /\ shutdowns' = shutdowns + 1
    /\ UNCHANGED <<setupVars, shut, gaveUp>>

\* Mutant: an error is not returned.
ErrorDropped(err, kind) ==
    /\ stopping' = After[kind]
    /\ result' = IF kind = "logger" THEN "nil" ELSE result

\* The call returns at the first error, and nil after the logger.
Return(err, kind) ==
    /\ stopping' = IF err THEN "idle" ELSE After[kind]
    /\ result' = IF err THEN "error" ELSE IF kind = "logger" THEN "nil" ELSE result

ShutdownPart(kind, ok) ==
    /\ stopping = kind
    /\ LET part == <<kind, global[kind]>> IN
       IF global[kind] = 0 THEN Return(FALSE, kind) /\ UNCHANGED <<shut, gaveUp>>
       ELSE IF part \in shut \union gaveUp
       THEN Return(kind = "meter", kind) /\ UNCHANGED <<shut, gaveUp>>
       ELSE /\ Return(~ok, kind)
            /\ shut' = IF ok THEN shut \union {part} ELSE shut
            /\ gaveUp' = IF ok THEN gaveUp ELSE gaveUp \union {part}
    /\ UNCHANGED <<setupVars, shutdowns>>

\* The goroutine of a Shutdown that its context cut short goes on.
ShutInBackground ==
    /\ \E part \in gaveUp \ shut : part[1] # "meter" /\ shut' = shut \union {part}
    /\ UNCHANGED <<setupVars, stopping, result, shutdowns, gaveUp>>

TelemetryNext(addrs, lists, maxSetups) ==
    \/ setups < maxSetups /\ \E a \in addrs, l \in lists : BeginSetup(a, l)
    \/ \E ok \in BOOLEAN : SetupTraces(ok) \/ SetupLog(ok) \/ SetupMetric(ok)
    \/ SetTracerProvider \/ BeginShutdown \/ ShutInBackground
    \/ \E k \in Kinds, ok \in BOOLEAN : ShutdownPart(k, ok)

-----------------------------------------------------------------------------
(* Properties.                                                             *)

Replaced(part) == global[part[1]] > part[2]

\* When Shutdown, which is to report all data (opentelemetry.go:450), returns nil the
\* first time, nothing it could reach runs any more: what still runs was replaced by a
\* later set-up or belongs to one that failed after starting it, and nothing can shut
\* it down. Called again after an error, nil says nothing of the part that failed
\* (opentelemetry.go:160, :454, :459).
NilReportsAll ==
    result = "nil" => \A part \in started \ shut :
        Replaced(part) \/ part[2] \in failed \/ (part \in gaveUp /\ shutdowns > 1)

\* An error means that the part it comes from gave up, now or before, and that the
\* parts after it were left alone by this call (opentelemetry.go:454).
ErrorNamesPart ==
    result = "error" => gaveUp # {} \/ (shutdowns > 1 /\ <<"meter", global["meter"]>> \in shut)

\* The three signals send the same headers, those of the log exporter although it is
\* given the tenant too, and with WithTenantID after any WithHeader they carry the
\* tenant of the resource (opentelemetry.go:264, :318).
TenantAgrees(a, list) ==
    LET o       == SetupOptions(list)
        logs    == dialToCollector(ExporterConfig(LogExporterOptions(a, o))).metadata
        tenants == {i \in DOMAIN list : list[i].opt = "WithTenantID"}
        headers == {i \in DOMAIN list : list[i].opt = "WithHeader"}
    IN /\ newTraceExporter(a, o).headers = logs /\ newMetricExporter(a, o).headers = logs
       /\ (\E i \in tenants : \A j \in headers : j < i)
              => TenantsIn(logs) = {ResourceOf(o).tenant}
=============================================================================
