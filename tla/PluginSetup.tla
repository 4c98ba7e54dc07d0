----------------------------- MODULE PluginSetup -----------------------------
(***************************************************************************)
(* What the tRPC plugin hands to the parts, oteltrpc/oteltrpc.go,          *)
(* config/config.go, metrics/prometheus/trpc_admin.go and pkg/admin, as    *)
(* functions of its configuration c and of the framework's: the options of *)
(* the facade and of the metric SDK, the address where metrics are served  *)
(* and the server there.                                                   *)
(*                                                                         *)
(* A configuration is a record with the fields read here. Fractions are    *)
(* numbers, the texts of a log mode are in lower case.                     *)
(***************************************************************************)
EXTENDS Telemetry, MetricSetup, FiniteSetsExt, SequencesExt

-----------------------------------------------------------------------------
(* Configuration.                                                          *)

\* config.DefaultConfig; the sampler's fraction is in thousandths.
DefaultPluginConfig ==
    [ addr |-> [scheme |-> "", host |-> "localhost:12520"], tenantID |-> DefaultTenantID,
      headers |-> {}, attributes |-> <<>>, fraction |-> 1, specialFractions |-> <<>>,
      metricsEnabled |-> TRUE, enabledRegister |-> TRUE, registryEndpoints |-> {"localhost:2379"},
      serverOwner |-> "", push |-> NoPrometheusPush, zPage |-> FALSE,
      clientBuckets |-> <<>>, serverBuckets |-> <<>>, tlsCert |-> DefaultConfig.TLSCert,
      logsEnabled |-> FALSE, traceLogMode |-> "disable", exportConfig |-> {} ]

\* ParseConfig: what YAML gives is decoded over the defaults, unless it does not decode.
PluginConfig(given) == [f \in DOMAIN DefaultPluginConfig |->
                           IF f \in DOMAIN given THEN given[f] ELSE DefaultPluginConfig[f]]

\* LogMode.UnmarshalText knows four words; any other text prints one line.
UnmarshalText(text) ==
    IF text \in {"disable", "multiline"} THEN text ELSE "oneline"

MarshalText(mode) ==
    IF mode \in {"disable", "multiline"} THEN mode ELSE "oneline"

\* What doFlowLog writes of a call that no rule excludes.
FlowLogPrints(mode) ==
    CASE mode = "disable" -> "nothing" [] mode = "multiline" -> "lines" [] OTHER -> "a line"

\* Services and methods to fractions; of two entries for one name the later counts.
getSpecialFractions(fractions) ==
    LET named(list, n) == CHOOSE i \in DOMAIN list :
                              list[i].name = n /\ \A j \in DOMAIN list : list[j].name = n => j <= i
        table(list, value(_)) == [n \in {f.name : f \in ToSet(list)} |-> value(list[named(list, n)])]
    IN table(fractions, LAMBDA f : [ DefaultFraction |-> f.fraction,
                                     Methods |-> table(f.methods, LAMBDA m : m.fraction) ])

\* Positive values only; an option is <<name, value>>, and no two have one name.
buildBatchSpanProcessorOptions(exportConfig) == {o \in exportConfig : o[2] > 0}

isHTTPEnabled(c) == c.addr.scheme \in {"http://", "https://"}

-----------------------------------------------------------------------------
(* The facade.                                                             *)

Option(name, value) == [opt |-> name, arg |-> value]

\* Mutant: the headers of the configuration come after the tenant.
HeadersLast(c, app) ==
    << Option("WithTenantID", c.tenantID), Option("WithHeader", c.headers) >>

\* No option turns the facade's own logs or metrics on.
FacadeOptions(c, app) ==
    << Option("WithHeader", c.headers), Option("WithTenantID", c.tenantID),
       Option("WithSampler", getSpecialFractions(c.specialFractions)),
       Option("WithDeferredSampler", "configured"), Option("WithServiceName", app),
       Option("WithLabels", c.attributes), Option("WithGRPCDialOption", "interceptors"),
       Option("WithServerOwner", c.serverOwner), Option("WithHTTPEnabled", isHTTPEnabled(c)),
       Option("WithBatchSpanProcessorOption", buildBatchSpanProcessorOptions(c.exportConfig)),
       Option("WithIDGenerator", "global"), Option("WithZPageSpanProcessor", c.zPage) >>

-----------------------------------------------------------------------------
(* Metrics.                                                                *)

\* The address of the metrics, and whether the plugin serves them itself: the framework's
\* admin server, its configuration file, or a fixed address.
getPrometheusServerAddr(framework) ==
    IF framework.adminPort > 0 THEN [addr |-> "admin", needListen |-> FALSE]
    ELSE IF framework.fileLocalIP # "" /\ framework.fileAdminPort > 0
    THEN [addr |-> "file", needListen |-> TRUE]
    ELSE [addr |-> "127.0.0.1:12621", needListen |-> TRUE]

\* admin.NewServer: an error without an address, else the routes of the options.
NewServer(o) ==
    IF o.addr = "" THEN [ok |-> FALSE, routes |-> {}]
    ELSE [ ok     |-> TRUE,
           routes |-> (IF o.enablePrometheus THEN {"/metrics"} ELSE {})
               \union (IF o.enablePprof THEN {"/debug/pprof/"} ELSE {})
               \union (IF o.enableHotSwitch
                       THEN {"/cmds/disabletrace", "/cmds/enabletrace", "/cmds/tracestatus"} ELSE {})
               \union (IF o.enableZPage THEN {"/debug/tracez"} ELSE {}) ]

AdminServer(framework, zPage) ==
    NewServer([ addr |-> getPrometheusServerAddr(framework).addr, enablePrometheus |-> TRUE,
                enablePprof |-> TRUE, enableHotSwitch |-> TRUE, enableZPage |-> zPage ])

\* The options of metric.Setup: those of prometheus.Setup, then the plugin's.
MetricOptions(c, framework) ==
    << <<"RegistryEndpoints", c.registryEndpoints>>, <<"TTL", 60>>,
       <<"Instance", [ TenantID |-> IF c.tenantID = "" THEN "default" ELSE c.tenantID,
                       Addr |-> getPrometheusServerAddr(framework).addr, KeySuffix |-> "", Key |-> "" ]>>,
       <<"EnabledZPage", c.zPage>>, <<"Configurator", TRUE>>,
       <<"ClientHistogramBuckets", c.clientBuckets>>, <<"ServerHistogramBuckets", c.serverBuckets>>,
       <<"TLSCert", c.tlsCert>>, <<"Enabled", TRUE>>,
       <<"EnabledRegister", c.enabledRegister>>, <<"PrometheusPush", c.push>> >>

\* The instance registered, with the server that answers at its address; nothing of
\* that when metrics are off.
MetricsOf(c, framework) ==
    IF ~c.metricsEnabled THEN [config |-> DefaultConfig, routes |-> {}]
    ELSE
    [ config |-> Setup(MetricOptions(c, framework)),
      routes |-> IF getPrometheusServerAddr(framework).needListen
                 THEN AdminServer(framework, c.zPage).routes
                 ELSE {"/metrics"} \union (IF c.zPage THEN {"/debug/tracez"} ELSE {}) ]

-----------------------------------------------------------------------------
(* Properties.                                                             *)

\* A configuration that is written and read again prints the calls as before, and only
\* the word for it silences them: any other text, known or not, gives a line at least
\* (config/config.go:235, :246; traces/log.go:28, :45).
LogModeKept(mode, text) ==
    /\ FlowLogPrints(UnmarshalText(MarshalText(mode))) = FlowLogPrints(mode)
    /\ FlowLogPrints(UnmarshalText(text)) = "nothing" <=> text = "disable"

\* With metrics on the plugin's metric set-up is refused for nothing but missing endpoints, what it
\* registers is an address that serves /metrics, and its push options are whole
\* (trpc_admin.go:69, :80; setup.go:81).
MetricsReachable(c, framework) ==
    LET m == MetricsOf(c, framework) IN
    c.metricsEnabled =>
    /\ RegisterError(m.config) = IF c.registryEndpoints = {} THEN "endpoints nil" ELSE "none"
    /\ m.config.Enabled /\ "/metrics" \in m.routes
    /\ m.config.EnabledRegister = c.enabledRegister
    /\ PushComplete(c.push) /\ m.config.PrometheusPush = WithMetricsPrometheusPush(c.push)

\* The spans of the plugin carry its tenant, whatever header the configuration adds, and
\* no option of the batch processor is turned into zero (oteltrpc.go:155, :223).
FacadeAgrees(c, app) ==
    LET o == SetupOptions(FacadeOptions(c, app)) IN
    /\ TenantAgrees(c.addr, FacadeOptions(c, app))
    /\ TenantsIn(newTraceExporter(c.addr, o).headers) = {c.tenantID}
    /\ isHTTPEnabled(c) <=> newTraceExporter(c.addr, o).protocol = "http"
    /\ \A option \in o.batchSpanOption : option[2] > 0
=============================================================================
