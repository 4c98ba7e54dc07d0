--------------------------- MODULE ExporterOptions ---------------------------
(***************************************************************************)
(* The options of the two log exporters, exporter/otlp/options.go and      *)
(* exporter/asyncexporter/options.go, and what they dial with. A map of    *)
(* headers is a set of pairs <<name, value>>.                              *)
(***************************************************************************)
EXTENDS Naturals, Sequences

CONSTANT TenantHeader   \* api.TenantHeaderKey

SetHeader(headers, name, value) ==
    {h \in headers : h[1] # name} \union {<<name, value>>}

\* NewExporter's configuration before its options; concurrency only the asynchronous
\* exporter has.
newConfig ==
    [ collectorAddr |-> "", compressor |-> "", reconnectionPeriod |-> 0,
      grpcServiceConfig |-> "default", grpcDialOptions |-> "none", headers |-> {},
      clientCredentials |-> "none", numWorkers |-> 1, concurrency |-> 1, requestFunc |-> "once" ]

\* An option is a record [opt, arg].
Assigns == [ WithAddress |-> "collectorAddr", WithCompressor |-> "compressor",
             WithReconnectionPeriod |-> "reconnectionPeriod", WithTLSCredentials |-> "clientCredentials",
             WithGRPCServiceConfig |-> "grpcServiceConfig", WithGRPCDialOption |-> "grpcDialOptions",
             WithConcurrency |-> "concurrency" ]

ExporterOptionNames ==
    DOMAIN Assigns \union {"WithHeaders", "WithTenantID", "WorkerCount", "WithInsecure", "WithRetryConfig"}

\* A list of options with these names.
IsOptionList(list, names) ==
    /\ Len(list) \in Nat /\ DOMAIN list = 1..Len(list)
    /\ \A i \in DOMAIN list : list[i].opt \in names

WithHeaders(cfg, headers) == [cfg EXCEPT !.headers = headers]

\* Writes into the map that is there, the caller's if WithHeaders set it.
WithTenantID(cfg, tenant) == [cfg EXCEPT !.headers = SetHeader(@, TenantHeader, tenant)]

ApplyExporterOption(cfg, o) ==
    CASE o.opt \in DOMAIN Assigns   -> [cfg EXCEPT ![Assigns[o.opt]] = o.arg]
      [] o.opt = "WithHeaders"      -> WithHeaders(cfg, o.arg)
      [] o.opt = "WithTenantID"     -> WithTenantID(cfg, o.arg)
      [] o.opt = "WorkerCount"      -> [cfg EXCEPT !.numWorkers = IF o.arg = 0 THEN 1 ELSE o.arg]
      [] o.opt = "WithInsecure"     -> [cfg EXCEPT !.clientCredentials = "insecure"]
      [] o.opt = "WithRetryConfig"  -> [cfg EXCEPT !.requestFunc = o.arg]

ExporterConfig(options) ==
    LET cfg[i \in 0..Len(options)] ==
            IF i = 0 THEN newConfig ELSE ApplyExporterOption(cfg[i - 1], options[i])
    IN cfg[Len(options)]

\* The connection is not encrypted unless credentials were given.
dialToCollector(cfg) ==
    [ addr          |-> IF cfg.collectorAddr # "" THEN cfg.collectorAddr ELSE "localhost:55680",
      serviceConfig |-> cfg.grpcServiceConfig,
      credentials   |-> IF cfg.clientCredentials = "none" THEN "insecure" ELSE cfg.clientCredentials,
      compressor    |-> cfg.compressor, more |-> cfg.grpcDialOptions, metadata |-> cfg.headers ]

-----------------------------------------------------------------------------
(* Properties.                                                             *)

TenantsIn(headers) == {h[2] : h \in {g \in headers : g[1] = TenantHeader}}

\* Whatever the order of the options, the tenant set last is the tenant sent: by
\* WithTenantID, or by a map of WithHeaders, which also removes the tenant when it has
\* none (otlp/options.go:140, :147).
TenantSent(options) ==
    LET sets == {i \in DOMAIN options : options[i].opt \in {"WithHeaders", "WithTenantID"}}
        last == options[CHOOSE i \in sets : \A j \in sets : j <= i]
    IN TenantsIn(dialToCollector(ExporterConfig(options)).metadata)
          = IF sets = {} THEN {}
            ELSE IF last.opt = "WithTenantID" THEN {last.arg} ELSE TenantsIn(last.arg)
=============================================================================
