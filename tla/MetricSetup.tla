----------------------------- MODULE MetricSetup -----------------------------
(***************************************************************************)
(* The set-up of the metric SDK, sdk/metric/setup.go and config.go: the    *)
(* options, SetupByConfig, which registers the instance in etcd or pushes  *)
(* to a gateway, the pushing goroutine and DeletePrometheusPush. Register  *)
(* blocks SetupByConfig for as long as module Registry says it runs.       *)
(*                                                                         *)
(* A configuration is a record with the fields read here; "" and 0 stand   *)
(* for what is not set, bounds of buckets are numbers and Inf is above     *)
(* them all.                                                               *)
(***************************************************************************)
EXTENDS Registry, Integers, Sequences

CONSTANTS Inf, DefaultRegisterTTL, DefaultInterval

ASSUME SetupDefaultsAssumption == Inf \in Int /\ DefaultInterval \in Nat \ {0}

VARIABLES setupResult,  \* "no", "running", "pushing" (the first Push), "nil", an error
          effective,    \* the configuration SetupByConfig works with
          pusher,       \* the pushing goroutine: "none", "select", "pushing", "ended"
          pushCtx,      \* "none", "live", "cancelled": pushStopFunc and its context
          gateway,      \* "absent" or "present": the group at the gateway
          deleted       \* "no", "nil", "ok", "failed": DeletePrometheusPush

pushVars == <<pusher, pushCtx, gateway, deleted>>
metricSetupVars == <<registryVars, setupResult, effective, pushVars>>

-----------------------------------------------------------------------------
(* Options.                                                                *)

NoPrometheusPush ==
    [ Enabled |-> FALSE, URL |-> "", Job |-> "", Interval |-> 0, UseBasicAuth |-> FALSE,
      Username |-> "", Password |-> "", Grouping |-> {}, HTTPHeaders |-> {} ]

DefaultPrometheusPushConfig ==
    [NoPrometheusPush EXCEPT !.Job = "reporter", !.Interval = DefaultInterval]

DefaultConfig ==
    [ Enabled |-> FALSE, EnabledRegister |-> TRUE, EnabledZPage |-> FALSE,
      RegistryEndpoints |-> {}, Instance |-> [TenantID |-> "", Addr |-> "", KeySuffix |-> "", Key |-> ""],
      TTL |-> 0, TLSCert |-> [CertContent |-> "", KeyContent |-> "", CaCertContent |-> ""],
      ServerOwner |-> "", Configurator |-> FALSE,
      ClientHistogramBuckets |-> <<>>, ServerHistogramBuckets |-> <<>>,
      PrometheusPush |-> NoPrometheusPush ]

\* What p sets goes over the defaults; an interval below zero sets nothing.
WithMetricsPrometheusPush(p) ==
    [f \in DOMAIN p |-> IF p[f] = NoPrometheusPush[f] \/ (f = "Interval" /\ p[f] < 0)
                        THEN DefaultPrometheusPushConfig[f] ELSE p[f]]

\* An option <<f, v>> assigns field f of the configuration, all but the push options,
\* which are merged.
Apply(config, option) ==
    [config EXCEPT ![option[1]] = IF option[1] = "PrometheusPush"
                                  THEN WithMetricsPrometheusPush(option[2]) ELSE option[2]]

Setup(options) ==
    LET apply[i \in 0..Len(options)] ==
            IF i = 0 THEN DefaultConfig ELSE Apply(apply[i - 1], options[i])
    IN apply[Len(options)]

\* All three parts must be there and be what they say; otherwise etcd is dialled
\* without TLS.
newTLSConfig(cert) ==
    IF "" \in {cert.CertContent, cert.KeyContent, cert.CaCertContent} THEN "none"
    ELSE IF cert.CertContent = "good" /\ cert.KeyContent = "good" /\ cert.CaCertContent = "good"
         THEN "tls" ELSE "none"

\* The key of an instance; KeySuffix follows the address without a separator.
GetKey(instance) ==
    IF instance.Key # "" THEN instance.Key
    ELSE "/opentelemetry/metrics/services/" \o instance.TenantID \o "/" \o instance.Addr
             \o instance.KeySuffix

\* One to ten sorted positive bounds; a last +Inf is implicit and cut off.
validateBuckets(buckets) ==
    LET last == Len(buckets)
        ok   == /\ last \in 1..10
                /\ \A i \in 1..(last - 1) : buckets[i] <= buckets[i + 1]
                /\ \A i \in DOMAIN buckets : buckets[i] > 0
    IN IF ~ok THEN [ok |-> FALSE, buckets |-> <<>>]
       ELSE [ok |-> TRUE, buckets |-> IF buckets[last] = Inf THEN SubSeq(buckets, 1, last - 1) ELSE buckets]

\* Bounds of buckets that Prometheus takes, finite and strictly increasing.
Usable(b) == /\ \A i, j \in DOMAIN b : i < j => b[i] < b[j]
             /\ \A i \in DOMAIN b : 0 < b[i] /\ b[i] < Inf

\* setClientHandledHistogramBuckets and setServerHandledHistogramBuckets.
setHandledHistogramBuckets(default, buckets) ==
    IF Len(buckets) # 0 /\ validateBuckets(buckets).ok THEN validateBuckets(buckets).buckets ELSE default

-----------------------------------------------------------------------------
(* SetupByConfig.                                                          *)

InitMetricSetup ==
    /\ InitRegistry
    /\ setupResult = "no" /\ effective = DefaultConfig
    /\ pusher = "none" /\ pushCtx = "none" /\ gateway = "absent" /\ deleted = "no"

\* The errors that come before etcd is dialled.
RegisterError(config) ==
    IF config.RegistryEndpoints = {} THEN "endpoints nil"
    ELSE IF config.Instance.TenantID = "" THEN "tenant id nil"
    ELSE IF config.Instance.Addr = "" THEN "addr nil" ELSE "none"

\* Up to the first call that can block: Register, or the first Push, made by the caller.
SetupByConfig(config) ==
    /\ setupResult = "no"
    /\ effective' = [config EXCEPT
           !.TTL = IF config.EnabledRegister /\ @ = 0 THEN DefaultRegisterTTL ELSE @]
    /\ UNCHANGED pushVars
    /\ IF ~config.Enabled THEN setupResult' = "nil" /\ UNCHANGED registryVars
       ELSE IF config.EnabledRegister
       THEN IF RegisterError(config) # "none"
            THEN setupResult' = RegisterError(config) /\ UNCHANGED registryVars
            ELSE setupResult' = "running" /\ (Register \/ RegisterWithoutClient)
       ELSE /\ setupResult' = IF config.PrometheusPush.Enabled THEN "pushing" ELSE "nil"
            /\ UNCHANGED registryVars

\* return err: with the registration on, nothing is ever pushed.
RegisterReturns ==
    /\ setupResult = "running" /\ registering \in {"ok", "failed"}
    /\ setupResult' = IF registering = "ok" THEN "nil" ELSE "register error"
    /\ UNCHANGED <<registryVars, effective, pushVars>>

\* The goroutine exists only with a positive interval; the stop function always.
FirstPush(ok) ==
    /\ setupResult = "pushing"
    /\ IF ok
       THEN /\ setupResult' = "nil" /\ gateway' = "present" /\ pushCtx' = "live"
            /\ pusher' = IF effective.PrometheusPush.Interval > 0 THEN "select" ELSE "none"
       ELSE setupResult' = "push error" /\ UNCHANGED <<gateway, pushCtx, pusher>>
    /\ UNCHANGED <<registryVars, effective, deleted>>

-----------------------------------------------------------------------------
(* Pushing.                                                                *)

\* select: the ticker's branch, possible also when the context is done.
Tick ==
    /\ pusher = "select" /\ pusher' = "pushing"
    /\ UNCHANGED <<registryVars, setupResult, effective, pushCtx, gateway, deleted>>

Pushed(ok) ==
    /\ pusher = "pushing" /\ pusher' = "select"
    /\ gateway' = IF ok THEN "present" ELSE gateway
    /\ UNCHANGED <<registryVars, setupResult, effective, pushCtx, deleted>>

\* select: the branch of ctx.Done.
PusherDone ==
    /\ pusher = "select" /\ pushCtx = "cancelled" /\ pusher' = "ended"
    /\ UNCHANGED <<registryVars, setupResult, effective, pushCtx, gateway, deleted>>

\* pushStopFunc() and the DELETE request; a call before the first push is over finds
\* no pusher and does nothing. The goroutine is not waited for.
DeletePrometheusPush(ok) ==
    /\ deleted \in {"no", "nil"}
    /\ IF pushCtx = "none" THEN deleted' = "nil" /\ UNCHANGED <<pushCtx, gateway>>
       ELSE /\ pushCtx' = "cancelled"
            /\ deleted' = IF ok THEN "ok" ELSE "failed"
            /\ gateway' = IF ok THEN "absent" ELSE gateway
    /\ UNCHANGED <<registryVars, setupResult, effective, pusher>>

PushNext ==
    \/ Tick \/ PusherDone
    \/ \E ok \in BOOLEAN : FirstPush(ok) \/ Pushed(ok) \/ DeletePrometheusPush(ok)

\* Another user of the registry. It has the function that cancels, which SetupByConfig
\* discards.
RegisterDirectly ==
    /\ setupResult = "no" /\ (Register \/ RegisterWithoutClient)
    /\ UNCHANGED <<setupResult, effective, pushVars>>

Cancel ==
    /\ setupResult = "no" /\ CancelRegistration
    /\ UNCHANGED <<setupResult, effective, pushVars>>

MetricSetupNext(configs) ==
    \/ \E c \in configs : registering = "no" /\ SetupByConfig(c)
    \/ RegisterReturns \/ PushNext \/ RegisterDirectly \/ Cancel
    \/ RegistryNext /\ UNCHANGED <<setupResult, effective, pushVars>>

\* A select whose branches are ready takes each of them again and again.
MetricSetupFairness ==
    /\ RegistryFairness
    /\ WF_metricSetupVars(\E ok \in BOOLEAN : FirstPush(ok) \/ Pushed(ok))
    /\ SF_metricSetupVars(PusherDone)
    /\ WF_metricSetupVars(RegisterReturns)

-----------------------------------------------------------------------------
(* Properties.                                                             *)

\* Once DeletePrometheusPush has cancelled it the pushing goroutine ends, and the
\* gateway is left as it is: pushes that were under way, or that its select still
\* preferred, are over (setup.go:114, :129).
PushingStops ==
    /\ (pushCtx = "cancelled" /\ pusher # "none") ~> [](pusher = "ended")
    /\ (pushCtx = "cancelled") ~> ([](gateway = "absent") \/ [](gateway = "present"))

\* Whatever fields of the push options are given, the others have their defaults, so that
\* the pusher has a job and a ticker an interval above zero (setup.go:101, :245).
PushComplete(p) ==
    LET c == WithMetricsPrometheusPush(p) IN
    /\ c.Job # "" /\ c.Interval > 0
    /\ \A f \in DOMAIN p : p[f] # NoPrometheusPush[f] => c[f] = p[f] \/ (f = "Interval" /\ p[f] < 0)

\* Bounds that differ leave bounds in force that Prometheus takes, finite and strictly
\* increasing, and a list that is refused changes nothing. A list with a bound twice is
\* accepted, and Prometheus panics when the first call is observed
\* (rpc_server_metrics.go:167).
BucketsUsable(default, buckets) ==
    LET b == setHandledHistogramBuckets(default, buckets) IN
    /\ (\A i, j \in DOMAIN buckets : i # j => buckets[i] # buckets[j])
           => Usable(b)
    /\ (\E i \in DOMAIN buckets : buckets[i] <= 0) => b = default
=============================================================================
