------------------------------ MODULE Sampling ------------------------------
(***************************************************************************)
(* Which calls are traced. sdk/trace/dyeing_sampler.go and fraction.go     *)
(* decide when a span starts (head sampling), deferred_sample_processor.go *)
(* when it has ended, and the reporters of sdk/metric whether a metric     *)
(* names the trace (an exemplar).                                          *)
(*                                                                         *)
(* A trace ID is the number its first bytes make, in 0..Scale-1, and a     *)
(* fraction counts Scale-ths: it may be negative or above one. The dyed    *)
(* attributes are fetched by a daemon and replaced as a whole.             *)
(***************************************************************************)
EXTENDS Integers

CONSTANTS Scale,        \* number of trace IDs
          DyedAttrs     \* the sets of <<key, value>> the sampler service may answer

ASSUME ScaleAssumption == Scale \in Nat

VARIABLES sampledKvs,   \* Sampler.sampledKvs
          samplerClient \* Sampler.client: "none" or "dialled"

samplingVars == <<sampledKvs, samplerClient>>

getTraceIDUpperBound(fraction) ==
    IF fraction >= Scale THEN Scale ELSE IF fraction <= 0 THEN 0 ELSE fraction

\* getSamplerConfig: every fraction becomes a bound. special maps a service to
\* [default, methods], methods a method to its fraction.
getSamplerConfig(config) ==
    [ bound   |-> getTraceIDUpperBound(config.fraction),
      addr    |-> config.addr,
      special |-> [s \in DOMAIN config.special |->
                     [ default |-> getTraceIDUpperBound(config.special[s].default),
                       methods |-> [m \in DOMAIN config.special[s].methods |->
                                      getTraceIDUpperBound(config.special[s].methods[m])] ]] ]

getSamplerTraceIDUpperBound(config, service, method) ==
    IF service \notin DOMAIN config.special THEN config.bound
    ELSE LET special == config.special[service] IN
         IF method \in DOMAIN special.methods THEN special.methods[method] ELSE special.default

-----------------------------------------------------------------------------
(* The head decision: "sample", "record" or "drop".                        *)

\* NewSampler, with the option of the plugin: what is not sampled is still recorded when
\* the deferred sampler may want it.
DefaultSamplingDecision(deferred) == IF deferred.enabled THEN "record" ELSE "drop"

NewSampler == sampledKvs = {} /\ samplerClient = "none"

\* updateDyeingMetadata: dialling or asking may fail; an answer replaces everything. The
\* daemon only runs when there is an address.
updateDyeingMetadata(config) ==
    /\ config.addr # "none"
    /\ samplerClient' \in {samplerClient, "dialled"}
    /\ \/ UNCHANGED sampledKvs
       \/ samplerClient' = "dialled" /\ sampledKvs' \in DyedAttrs

Dyed(config, attrs) ==
    /\ config.addr # "none"
    /\ \/ \E a \in attrs : a[1] = "force" /\ a[2] # ""
       \/ attrs \cap sampledKvs # {}

ShouldSample(config, deferred, parentSampled, attrs, trace, service, method) ==
    IF \/ parentSampled \/ Dyed(config, attrs)
       \/ trace < getSamplerTraceIDUpperBound(config, service, method)
    THEN "sample" ELSE DefaultSamplingDecision(deferred)

-----------------------------------------------------------------------------
(* After the end. A span is [decision, status, duration]; status is        *)
(* "Unset" until the filter sets it.                                       *)

\* Mutant: only a status that says Error is an error.
OnlyErrorStatus(deferred, span) ==
    \/ span.decision = "sample"
    \/ deferred.enabled /\ deferred.error /\ span.status = "Error"
    \/ deferred.enabled /\ deferred.slow # 0 /\ span.duration >= deferred.slow
DeferredSampler(deferred, span) ==
    \/ span.decision = "sample"
    \/ deferred.enabled /\ deferred.error /\ span.status # "Ok"
    \/ deferred.enabled /\ deferred.slow # 0 /\ span.duration >= deferred.slow

\* OnEnd reaches the deferred processor for spans that record; what it keeps goes to the
\* batch span processor.
OnEnd(deferred, span) == span.decision # "drop" /\ DeferredSampler(deferred, span)

counterNeedUseExemplar(deferred, decision, codeType) ==
    IF deferred.enabled /\ deferred.error THEN codeType # "success" ELSE decision = "sample"

\* Mutant: the deferred error option stands for the whole deferred sampler.
SlowUnlessError(deferred, decision, cost) ==
    IF deferred.error THEN cost >= deferred.slow ELSE decision = "sample"
histogramNeedUseExemplar(deferred, decision, cost) ==
    IF deferred.enabled THEN cost >= deferred.slow ELSE decision = "sample"
=============================================================================
