------------------------------- MODULE Control -------------------------------
(***************************************************************************)
(* What surrounds requests: the set-up of the plugin and of its parts from *)
(* a configuration, the registration in etcd or the pushing of metrics,    *)
(* Shutdown, and the metrics a scrape finds. These share hardly any state, *)
(* so a behaviour exercises one part, the one "part" names; only an        *)
(* enabled SetupByConfig both registers the vectors of MetricLimits and    *)
(* the instance.                                                           *)
(***************************************************************************)
EXTENDS PluginSetup, MetricSink, MetricLimits, ContainerLimits

CONSTANTS Parts, Settings, MetricConfigs, Addresses, OptionLists, MaxSetupCalls, Records, Deployments

VARIABLES part,
          setting       \* the configuration looked at in part "settings"

controlVars == <<part, setting, metricSetupVars, telemetryVars, sinkVars, limitVars>>

ASSUME RecordsAssumption == Records # {} /\ Records \subseteq [Reporters -> Record]
ASSUME DeploymentsAssumption == Deployments # {} /\ Deployments \subseteq Limits

\* Settings are what the types of the configuration and of the callers allow: options with
\* the names there are, the modes there are, bounds up to Inf, the default bounds usable,
\* machines with CPUs and memory.
IsPush(p) == DOMAIN p = DOMAIN NoPrometheusPush /\ p.Interval \in Int

IsSetting(s) ==
    \/ s.of = "exporter" /\ IsOptionList(s.options, ExporterOptionNames)
    \/ s.of = "facade"   /\ IsOptionList(s.options, SetupOptionNames)
    \/ s.of = "mode"     /\ s.mode \in {"default", "oneline", "disable", "multiline"}
    \/ s.of = "push"     /\ IsPush(s.push)
    \/ s.of = "buckets"  /\ Usable(s.default) /\ s.buckets \in Seq(Int)
                         /\ \A i \in DOMAIN s.buckets : s.buckets[i] <= Inf
    \/ s.of = "machine"  /\ IsMachine(s.machine)
    \/ s.of = "container" /\ IsMachine(s.machine) /\ Limited(s.machine, s.limit, s.group, s.sub)
    \/ s.of = "plugin"   /\ IsPush(s.config.push)

ASSUME SettingsAssumption == Settings # {} /\ \A s \in Settings : IsSetting(s)

OneOf(S) == CHOOSE x \in S : TRUE

Init ==
    /\ part \in Parts
    /\ setting \in IF part = "settings" THEN Settings ELSE {OneOf(Settings)}
    /\ InitMetricSetup
    /\ InitTelemetry
    /\ InitSink(IF part = "sink" THEN Records ELSE {OneOf(Records)})
    /\ InitLimits(IF part = "scrape" THEN Deployments ELSE {OneOf(Deployments)})

MetricStep ==
    /\ part = "metrics" /\ MetricSetupNext(MetricConfigs)
    /\ IF setupResult = "no" /\ setupResult' # "no" /\ effective'.Enabled
       THEN SetupMetrics ELSE UNCHANGED limitVars
    /\ UNCHANGED <<part, setting, telemetryVars, sinkVars>>

FacadeStep ==
    /\ part = "facade" /\ TelemetryNext(Addresses, OptionLists, MaxSetupCalls)
    /\ UNCHANGED <<part, setting, metricSetupVars, sinkVars, limitVars>>

SinkStep ==
    /\ part = "sink" /\ SinkNext
    /\ UNCHANGED <<part, setting, metricSetupVars, telemetryVars, limitVars>>

ScrapeStep ==
    /\ part = "scrape" /\ LimitsNext
    /\ UNCHANGED <<part, setting, metricSetupVars, telemetryVars, sinkVars>>

Next == MetricStep \/ FacadeStep \/ SinkStep \/ ScrapeStep

Spec == Init /\ [][Next]_controlVars /\ MetricSetupFairness

-----------------------------------------------------------------------------
(* Properties.                                                             *)

\* What is cancelled stops for good, a registration as well as the pushing of metrics,
\* and what is not cancelled comes back after every outage (registry_impl.go:97, :106;
\* setup.go:114, :129).
StoppedForGood == CancelledIsGone /\ ComesBack /\ PushingStops

\* What Shutdown returns says what became of the parts (opentelemetry.go:450).
ShutdownReports == NilReportsAll /\ ErrorNamesPart

\* Nothing that was reported or added is missing from a scrape but for the reasons
\* ReportsCounted, FailuresBlamed and AdditionsKept name, and answers are bounded.
CountsAccounted == ReportsCounted /\ FailuresBlamed /\ AdditionsKept /\ AnswerBounded /\ LabelsAgree

\* The parts of the plugin are given what its configuration says, and agree; the process
\* metrics what the machine says.
SettingsAgree ==
    CASE setting.of = "exporter" -> TenantSent(setting.options)
      [] setting.of = "facade"   -> TenantAgrees(setting.addr, setting.options)
      [] setting.of = "mode"     -> LogModeKept(setting.mode, setting.text)
      [] setting.of = "push"     -> PushComplete(setting.push)
      [] setting.of = "buckets"  -> BucketsUsable(setting.default, setting.buckets)
      [] setting.of = "machine"  -> GaugesPlausible(setting.machine)
      [] setting.of = "container" -> LimitsRead(setting.machine, setting.limit)
      [] setting.of = "plugin"   -> FacadeAgrees(setting.config, "app")
                                        /\ MetricsReachable(setting.config, setting.framework)
=============================================================================
