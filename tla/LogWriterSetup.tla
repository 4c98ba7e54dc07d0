--------------------------- MODULE LogWriterSetup ---------------------------
(***************************************************************************)
(* What the tRPC log plugin builds, oteltrpc/logs/writer.go and            *)
(* factory.go, as functions of the configuration: ParseConfig, the choice  *)
(* of the exporter behind the batch writer, the batch options, the zap     *)
(* level and the rate limiter. Addresses, headers and credentials are      *)
(* values the parts hand through.                                          *)
(*                                                                         *)
(* A configuration c is a LogsConfig, the fields of config.LogsConfig that *)
(* are read here (0, "" and "none" stand for what YAML left out) and       *)
(* codeConcurrency, codeQueueSize for the package variables                *)
(* asyncexporter.Concurrency and asyncexporter.QueueSize.                  *)
(***************************************************************************)
EXTENDS Integers, Sequences, SequencesExt

CONSTANTS DefaultMaxQueueSize, DefaultMaxExportBatchSize, DefaultMaxBatchedPacketSize

ASSUME WriterDefaultsAssumption ==
    /\ DefaultMaxQueueSize \in Nat \ {0} /\ DefaultMaxExportBatchSize \in Nat \ {0}
    /\ DefaultMaxBatchedPacketSize \in Nat \ {0}

LogsConfig ==
    [ enabled : BOOLEAN, level : STRING, outputLevel : STRING, addr : STRING, logsAddr : STRING,
      tls : BOOLEAN, skipVerify : BOOLEAN, tenant : STRING, sampler : BOOLEAN, samplerError : BOOLEAN,
      queueSize : Int, batchSize : Int, packetSize : Int, codeQueueSize : Int, codeConcurrency : Int,
      rateLimit : [enabled : BOOLEAN, first : Int, thereafter : Int, tick : Int] ]

\* zap's levels, each above those before it; api/log has no other.
Levels == <<"debug", "info", "warn", "error", "fatal">>
Rank(l) == CHOOSE i \in DOMAIN Levels : Levels[i] = l

\* apilog.Level.UnmarshalText accepts any text; what it does not know is "unknown".
\* trace is zap's debug, an unknown level only lets errors through.
toLevelEnabler(l) == IF l = "trace" THEN "debug"
                     ELSE IF l \in ToSet(Levels) THEN l ELSE "error"

Override(value, default) == IF value > 0 THEN value ELSE default

\* The plugin decodes the telemetry section over these defaults; the level of the
\* output section of the log plugin wins, and an address of the logs section too.
ParseConfig(c) ==
    [c EXCEPT !.level = IF c.outputLevel # "none" THEN c.outputLevel
                        ELSE IF @ = "none" THEN "info" ELSE @,
              !.addr  = IF c.logsAddr # "none" THEN c.logsAddr ELSE @]

\* Each default gives way to a positive value of the configuration, the queue size
\* also to a larger one set in code.
getBatchSyncerOptions(c) ==
    LET configured == Override(c.queueSize, DefaultMaxQueueSize) IN
    [ MaxQueueSize       |-> IF c.codeQueueSize > configured THEN c.codeQueueSize ELSE configured,
      MaxExportBatchSize |-> Override(c.batchSize, DefaultMaxExportBatchSize),
      MaxPacketSize      |-> Override(c.packetSize, DefaultMaxBatchedPacketSize),
      BlockOnQueueFull   |-> FALSE,
      EnableSampler      |-> c.sampler,
      EnableSamplerError |-> c.samplerError ]

enableLogRateLimit(c) ==
    c.rateLimit.enabled /\ c.rateLimit.first # 0 /\ c.rateLimit.thereafter # 0 /\ c.rateLimit.tick # 0

\* WithTLSCredentials or WithInsecure, the same for both exporters.
tlsOption(c) == IF ~c.tls THEN "insecure"
                ELSE IF c.skipVerify THEN "tlsUnverified" ELSE "tls"

\* The options each exporter is created with.
newExporter(kind, c) ==
    [ kind |-> kind, addr |-> c.addr, credentials |-> tlsOption(c), tenant |-> c.tenant,
      concurrency |-> IF kind = "async" THEN c.codeConcurrency ELSE 1 ]

\* The core of a disabled plugin drops everything. creation says whether dialling
\* the collector succeeded: when it did not, no core is installed.
Setup(raw, creation) ==
    LET c == ParseConfig(raw) IN
    IF ~c.enabled THEN [core |-> "nop"]
    ELSE IF creation = "fail" THEN [core |-> "error"]
    ELSE [ core     |-> "batch",
           exporter |-> newExporter(IF c.codeConcurrency > 1 THEN "async" ELSE "otlp", c),
           level    |-> toLevelEnabler(c.level),
           options  |-> getBatchSyncerOptions(c),
           limited  |-> enableLogRateLimit(c) ]

\* The factory adds the writer to the outputs of a logger that does not name it, and
\* refuses an empty list; the last caller skip given counts, 2 when none is.
FactorySetup(outputs) ==
    IF outputs = <<>> THEN [error |-> TRUE]
    ELSE [ error      |-> FALSE,
           outputs    |-> IF \E i \in DOMAIN outputs : outputs[i].writer = "opentelemetry"
                          THEN outputs
                          ELSE Append(outputs, [writer |-> "opentelemetry", skip |-> 0]),
           callerSkip |-> FoldLeft(LAMBDA s, o : IF o.skip # 0 THEN o.skip ELSE s, 2, outputs) ]
=============================================================================
