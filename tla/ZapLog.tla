------------------------------- MODULE ZapLog -------------------------------
(***************************************************************************)
(* Logging through zap: the plugin of oteltrpc/logs builds a batch writer  *)
(* from its configuration, the package otelzap also has a core that        *)
(* writes protobuf into the log batch processor, and the exporters behind  *)
(* them retry. The three share no state, so a behaviour exercises one of   *)
(* them, the one "part" names.                                             *)
(***************************************************************************)
EXTENDS LogWriterSetup, JsonRecord, BatchWriteSyncer, ZapEncoder, Retry

CONSTANTS Scenarios,    \* configurations of the plugin, the outputs of its logger, and the
                        \* goroutines that log with them
          Raw,          \* Raw[e]: the JSON object zap writes for entry e
          Fields,       \* lists of fields given to With and to an entry
          Parts         \* the parts to exercise

ASSUME ScenarioAssumption == \A scenario \in Scenarios : scenario.config \in LogsConfig
ASSUME EntriesAssumption ==
    /\ \A e \in Entries : Raw[e] \in Seq([key : STRING, type : STRING, value : STRING])
    /\ \A fields \in Fields : fields \in Seq([key : STRING, kind : STRING, value : STRING])

VARIABLES part,
          core          \* what Setup installed

zapLogVars == <<part, core, batchWriterVars, encoderVars, retryVars>>

\* What zap checks before Write: the level of the core, and the limit on equal entries
\* when it is on. Without a batch core nothing is written.
Enabled(e) == core.core = "batch" /\ Rank(Attr[e].level) >= Rank(core.level)
Skip(e) ==
    /\ at[e] = "idle" /\ (Enabled(e) => core.limited)
    /\ Goto(e, "done")
    /\ fate' = [fate EXCEPT ![e] = "filtered"]
    /\ UNCHANGED <<opt, exporter, queue, batchVars, timerVars, hand, local, outVars, exited>>

Init ==
    /\ part \in Parts
    /\ \E scenario \in Scenarios, created \in {"ok", "fail"} :
          /\ part # "writer" => scenario = CHOOSE x \in Scenarios : TRUE
          /\ core = IF part # "writer" THEN [core |-> "nop"]
                    ELSE IF FactorySetup(scenario.outputs).error THEN [core |-> "error"]
                    ELSE Setup(scenario.config, created)
          /\ IF core.core = "batch"
             THEN NewBatchWriteSyncer(core.options, core.exporter.kind, scenario.users)
             ELSE NewBatchWriteSyncer(getBatchSyncerOptions(scenario.config), "otlp", scenario.users)
    /\ NewEncoder
    /\ RequestFunc

WriterStep ==
    /\ part = "writer"
    /\ \/ core.core = "batch" /\ BatchWriterNext
       \/ core.core # "error" /\ exited = "no" /\ \E e \in Entries : Skip(e)
    /\ UNCHANGED <<part, core, encoderVars, retryVars>>

CoreStep ==
    /\ part = "core"
    /\ \/ \E parent, l \in Loggers, fields \in Fields : With(parent, l, fields)
       \/ \E l \in Loggers, fields \in Fields, level \in {"info", "error"}, msg \in {"m1", "m2"} :
             WriteEntry(l, level, msg, fields)
    /\ UNCHANGED <<part, core, batchWriterVars, retryVars>>

RetryStep ==
    /\ part = "retry" /\ RetryNext
    /\ UNCHANGED <<part, core, batchWriterVars, encoderVars>>

Next == WriterStep \/ CoreStep \/ RetryStep

Spec == Init /\ [][Next]_zapLogVars /\ BatchWriterFairness

\* Entry e as Write reads it; a malformed one is refused like one with invalid IDs.
EntryAttr(raw, sizeOf) ==
    [ sampled |-> readSampledAndLevel(raw).sampled, level |-> readSampledAndLevel(raw).level,
      valid   |-> ~Malformed(raw) /\ isValidRecord(convertToRecordV2(raw)), size |-> sizeOf ]

-----------------------------------------------------------------------------
(* Properties.                                                             *)

\* Through either core a record says what its own entry said, and nothing of it is left
\* out: OwnFieldsDelivered for the protobuf core; the JSON core's records agree with the
\* conversion the tests take as reference (writer.go:189).
EntryFieldsDelivered ==
    /\ OwnFieldsDelivered
    /\ \A e \in Entries : fate[e] \notin {"none", "filtered"} => ConversionsAgree(Raw[e])

TypeOK ==
    /\ part \in Parts /\ core.core \in {"nop", "error", "batch"}
    /\ BatchWriterTypeOK
    /\ RetryTypeOK
    /\ loggers \subseteq Loggers /\ Len(enqueued) = Len(wrote) /\ Len(buf) = Len(wrote)
=============================================================================
