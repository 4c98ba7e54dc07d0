------------------------------ MODULE MCZapLog ------------------------------
(* Small instances of ZapLog for TLC. *)
EXTENDS ZapLog

CONSTANTS e1, e2, e3, y1

F(k, t, v) == [key |-> k, type |-> t, value |-> v]

\* A sampled entry that fills a packet of size 2 alone and says so three times, the last
\* time too late to be read, an error whose trace ID is given
\* twice, and a fatal entry with a field of its own.
Raws == [e \in Entries |->
    CASE e = e1 -> <<F("level", "string", "info"), F("msg", "string", "m"), F("sampled", "string", "true"),
                     F("sampled", "string", "true"), F("traceID", "string", "trace"), F("n", "number", "1"),
                     F("sampled", "string", "false")>>
      [] e = e2 -> <<F("level", "string", "error"), F("msg", "string", "m"),
                     F("traceID", "string", "short"), F("traceID", "string", "trace")>>
      [] OTHER  -> <<F("level", "string", "fatal"), F("msg", "string", "m"), F("caller", "string", "f.go")>>]

Attrs == [e \in Entries |-> EntryAttr(Raws[e], IF e = e1 THEN 2 ELSE 1)]

Conf == [ enabled |-> TRUE, level |-> "none", outputLevel |-> "none", addr |-> "a", logsAddr |-> "none",
          tls |-> FALSE, skipVerify |-> FALSE, tenant |-> "t", sampler |-> FALSE, samplerError |-> FALSE,
          queueSize |-> 0, batchSize |-> 0, packetSize |-> 0, codeQueueSize |-> 1, codeConcurrency |-> 1,
          rateLimit |-> [enabled |-> FALSE, first |-> 0, thereafter |-> 0, tick |-> 0] ]

\* The plugin off; the OTLP exporter and the asynchronous one, beside a Sync; three
\* entries of which the last ends the process; sampling with errors, behind a limiter.
Outputs == <<[writer |-> "console", skip |-> 0]>>
PluginScenarios ==
    { [config |-> [Conf EXCEPT !.enabled = FALSE], users |-> {e1}, outputs |-> Outputs],
      [config |-> Conf, users |-> {e1}, outputs |-> <<>>],
      [config |-> Conf, users |-> {e1, e2, y1}, outputs |-> Outputs],
      [config |-> [Conf EXCEPT !.codeConcurrency = 2, !.outputLevel = "trace"], users |-> {e1, e2, y1}, outputs |-> Outputs],
      [config |-> [Conf EXCEPT !.packetSize = 4], users |-> {e1, e2, e3}, outputs |-> Outputs],
      [config |-> [Conf EXCEPT !.sampler = TRUE, !.samplerError = TRUE, !.tls = TRUE, !.level = "error",
                               !.logsAddr = "b", !.codeQueueSize = 2, !.codeConcurrency = 2,
                               !.rateLimit = [enabled |-> TRUE, first |-> 1, thereafter |-> 1, tick |-> 1]],
       users  |-> {e2, e3}, outputs |-> <<[writer |-> "opentelemetry", skip |-> 3]>>] }

\* Two contexts' sampling fields, and a field of another type.
Field(k, kind, v) == [key |-> k, kind |-> kind, value |-> v]
FieldLists == { <<>>,
                <<Field("sampled", "string", "true"), Field("traceID", "string", "t1")>>,
                <<Field("traceID", "string", "t2"), Field("n", "int64", "1")>>,
                <<Field("traceID", "string", "t1"), Field("traceID", "error", "t3"), Field("spanID", "string", "s1")>>,
                <<Field("s", "stringer", "x"), Field("err", "error", "e"), Field("a", "array", "y")>> }
=============================================================================
