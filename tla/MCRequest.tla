----------------------------- MODULE MCRequest -----------------------------
(* Small instances of Request for TLC. *)
EXTENDS Request

\* A server call, the client call made by it, and the server call that one reaches.
Kinds   == [c \in Calls |-> IF c = "out" THEN "client" ELSE "server"]
Callers == [c \in Calls |-> CASE c = "in" -> "none" [] c = "out" -> "in" [] OTHER -> "out"]
Sources == [c \in Calls |-> IF c = "in" THEN [service |-> "web", method |-> "page"]
                                        ELSE [service |-> "s1", method |-> "/get"]]
Callees == [c \in Calls |->
    [ service |-> IF c = "in" THEN "s1" ELSE "s2", method |-> IF c = "in" THEN "/get" ELSE "m2",
      path |-> IF c = "in" THEN "/get" ELSE "" ]]
Messages == [c \in Calls |-> [dyeingKey |-> IF c = "in" THEN "v" ELSE "", force |-> "", body |-> 9]]
PathPatterns == [p \in {"/get"} |-> "get_pattern"]
DyedSets == {{<<"dyeing", "v">>}, {<<"dyeing", "w">>}}
SamplerConfig == [ fraction |-> 0, addr |-> "addr",
                   special  |-> [s \in {"s2"} |-> [default |-> 9, methods |-> [m \in {"m2"} |-> 1]]] ]

Deferred(enabled, error, slow) == [enabled |-> enabled, error |-> error, slow |-> slow]
Conf == [ traceLogMode |-> "oneline", exclude |-> {}, disableTraceBody |-> FALSE,
          disableParentSampling |-> FALSE, disableRecovery |-> FALSE, metrics |-> TRUE,
          disableRPCMethodMapping |-> FALSE, deferred |-> Deferred(TRUE, TRUE, 1) ]
Rule(service, method, code) == [service |-> service, method |-> method, code |-> code]

\* Off, with its other options set; errors, slow calls or both; without a metric filter.
SingleSetups ==
    {setupFilters([Conf EXCEPT !.deferred = d, !.disableRecovery = r]) :
        d \in {Deferred(FALSE, TRUE, 1), Deferred(TRUE, TRUE, 0), Deferred(TRUE, FALSE, 1), Deferred(TRUE, TRUE, 1)},
        r \in BOOLEAN}
    \cup {DefaultFilters(Deferred(FALSE, FALSE, 0)),
          setupFilters([Conf EXCEPT !.metrics = FALSE, !.disableTraceBody = TRUE]),
          setupFilters([Conf EXCEPT !.disableRPCMethodMapping = TRUE, !.traceLogMode = "disable",
                                    !.exclude = {Rule("s1", "page", "0"), Rule("web", "", "7")}])}

Sampled == [trace |-> 1, sampled |-> TRUE]
Nothing == <<NoContext, NoContext>>
Outcome(kind, code) == [kind |-> kind, code |-> code]
LocalCodes == ConvertMetricsCodes([c \in {"5"} |-> "success"],
                                  <<NewCode("7", "timeout", "", "get_pattern"), NewCode("7", "exception", "", "")>>,
                                  <<"0", "", "5", "21", "101">>)

Scenario == [ calls |-> {"in"}, setups |-> SingleSetups, outcomes |-> {Outcome("rsp", "0")},
              remotes |-> {Nothing, <<Sampled, NoContext>>, <<NoContext, [Sampled EXCEPT !.sampled = FALSE]>>},
              codes |-> LocalCodes, dyeing |-> FALSE, remote |-> FALSE, toggles |-> FALSE ]
CallScenarios ==
    { [Scenario EXCEPT !.outcomes = {Outcome("rsp", "0"), Outcome("rsp", "5"), Outcome("errs", "7"),
                                     Outcome("wrapped", "5"), Outcome("plain", "0"), Outcome("panic", "0")}],
      [Scenario EXCEPT !.calls = {"in", "out", "far"}, !.outcomes = {Outcome("rsp", "0")},
                       !.setups = {setupFilters([Conf EXCEPT !.disableParentSampling = p,
                                                             !.deferred = Deferred(TRUE, TRUE, 1)]) : p \in BOOLEAN},
                       !.remotes = {Nothing, <<Sampled, NoContext>>}, !.toggles = TRUE],
      [Scenario EXCEPT !.outcomes = {Outcome("rsp", "5"), Outcome("errs", "7")}, !.setups = {setupFilters(Conf)},
                       !.remotes = {Nothing}, !.dyeing = TRUE, !.remote = TRUE] }

\* The service's answers, of which the second changes a code and the owner.
Answers == <<[codes |-> <<>>, owners |-> "none"],
             [codes |-> <<[code |-> "5", type |-> "exception", service |-> "s1", method |-> ""]>>, owners |-> "o2"]>>
ConfiguredCodes ==
    { <<NewCode("7", "timeout", "", "")>>,
      <<NewCode("7", "timeout", "", ""), NewCode("7", "success", "s1", ""), NewCode("7", "exception", "s2", "m2")>>,
      <<NewCode("7", "timeout", "", "m2"), NewCode("7", "success", "s1", "")>>,
      <<NewCode("7", "timeout", "", "m2"), NewCode("7", "success", "s1", ""), NewCode("5", "timeout", "", ""),
        NewCode("7", "exception", "s2", ""), NewCode("7", "exception", "s2", "m2"), NewCode("5", "success", "", "m2")>> }

StreamDescs == [s \in Streams |->
    [ role |-> IF s = "t2" THEN "server" ELSE "client", clientStreams |-> s # "t1", serverStreams |-> TRUE ]]

Loggers == { [kind |-> "nop", level |-> "", sampler |-> FALSE, samplerError |-> FALSE],
             [kind |-> "sdk", level |-> "info", sampler |-> FALSE, samplerError |-> FALSE],
             [kind |-> "sdk", level |-> "debug", sampler |-> TRUE, samplerError |-> TRUE] }
Spans == [x \in Contexts |-> CASE x = "c1" -> "sampled" [] x = "c2" -> "recorded" [] x = "c3" -> "none" [] OTHER -> "dropped"]
Lines  == {<<"l">>}
=============================================================================
