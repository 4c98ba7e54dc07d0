------------------------------- MODULE Request -------------------------------
(***************************************************************************)
(* What the plugin does for a request: calls through the filters, under    *)
(* the codes the remote configuration has in force; streams; and lines     *)
(* logged with the contexts of the request. Dyeing and the codes are       *)
(* shared by the calls; streams and logs share nothing with them, so a     *)
(* behaviour exercises one part, the one "part" names. No call reads the   *)
(* owner: it is set up in the part "config" only.                          *)
(***************************************************************************)
EXTENDS RpcCall, RpcStream, ContextLog

CONSTANTS Scenarios,    \* of the calls: [calls, setups, remotes, outcomes, codes, dyeing,
                        \* remote, toggles], the last three whether these change meanwhile
          CodeLists,    \* configured codes, of the part "config"
          Lengths,      \* numbers of fields given to a context
          LineFields,   \* fields of a line
          Levels,       \* levels of a line
          Parts

ASSUME CallScenarioAssumption ==
    /\ \A s \in Scenarios : /\ s.remotes \subseteq SpanContext \X SpanContext
                            /\ \A f \in s.setups : f.deferred.slow \in Int
                            /\ s.codes \in Seq(Code) /\ Len(s.codes) <= 12
    /\ CodeLists \subseteq Seq(Code) /\ \A list \in CodeLists : Len(list) <= 12
    /\ Lengths \subseteq Nat /\ LineFields \subseteq Seq(STRING)

VARIABLES part, scenario

requestVars == <<part, scenario, samplingVars, remoteVars, callVars, streamVars, contextLogVars>>

Init ==
    /\ part \in Parts
    /\ scenario \in Scenarios
    /\ part # "calls" => scenario = CHOOSE s \in Scenarios : TRUE
    /\ NewSampler
    /\ InitCalls(scenario.setups, scenario.remotes)
    /\ part # "calls" => filters = CHOOSE f \in scenario.setups : TRUE
    /\ \E local \in IF part = "config" THEN CodeLists ELSE {scenario.codes},
          metrics \in IF part = "config" THEN BOOLEAN ELSE {FALSE} : NewRemoteConfigurator(local, metrics)
    /\ part # "calls" => carried = [c \in Calls |-> <<NoContext, NoContext>>]
    /\ InitStreams
    /\ InitContextLog
    /\ part # "logs" => logger = CHOOSE l \in LoggerOptions : TRUE

\* The filters are registered when Setup has ended.
CallStep ==
    /\ part = "calls"
    /\ \/ /\ setup = "done" /\ CallNext(scenario.outcomes, scenario.toggles)
          /\ \A c \in Calls : at'[c] # "idle" => c \in scenario.calls
          /\ UNCHANGED <<samplingVars, remoteVars>>
       \/ scenario.dyeing /\ updateDyeingMetadata(Sampler) /\ UNCHANGED <<remoteVars, callVars>>
       \/ /\ scenario.remote \/ setup # "done"
          /\ RemoteNext /\ UNCHANGED <<samplingVars, callVars>>
    /\ UNCHANGED <<part, scenario, streamVars, contextLogVars>>

ConfigStep ==
    /\ part = "config" /\ RemoteNext
    /\ UNCHANGED <<part, scenario, samplingVars, callVars, streamVars, contextLogVars>>

StreamStep ==
    /\ part = "streams" /\ StreamNext
    /\ UNCHANGED <<part, scenario, samplingVars, remoteVars, callVars, contextLogVars>>

LogStep ==
    /\ part = "logs" /\ ContextLogNext(Lengths, LineFields, Levels)
    /\ UNCHANGED <<part, scenario, samplingVars, remoteVars, callVars, streamVars>>

Next == CallStep \/ ConfigStep \/ StreamStep \/ LogStep

Spec == Init /\ [][Next]_requestVars

-----------------------------------------------------------------------------
(* Properties.                                                             *)

\* The counters of started and of handled calls agree, but for what UnaryCounted and
\* StreamsCounted name.
StartedHandledAgree == UnaryCounted /\ StreamsCounted
=============================================================================
