----------------------------- MODULE MetricLimits -----------------------------
(***************************************************************************)
(* The vectors of the RPC metrics and how a scrape bounds them,            *)
(* sdk/metric/rpc_client_metrics.go, rpc_server_metrics.go and             *)
(* limit_cardinality.go. A collector around most of the vectors deletes    *)
(* small or surplus series when it finds too many; the gatherer truncates  *)
(* what is left and may reset whole vectors. Meanwhile requests look       *)
(* series up and add to what they have found.                              *)
(*                                                                         *)
(* Vectors are named after the variables that hold them; a series is known *)
(* by a number, its place in the order of labels.                          *)
(***************************************************************************)
EXTENDS FiniteSetsExt, SequencesExt

CONSTANTS Families,     \* the vectors in play, in the order of their exposed names
          SeriesKeys,   \* a finite set of numbers
          Requests, MaxScrapes

VARIABLES limits,       \* [collector, metric, total], 0 for no limit of the last two; with
                        \* "extra", the number of labels the user's options add, and the
                        \* bounds "busy", the families requests are about, "adds" and "setUps"
          setUps,       \* number of enabled calls of SetupByConfig
          series,       \* family -> series -> value, of the registered vector
          requests,     \* request -> [step, f, key, counts], "idle", "holds", "orphan", "panicked"
          added,        \* family -> series -> additions that should be scraped: those that
                        \* began when the vector was registered or set up
          scrape,       \* "idle", "collect", "failed", "done"
          todoFamilies, \* not collected yet
          deleting,     \* family -> series its collector is about to delete
          collected,    \* family -> series handed to the gatherer
          scraped,      \* family -> series of the answer
          alerts,       \* labels of high_cardinality_metrics that are not 0
          scrapes,
          raised        \* alerts ever raised: who was found above which limit

limitVars == <<limits, setUps, series, requests, added, scrape, todoFamilies, deleting,
               collected, scraped, alerts, scrapes, raised>>

FamilySet == ToSet(Families)

ASSUME FamiliesAssumption == Families \in Seq(STRING) /\ Families # <<>>
ASSUME SeriesAssumption == IsFiniteSet(SeriesKeys) /\ SeriesKeys \subseteq Nat

Limits == [ collector : Nat, metric : Nat, total : Nat, extra : Nat, busy : SUBSET FamilySet,
            adds : Nat, setUps : Nat ]

-----------------------------------------------------------------------------
(* The vectors.                                                            *)

clientReset == {"clientStartedCounter", "clientHandledCounter", "clientHandledHistogram"}
serverReset == {"serverStartedCounter", "serverHandledCounter", "serverHandledHistogram"}
clientStream == {"clientStreamMsgReceived", "clientStreamMsgSent",
                 "clientStreamRecvHistogram", "clientStreamSendHistogram"}
serverStream == {"serverStreamMsgReceived", "serverStreamMsgSent"}

\* By the prefix of the exposed name.
Side(f) == IF f \in clientReset \union clientStream THEN "client"
           ELSE IF f \in serverReset \union serverStream \union {"ServerPanicTotal"} THEN "server"
           ELSE "none"

\* The label options without the user's.
labelsOption(f) ==
    << "system_name", "caller_service", "caller_method", "callee_service", "callee_method" >>
        \o IF f \in {"clientStartedCounter", "serverStartedCounter"} THEN <<>>
           ELSE <<"code", "code_type", "code_desc">>

defaultStreamLabels == <<"system_name", "rpc_type", "caller_service", "caller_method",
                         "callee_service", "callee_method">>

\* Registered before any set-up: what init registers.
registeredByInit == serverStream \union {"clientStreamMsgReceived", "clientStreamMsgSent", "ServerPanicTotal"}

\* Those behind a LimitCardinalityCollector.
limited == clientReset \union serverReset \union clientStream \union serverStream

\* Number of labels of the vector the variable holds: the user's are there from the
\* first set-up on.
NumLabels(f) ==
    IF f \in clientReset \union serverReset
    THEN Len(labelsOption(f)) + IF setUps = 0 THEN 0 ELSE limits.extra
    ELSE Len(defaultStreamLabels)

InitLimits(limitSets) ==
    /\ limits \in limitSets /\ setUps = 0
    /\ series = [f \in FamilySet |-> <<>>]
    /\ requests = [r \in Requests |-> [step |-> "idle", f |-> Families[1], key |-> 0, counts |-> FALSE]]
    /\ added = [f \in FamilySet |-> [k \in SeriesKeys |-> 0]]
    /\ scrape = "idle" /\ todoFamilies = {} /\ deleting = [f \in FamilySet |-> {}]
    /\ collected = [f \in FamilySet |-> {}] /\ scraped = [f \in FamilySet |-> {}]
    /\ alerts = {} /\ scrapes = 0 /\ raised = {}

\* registerRPCServerCounter, registerRPCClientCounter and registerRPCHandledHistograms.
\* The second time initServerCollectors replaces two variables, then MustRegister panics.
SetupMetrics ==
    /\ setUps < limits.setUps /\ setUps' = setUps + 1
    /\ UNCHANGED <<limits, series, requests, added, scrape, todoFamilies, deleting,
                   collected, scraped, alerts, scrapes, raised>>

\* The vector in the variable is the one that is registered.
IsRegistered(f) ==
    \/ f \in registeredByInit \/ Side(f) = "none"
    \/ f \in {"serverStartedCounter", "serverHandledCounter"} /\ setUps = 1
    \/ f \in limited /\ setUps > 0 /\ f \notin {"serverStartedCounter", "serverHandledCounter"}

-----------------------------------------------------------------------------
(* Requests.                                                               *)

\* The series s of a vector with k among them.
WithSeries(s, k) == [j \in DOMAIN s \cup {k} |-> IF j \in DOMAIN s THEN s[j] ELSE 0]

Additions == SumFunctionOnSet([p \in FamilySet \X SeriesKeys |-> added[p[1]][p[2]]], FamilySet \X SeriesKeys)

Value(f, k) == IF k \in DOMAIN series[f] THEN series[f][k] ELSE 0

\* WithLabelValues; reporters append the user's labels to their own.
Lookup(r, f, k) ==
    /\ requests[r].step = "idle"
    /\ Additions < limits.adds
    /\ LET given == IF f \in clientReset \union serverReset THEN Len(labelsOption(f)) + limits.extra
                    ELSE Len(defaultStreamLabels)
           reach == IF NumLabels(f) # given THEN "panicked"
                    ELSE IF IsRegistered(f) THEN "holds" ELSE "orphan"
       IN /\ requests' = [requests EXCEPT ![r] = [step |-> reach, f |-> f, key |-> k,
                                                   counts |-> setUps > 0 \/ IsRegistered(f)]]
          /\ series' = IF reach = "holds" THEN [series EXCEPT ![f] = WithSeries(@, k)] ELSE series
    /\ UNCHANGED <<limits, setUps, added, scrape, todoFamilies, deleting, collected,
                   scraped, alerts, scrapes, raised>>

\* Inc or Observe; of a series deleted since nobody takes notice any more.
AddTo(r) ==
    /\ requests[r].step \in {"holds", "orphan"}
    /\ LET f == requests[r].f
           k == requests[r].key
       IN /\ series' = IF requests[r].step = "holds" THEN [series EXCEPT ![f][k] = @ + 1] ELSE series
          /\ added' = IF requests[r].counts THEN [added EXCEPT ![f][k] = @ + 1] ELSE added
    /\ requests' = [requests EXCEPT ![r].step = "idle"]
    /\ UNCHANGED <<limits, setUps, scrape, todoFamilies, deleting, collected, scraped,
                   alerts, scrapes, raised>>

-----------------------------------------------------------------------------
(* Scraping.                                                               *)

\* Delete and Reset: who holds one of the series goes on adding to it, out of sight.
RemoveSeries(doomed) ==
    /\ series' = [f \in FamilySet |-> Restrict(series[f], DOMAIN series[f] \ doomed[f])]
    /\ requests' = [r \in Requests |->
           IF requests[r].step = "holds" /\ requests[r].key \in doomed[requests[r].f]
           THEN [requests[r] EXCEPT !.step = "orphan"] ELSE requests[r]]

BeginScrape ==
    /\ scrape # "collect" /\ scrapes < MaxScrapes
    /\ scrape' = "collect" /\ scrapes' = scrapes + 1
    /\ todoFamilies' = {f \in FamilySet : IsRegistered(f) \/ setUps > 0}
    /\ deleting' = [f \in FamilySet |-> {}]
    /\ collected' = [f \in FamilySet |-> {}] /\ scraped' = [f \in FamilySet |-> {}]
    /\ UNCHANGED <<limits, setUps, series, requests, added, alerts, raised>>

\* Up to LimitCardinalityCollector's sort: above the limit it keeps the series of the
\* greatest values, of those only the ones above 1.
Collect(f) ==
    /\ scrape = "collect" /\ f \in todoFamilies /\ todoFamilies' = todoFamilies \ {f}
    /\ LET found == DOMAIN series[f] IN
       IF f \in limited /\ Cardinality(found) > limits.collector
       THEN \E top \in kSubset(limits.collector, found) :
              /\ \A k \in top, j \in found \ top : series[f][k] >= series[f][j]
              /\ collected' = [collected EXCEPT ![f] = {k \in top : series[f][k] > 1}]
              /\ deleting' = [deleting EXCEPT ![f] = found \ {k \in top : series[f][k] > 1}]
              /\ alerts' = alerts \union {<<"collector", f>>}
              /\ raised' = raised \union {<<"collector", f>>}
       ELSE /\ collected' = [collected EXCEPT ![f] = found]
            /\ UNCHANGED <<deleting, alerts, raised>>
    /\ UNCHANGED <<limits, setUps, series, requests, added, scrape, scraped, scrapes>>

\* The Deletes that follow, of the series as they are by now.
DeleteSeries(f) ==
    /\ scrape = "collect" /\ deleting[f] # {}
    /\ RemoveSeries([g \in FamilySet |-> IF g = f THEN deleting[f] ELSE {}])
    /\ deleting' = [deleting EXCEPT ![f] = {}]
    /\ UNCHANGED <<limits, setUps, added, scrape, todoFamilies, collected, scraped,
                   alerts, scrapes, raised>>

Collected == scrape = "collect" /\ todoFamilies = {} /\ \A f \in FamilySet : deleting[f] = {}

\* The registry reports an error, because of another collector: the answer is empty.
GatherFails ==
    /\ Collected /\ scrape' = "failed"
    /\ UNCHANGED <<limits, setUps, series, requests, added, todoFamilies, deleting,
                   collected, scraped, alerts, scrapes, raised>>

\* The first n series in the order of their labels.
Truncate(keys, n) == {k \in keys : Cardinality({j \in keys : j <= k}) <= n}

TooMany(f) == limits.metric > 0 /\ Cardinality(collected[f]) > limits.metric
Kept(f) == IF TooMany(f) THEN Truncate(collected[f], limits.metric) ELSE collected[f]
Sizes(answer) == [f \in FamilySet |-> Cardinality(answer[f])]
TotalUpTo(i) == SumFunctionOnSet(Sizes([f \in FamilySet |-> Kept(f)]), {Families[j] : j \in 1 .. i})

\* The first family with which the total is too large, or the number after the last.
Cut == IF limits.total = 0 THEN Len(Families) + 1
       ELSE Min({i \in DOMAIN Families : TotalUpTo(i) > limits.total} \union {Len(Families) + 1})

Answer(i) == i < Cut

\* Gather, over the families in order; the loop ends with the family at Cut. What it resets
\* are the vectors in the variables; one that is not registered holds nothing of a scrape.
Gather ==
    /\ Collected /\ scrape' = "done"
    /\ LET visited == {Families[i] : i \in {j \in DOMAIN Families : j <= Cut}}
           tooMany == {f \in visited : TooMany(f)}
           reset   == {f \in clientReset \union serverReset :
                          IsRegistered(f) /\ \E g \in tooMany : Side(g) = Side(f)}
       IN /\ scraped' = [f \in FamilySet |->
                 IF \E i \in DOMAIN Families : Families[i] = f /\ Answer(i) THEN Kept(f) ELSE {}]
          /\ RemoveSeries([f \in FamilySet |-> IF f \in reset THEN DOMAIN series[f] ELSE {}])
          /\ alerts' = (alerts \ ({<<"family", f>> : f \in visited} \union {<<"total">>}))
                           \union {<<"family", f>> : f \in tooMany}
                           \union IF Cut <= Len(Families) THEN { <<"total">> } ELSE {}
          /\ raised' = raised \union {<<"family", f>> : f \in tooMany}
    /\ UNCHANGED <<limits, setUps, added, todoFamilies, deleting, collected, scrapes>>

LimitsNext ==
    \/ SetupMetrics \/ BeginScrape \/ Gather \/ GatherFails
    \/ \E r \in Requests : AddTo(r) \/ \E f \in limits.busy, k \in SeriesKeys : Lookup(r, f, k)
    \/ \E f \in FamilySet : Collect(f) \/ DeleteSeries(f)

-----------------------------------------------------------------------------
(* Properties.                                                             *)

\* What the requests added is scraped for as long as no scrape has found the family, or
\* for the unary families any of the same side, above a limit: neither two requests that
\* look up a series at once nor a scrape beside them loses anything, and a large stream
\* family resets the unary ones but never itself. A second set-up moves the server's
\* counters out of sight (limit_cardinality.go:119, :186; rpc_server_metrics.go:109).
Wiped(f) ==
    \/ <<"collector", f>> \in raised
    \/ /\ f \in clientReset \union serverReset
       /\ \E g \in FamilySet : <<"family", g>> \in raised /\ Side(g) = Side(f)
Moved(f) == setUps > 1 /\ f \in {"serverStartedCounter", "serverHandledCounter"}
AdditionsKept ==
    \A f \in FamilySet, k \in SeriesKeys :
        /\ Value(f, k) <= added[f][k]
        /\ ~Wiped(f) /\ ~Moved(f) => Value(f, k) = added[f][k]

\* A scrape answers with no more series than the limits allow, and when it leaves out
\* one that it collected it says so (limit_cardinality.go:109, :137).
AnswerBounded ==
    /\ limits.metric > 0 => \A f \in FamilySet : Cardinality(scraped[f]) <= limits.metric
    /\ limits.total > 0 => SumFunctionOnSet(Sizes(scraped), FamilySet) <= limits.total
    /\ scrape = "done" /\ scraped # collected => \E a \in alerts : a[1] # "collector"

\* A request panics only before the first set-up, and only with labels of the user's
\* (rpc_server_metrics.go:81, :97). A request that found its vector before the first set-up
\* is known by that it does not count.
LabelsAgree ==
    \A r \in Requests : requests[r].step = "panicked" => limits.extra > 0 /\ ~ requests[r].counts
=============================================================================
