--------------------------- MODULE ControlProofs ---------------------------
(***************************************************************************)
(* Proofs about what surrounds requests: that Shutdown of the facade       *)
(* returns what became of the parts, whatever set-ups came before and      *)
(* whichever of the parts failed; that every report and addition is in     *)
(* what a scrape finds, or is missing for one of the reasons named, for    *)
(* any number of reporters, requests, names, labels and limits; and that   *)
(* the parts agree with whatever is configured, and the process metrics    *)
(* with what limits the container.                                         *)
(***************************************************************************)
EXTENDS Control, SequenceLemmas, TLAPS

-----------------------------------------------------------------------------
(* The facade.                                                             *)

Stages == {"exporter", "log", "metric", "tracer"}
Earlier(kind) == IF kind = "tracer" THEN {"meter"} ELSE IF kind = "logger" THEN {"meter", "tracer"} ELSE {}

\* The global part of a kind is shut, or a call before this one gave it up.
Dealt(kind) ==
    \/ global[kind] = 0
    \/ <<kind, global[kind]>> \in shut
    \/ <<kind, global[kind]>> \in gaveUp /\ shutdowns > 1

\* A part that runs has become the global one, belongs to a set-up that failed, or is of
\* the one under way.
Reached(p) ==
    \/ p[2] \in failed
    \/ p[2] = setups /\ stage # "idle" /\ p[1] = "tracer"
    \/ global[p[1]] >= p[2]

FacadeInv ==
    /\ setups \in Nat /\ shutdowns \in Nat /\ global \in [Kinds -> 0 .. setups]
    /\ stage \in Stages \cup {"idle"} /\ stopping \in Kinds \cup {"idle"}
    /\ started \subseteq Kinds \X (1 .. setups)
    /\ stage # "idle" => setups > 0 /\ stopping = "idle" /\ result = "none"
    /\ stopping # "idle" => result = "none" /\ shutdowns > 0
    /\ \A p \in started : Reached(p)
    /\ shutdowns = 0 \/ (shutdowns = 1 /\ stopping = "meter") => shut = {}
    /\ shutdowns = 0 \/ (shutdowns = 1 /\ stopping # "idle") => gaveUp = {}
    /\ \A kind \in Earlier(stopping) : Dealt(kind)
    /\ result = "nil" => \A kind \in Kinds : Dealt(kind)
    /\ ErrorNamesPart

\* The facade starts with no part set up and nothing shut.
LEMMA FacadeInit == InitTelemetry => FacadeInv
<1> SUFFICES ASSUME InitTelemetry PROVE FacadeInv
  OBVIOUS
<1> USE DEF InitTelemetry
<1>1. setups \in Nat /\ shutdowns \in Nat /\ global \in [Kinds -> 0 .. setups]
  <2>1. setups = 0 /\ shutdowns = 0
    OBVIOUS
  <2>2. global = [k \in Kinds |-> 0]
    OBVIOUS
  <2> HIDE DEF InitTelemetry
  <2> QED
    BY <2>1, <2>2
<1>2. Earlier(stopping) = {}
  BY DEF Earlier
<1>3. ErrorNamesPart
  BY DEF ErrorNamesPart
<1> QED
  BY <1>1, <1>2, <1>3 DEF FacadeInv, Stages

\* No step of a set-up makes a part unreachable or what Shutdown returned untrue.
LEMMA SetupNext ==
    ASSUME FacadeInv,
           \/ \E a, list : BeginSetup(a, list)
           \/ \E ok \in BOOLEAN : SetupTraces(ok) \/ SetupLog(ok) \/ SetupMetric(ok)
           \/ SetTracerProvider
    PROVE  FacadeInv'
<1> USE DEF FacadeInv, Kinds, Stages, Earlier, Reached, Dealt, ErrorNamesPart, shutdownVars
<1>1. ASSUME NEW a, NEW list, BeginSetup(a, list) PROVE FacadeInv'
  BY <1>1 DEF BeginSetup
<1>2. ASSUME NEW ok \in BOOLEAN, SetupTraces(ok) PROVE FacadeInv'
  BY <1>2 DEF SetupTraces, SetupFails
<1>3. ASSUME NEW ok \in BOOLEAN, SetupLog(ok) PROVE FacadeInv'
  BY <1>3 DEF SetupLog, SetupFails
<1>4. ASSUME NEW ok \in BOOLEAN, SetupMetric(ok) PROVE FacadeInv'
  BY <1>4 DEF SetupMetric, SetupFails
<1>5. CASE SetTracerProvider
  BY <1>5 DEF SetTracerProvider
<1> QED
  BY <1>1, <1>2, <1>3, <1>4, <1>5

\* Nor does a step of Shutdown.
LEMMA ShutdownNext ==
    ASSUME FacadeInv,
           BeginShutdown \/ ShutInBackground \/ \E k \in Kinds, ok \in BOOLEAN : ShutdownPart(k, ok)
    PROVE  FacadeInv'
<1> USE DEF FacadeInv, Kinds, Stages, Earlier, Reached, Dealt, ErrorNamesPart, setupVars
<1>1. CASE BeginShutdown
  BY <1>1 DEF BeginShutdown
<1>2. CASE ShutInBackground
  BY <1>2 DEF ShutInBackground
<1>3. ASSUME NEW k \in Kinds, NEW ok \in BOOLEAN, ShutdownPart(k, ok) PROVE FacadeInv'
  <2> DEFINE own == <<k, global[k]>>
  <2>1. CASE global[k] = 0
    BY <1>3, <2>1 DEF ShutdownPart, Return, After
  <2>2. CASE global[k] # 0 /\ own \in shut \union gaveUp
    BY <1>3, <2>2 DEF ShutdownPart, Return, After
  <2>3. CASE global[k] # 0 /\ own \notin shut \union gaveUp
    BY <1>3, <2>3 DEF ShutdownPart, Return, After
  <2> QED
    BY <2>1, <2>2, <2>3
<1> QED
  BY <1>1, <1>2, <1>3

\* No step of the system does.
LEMMA FacadeNext ==
    ASSUME FacadeInv, [Next]_controlVars
    PROVE  FacadeInv'
<1>1. CASE UNCHANGED telemetryVars
  BY <1>1 DEF FacadeInv, telemetryVars, setupVars, shutdownVars, Reached, Dealt, ErrorNamesPart
<1>2. CASE TelemetryNext(Addresses, OptionLists, MaxSetupCalls)
  BY <1>2, SetupNext, ShutdownNext DEF TelemetryNext
<1> QED
  BY <1>1, <1>2 DEF Next, MetricStep, FacadeStep, SinkStep, ScrapeStep, controlVars

\* After any number of set-ups, some of which may have failed half-way, nil from Shutdown
\* means that nothing runs that could be reached, and an error that a part gave up.
THEOREM ShutdownTellsTruth == Spec => []ShutdownReports
<1>1. Init => FacadeInv
  BY FacadeInit DEF Init
<1>2. FacadeInv /\ [Next]_controlVars => FacadeInv'
  BY FacadeNext
<1>3. FacadeInv => ShutdownReports
  BY DEF FacadeInv, ShutdownReports, NilReportsAll, ErrorNamesPart, Reached, Dealt, Replaced, Kinds
<1> QED
  BY <1>1, <1>2, <1>3, PTL DEF Spec

-----------------------------------------------------------------------------
(* The metrics a scrape finds.                                             *)

Steps == {"idle", "holds", "orphan", "panicked"}

\* The states of the vectors, the requests and a scrape.
LimitsType ==
    /\ limits \in Limits /\ setUps \in Nat
    /\ DOMAIN series = FamilySet
    /\ \A f \in FamilySet : /\ DOMAIN series[f] \subseteq SeriesKeys
                            /\ series[f] \in [DOMAIN series[f] -> Nat]
    /\ added \in [FamilySet -> [SeriesKeys -> Nat]]
    /\ requests \in [Requests -> [step : Steps, f : FamilySet, key : SeriesKeys \cup {0}, counts : BOOLEAN]]
    /\ deleting \in [FamilySet -> SUBSET SeriesKeys]
    /\ collected \in [FamilySet -> SUBSET SeriesKeys]

\* A request that holds a series counts and the series is there; one that counts out of
\* sight has a family that a scrape has found above a limit, or a second set-up moved.
RequestInv(r) ==
    LET f == requests[r].f
        k == requests[r].key
    IN /\ requests[r].step \in {"holds", "orphan"} => k \in SeriesKeys
       /\ requests[r].step = "holds" => k \in DOMAIN series[f] /\ requests[r].counts
       /\ requests[r].step = "orphan" /\ requests[r].counts => Wiped(f) \/ Moved(f)

\* The requests hold what counts, and a deletion has its alert.
KeptInv ==
    /\ LimitsType
    /\ \A r \in Requests : RequestInv(r)
    /\ \A f \in FamilySet : deleting[f] # {} => <<"collector", f>> \in raised
    /\ AdditionsKept
    /\ LabelsAgree

\* There is a family.
LEMMA FirstFamily == Families[1] \in FamilySet
  BY FamiliesAssumption DEF FamilySet, ToSet

\* At first nothing was added.
LEMMA KeptInit == ASSUME NEW sets \in SUBSET Limits, InitLimits(sets) PROVE KeptInv
<1> USE DEF InitLimits
<1>1. LimitsType
  BY FirstFamily DEF LimitsType, Steps
<1>2. AdditionsKept
  BY DEF AdditionsKept, Value
<1> QED
  BY <1>1, <1>2 DEF KeptInv, RequestInv, LabelsAgree

\* Only a second set-up makes a registered vector one that is not.
LEMMA Unregistered ==
    ASSUME NEW f \in FamilySet, setUps \in Nat, setUps > 0, ~ IsRegistered(f)
    PROVE  Moved(f)
<1>1. f \in limited \cup {"ServerPanicTotal"}
  BY DEF IsRegistered, Side, limited
<1>2. f \in {"serverStartedCounter", "serverHandledCounter"} /\ setUps # 1
  BY <1>1 DEF IsRegistered, limited, registeredByInit
<1> QED
  BY <1>2 DEF Moved

\* A step that adds to raised or setUps only, and to neither a series nor a request,
\* keeps the invariant.
LEMMA KeptStays ==
    ASSUME KeptInv, UNCHANGED <<limits, series, requests, added>>, raised \subseteq raised',
           setUps' \in Nat, setUps <= setUps',
           deleting' \in [FamilySet -> SUBSET SeriesKeys], collected' \in [FamilySet -> SUBSET SeriesKeys],
           \A f \in FamilySet : deleting'[f] # {} => <<"collector", f>> \in raised'
    PROVE  KeptInv'
<1>1. \A f \in FamilySet : /\ Wiped(f) => Wiped(f)'
                           /\ Moved(f) => Moved(f)'
  <2>1. setUps > 1 => setUps' > 1
    BY DEF KeptInv, LimitsType
  <2> QED
    BY <2>1 DEF Wiped, Moved
<1>2. LimitsType'
  BY DEF KeptInv, LimitsType
<1>3. ASSUME NEW r \in Requests PROVE RequestInv(r)'
  <2>1. RequestInv(r) /\ requests[r].f \in FamilySet
    BY DEF KeptInv, LimitsType
  <2> QED
    BY <1>1, <2>1 DEF RequestInv
<1>4. AdditionsKept'
  BY <1>1 DEF KeptInv, AdditionsKept, Value
<1>5. LabelsAgree'
  BY DEF KeptInv, LabelsAgree
<1> QED
  BY <1>2, <1>3, <1>4, <1>5 DEF KeptInv

\* SetupMetrics registers the vectors once more and adds nothing.
LEMMA SetupKept == ASSUME KeptInv, SetupMetrics PROVE KeptInv'
  BY KeptStays DEF SetupMetrics, KeptInv, LimitsType

\* Collecting a family reads it, and may start the deletion of its series.
LEMMA ScrapeKept ==
    ASSUME KeptInv, BeginScrape \/ GatherFails \/ \E f \in FamilySet : Collect(f)
    PROVE  KeptInv'
<1> USE DEF KeptInv, LimitsType
<1>1. CASE BeginScrape
  BY <1>1, KeptStays DEF BeginScrape
<1>2. CASE GatherFails
  BY <1>2, KeptStays DEF GatherFails
<1>3. ASSUME NEW f \in FamilySet, Collect(f) PROVE KeptInv'
  <2>1. UNCHANGED <<limits, series, requests, added, setUps>>
    BY <1>3 DEF Collect
  <2>2. CASE f \in limited /\ Cardinality(DOMAIN series[f]) > limits.collector
    <3>1. PICK top \in kSubset(limits.collector, DOMAIN series[f]) :
              /\ collected' = [collected EXCEPT ![f] = {k \in top : series[f][k] > 1}]
              /\ deleting' = [deleting EXCEPT ![f] = DOMAIN series[f] \ {k \in top : series[f][k] > 1}]
              /\ raised' = raised \union {<<"collector", f>>}
      BY <1>3, <2>2 DEF Collect
    <3>2. top \subseteq SeriesKeys
      BY <3>1 DEF kSubset
    <3> QED
      BY <2>1, <3>1, <3>2, KeptStays
  <2>3. CASE ~ (f \in limited /\ Cardinality(DOMAIN series[f]) > limits.collector)
    <3>1. collected' = [collected EXCEPT ![f] = DOMAIN series[f]] /\ UNCHANGED <<deleting, raised>>
      BY <1>3, <2>3 DEF Collect
    <3> QED
      BY <2>1, <3>1, KeptStays
  <2> QED
    BY <2>2, <2>3
<1> QED
  BY <1>1, <1>2, <1>3

\* WithLabelValues finds a series or makes one, at zero.
LEMMA LookupKept ==
    ASSUME KeptInv, NEW r \in Requests, NEW f \in limits.busy, NEW k \in SeriesKeys, Lookup(r, f, k)
    PROVE  KeptInv'
<1> DEFINE reach == requests'[r].step
           counts == requests'[r].counts
<1>1. f \in FamilySet
  BY DEF KeptInv, LimitsType, Limits
<1>2. /\ requests' = [requests EXCEPT ![r] = [step |-> reach, f |-> f, key |-> k, counts |-> counts]]
      /\ counts = (setUps > 0 \/ IsRegistered(f))
      /\ reach \in {"panicked", "holds", "orphan"}
      /\ reach = "holds" => IsRegistered(f)
      /\ reach = "orphan" => ~ IsRegistered(f)
      /\ series' = IF reach = "holds" THEN [series EXCEPT ![f] = WithSeries(@, k)] ELSE series
      /\ UNCHANGED <<limits, setUps, added, deleting, collected, raised>>
  BY DEF Lookup, KeptInv, LimitsType
<1>3. reach = "panicked" => limits.extra > 0 /\ ~ counts
  <2> DEFINE own == Len(labelsOption(f))
  <2>1. own \in Nat /\ limits.extra \in Nat
    BY DEF labelsOption, KeptInv, LimitsType, Limits
  <2>2. limits.extra = 0 => reach # "panicked"
    <3> SUFFICES ASSUME limits.extra = 0
                 PROVE  NumLabels(f) = IF f \in clientReset \union serverReset THEN own + limits.extra
                                       ELSE Len(defaultStreamLabels)
      BY DEF Lookup, KeptInv, LimitsType
    <3> QED
      BY <2>1 DEF NumLabels
  <2>3. ASSUME reach = "panicked" PROVE ~ counts
    <3>1. NumLabels(f) # IF f \in clientReset \union serverReset THEN own + limits.extra
                         ELSE Len(defaultStreamLabels)
      BY <2>3 DEF Lookup, KeptInv, LimitsType
    <3>2. f \in clientReset \union serverReset /\ setUps = 0
      BY <2>1, <3>1 DEF NumLabels
    <3>3. ~ IsRegistered(f)
      BY <3>2 DEF IsRegistered, registeredByInit, clientReset, serverReset, serverStream, Side
    <3>4. ~ (setUps > 0 \/ IsRegistered(f))
      BY <3>2, <3>3
    <3>5. counts = (setUps > 0 \/ IsRegistered(f))
      BY <1>2
    <3> HIDE DEF counts
    <3> QED
      BY <3>4, <3>5, Zenon
  <2> QED
    BY <2>1, <2>2, <2>3
<1>4. \A g \in FamilySet : (Wiped(g)' <=> Wiped(g)) /\ (Moved(g)' <=> Moved(g))
  BY <1>2 DEF Wiped, Moved
<1>5. \A g \in FamilySet : DOMAIN series[g] \subseteq DOMAIN series'[g]
  <2>1. \A g \in FamilySet : series'[g] = series[g] \/ (g = f /\ series'[g] = WithSeries(series[g], k))
    BY <1>2 DEF KeptInv, LimitsType
  <2> QED
    BY <2>1 DEF WithSeries
<1>6. \A g \in FamilySet, j \in SeriesKeys : Value(g, j)' = Value(g, j)
  BY <1>1, <1>2 DEF KeptInv, LimitsType, Value, WithSeries
<1>7. LimitsType'
  <2>1. requests' \in [Requests -> [step : Steps, f : FamilySet, key : SeriesKeys \cup {0}, counts : BOOLEAN]]
    <3>1. reach \in Steps /\ counts \in BOOLEAN
      BY <1>2 DEF Steps
    <3>2. /\ requests' = [requests EXCEPT ![r] = [step |-> reach, f |-> f, key |-> k, counts |-> counts]]
          /\ requests \in [Requests -> [step : Steps, f : FamilySet, key : SeriesKeys \cup {0}, counts : BOOLEAN]]
      BY <1>2 DEF KeptInv, LimitsType
    <3> HIDE DEF reach, counts
    <3> QED
      BY <1>1, <3>1, <3>2
  <2>2. /\ DOMAIN series' = FamilySet
        /\ \A g \in FamilySet : /\ DOMAIN series'[g] \subseteq SeriesKeys
                                /\ series'[g] \in [DOMAIN series'[g] -> Nat]
    BY <1>1, <1>2 DEF KeptInv, LimitsType, WithSeries
  <2> QED
    BY <1>2, <2>1, <2>2 DEF KeptInv, LimitsType
<1>8. ASSUME NEW q \in Requests PROVE RequestInv(q)'
  <2>1. CASE q # r
    <3>1. requests'[q] = requests[q] /\ requests[q].f \in FamilySet /\ RequestInv(q)
      BY <1>2, <2>1 DEF KeptInv, LimitsType
    <3> QED
      BY <1>4, <1>5, <3>1 DEF RequestInv
  <2>2. CASE q = r
    <3>1. requests'[r].f = f /\ requests'[r].key = k
      BY <1>2 DEF KeptInv, LimitsType
    <3>2. reach = "holds" => k \in DOMAIN series'[f] /\ counts
      BY <1>1, <1>2 DEF KeptInv, LimitsType, WithSeries
    <3>3. reach = "orphan" /\ counts => Moved(f)
      BY <1>1, <1>2, Unregistered DEF KeptInv, LimitsType
    <3> QED
      BY <1>1, <1>4, <2>2, <3>1, <3>2, <3>3 DEF RequestInv
  <2> QED
    BY <2>1, <2>2
<1>9. AdditionsKept'
  BY <1>2, <1>4, <1>6 DEF KeptInv, AdditionsKept
<1>10. LabelsAgree'
  BY <1>2, <1>3 DEF KeptInv, LabelsAgree, LimitsType
<1> QED
  BY <1>2, <1>7, <1>8, <1>9, <1>10 DEF KeptInv

\* What is added is in the series that is scraped, or in one a deletion took.
LEMMA AddToKept == ASSUME KeptInv, NEW r \in Requests, AddTo(r) PROVE KeptInv'
<1> DEFINE f == requests[r].f
           k == requests[r].key
           holds == requests[r].step = "holds"
<1>1. /\ f \in FamilySet /\ k \in SeriesKeys
      /\ holds => k \in DOMAIN series[f] /\ requests[r].counts
      /\ ~ holds /\ requests[r].counts => Wiped(f) \/ Moved(f)
  BY DEF AddTo, KeptInv, LimitsType, RequestInv
<1>2. /\ series' = IF holds THEN [series EXCEPT ![f][k] = @ + 1] ELSE series
      /\ added' = IF requests[r].counts THEN [added EXCEPT ![f][k] = @ + 1] ELSE added
      /\ requests' = [requests EXCEPT ![r].step = "idle"]
      /\ UNCHANGED <<limits, setUps, deleting, collected, raised>>
  BY DEF AddTo
<1> HIDE DEF f, k, holds
<1>3. \A g \in FamilySet : (Wiped(g)' <=> Wiped(g)) /\ (Moved(g)' <=> Moved(g))
  BY <1>2 DEF Wiped, Moved
<1>4. /\ \A g \in FamilySet : DOMAIN series'[g] = DOMAIN series[g]
      /\ DOMAIN series' = FamilySet
  BY <1>1, <1>2 DEF KeptInv, LimitsType
<1>5. ASSUME NEW g \in FamilySet, NEW j \in SeriesKeys
      PROVE  /\ Value(g, j)' \in Nat /\ added'[g][j] \in Nat
             /\ Value(g, j)' = IF holds /\ g = f /\ j = k THEN Value(g, j) + 1 ELSE Value(g, j)
             /\ added'[g][j] = IF requests[r].counts /\ g = f /\ j = k THEN added[g][j] + 1 ELSE added[g][j]
  BY <1>1, <1>2, <1>4 DEF KeptInv, LimitsType, Value
<1>6. LimitsType'
  <2>1. requests' \in [Requests -> [step : Steps, f : FamilySet, key : SeriesKeys \cup {0}, counts : BOOLEAN]]
    BY <1>2 DEF KeptInv, LimitsType, Steps
  <2>2. ASSUME NEW g \in FamilySet PROVE series'[g] \in [DOMAIN series'[g] -> Nat]
    BY <1>1, <1>2 DEF KeptInv, LimitsType
  <2>3. added' \in [FamilySet -> [SeriesKeys -> Nat]]
    BY <1>1, <1>2 DEF KeptInv, LimitsType
  <2> QED
    BY <1>2, <1>4, <2>1, <2>2, <2>3 DEF KeptInv, LimitsType
<1>7. ASSUME NEW q \in Requests PROVE RequestInv(q)'
  <2>1. CASE q # r
    <3>1. requests'[q] = requests[q] /\ requests[q].f \in FamilySet /\ RequestInv(q)
      BY <1>2, <2>1 DEF KeptInv, LimitsType
    <3> QED
      BY <1>3, <1>4, <3>1 DEF RequestInv
  <2>2. CASE q = r
    BY <1>2, <2>2 DEF RequestInv, KeptInv, LimitsType
  <2> QED
    BY <2>1, <2>2
<1>8. AdditionsKept'
  <2> SUFFICES ASSUME NEW g \in FamilySet, NEW j \in SeriesKeys
               PROVE  /\ Value(g, j)' <= added'[g][j]
                      /\ ~ Wiped(g)' /\ ~ Moved(g)' => Value(g, j)' = added'[g][j]
    BY DEF AdditionsKept
  <2>1. /\ Value(g, j) \in Nat /\ added[g][j] \in Nat /\ Value(g, j) <= added[g][j]
        /\ ~ Wiped(g) /\ ~ Moved(g) => Value(g, j) = added[g][j]
    BY DEF KeptInv, LimitsType, AdditionsKept, Value
  <2> QED
    BY <1>1, <1>3, <1>5, <2>1
<1>9. LabelsAgree'
  BY <1>2 DEF KeptInv, LabelsAgree, LimitsType
<1> QED
  BY <1>2, <1>6, <1>7, <1>8, <1>9 DEF KeptInv

\* What is removed is of families that are wiped, from then on at least.
LEMMA RemoveKept ==
    ASSUME KeptInv, NEW doomed \in [FamilySet -> SUBSET SeriesKeys], RemoveSeries(doomed),
           UNCHANGED <<limits, setUps, added, collected>>, raised \subseteq raised',
           deleting' \in [FamilySet -> SUBSET SeriesKeys],
           \A f \in FamilySet : deleting'[f] # {} => <<"collector", f>> \in raised',
           \A f \in FamilySet : doomed[f] # {} => Wiped(f)'
    PROVE  KeptInv'
<1>1. \A f \in FamilySet : /\ Wiped(f) => Wiped(f)'
                           /\ Moved(f)' <=> Moved(f)
  BY DEF Wiped, Moved
<1>2. /\ DOMAIN series' = FamilySet
      /\ \A f \in FamilySet : /\ DOMAIN series'[f] = DOMAIN series[f] \ doomed[f]
                              /\ \A k \in DOMAIN series'[f] : series'[f][k] = series[f][k]
                              /\ series'[f] = [k \in DOMAIN series'[f] |-> series'[f][k]]
  BY DEF RemoveSeries, Restrict
<1>3. ASSUME NEW r \in Requests
      PROVE  /\ requests'[r].f = requests[r].f /\ requests'[r].key = requests[r].key
             /\ requests'[r].counts = requests[r].counts
             /\ requests'[r].step = IF requests[r].step = "holds" /\ requests[r].key \in doomed[requests[r].f]
                                    THEN "orphan" ELSE requests[r].step
             /\ requests'[r] \in [step : Steps, f : FamilySet, key : SeriesKeys \cup {0}, counts : BOOLEAN]
  BY DEF RemoveSeries, KeptInv, LimitsType, Steps
<1>4. LimitsType'
  <2>1. requests' \in [Requests -> [step : Steps, f : FamilySet, key : SeriesKeys \cup {0}, counts : BOOLEAN]]
    BY <1>3 DEF RemoveSeries
  <2>2. ASSUME NEW f \in FamilySet PROVE DOMAIN series'[f] \subseteq SeriesKeys /\ series'[f] \in [DOMAIN series'[f] -> Nat]
    BY <1>2 DEF KeptInv, LimitsType
  <2> QED
    BY <1>2, <2>1, <2>2 DEF KeptInv, LimitsType
<1>5. ASSUME NEW r \in Requests PROVE RequestInv(r)'
  <2>1. RequestInv(r) /\ requests[r].f \in FamilySet
    BY DEF KeptInv, LimitsType
  <2>2. CASE requests[r].step = "holds" /\ requests[r].key \in doomed[requests[r].f]
    BY <1>3, <2>1, <2>2 DEF RequestInv
  <2>3. CASE ~ (requests[r].step = "holds" /\ requests[r].key \in doomed[requests[r].f])
    BY <1>1, <1>2, <1>3, <2>1, <2>3 DEF RequestInv
  <2> QED
    BY <2>2, <2>3
<1>6. AdditionsKept'
  <2> SUFFICES ASSUME NEW f \in FamilySet, NEW k \in SeriesKeys
               PROVE  /\ Value(f, k)' <= added[f][k]
                      /\ ~ Wiped(f)' /\ ~ Moved(f)' => Value(f, k)' = added[f][k]
    BY DEF AdditionsKept
  <2>1. /\ added[f][k] \in Nat /\ Value(f, k) <= added[f][k]
        /\ ~ Wiped(f) /\ ~ Moved(f) => Value(f, k) = added[f][k]
    BY DEF KeptInv, LimitsType, AdditionsKept
  <2>2. Value(f, k)' = IF k \in doomed[f] THEN 0 ELSE Value(f, k)
    BY <1>2 DEF Value
  <2> QED
    BY <1>1, <2>1, <2>2
<1>7. LabelsAgree'
  BY <1>3 DEF KeptInv, LabelsAgree
<1> QED
  BY <1>4, <1>5, <1>6, <1>7 DEF KeptInv

\* A collector that deletes series has raised its alert before.
LEMMA DeleteKept == ASSUME KeptInv, NEW f \in FamilySet, DeleteSeries(f) PROVE KeptInv'
<1> DEFINE doomed == [g \in FamilySet |-> IF g = f THEN deleting[f] ELSE {}]
<1>1. /\ RemoveSeries(doomed) /\ deleting' = [deleting EXCEPT ![f] = {}]
      /\ UNCHANGED <<limits, setUps, added, collected, raised>>
  BY DEF DeleteSeries
<1>2. doomed \in [FamilySet -> SUBSET SeriesKeys]
  BY DEF KeptInv, LimitsType
<1>3. \A g \in FamilySet : doomed[g] # {} => Wiped(g)'
  BY <1>1 DEF KeptInv, Wiped, DeleteSeries
<1>4. /\ deleting' \in [FamilySet -> SUBSET SeriesKeys]
      /\ \A g \in FamilySet : deleting'[g] # {} => <<"collector", g>> \in raised'
  BY <1>1 DEF KeptInv, LimitsType
<1> HIDE DEF doomed
<1> QED
  BY <1>1, <1>2, <1>3, <1>4, RemoveKept

\* Vectors are reset only of a side one of whose families was found too large.
LEMMA GatherKept == ASSUME KeptInv, Gather PROVE KeptInv'
<1> DEFINE visited == {Families[i] : i \in {j \in DOMAIN Families : j <= Cut}}
           tooMany == {f \in visited : TooMany(f)}
           reset == {f \in clientReset \union serverReset : IsRegistered(f) /\ \E g \in tooMany : Side(g) = Side(f)}
           doomed == [f \in FamilySet |-> IF f \in reset THEN DOMAIN series[f] ELSE {}]
<1>1. /\ RemoveSeries(doomed) /\ raised' = raised \union {<<"family", f>> : f \in tooMany}
      /\ UNCHANGED <<limits, setUps, added, collected, deleting>>
  BY DEF Gather
<1>2. doomed \in [FamilySet -> SUBSET SeriesKeys]
  BY DEF KeptInv, LimitsType
<1>3. tooMany \subseteq FamilySet
  BY DEF FamilySet, ToSet
<1>4. ASSUME NEW g \in FamilySet, doomed[g] # {} PROVE Wiped(g)'
  <2>1. g \in reset
    BY <1>4
  <2>2. g \in clientReset \union serverReset /\ \E f \in tooMany : Side(f) = Side(g)
    BY <2>1
  <2> HIDE DEF tooMany, visited, reset, doomed
  <2> QED
    BY <1>1, <1>3, <2>2 DEF Wiped
<1>5. /\ deleting' \in [FamilySet -> SUBSET SeriesKeys] /\ raised \subseteq raised'
      /\ \A f \in FamilySet : deleting'[f] # {} => <<"collector", f>> \in raised'
  BY <1>1 DEF KeptInv, LimitsType
<1> HIDE DEF doomed, reset, tooMany, visited
<1> QED
  BY <1>1, <1>2, <1>4, <1>5, RemoveKept

\* No step loses an addition without a reason.
LEMMA KeptNext == ASSUME KeptInv, [LimitsNext]_limitVars PROVE KeptInv'
<1>1. CASE UNCHANGED limitVars
  BY <1>1, KeptStays DEF limitVars, KeptInv, LimitsType
<1>2. CASE LimitsNext
  BY <1>2, SetupKept, ScrapeKept, LookupKept, AddToKept, DeleteKept, GatherKept DEF LimitsNext
<1> QED
  BY <1>1, <1>2

-----------------------------------------------------------------------------
(* Answers.                                                                *)

\* A finite set of numbers has a bound.
LEMMA FiniteBound ==
    ASSUME NEW D \in SUBSET Nat, IsFiniteSet(D)
    PROVE  \E b \in Nat : \A x \in D : x <= b
<1> DEFINE T == {s \in SUBSET D : \E b \in Nat : \A x \in s : x <= b}
<1>1. {} \in T
  OBVIOUS
<1>2. ASSUME NEW s \in SUBSET D, s # {}, \A x \in s : s \ {x} \in T PROVE s \in T
  <2>1. PICK x \in s : TRUE
    BY <1>2
  <2>2. PICK b \in Nat : \A y \in s \ {x} : y <= b
    BY <1>2
  <2>3. x \in Nat /\ x + b \in Nat /\ \A y \in s : y \in Nat /\ y <= x + b
    BY <2>2
  <2> QED
    BY <2>3
<1> HIDE DEF T
<1>3. T = SUBSET D
  <2>1. T \in SUBSET SUBSET D
    BY DEF T
  <2> QED
    BY <1>1, <1>2, <2>1, SubsetInduction
<1> QED
  BY <1>3 DEF T

\* Of a finite set of numbers the first n are at most n.
LEMMA TruncateSize ==
    ASSUME NEW keys \in SUBSET Nat, IsFiniteSet(keys), NEW n \in Nat
    PROVE  Cardinality(Truncate(keys, n)) <= n
<1> DEFINE kept == Truncate(keys, n)
<1>1. kept \subseteq keys
  BY DEF Truncate
<1>2. CASE kept = {}
  BY <1>2, FS_EmptySet
<1>3. CASE kept # {}
  <2>1. PICK b \in Nat : \A k \in keys : k <= b
    BY FiniteBound
  <2>2. Max(kept) \in kept /\ \A k \in kept : k <= Max(kept)
    BY <1>1, <1>3, <2>1, GreatestElement
  <2> DEFINE upTo == {j \in keys : j <= Max(kept)}
  <2>3. Cardinality(upTo) <= n
    BY <2>2 DEF Truncate
  <2>4. kept \subseteq upTo
    BY <1>1, <2>2
  <2>5. IsFiniteSet(upTo) /\ IsFiniteSet(kept)
    BY <1>1, FS_Subset
  <2>6. Cardinality(kept) <= Cardinality(upTo) /\ Cardinality(kept) \in Nat /\ Cardinality(upTo) \in Nat
    BY <2>4, <2>5, FS_Subset, FS_CardinalityType
  <2> DEFINE c == Cardinality(kept)
             d == Cardinality(upTo)
  <2>7. c <= d /\ d <= n /\ c \in Nat /\ d \in Nat
    BY <2>3, <2>6
  <2> HIDE DEF c, d
  <2>8. c <= n
    BY <2>7
  <2> QED
    BY <2>8 DEF c
<1> QED
  BY <1>2, <1>3

\* There are finitely many families.
LEMMA FamiliesFinite == IsFiniteSet(FamilySet)
<1>1. IsFiniteSet(1 .. Len(Families)) /\ Len(Families) \in Nat
  BY FamiliesAssumption, FS_Interval
<1>2. Families \in Surjection(1 .. Len(Families), FamilySet)
  BY FamiliesAssumption DEF FamilySet, ToSet, Surjection
<1> QED
  BY <1>1, <1>2, FS_Surjection

\* Cut is the first place of which the total is too large.
LEMMA CutValue ==
    ASSUME limits \in Limits, limits.total > 0
    PROVE  /\ Cut \in 1 .. Len(Families) + 1
           /\ \A i \in 1 .. Cut - 1 : ~ (TotalUpTo(i) > limits.total)
<1> DEFINE over == {i \in DOMAIN Families : TotalUpTo(i) > limits.total} \union {Len(Families) + 1}
<1>1. over \in SUBSET Nat /\ over # {} /\ over \subseteq 1 .. Len(Families) + 1
  BY FamiliesAssumption
<1>2. Cut = Min(over)
  BY DEF Cut, Limits
<1> HIDE DEF over
<1>3. Cut \in over /\ \A i \in over : Cut <= i
  BY <1>1, <1>2, LeastElement DEF Min
<1>4. ASSUME NEW i \in 1 .. Cut - 1, TotalUpTo(i) > limits.total PROVE FALSE
  <2>1. i \in DOMAIN Families
    BY <1>1, <1>3, FamiliesAssumption
  <2>2. i \in over
    BY <1>4, <2>1 DEF over
  <2> QED
    BY <1>1, <1>3, <2>2
<1> QED
  BY <1>1, <1>3, <1>4

\* The answer is bounded, and there is none before the end of a scrape.
AnswerInv ==
    /\ AnswerBounded
    /\ scrape # "done" => scraped = [f \in FamilySet |-> {}]

\* An answer without series has size zero.
LEMMA EmptySum ==
    ASSUME NEW answer, answer = [f \in FamilySet |-> {}]
    PROVE  SumFunctionOnSet(Sizes(answer), FamilySet) = 0
<1> DEFINE w == Sizes(answer)
<1>1. \A f \in FamilySet : w[f] = 0 /\ w[f] \in Int
  BY FS_EmptySet DEF Sizes
<1> HIDE DEF w
<1>2. {} \in SUBSET FamilySet /\ FamilySet \ {} = FamilySet
  OBVIOUS
<1>3. SumFunctionOnSet(w, FamilySet) = SumFunctionOnSet(w, {})
  BY <1>1, <1>2, FamiliesFinite, SumPart
<1> QED
  BY <1>3, SumEmpty DEF w

\* There is no answer at first.
LEMMA AnswerInit == ASSUME NEW sets \in SUBSET Limits, InitLimits(sets) PROVE AnswerInv
<1>1. scraped = [f \in FamilySet |-> {}] /\ scrape = "idle"
  BY DEF InitLimits
<1> QED
  BY <1>1, EmptySum, FS_EmptySet DEF AnswerInv, AnswerBounded, InitLimits, Limits

\* A step that is not the last of a scrape leaves no answer.
LEMMA NoAnswer ==
    ASSUME limits' \in Limits, scraped' = [f \in FamilySet |-> {}], scrape' # "done"
    PROVE  AnswerInv'
<1>1. SumFunctionOnSet(Sizes(scraped)', FamilySet) = 0
  <2>1. Sizes(scraped)' = Sizes(scraped')
    BY DEF Sizes
  <2> QED
    BY <2>1, EmptySum
<1>2. \A f \in FamilySet : Cardinality(scraped'[f]) = 0
  BY FS_EmptySet
<1> QED
  BY <1>1, <1>2 DEF AnswerInv, AnswerBounded, Limits

\* What is kept of a family has no more series than the family had.
LEMMA KeptSize ==
    ASSUME LimitsType, NEW f \in FamilySet
    PROVE  /\ IsFiniteSet(Kept(f)) /\ Cardinality(Kept(f)) \in Nat
           /\ limits.metric > 0 => Cardinality(Kept(f)) <= limits.metric
<1>1. /\ collected[f] \in SUBSET Nat /\ IsFiniteSet(collected[f]) /\ limits.metric \in Nat
  BY SeriesAssumption, FS_Subset DEF LimitsType, Limits
<1>2. Kept(f) \subseteq collected[f]
  BY DEF Kept, Truncate
<1>3. IsFiniteSet(Kept(f)) /\ Cardinality(Kept(f)) \in Nat /\ Cardinality(collected[f]) \in Nat
  BY <1>1, <1>2, FS_Subset, FS_CardinalityType
<1>4. CASE TooMany(f)
  BY <1>1, <1>3, <1>4, TruncateSize DEF Kept
<1>5. CASE ~ TooMany(f)
  BY <1>1, <1>3, <1>5 DEF Kept, TooMany
<1> QED
  BY <1>3, <1>4, <1>5

\* The answer of a scrape is within the limits.
LEMMA GatherAnswers == ASSUME KeptInv, Gather PROVE AnswerInv'
<1> DEFINE answered == {Families[j] : j \in 1 .. Cut - 1}
           visited == {Families[i] : i \in {j \in DOMAIN Families : j <= Cut}}
<1>1. limits \in Limits /\ Cut \in 1 .. Len(Families) + 1 /\ Len(Families) \in Nat
  <2>1. limits \in Limits /\ limits.total \in Nat
    BY DEF KeptInv, LimitsType, Limits
  <2>2. CASE limits.total = 0
    BY <2>1, <2>2, FamiliesAssumption DEF Cut
  <2>3. CASE limits.total > 0
    BY <2>1, <2>3, CutValue, FamiliesAssumption
  <2> QED
    BY <2>1, <2>2, <2>3
<1>2. /\ scraped' = [f \in FamilySet |->
             IF \E i \in DOMAIN Families : Families[i] = f /\ Answer(i) THEN Kept(f) ELSE {}]
      /\ scrape' = "done" /\ UNCHANGED <<limits, collected>>
  BY DEF Gather
<1>3. answered \in SUBSET FamilySet
  BY <1>1, FamiliesAssumption DEF FamilySet, ToSet
<1>4. \A f \in FamilySet : scraped'[f] = IF f \in answered THEN Kept(f) ELSE {}
  BY <1>1, <1>2, FamiliesAssumption DEF Answer
<1>5. \A f \in FamilySet : Cardinality(scraped'[f]) = IF f \in answered THEN Cardinality(Kept(f)) ELSE 0
  BY <1>4, FS_EmptySet
<1>6. ASSUME limits'.metric > 0, NEW f \in FamilySet PROVE Cardinality(scraped'[f]) <= limits'.metric
  <2>1. limits' = limits /\ limits.metric \in Nat
    BY <1>1, <1>2 DEF Limits
  <2> QED
    BY <1>5, <1>6, <2>1, KeptSize DEF KeptInv
<1>7. ASSUME limits'.total > 0 PROVE SumFunctionOnSet(Sizes(scraped)', FamilySet) <= limits'.total
  <2> DEFINE w == Sizes(scraped)'
             v == Sizes([f \in FamilySet |-> Kept(f)])
  <2>1. limits' = limits /\ limits.total \in Nat /\ limits.total > 0
    BY <1>1, <1>2, <1>7 DEF Limits
  <2>2. \A f \in FamilySet : /\ v[f] = Cardinality(Kept(f)) /\ v[f] \in Int
                             /\ w[f] = IF f \in answered THEN v[f] ELSE 0
                             /\ w[f] \in Int
    BY <1>5, KeptSize DEF Sizes, KeptInv
  <2>3. TotalUpTo(Cut - 1) = SumFunctionOnSet(v, answered)
    BY DEF TotalUpTo
  <2> HIDE DEF w, v, answered
  <2>4. SumFunctionOnSet(w, FamilySet) = SumFunctionOnSet(w, answered)
    BY <1>3, <2>2, FamiliesFinite, SumPart
  <2>5. IsFiniteSet(answered)
    BY <1>3, FamiliesFinite, FS_Subset
  <2>6. SumFunctionOnSet(w, answered) = SumFunctionOnSet(v, answered)
    BY <1>3, <2>2, <2>5, SumSame
  <2>7. SumFunctionOnSet(v, answered) \in Int
    BY <1>3, <2>2, <2>5, SumRemove
  <2>8. SumFunctionOnSet(v, answered) <= limits.total
    <3>1. CASE Cut = 1
      <4>1. answered = {}
        BY <3>1 DEF answered
      <4> QED
        BY <2>1, <4>1, SumEmpty
    <3>2. CASE Cut # 1
      <4>1. Cut - 1 \in 1 .. Cut - 1
        BY <1>1, <3>2
      <4>2. ~ (SumFunctionOnSet(v, answered) > limits.total)
        BY <1>1, <2>1, <2>3, <4>1, CutValue
      <4> QED
        BY <2>1, <2>7, <4>2
    <3> QED
      BY <3>1, <3>2
  <2> QED
    BY <2>1, <2>4, <2>6, <2>8 DEF w
<1>8. ASSUME scraped' # collected' PROVE \E a \in alerts' : a[1] # "collector"
  <2>1. PICK f \in FamilySet : scraped'[f] # collected[f]
    BY <1>2, <1>8 DEF KeptInv, LimitsType
  <2>2. PICK i \in DOMAIN Families : Families[i] = f
    BY DEF FamilySet, ToSet
  <2>3. CASE f \in answered
    <3>1. TooMany(f)
      BY <1>4, <2>1, <2>3 DEF Kept
    <3>2. f \in visited
      BY <1>1, <2>3, FamiliesAssumption
    <3>3. <<"family", f>> \in alerts'
      BY <3>1, <3>2 DEF Gather
    <3>4. <<"family", f>>[1] # "collector"
      OBVIOUS
    <3> QED
      BY <3>3, <3>4
  <2>4. CASE f \notin answered
    <3>1. ~ (i \in 1 .. Cut - 1)
      BY <2>2, <2>4
    <3>2. Cut <= Len(Families)
      BY <1>1, <3>1, FamiliesAssumption
    <3>3. <<"total">> \in alerts'
      BY <3>2 DEF Gather
    <3>4. <<"total">>[1] # "collector"
      OBVIOUS
    <3> QED
      BY <3>3, <3>4
  <2> QED
    BY <2>3, <2>4
<1> QED
  BY <1>2, <1>6, <1>7, <1>8 DEF AnswerInv, AnswerBounded

\* Answers stay within them.
LEMMA AnswerNext == ASSUME KeptInv, AnswerInv, [LimitsNext]_limitVars PROVE AnswerInv'
<1>1. CASE Gather
  BY <1>1, GatherAnswers
<1>2. CASE BeginScrape
  <2>1. limits' \in Limits /\ scraped' = [f \in FamilySet |-> {}] /\ scrape' # "done"
    BY <1>2 DEF BeginScrape, KeptInv, LimitsType
  <2> QED
    BY <2>1, NoAnswer
<1>3. ASSUME UNCHANGED <<limits, scrape, scraped, collected, alerts>> PROVE AnswerInv'
  BY <1>3 DEF AnswerInv, AnswerBounded, Sizes
<1>4. CASE GatherFails
  <2>1. limits' \in Limits /\ scraped' = [f \in FamilySet |-> {}] /\ scrape' # "done"
    BY <1>4 DEF GatherFails, Collected, AnswerInv, KeptInv, LimitsType
  <2> QED
    BY <2>1, NoAnswer
<1>5. ASSUME NEW f \in FamilySet, Collect(f) \/ DeleteSeries(f) PROVE AnswerInv'
  <2>1. limits' \in Limits /\ scraped' = [g \in FamilySet |-> {}] /\ scrape' # "done"
    BY <1>5 DEF Collect, DeleteSeries, AnswerInv, KeptInv, LimitsType
  <2> QED
    BY <2>1, NoAnswer
<1>6. CASE SetupMetrics
  BY <1>3, <1>6 DEF SetupMetrics
<1>7. ASSUME NEW r \in Requests, AddTo(r) \/ \E f \in limits.busy, k \in SeriesKeys : Lookup(r, f, k)
      PROVE  AnswerInv'
  BY <1>3, <1>7 DEF AddTo, Lookup
<1>8. CASE UNCHANGED limitVars
  BY <1>3, <1>8 DEF limitVars
<1> QED
  BY <1>1, <1>2, <1>4, <1>5, <1>6, <1>7, <1>8 DEF LimitsNext

-----------------------------------------------------------------------------
(* The sink.                                                               *)

VecKinds == {"counter", "gauge", "histogram"}
PlainKeys == {<<"counter", <<>> >>, <<"gauge", <<>> >>}
Vec == [ kind : VecKinds, rec : Seq(STRING), name : Seq(STRING),
         labels : Seq(Text) \cup {<< <<"_name">> >>, << <<"_name">>, <<"_type">> >>}, by : Reporters \cup {0} ]

SinkType ==
    /\ record \in [Reporters -> Record]
    /\ reportAt \in [Reporters -> [ step : {"load", "store", "register", "add", "done", "panicked"},
                                    i : Nat \ {0}, vec : Vec ]]
    /\ \A r \in Reporters : /\ reportAt[r].i \in 1 .. Len(record[r].metrics) + 1
                            /\ reportAt[r].step # "done" => reportAt[r].i \in DOMAIN record[r].metrics
    /\ total \in [DOMAIN total -> Int]

\* What is stored under a key: a plain vector from the start on, or what a report made.
VecInv(key) ==
    IF key \in PlainKeys THEN vecs[key] = PlainVec(key[1])
    ELSE \E q \in Reports : vecs[key] = VecOf(q) /\ key = KeyOf(q[1], q[2])

\* What a reporter holds: the vector it made, or the one that is stored.
Stage(r) ==
    LET i == reportAt[r].i
        vec == reportAt[r].vec
    IN /\ reportAt[r].step = "store" => vec = NewVec(r, i)
       /\ reportAt[r].step \in {"register", "add"} => KeyOf(r, i) \in DOMAIN vecs /\ vec = vecs[KeyOf(r, i)]
       /\ reportAt[r].step = "register" => vec.kind = "histogram"

\* Vectors stay where they are stored, and reports hold the one that is stored.
StoreInv ==
    /\ SinkType
    /\ PlainKeys \subseteq DOMAIN vecs
    /\ \A key \in DOMAIN vecs : VecInv(key)
    /\ \A r \in Reporters : Stage(r)

\* The series that are summed are those that were reported to, each to what it should.
CountInv ==
    /\ IsFiniteSet(Past)
    /\ \A p \in Past : KeyOf(p[1], p[2]) \in DOMAIN vecs
    /\ DOMAIN total = {<<vecs[KeyOf(p[1], p[2])], SeriesOf(p[1], p[2])>> : p \in Past}
    /\ ReportsCounted

\* The reasons to panic.
Blame(p) == BadValue(p) \/ OneOfTwo(p) \/ HashOfTwo(p)

\* What is computed from the records stays as long as they do.
LEMMA RecordStays ==
    ASSUME UNCHANGED record
    PROVE  /\ \A r, i : /\ KeyOf(r, i)' = KeyOf(r, i) /\ SeriesOf(r, i)' = SeriesOf(r, i)
                        /\ NewVec(r, i)' = NewVec(r, i) /\ Metric(r, i)' = Metric(r, i)
           /\ \A p : VecOf(p)' = VecOf(p) /\ OneOfTwo(p)' = OneOfTwo(p) /\ Blame(p)' = Blame(p)
           /\ Reports' = Reports
<1>1. \A r, i : Metric(r, i)' = Metric(r, i)
  BY DEF Metric
<1>2. \A r : Labels(r)' = Labels(r) /\ Values(r)' = Values(r)
  BY DEF Labels, Values
<1>3. \A r, i : /\ KeyOf(r, i)' = KeyOf(r, i) /\ SeriesOf(r, i)' = SeriesOf(r, i)
                /\ NewVec(r, i)' = NewVec(r, i)
  BY <1>1, <1>2 DEF KeyOf, SeriesOf, NewVec
<1>4. \A p : VecOf(p)' = VecOf(p)
  BY <1>3 DEF VecOf
<1>5. Reports' = Reports
  BY DEF Reports
<1>6. \A p : Own(p)' = Own(p)
  BY <1>4 DEF Own
<1>7. \A p : OneOfTwo(p)' = OneOfTwo(p)
  BY <1>4, <1>5, <1>6 DEF OneOfTwo
<1>8. \A p : Malformed(p)' = Malformed(p)
  BY <1>4, <1>6 DEF Malformed
<1>9. \A p : HashOfTwo(p)' = HashOfTwo(p)
  BY <1>3, <1>4, <1>5, <1>8 DEF HashOfTwo
<1>10. \A p : BadValue(p)' = BadValue(p)
  BY <1>1, <1>2, <1>4 DEF BadValue
<1>11. \A p : Blame(p)' = Blame(p)
  BY <1>7, <1>9, <1>10 DEF Blame
<1> QED
  BY <1>1, <1>3, <1>4, <1>5, <1>7, <1>11

\* The fields of a record.
LEMMA RecordType ==
    ASSUME NEW rec \in Record
    PROVE  /\ rec.name \in Text /\ rec.dims \in Seq(Text \X Text)
           /\ rec.metrics \in Seq([name : Text, policy : STRING, value : Int])
  BY DEF Record

\* What is known of a report.
LEMMA ReportType ==
    ASSUME SinkType, NEW r \in Reporters, NEW i \in DOMAIN record[r].metrics
    PROVE  /\ NewVec(r, i) \in Vec /\ Metric(r, i).value \in Int /\ Metric(r, i).name \in Text
           /\ Kind(Metric(r, i).policy) \in VecKinds
           /\ <<r, i>> \in Reports /\ Labels(r) \in Seq(Text)
           /\ Len(Labels(r)) = Len(record[r].dims) /\ record[r].dims \in Seq(Text \X Text)
<1>1. Kind(Metric(r, i).policy) \in VecKinds
  BY DEF Kind, VecKinds
<1>2. record[r] \in Record /\ Metric(r, i) \in [name : Text, policy : STRING, value : Int]
  <2>1. record[r] \in Record
    BY DEF SinkType
  <2> QED
    <3> DEFINE All == [name : Text, policy : STRING, value : Int]
    <3>1. record[r].metrics \in Seq(All)
      BY <2>1, RecordType
    <3> HIDE DEF All
    <3>2. record[r].metrics[i] \in All
      BY <3>1
    <3> QED
      BY <2>1, <3>2 DEF Metric, All
<1>3. record[r].dims \in Seq(Text \X Text) /\ Labels(r) \in Seq(Text) /\ Len(Labels(r)) = Len(record[r].dims)
  <2>1. record[r].dims \in Seq(Text \X Text)
    BY <1>2, RecordType
  <2> QED
    BY <2>1 DEF Labels
<1>4. NewVec(r, i) \in Vec
  <2>1. Text \subseteq Seq(STRING)
    BY DEF Text
  <2>2. record[r].name \in Seq(STRING) /\ Metric(r, i).name \in Seq(STRING)
    BY <1>2, <2>1, RecordType
  <2> QED
    BY <1>1, <1>3, <2>2 DEF NewVec, Vec
<1>5. <<r, i>> \in Reports
  BY DEF Reports
<1> QED
  BY <1>1, <1>2, <1>3, <1>4, <1>5

\* A report is a reporter and the number of a metric of its record.
LEMMA ReportsItems == \A p \in Reports : p[1] \in Reporters /\ p[2] \in DOMAIN record[p[1]].metrics /\ p = <<p[1], p[2]>>
  BY DEF Reports

\* The reports that returned are those before the one a reporter is at.
LEMMA PastItems ==
    ASSUME SinkType
    PROVE  \A p : p \in Past <=> \E r \in Reporters : \E j \in 1 .. reportAt[r].i - 1 : p = <<r, j>>
  BY DEF Past

\* No report returns for as long as the reporters are at the same metrics.
LEMMA PastStays ==
    ASSUME SinkType, SinkType', \A q \in Reporters : reportAt'[q].i = reportAt[q].i
    PROVE  Past' = Past
<1> DEFINE Item(n, p) == \E q \in Reporters : \E j \in 1 .. n[q] - 1 : p = <<q, j>>
<1> PICK n : n = [q \in Reporters |-> reportAt[q].i]
  OBVIOUS
<1>1. \A q \in Reporters : n[q] = reportAt[q].i /\ n[q] = reportAt'[q].i
  OBVIOUS
<1>2. \A p : p \in Past <=> Item(n, p)
  BY <1>1 DEF Past
<1>3. \A p : p \in Past' <=> Item(n, p)
  BY <1>1 DEF Past
<1> HIDE DEF Item
<1> QED
  BY <1>2, <1>3

\* A vector is stored under one key.
LEMMA KeyDetermined ==
    ASSUME StoreInv, NEW k \in DOMAIN vecs, NEW l \in DOMAIN vecs, vecs[k] = vecs[l]
    PROVE  k = l
<1>1. VecInv(k) /\ VecInv(l)
  BY DEF StoreInv
<1>2. CASE k \in PlainKeys /\ l \in PlainKeys
  BY <1>1, <1>2 DEF VecInv, PlainKeys, PlainVec
<1>3. ASSUME NEW q \in Reports PROVE VecOf(q).by # 0
  BY ReportersAssumption, ReportsItems DEF VecOf, NewVec
<1>4. CASE k \notin PlainKeys /\ l \notin PlainKeys
  <2>1. PICK p \in Reports : vecs[k] = VecOf(p) /\ k = KeyOf(p[1], p[2])
    BY <1>1, <1>4 DEF VecInv
  <2>2. PICK q \in Reports : vecs[l] = VecOf(q) /\ l = KeyOf(q[1], q[2])
    BY <1>1, <1>4 DEF VecInv
  <2>3. /\ p[1] = q[1] /\ Metric(p[1], p[2]).name = Metric(q[1], q[2]).name
        /\ Kind(Metric(p[1], p[2]).policy) = Kind(Metric(q[1], q[2]).policy)
    <3>1. VecOf(p) = VecOf(q)
      BY <2>1, <2>2
    <3> QED
      BY <3>1 DEF VecOf, NewVec
  <2> QED
    BY <2>1, <2>2, <2>3 DEF KeyOf
<1>5. \A key \in PlainKeys : PlainVec(key[1]).by = 0
  BY DEF PlainVec
<1>6. CASE k \in PlainKeys /\ l \notin PlainKeys
  BY <1>1, <1>3, <1>5, <1>6 DEF VecInv
<1>7. CASE k \notin PlainKeys /\ l \in PlainKeys
  BY <1>1, <1>3, <1>5, <1>7 DEF VecInv
<1> QED
  BY <1>2, <1>4, <1>6, <1>7

\* At first there are the plain vectors and no report has returned.
LEMMA StoreInit ==
    ASSUME NEW records \in SUBSET [Reporters -> Record], InitSink(records)
    PROVE  StoreInv /\ CountInv
<1> USE DEF InitSink
<1>1. SinkType
  <2>1. PlainVec("counter") \in Vec
    BY DEF PlainVec, Vec, VecKinds
  <2>2. record \in [Reporters -> Record]
    OBVIOUS
  <2>3. \A r \in Reporters : record[r].metrics \in Seq([name : Text, policy : STRING, value : Int])
    BY <2>2, RecordType
  <2>4. ASSUME NEW r \in Reporters
        PROVE  /\ reportAt[r].i = 1
               /\ reportAt[r].step # "done" => record[r].metrics # <<>>
    OBVIOUS
  <2>5. reportAt \in [Reporters -> [ step : {"load", "store", "register", "add", "done", "panicked"},
                                     i : Nat \ {0}, vec : Vec ]]
    BY <2>1
  <2>6. total \in [DOMAIN total -> Int]
    OBVIOUS
  <2> QED
    BY <2>2, <2>3, <2>4, <2>5, <2>6 DEF SinkType
<1>2. vecs = NewSink /\ DOMAIN vecs = PlainKeys /\ \A key \in PlainKeys : vecs[key] = PlainVec(key[1])
  BY DEF NewSink, PlainKeys
<1>3. Past = {}
  <2>1. \A r \in Reporters : reportAt[r].i = 1
    OBVIOUS
  <2> HIDE DEF InitSink
  <2> QED
    BY <1>1, <2>1, PastItems
<1>4. StoreInv
  BY <1>1, <1>2 DEF StoreInv, VecInv, Stage
<1>5. DOMAIN total = {}
  OBVIOUS
<1> QED
  BY <1>3, <1>4, <1>5, FS_EmptySet DEF CountInv, ReportsCounted

\* What a step does that reports nothing but may store a vector.
LEMMA StoreStep ==
    ASSUME StoreInv, UNCHANGED <<record, total>>, NEW r \in Reporters, NEW s, NEW v \in Vec,
           s \in {"store", "register", "add"}, reportAt[r].step # "done",
           reportAt' = [reportAt EXCEPT ![r].step = s, ![r].vec = v],
           \A k \in DOMAIN vecs : k \in DOMAIN vecs' /\ vecs'[k] = vecs[k],
           \A k \in DOMAIN vecs' \ DOMAIN vecs : VecInv(k)',
           Stage(r)'
    PROVE  StoreInv' /\ (CountInv => CountInv')
<1> DEFINE Same == \A q \in Reporters : reportAt'[q].i = reportAt[q].i
<1>1. Same /\ \A q \in Reporters \ {r} : reportAt'[q] = reportAt[q]
  BY DEF StoreInv, SinkType
<1>2. SinkType'
  <2>1. reportAt' \in [Reporters -> [ step : {"load", "store", "register", "add", "done", "panicked"},
                                      i : Nat \ {0}, vec : Vec ]]
    BY DEF StoreInv, SinkType
  <2>2. \A q \in Reporters : reportAt'[q].step # "done" => reportAt'[q].i \in DOMAIN record[q].metrics
    BY <1>1 DEF StoreInv, SinkType
  <2> QED
    BY <1>1, <2>1, <2>2 DEF StoreInv, SinkType
<1>3. PlainKeys \subseteq DOMAIN vecs'
  BY DEF StoreInv
<1>4. ASSUME NEW k \in DOMAIN vecs PROVE VecInv(k)'
  <2>1. VecInv(k) /\ vecs'[k] = vecs[k]
    BY DEF StoreInv
  <2> QED
    BY <2>1, RecordStays DEF VecInv
<1>5. ASSUME NEW q \in Reporters \ {r} PROVE Stage(q)'
  <2>1. Stage(q) /\ reportAt'[q] = reportAt[q]
    BY <1>1 DEF StoreInv
  <2> QED
    BY <2>1, RecordStays DEF Stage
<1>6. StoreInv'
  BY <1>2, <1>3, <1>4, <1>5 DEF StoreInv
<1>7. ASSUME CountInv PROVE CountInv'
  <2>1. Past' = Past
    BY <1>1, <1>2, PastStays DEF StoreInv
  <2>2. ASSUME NEW p \in Past
        PROVE  /\ KeyOf(p[1], p[2])' = KeyOf(p[1], p[2]) /\ SeriesOf(p[1], p[2])' = SeriesOf(p[1], p[2])
               /\ KeyOf(p[1], p[2]) \in DOMAIN vecs'
               /\ vecs'[KeyOf(p[1], p[2])] = vecs[KeyOf(p[1], p[2])]
    BY <1>7, RecordStays DEF CountInv
  <2>3. \A key, values : PastOf(key, values)' = PastOf(key, values)
    BY <2>1, <2>2 DEF PastOf
  <2>4. \A S : ValuesOf(S)' = ValuesOf(S)
    BY RecordStays DEF ValuesOf
  <2>5. \A vec, values : Shown(vec, values)' = Shown(vec, values)
    BY DEF Shown
  <2>6. DOMAIN total' = {<<vecs'[KeyOf(p[1], p[2])'], SeriesOf(p[1], p[2])'>> : p \in Past'}
    BY <1>7, <2>1, <2>2 DEF CountInv
  <2>7. ReportsCounted'
    BY <1>7, <2>1, <2>2, <2>3, <2>4, <2>5, RecordStays DEF CountInv, ReportsCounted
  <2> QED
    BY <1>7, <2>1, <2>2, <2>6, <2>7 DEF CountInv
<1> QED
  BY <1>6, <1>7

\* A stored vector is a vector.
LEMMA StoredType == ASSUME StoreInv, NEW key \in DOMAIN vecs PROVE vecs[key] \in Vec
<1>1. VecInv(key) /\ SinkType
  BY DEF StoreInv
<1>2. CASE key \in PlainKeys
  <2>1. key[1] \in VecKinds
    BY <1>2 DEF PlainKeys, VecKinds
  <2>2. PlainVec(key[1]) \in Vec
    BY <2>1 DEF PlainVec, Vec
  <2> QED
    BY <1>1, <1>2, <2>2 DEF VecInv
<1>3. CASE key \notin PlainKeys
  <2>1. PICK q \in Reports : vecs[key] = VecOf(q)
    BY <1>1, <1>3 DEF VecInv
  <2> QED
    BY <1>1, <2>1, ReportsItems, ReportType DEF VecOf
<1> QED
  BY <1>2, <1>3

\* A look-up stores nothing and counts nothing.
LEMMA LoadKeeps == ASSUME StoreInv, NEW r \in Reporters, Load(r) PROVE StoreInv' /\ (CountInv => CountInv')
<1> PICK i : i = reportAt[r].i
  OBVIOUS
<1> DEFINE key == KeyOf(r, i)
           v == IF key \in DOMAIN vecs THEN vecs[key] ELSE NewVec(r, i)
           s == IF key \in DOMAIN vecs THEN "add" ELSE "store"
<1>1. /\ reportAt' = [reportAt EXCEPT ![r].step = s, ![r].vec = v]
      /\ UNCHANGED <<record, vecs, total>> /\ reportAt[r].step = "load"
  BY DEF Load, GoTo, At
<1>2. SinkType /\ i \in DOMAIN record[r].metrics /\ NewVec(r, i) \in Vec
  BY <1>1, ReportType DEF StoreInv, SinkType
<1>3. v \in Vec
  <2>1. key \in DOMAIN vecs => vecs[key] \in Vec
    BY StoredType
  <2> QED
    BY <1>2, <2>1
<1>4. Stage(r)'
  <2>1. reportAt'[r].i = i /\ reportAt'[r].step = s /\ reportAt'[r].vec = v
    BY <1>1 DEF StoreInv, SinkType
  <2>2. KeyOf(r, i)' = KeyOf(r, i) /\ NewVec(r, i)' = NewVec(r, i)
    BY <1>1, RecordStays
  <2> QED
    BY <1>1, <2>1, <2>2, RecordStays DEF Stage
<1> HIDE DEF key, v
<1> QED
  BY <1>1, <1>3, <1>4, StoreStep

\* A vector is stored under a key that has none, and what a report holds is what is stored.
LEMMA LoadOrStoreKeeps ==
    ASSUME StoreInv, NEW r \in Reporters, LoadOrStore(r)
    PROVE  StoreInv' /\ (CountInv => CountInv')
<1> PICK i : i = reportAt[r].i
  OBVIOUS
<1> DEFINE key == KeyOf(r, i)
           new == reportAt[r].vec
           v == IF key \in DOMAIN vecs THEN vecs[key] ELSE new
           s == IF key \notin DOMAIN vecs /\ new.kind = "histogram" THEN "register" ELSE "add"
<1>1. /\ reportAt' = [reportAt EXCEPT ![r].step = s, ![r].vec = v]
      /\ vecs' = IF key \in DOMAIN vecs THEN vecs ELSE Bind(vecs, key, new)
      /\ UNCHANGED <<record, total>> /\ reportAt[r].step = "store"
  BY DEF LoadOrStore, GoTo, At
<1>2. SinkType /\ i \in DOMAIN record[r].metrics /\ new \in Vec /\ new = NewVec(r, i) /\ <<r, i>> \in Reports
  BY <1>1, ReportType DEF StoreInv, SinkType, Stage
<1>3. v \in Vec
  <2>1. key \in DOMAIN vecs => vecs[key] \in Vec
    BY StoredType
  <2> QED
    BY <1>2, <2>1
<1>4. \A k \in DOMAIN vecs : k \in DOMAIN vecs' /\ vecs'[k] = vecs[k]
  BY <1>1 DEF Bind
<1>5. ASSUME NEW k \in DOMAIN vecs' \ DOMAIN vecs PROVE VecInv(k)'
  <2>1. k = key /\ vecs'[k] = new /\ k \notin PlainKeys
    BY <1>1, <1>5 DEF Bind, StoreInv
  <2>2. vecs'[k] = VecOf(<<r, i>>) /\ k = KeyOf(r, i)
    BY <1>2, <2>1 DEF VecOf
  <2>3. VecOf(<<r, i>>)' = VecOf(<<r, i>>) /\ KeyOf(r, i)' = KeyOf(r, i) /\ Reports' = Reports
    BY <1>1, RecordStays
  <2> HIDE DEF key, new
  <2> QED
    BY <1>2, <2>1, <2>2, <2>3 DEF VecInv
<1>6. Stage(r)'
  <2>1. reportAt'[r].i = i /\ reportAt'[r].step = s /\ reportAt'[r].vec = v
    BY <1>1 DEF StoreInv, SinkType
  <2>2. KeyOf(r, i)' = KeyOf(r, i) /\ NewVec(r, i)' = NewVec(r, i)
    BY <1>1, RecordStays
  <2>3. key \in DOMAIN vecs' /\ v = vecs'[key]
    BY <1>1 DEF Bind
  <2> QED
    BY <2>1, <2>2, <2>3 DEF Stage
<1> HIDE DEF key, new, v
<1> QED
  BY <1>1, <1>3, <1>4, <1>5, <1>6, StoreStep

\* Registering changes neither the vectors nor the sums.
LEMMA RegisterKeeps ==
    ASSUME StoreInv, NEW r \in Reporters, RegisterHistogram(r)
    PROVE  StoreInv' /\ (CountInv => CountInv')
<1> DEFINE v == reportAt[r].vec
<1>1. /\ reportAt' = [reportAt EXCEPT ![r].step = "add", ![r].vec = v]
      /\ UNCHANGED <<record, vecs, total>> /\ reportAt[r].step = "register" /\ v \in Vec
  BY DEF RegisterHistogram, GoTo, At, StoreInv, SinkType
<1>2. Stage(r)'
  <2>1. reportAt'[r].i = reportAt[r].i /\ reportAt'[r].step = "add" /\ reportAt'[r].vec = v
    BY <1>1 DEF StoreInv, SinkType
  <2>2. KeyOf(r, reportAt[r].i)' = KeyOf(r, reportAt[r].i)' /\ Stage(r)
    BY DEF StoreInv
  <2> QED
    BY <1>1, <2>1, <2>2, RecordStays DEF Stage
<1> HIDE DEF v
<1> QED
  BY <1>1, <1>2, StoreStep

\* The report is one that panics.
Refused(r) == Refuses(reportAt[r].vec, SeriesOf(r, reportAt[r].i), Metric(r, reportAt[r].i).value)

\* A panic leaves the sums as they are.
LEMMA AddPanics ==
    ASSUME StoreInv, CountInv, NEW r \in Reporters, Add(r),
           Refused(r)
    PROVE  StoreInv' /\ CountInv'
<1> DEFINE v == reportAt[r].vec
<1>1. /\ reportAt' = [reportAt EXCEPT ![r].step = "panicked", ![r].vec = v]
      /\ UNCHANGED <<record, vecs, total>> /\ reportAt[r].step = "add"
  BY DEF Add, GoTo, At, Refused
<1>2. \A q \in Reporters : /\ reportAt'[q].i = reportAt[q].i
                           /\ reportAt'[q].vec = reportAt[q].vec
                           /\ reportAt'[q].step = IF q = r THEN "panicked" ELSE reportAt[q].step
  BY <1>1 DEF StoreInv, SinkType
<1>3. SinkType'
  <2>1. reportAt' \in [Reporters -> [ step : {"load", "store", "register", "add", "done", "panicked"},
                                      i : Nat \ {0}, vec : Vec ]]
    BY <1>1 DEF StoreInv, SinkType
  <2> QED
    BY <1>1, <1>2, <2>1 DEF StoreInv, SinkType
<1>4. StoreInv'
  <2>1. ASSUME NEW k \in DOMAIN vecs PROVE VecInv(k)'
    BY <1>1, RecordStays DEF StoreInv, VecInv
  <2>2. ASSUME NEW q \in Reporters PROVE Stage(q)'
    <3>1. CASE q = r
      BY <1>2, <3>1 DEF Stage
    <3>2. CASE q # r
      <4>1. Stage(q) /\ reportAt'[q] = reportAt[q]
        BY <1>1, <3>2 DEF StoreInv, SinkType
      <4> QED
        BY <1>1, <4>1, RecordStays DEF Stage
    <3> QED
      BY <3>1, <3>2
  <2> QED
    BY <1>1, <1>3, <2>1, <2>2 DEF StoreInv
<1>5. Past' = Past
  BY <1>2 DEF Past
<1>6. ReportsCounted'
  <2>1. \A key, values : PastOf(key, values)' = PastOf(key, values)
    BY <1>1, <1>5, RecordStays DEF PastOf
  <2>2. \A S : ValuesOf(S)' = ValuesOf(S)
    BY <1>1, RecordStays DEF ValuesOf
  <2>3. \A vec, values : Shown(vec, values)' = Shown(vec, values)
    BY <1>1 DEF Shown
  <2> QED
    BY <1>1, <1>5, <2>1, <2>2, <2>3, RecordStays DEF CountInv, ReportsCounted
<1>7. CountInv'
  <2>1. \A p : KeyOf(p[1], p[2])' = KeyOf(p[1], p[2]) /\ SeriesOf(p[1], p[2])' = SeriesOf(p[1], p[2])
    BY <1>1, RecordStays
  <2> QED
    BY <1>1, <1>5, <1>6, <2>1 DEF CountInv
<1> QED
  BY <1>4, <1>7

\* The report that is added is the next one of its reporter; it finds what those before
\* it left.
LEMMA AddCounts ==
    ASSUME StoreInv, CountInv, NEW r \in Reporters, Add(r),
           ~ Refused(r)
    PROVE  StoreInv' /\ CountInv'
<1> DEFINE i == reportAt[r].i
           vec == reportAt[r].vec
           key == KeyOf(r, i)
           values == SeriesOf(r, i)
           here == <<vec, values>>
           same == PastOf(key, values)
           old == IF here \in DOMAIN total THEN total[here] ELSE 0
           m == Metric(r, i)
           sum == IF vec.kind = "counter" THEN old + m.value
                  ELSE IF vec.kind = "gauge" THEN m.value ELSE old + 1
           after == [step |-> IF i < Len(record[r].metrics) THEN "load" ELSE "done",
                     i |-> i + 1, vec |-> PlainVec("counter")]
<1>1. /\ total' = Bind(total, here, sum) /\ reportAt' = [reportAt EXCEPT ![r] = after]
      /\ UNCHANGED <<record, vecs>> /\ reportAt[r].step = "add"
  BY DEF Add, At, Refused
<1>2. /\ SinkType /\ i \in DOMAIN record[r].metrics /\ i \in Nat \ {0} /\ Len(record[r].metrics) \in Nat
      /\ m.value \in Int /\ <<r, i>> \in Reports
      /\ key \in DOMAIN vecs /\ vec = vecs[key] /\ VecInv(key)
  <2>1. /\ SinkType /\ i \in DOMAIN record[r].metrics /\ i \in Nat \ {0}
        /\ key \in DOMAIN vecs /\ vec = vecs[key] /\ VecInv(key)
    BY <1>1 DEF StoreInv, SinkType, Stage
  <2>2. Len(record[r].metrics) \in Nat
    BY RecordType DEF StoreInv, SinkType
  <2> QED
    BY <2>1, <2>2, ReportType
<1>3. \A p : /\ KeyOf(p[1], p[2])' = KeyOf(p[1], p[2]) /\ SeriesOf(p[1], p[2])' = SeriesOf(p[1], p[2])
             /\ Metric(p[1], p[2])' = Metric(p[1], p[2])
  BY <1>1, RecordStays
<1>4. PlainVec("counter") \in Vec
  BY DEF PlainVec, Vec, VecKinds
<1>5. DOMAIN record[r].metrics = 1 .. Len(record[r].metrics)
  BY RecordType DEF StoreInv, SinkType
<1>6. after \in [ step : {"load", "store", "register", "add", "done", "panicked"}, i : Nat \ {0}, vec : Vec ]
  BY <1>2, <1>4
<1>7. /\ after.i = i + 1 /\ after.step \in {"load", "done"}
      /\ after.step # "done" => i + 1 \in DOMAIN record[r].metrics
      /\ i + 1 \in 1 .. Len(record[r].metrics) + 1
  BY <1>2, <1>5
<1> HIDE DEF i, vec, values, same, m, key, after
<1>8. /\ reportAt'[r] = after
      /\ \A q \in Reporters \ {r} : reportAt'[q] = reportAt[q]
      /\ reportAt' \in [Reporters -> [ step : {"load", "store", "register", "add", "done", "panicked"},
                                      i : Nat \ {0}, vec : Vec ]]
  BY <1>1, <1>2, <1>6 DEF SinkType
<1>9. old \in Int /\ sum \in Int
  BY <1>2 DEF SinkType
<1> HIDE DEF sum, old, here
<1>10. SinkType'
  <2>1. total' \in [DOMAIN total' -> Int]
    BY <1>1, <1>2, <1>9 DEF SinkType, Bind
  <2>2. ASSUME NEW q \in Reporters
        PROVE  /\ reportAt'[q].i \in 1 .. Len(record[q].metrics) + 1
               /\ reportAt'[q].step # "done" => reportAt'[q].i \in DOMAIN record[q].metrics
    <3>1. CASE q = r
      BY <1>7, <1>8, <3>1
    <3>2. CASE q # r
      BY <1>2, <1>8, <3>2 DEF SinkType
    <3> QED
      BY <3>1, <3>2
  <2> QED
    BY <1>1, <1>2, <1>8, <2>1, <2>2 DEF SinkType
<1>11. StoreInv'
  <2>1. ASSUME NEW k \in DOMAIN vecs PROVE VecInv(k)'
    BY <1>1, RecordStays DEF StoreInv, VecInv
  <2>2. ASSUME NEW q \in Reporters PROVE Stage(q)'
    <3>1. CASE q = r
      BY <1>7, <1>8, <3>1 DEF Stage
    <3>2. CASE q # r
      <4>1. Stage(q) /\ reportAt'[q] = reportAt[q]
        BY <1>8, <3>2 DEF StoreInv
      <4> QED
        BY <1>1, <4>1, RecordStays DEF Stage
    <3> QED
      BY <3>1, <3>2
  <2> QED
    BY <1>1, <1>10, <2>1, <2>2 DEF StoreInv
<1>12. Past' = Past \cup {<<r, i>>} /\ <<r, i>> \notin Past
  <2>1. \A p : p \in Past <=> \E q \in Reporters : \E j \in 1 .. reportAt[q].i - 1 : p = <<q, j>>
    BY <1>2, PastItems
  <2>2. \A p : p \in Past' <=> \E q \in Reporters : \E j \in 1 .. reportAt'[q].i - 1 : p = <<q, j>>
    BY <1>10 DEF Past
  <2>3. \A q \in Reporters : reportAt'[q].i = IF q = r THEN i + 1 ELSE reportAt[q].i
    BY <1>7, <1>8
  <2>4. \A q \in Reporters : 1 .. reportAt'[q].i - 1 = IF q = r THEN 1 .. i ELSE 1 .. reportAt[q].i - 1
    BY <1>2, <2>3
  <2>5. 1 .. i = (1 .. reportAt[r].i - 1) \cup {i} /\ i \notin 1 .. reportAt[r].i - 1
    BY <1>2 DEF i
  <2>6. \A p : p \in Past' <=> p \in Past \/ p = <<r, i>>
    <3>1. ASSUME NEW p, p \in Past PROVE p \in Past'
      BY <2>1, <2>2, <2>4, <2>5, <3>1
    <3>2. <<r, i>> \in Past'
      BY <2>2, <2>4, <2>5
    <3>3. ASSUME NEW p, p \in Past' PROVE p \in Past \/ p = <<r, i>>
      <4>1. PICK q \in Reporters : \E j \in 1 .. reportAt'[q].i - 1 : p = <<q, j>>
        BY <2>2, <3>3
      <4>2. CASE q = r
        BY <2>1, <2>4, <2>5, <4>1, <4>2
      <4>3. CASE q # r
        BY <2>1, <2>4, <4>1, <4>3
      <4> QED
        BY <4>2, <4>3
    <3> QED
      BY <3>1, <3>2, <3>3
  <2>7. <<r, i>> \notin Past
    BY <2>1, <2>5
  <2> QED
    BY <2>6, <2>7
<1>13. IsFiniteSet(Past) /\ IsFiniteSet(same) /\ <<r, i>> \notin same
  <2>1. IsFiniteSet(Past) /\ same \subseteq Past
    BY DEF CountInv, PastOf, same
  <2> QED
    BY <1>12, <2>1, FS_Subset
\* A report before this one of the same vector and series has the same key.
<1>14. ASSUME NEW p \in Past \cup {<<r, i>>}
       PROVE  /\ KeyOf(p[1], p[2]) \in DOMAIN vecs
              /\ <<vecs[KeyOf(p[1], p[2])], SeriesOf(p[1], p[2])>> = here
                     <=> KeyOf(p[1], p[2]) = key /\ SeriesOf(p[1], p[2]) = values
  <2>1. KeyOf(p[1], p[2]) \in DOMAIN vecs
    BY <1>2 DEF CountInv, key
  <2> QED
    BY <1>2, <2>1, KeyDetermined DEF here
<1>15. here \in DOMAIN total <=> same # {}
  <2>1. DOMAIN total = {<<vecs[KeyOf(p[1], p[2])], SeriesOf(p[1], p[2])>> : p \in Past}
    BY DEF CountInv
  <2> QED
    BY <1>14, <2>1 DEF PastOf, same
<1>16. /\ DOMAIN total' = DOMAIN total \cup {here} /\ total'[here] = sum
       /\ \A x \in DOMAIN total : x # here => total'[x] = total[x]
  BY <1>1 DEF Bind
<1>17. ASSUME NEW k, NEW w
       PROVE  PastOf(k, w)' = IF k = key /\ w = values THEN PastOf(k, w) \cup {<<r, i>>} ELSE PastOf(k, w)
  BY <1>3, <1>12 DEF PastOf, key, values
<1>18. /\ vec.kind = "counter" => old = SumFunctionOnSet(ValuesOf(same), same)
       /\ vec.kind = "histogram" => old = Cardinality(same)
  <2>1. CASE same = {}
    BY <1>15, <2>1, SumEmpty, FS_EmptySet DEF old
  <2>2. CASE same # {}
    <3>1. PICK p \in Past : KeyOf(p[1], p[2]) = key /\ SeriesOf(p[1], p[2]) = values
      BY <2>2 DEF same, PastOf
    <3>2. Shown(vecs[key], values) = old
      BY <1>2, <1>15, <2>2 DEF Shown, old, here
    <3> QED
      BY <1>2, <3>1, <3>2 DEF CountInv, ReportsCounted, same
  <2> QED
    BY <2>1, <2>2
<1>19. /\ vec.kind = "counter" => sum = SumFunctionOnSet(ValuesOf(same \cup {<<r, i>>}), same \cup {<<r, i>>})
       /\ vec.kind = "gauge" => sum = m.value
       /\ vec.kind = "histogram" => sum = Cardinality(same \cup {<<r, i>>})
  <2> DEFINE E == same \cup {<<r, i>>}
             w == ValuesOf(E)
  <2>1. \A p \in E : w[p] = Metric(p[1], p[2]).value /\ w[p] \in Int
    <3>1. \A p \in E : p \in Reports
      <4>1. Past \subseteq Reports
        <5> SUFFICES ASSUME NEW q \in Reporters, NEW j \in 1 .. reportAt[q].i - 1 PROVE <<q, j>> \in Reports
          BY <1>2, PastItems
        <5>1. DOMAIN record[q].metrics = 1 .. Len(record[q].metrics) /\ Len(record[q].metrics) \in Nat
          BY <1>2, RecordType DEF SinkType
        <5>2. j \in DOMAIN record[q].metrics
          BY <1>2, <5>1 DEF SinkType
        <5> QED
          BY <5>2 DEF Reports
      <4> QED
        BY <1>2, <4>1 DEF same, PastOf
    <3>2. \A p \in E : Metric(p[1], p[2]).value \in Int
      BY <1>2, <3>1, ReportsItems, ReportType
    <3> QED
      BY <3>2 DEF ValuesOf
  <2>2. w[<<r, i>>] = m.value
    BY <2>1 DEF m
  <2>3. SumFunctionOnSet(w, E) = SumFunctionOnSet(w, same) + m.value
    <3> HIDE DEF w
    <3>1. PICK x : x = <<r, i>>
      OBVIOUS
    <3>2. IsFiniteSet(same) /\ x \notin same /\ \A y \in same \cup {x} : w[y] \in Int
      BY <1>13, <2>1, <3>1
    <3>3. SumFunctionOnSet(w, same \cup {x}) = SumFunctionOnSet(w, same) + w[x]
      BY <3>2, SumAdd
    <3> QED
      BY <2>2, <3>1, <3>3
  <2>4. SumFunctionOnSet(w, same) = SumFunctionOnSet(ValuesOf(same), same)
    <3>1. \A p \in same : ValuesOf(same)[p] = Metric(p[1], p[2]).value
      BY DEF ValuesOf
    <3> HIDE DEF w
    <3> QED
      BY <1>13, <2>1, <3>1, SumSame
  <2>5. Cardinality(E) = Cardinality(same) + 1
    BY <1>13, FS_AddElement
  <2> QED
    BY <1>18, <2>3, <2>4, <2>5 DEF sum
<1>20. ReportsCounted'
  <2> SUFFICES ASSUME NEW p \in Past', NEW k, NEW w, k = KeyOf(p[1], p[2]), w = SeriesOf(p[1], p[2])
               PROVE  /\ vecs[k].kind = "counter" => Shown(vecs[k], w)' = SumFunctionOnSet(ValuesOf(PastOf(k, w)'), PastOf(k, w)')
                      /\ vecs[k].kind = "gauge" => \E q \in PastOf(k, w)' : Shown(vecs[k], w)' = Metric(q[1], q[2]).value
                      /\ vecs[k].kind = "histogram" => Shown(vecs[k], w)' = Cardinality(PastOf(k, w)')
    <3>2. \A k, w : ValuesOf(PastOf(k, w))' = ValuesOf(PastOf(k, w)')
      BY <1>3 DEF ValuesOf
    <3> QED
      BY <1>1, <1>3, <3>2 DEF ReportsCounted
  <2>1. CASE k = key /\ w = values
    <3>1. PastOf(k, w)' = same \cup {<<r, i>>}
      BY <1>17, <2>1 DEF same
    <3>2. Shown(vecs[k], w)' = sum
      BY <1>1, <1>2, <1>16, <2>1 DEF Shown, here
    <3>3. vecs[k] = vec
      BY <1>2, <2>1
    <3>4. PICK q \in PastOf(k, w)' : q = <<r, i>>
      BY <3>1
    <3>5. Metric(q[1], q[2]).value = m.value
      BY <3>4 DEF m
    <3> QED
      BY <1>19, <3>1, <3>2, <3>3, <3>5
  <2>2. CASE ~ (k = key /\ w = values)
    <3>1. p \in Past
      BY <1>12, <2>2 DEF key, values
    <3>2. PastOf(k, w)' = PastOf(k, w)
      BY <1>17, <2>2
    <3>3. <<vecs[k], w>> # here
      BY <1>14, <2>2, <3>1
    <3>4. Shown(vecs[k], w)' = Shown(vecs[k], w)
      BY <1>1, <1>16, <3>3 DEF Shown
    <3> QED
      BY <3>1, <3>2, <3>4 DEF CountInv, ReportsCounted
  <2> QED
    BY <2>1, <2>2
<1>21. IsFiniteSet(Past')
  BY <1>12, <1>13, FS_AddElement
<1>22. DOMAIN total' = {<<vecs'[KeyOf(p[1], p[2])'], SeriesOf(p[1], p[2])'>> : p \in Past'}
  <2>1. DOMAIN total = {<<vecs[KeyOf(p[1], p[2])], SeriesOf(p[1], p[2])>> : p \in Past}
    BY DEF CountInv
  <2>2. here = <<vecs[KeyOf(<<r, i>>[1], <<r, i>>[2])], SeriesOf(<<r, i>>[1], <<r, i>>[2])>>
    BY <1>2 DEF here, key, values
  <2> QED
    BY <1>1, <1>3, <1>12, <1>16, <2>1, <2>2
<1>23. CountInv'
  <2>1. \A p \in Past' : KeyOf(p[1], p[2])' \in DOMAIN vecs'
    BY <1>1, <1>3, <1>12, <1>14
  <2> QED
    BY <1>20, <1>21, <1>22, <2>1 DEF CountInv
<1> QED
  BY <1>11, <1>23

-----------------------------------------------------------------------------
(* Names.                                                                  *)

\* The separators in a hash.
Marks(s) == {i \in DOMAIN s : s[i] = SeparatorByte}
Bytes == STRING \cup {SeparatorByte}

\* Texts without a separator.
Clean == Seq(STRING \ {SeparatorByte})

\* A hash has as many separators as there are labels, when nothing else has one.
LEMMA HashMarks ==
    ASSUME NEW name \in Clean, NEW labels \in Seq(Clean)
    PROVE  Cardinality(Marks(labelsHash(name, labels))) = Len(labels)
<1> DEFINE marked(ls) == [i \in DOMAIN ls |-> Append(ls[i], SeparatorByte)]
           Good(ls) == LET h == labelsHash(name, ls)
                       IN h \in Seq(Bytes) /\ IsFiniteSet(Marks(h)) /\ Cardinality(Marks(h)) = Len(ls)
           T == {ls \in Seq(Clean) : Good(ls)}
<1>1. \A ls : labelsHash(name, ls) = name \o FlattenSeq(marked(ls))
  BY DEF labelsHash
<1>2. \A s \in Clean : s \in Seq(Bytes) /\ \A i \in 1 .. Len(s) : s[i] # SeparatorByte
  <2> SUFFICES ASSUME NEW s \in Clean PROVE s \in Seq(Bytes) /\ \A i \in 1 .. Len(s) : s[i] # SeparatorByte
    OBVIOUS
  <2>1. s \in Seq(STRING \ {SeparatorByte})
    BY DEF Clean
  <2> QED
    BY <2>1 DEF Bytes
<1>3. \A ls \in Seq(Clean) : /\ marked(ls) \in Seq(Seq(Bytes)) /\ Len(marked(ls)) = Len(ls)
                              /\ \A i \in 1 .. Len(ls) : marked(ls)[i] = Append(ls[i], SeparatorByte)
  <2> SUFFICES ASSUME NEW ls \in Seq(Clean)
               PROVE  /\ marked(ls) \in Seq(Seq(Bytes)) /\ Len(marked(ls)) = Len(ls)
                      /\ \A i \in 1 .. Len(ls) : marked(ls)[i] = Append(ls[i], SeparatorByte)
    OBVIOUS
  <2>1. \A i \in DOMAIN ls : Append(ls[i], SeparatorByte) \in Seq(Bytes)
    <3>1. \A i \in DOMAIN ls : ls[i] \in Clean
      OBVIOUS
    <3>2. \A i \in DOMAIN ls : ls[i] \in Seq(Bytes)
      BY <1>2, <3>1
    <3>3. SeparatorByte \in Bytes
      BY DEF Bytes
    <3> QED
      BY <3>2, <3>3
  <2> PICK R : R = Seq(Bytes)
    OBVIOUS
  <2>2. DOMAIN ls = 1 .. Len(ls) /\ Len(ls) \in Nat
    OBVIOUS
  <2>3. marked(ls) \in [1 .. Len(ls) -> R]
    BY <2>1, <2>2
  <2>4. marked(ls) \in Seq(R) /\ Len(marked(ls)) = Len(ls)
    <3> HIDE DEF marked
    <3> QED
      BY <2>2, <2>3
  <2> QED
    BY <2>2, <2>4
<1>4. <<>> \in T
  <2>1. marked(<<>>) = <<>>
    OBVIOUS
  <2>2. labelsHash(name, <<>>) = name
    <3>1. name \in Seq(Bytes)
      BY <1>2
    <3>2. name \o <<>> = name
      BY <3>1
    <3>3. labelsHash(name, <<>>) = name \o FlattenSeq(marked(<<>>))
      BY <1>1
    <3>4. FlattenSeq(marked(<<>>)) = <<>>
      <4> HIDE DEF marked
      <4> QED
        BY <2>1, FlattenEmpty, Zenon
    <3> QED
      BY <3>2, <3>3, <3>4, Zenon
  <2>3. Marks(name) = {} /\ name \in Seq(Bytes)
    <3>1. name \in Seq(Bytes) /\ \A i \in 1 .. Len(name) : name[i] # SeparatorByte
      BY <1>2
    <3> QED
      BY <3>1 DEF Marks
  <2>4. Cardinality(Marks(name)) = Len(<<>>) /\ IsFiniteSet(Marks(name))
    BY <2>3, FS_EmptySet
  <2>5. Good(<<>>)
    BY <2>2, <2>3, <2>4
  <2> HIDE DEF Good
  <2> QED
    BY <2>5
<1>5. ASSUME NEW ls \in T, NEW l \in Clean PROVE Append(ls, l) \in T
  <2> DEFINE h == labelsHash(name, ls)
             next == labelsHash(name, Append(ls, l))
             end == Append(l, SeparatorByte)
             place == Len(h) + Len(l) + 1
  <2>1. ls \in Seq(Clean) /\ h \in Seq(Bytes) /\ IsFiniteSet(Marks(h)) /\ Cardinality(Marks(h)) = Len(ls)
    OBVIOUS
  <2>2. marked(Append(ls, l)) = Append(marked(ls), end)
    <3> DEFINE a == marked(Append(ls, l))
               b == Append(marked(ls), end)
    <3>1. marked(ls) \in Seq(Seq(Bytes)) /\ Len(marked(ls)) = Len(ls) /\ Len(ls) \in Nat
      <4> HIDE DEF marked
      <4> QED
        BY <1>3, <2>1
    <3>2. DOMAIN a = 1 .. Len(ls) + 1 /\ DOMAIN b = 1 .. Len(ls) + 1
      BY <2>1, <3>1
    <3>3. \A i \in 1 .. Len(ls) + 1 : a[i] = b[i]
      BY <1>3, <2>1, <3>1
    <3>4. a = [i \in DOMAIN a |-> a[i]] /\ b = [i \in DOMAIN b |-> b[i]]
      BY <3>1
    <3> HIDE DEF a, b
    <3> QED
      BY <3>2, <3>3, <3>4 DEF a, b
  <2>3. l \in Seq(Bytes) /\ end \in Seq(Bytes) /\ Len(end) = Len(l) + 1 /\ end[Len(l) + 1] = SeparatorByte
    BY <1>2 DEF Bytes
  <2>4. \A i \in 1 .. Len(l) : end[i] # SeparatorByte
    <3>1. \A i \in 1 .. Len(l) : end[i] = l[i]
      BY <2>3
    <3> QED
      BY <1>2, <3>1
  <2>5. next = h \o end
    <3> DEFINE front == FlattenSeq(marked(ls))
    <3>1. FlattenSeq(marked(Append(ls, l))) = front \o end
      <4>1. marked(ls) \in Seq(Seq(Bytes))
        BY <1>3, <2>1
      <4> HIDE DEF marked, end
      <4> QED
        BY <2>2, <2>3, <4>1, FlattenAppend
    <3>2. front \in Seq(Bytes) /\ name \in Seq(Bytes)
      <4>1. marked(ls) \in Seq(Seq(Bytes))
        BY <1>3, <2>1
      <4> HIDE DEF marked
      <4> QED
        BY <1>2, <4>1, FlattenType
    <3>3. h = name \o front /\ next = name \o (front \o end)
      BY <1>1, <3>1
    <3> HIDE DEF front, h, next, end, marked, T, Good
    <3>4. name \o (front \o end) = (name \o front) \o end
      <4>1. \A a, b, c \in Seq(Bytes) : a \o (b \o c) = (a \o b) \o c
        BY Regroup
      <4>2. PICK a : a = name /\ a \in Seq(Bytes)
        BY <3>2
      <4>3. PICK b : b = front /\ b \in Seq(Bytes)
        BY <3>2
      <4>4. PICK c : c = end /\ c \in Seq(Bytes)
        BY <2>3
      <4>5. a \o (b \o c) = (a \o b) \o c
        BY <4>1, <4>2, <4>3, <4>4
      <4> QED
        BY <4>2, <4>3, <4>4, <4>5
    <3> QED
      BY <3>3, <3>4
  <2> HIDE DEF h, next, end, marked, T
  <2>6. Len(next) = place /\ next \in Seq(Bytes) /\ Len(h) \in Nat /\ Len(l) \in Nat
    <3>1. Len(h) \in Nat /\ Len(l) \in Nat
      BY <2>1, <2>3
    <3>2. h \o end \in Seq(Bytes) /\ Len(h \o end) = Len(h) + Len(end)
      <4>1. h \in Seq(Bytes) /\ end \in Seq(Bytes)
        BY <2>1, <2>3
      <4> QED
        BY <4>1, ConcatProperties
    <3> QED
      BY <2>3, <2>5, <3>1, <3>2 DEF place
  <2>7. Marks(next) = Marks(h) \cup {place}
    <3>1. \A i \in 1 .. Len(h) : next[i] = h[i]
      BY <2>1, <2>3, <2>5
    <3>2. \A i \in Len(h) + 1 .. place : next[i] = end[i - Len(h)] /\ i - Len(h) \in 1 .. Len(l) + 1
      BY <2>1, <2>3, <2>5, <2>6
    <3>3. \A i \in Len(h) + 1 .. place : next[i] = SeparatorByte <=> i = place
      <4> SUFFICES ASSUME NEW i \in Len(h) + 1 .. place PROVE next[i] = SeparatorByte <=> i = place
        OBVIOUS
      <4>1. CASE i = place
        <5>1. i - Len(h) = Len(l) + 1
          BY <2>6, <4>1
        <5> QED
          BY <2>3, <3>2, <4>1, <5>1
      <4>2. CASE i # place
        <5>1. i - Len(h) \in 1 .. Len(l)
          BY <2>6, <4>2
        <5> QED
          BY <2>4, <3>2, <4>2, <5>1
      <4> QED
        BY <4>1, <4>2
    <3>4. DOMAIN next = 1 .. place /\ DOMAIN h = 1 .. Len(h)
      BY <2>1, <2>6
    <3>5. \A i \in 1 .. place : i \in 1 .. Len(h) \/ i \in Len(h) + 1 .. place
      BY <2>6
    <3>6. place \in Len(h) + 1 .. place /\ place \in 1 .. place /\ \A i \in 1 .. Len(h) : i \in 1 .. place /\ i # place
      BY <2>6
    <3> HIDE DEF place
    <3> QED
      BY <3>1, <3>3, <3>4, <3>5, <3>6 DEF Marks
  <2>8. place \notin Marks(h)
    BY <2>1, <2>6 DEF Marks
  <2>9. IsFiniteSet(Marks(next)) /\ Cardinality(Marks(next)) = Len(ls) + 1
    <3> HIDE DEF place
    <3> QED
      BY <2>1, <2>7, <2>8, FS_AddElement
  <2>10. Append(ls, l) \in Seq(Clean) /\ Len(Append(ls, l)) = Len(ls) + 1
    BY <2>1
  <2> QED
    BY <2>6, <2>9, <2>10 DEF T, next
<1> HIDE DEF T
<1>6. T = Seq(Clean)
  <2>1. T \in SUBSET Seq(Clean)
    BY DEF T
  <2> QED
    BY <1>4, <1>5, <2>1, SeqSetInduction
<1> QED
  BY <1>6 DEF T

\* The hash of labels is not that of none.
LEMMA HashNonEmpty ==
    ASSUME NEW name \in Text, NEW labels \in Seq(Text), labels # <<>>
    PROVE  labelsHash(name, labels) # <<>>
<1> PICK S : S = STRING \cup {SeparatorByte}
  OBVIOUS
<1> DEFINE marked == [i \in DOMAIN labels |-> Append(labels[i], SeparatorByte)]
           n == Len(labels)
           front == [i \in 1 .. n - 1 |-> marked[i]]
           end == marked[n]
<1>1. name \in Seq(S) /\ SeparatorByte \in S
  <2>1. Text \subseteq Seq(S)
    BY DEF Text
  <2> QED
    BY <2>1
<1>2. n \in Nat \ {0} /\ DOMAIN labels = 1 .. n
  OBVIOUS
<1>3. \A i \in 1 .. n : marked[i] \in Seq(S) /\ Len(marked[i]) >= 1
  <2>1. Text \subseteq Seq(S)
    BY DEF Text
  <2>2. \A i \in 1 .. n : labels[i] \in Seq(S) /\ marked[i] = Append(labels[i], SeparatorByte)
    BY <1>2, <2>1
  <2>3. \A l \in Seq(S) : Append(l, SeparatorByte) \in Seq(S) /\ Len(Append(l, SeparatorByte)) >= 1
    BY <1>1
  <2> HIDE DEF marked, n
  <2> QED
    BY <2>2, <2>3
<1>4. marked = [i \in 1 .. n |-> marked[i]]
  BY <1>2
<1> HIDE DEF marked, n
<1>5. front \in Seq(Seq(S)) /\ end \in Seq(S) /\ Len(end) >= 1
  BY <1>2, <1>3
<1>6. marked = Append(front, end)
  <2>1. Append(front, end) = [i \in 1 .. n |-> IF i = n THEN end ELSE front[i]]
    BY <1>2, <1>5
  <2> QED
    BY <1>2, <1>4, <2>1
<1> HIDE DEF front, end
<1>7. FlattenSeq(marked) = FlattenSeq(front) \o end /\ FlattenSeq(front) \in Seq(S)
  BY <1>5, <1>6, FlattenAppend, FlattenType
<1>8. labelsHash(name, labels) = name \o (FlattenSeq(front) \o end)
  BY <1>7 DEF labelsHash, marked
<1>9. Len(FlattenSeq(front) \o end) >= 1 /\ FlattenSeq(front) \o end \in Seq(S)
  BY <1>5, <1>7, ConcatProperties
<1> HIDE DEF marked
<1>10. PICK tail : tail = FlattenSeq(front) \o end
  OBVIOUS
<1>11. Len(name \o tail) >= 1
  BY <1>1, <1>9, <1>10, ConcatProperties
<1>12. Len(<<>>) = 0
  OBVIOUS
<1> QED
  BY <1>8, <1>10, <1>11, <1>12

\* What is described is without separators.
LEMMA DescribedClean ==
    ASSUME NEW v, v.by # 0, v.kind # "histogram", v.name \in Text, v.labels \in Seq(Text), Described(v)
    PROVE  v.name \in Clean /\ v.labels \in Seq(Clean)
<1>1. \A text \in Text : ToSet(text) \cap BadBytes = {} => text \in Clean
  <2> SUFFICES ASSUME NEW text \in Text, ToSet(text) \cap BadBytes = {} PROVE text \in Clean
    OBVIOUS
  <2> PICK S : S = STRING
    OBVIOUS
  <2>1. text \in Seq(S)
    BY DEF Text
  <2>2. \A i \in 1 .. Len(text) : text[i] \in S \ {SeparatorByte}
    BY <2>1, BytesAssumption DEF ToSet
  <2>3. text \in Seq(S \ {SeparatorByte})
    BY <2>1, <2>2
  <2> QED
    BY <2>3 DEF Clean
<1>2. v.name \in Clean
  BY <1>1 DEF Described, Utf8
<1>3. \A i \in 1 .. Len(v.labels) : v.labels[i] \in Clean
  <2> SUFFICES ASSUME NEW i \in 1 .. Len(v.labels) PROVE v.labels[i] \in Clean
    OBVIOUS
  <2>1. v.labels[i] \in ToSet(v.labels) /\ v.labels[i] \in Text
    BY DEF ToSet
  <2>2. ToSet(v.labels[i]) \cap BadBytes = {}
    BY <2>1 DEF Described, ValidLabel, NotInNames
  <2> QED
    BY <1>1, <2>1, <2>2
<1> QED
  BY <1>2, <1>3

\* Sequences of one and two items.
LEMMA Pairs == ASSUME NEW S, NEW x \in S, NEW y \in S PROVE <<x>> \in Seq(S) /\ <<x, y>> \in Seq(S)
  OBVIOUS

\* What is cut down to a text is one.
LEMMA ValidText == ASSUME NEW text \in Text PROVE Utf8(ToValidUTF8(text))
<1> PICK S : S = STRING \ BadBytes
  OBVIOUS
<1> DEFINE item(i) == IF text[i] \in BadBytes THEN <<>> ELSE <<text[i]>>
           items == [i \in DOMAIN text |-> item(i)]
<1>1. Len(text) \in Nat /\ DOMAIN text = 1 .. Len(text) /\ \A i \in 1 .. Len(text) : text[i] \in STRING
  <2> PICK R : R = STRING
    OBVIOUS
  <2>1. text \in Seq(R)
    BY DEF Text
  <2> QED
    BY <2>1
<1>2. \A i \in 1 .. Len(text) : item(i) \in Seq(S)
  <2> SUFFICES ASSUME NEW i \in 1 .. Len(text) PROVE item(i) \in Seq(S)
    OBVIOUS
  <2>1. CASE text[i] \in BadBytes
    BY <2>1
  <2>2. CASE text[i] \notin BadBytes
    <3>1. text[i] \in S
      BY <1>1, <2>2
    <3>2. <<text[i]>> \in Seq(S)
      BY <3>1, Pairs
    <3> QED
      BY <2>2, <3>2
  <2> QED
    BY <2>1, <2>2
<1> HIDE DEF item
<1>3. items \in Seq(Seq(S))
  BY <1>1, <1>2
<1>4. FlattenSeq(items) \in Seq(S)
  <2> HIDE DEF items
  <2> QED
    BY <1>3, FlattenType
<1>5. ToValidUTF8(text) = FlattenSeq(items)
  BY DEF ToValidUTF8, item
<1> HIDE DEF items
<1> QED
  BY <1>4, <1>5 DEF Utf8, ToSet

\* The tokens of exposed names.
Tokens == STRING \cup {"_", "trpc", "counter", "gauge", "histogram", "total", "FFFD"}

\* The words of the prefixes are tokens.
LEMMA TokensIn ==
    /\ "_" \in Tokens /\ "trpc" \in Tokens /\ "counter" \in Tokens /\ "gauge" \in Tokens
    /\ "histogram" \in Tokens /\ "total" \in Tokens /\ "FFFD" \in Tokens
  BY Zenon DEF Tokens

\* A string is a token.
LEMMA StringToken == ASSUME NEW x \in STRING PROVE x \in Tokens
  BY DEF Tokens

\* A sequence of four items.
LEMMA Fours ==
    ASSUME NEW S, NEW a \in S, NEW b \in S, NEW word \in S
    PROVE  <<a, b, word, b>> \in Seq(S) /\ Len(<<a, b, word, b>>) = 4 /\ <<a, b, word, b>>[3] = word
  OBVIOUS

\* The third token of a name with a prefix of four is that of the prefix.
LEMMA PrefixThird ==
    ASSUME NEW S, NEW prefix \in Seq(S), Len(prefix) = 4, NEW name \in Seq(S)
    PROVE  /\ prefix \o name \in Seq(S) /\ Len(prefix \o name) >= 4 /\ (prefix \o name)[3] = prefix[3]
           /\ IsPrefix(prefix, name) => Len(name) >= 4 /\ name[3] = prefix[3]
<1>1. Len(name) \in Nat /\ 3 \in 1 .. 4 + Len(name) /\ 3 \in 1 .. 4
  OBVIOUS
<1>2. prefix \o name \in Seq(S) /\ Len(prefix \o name) >= 4 /\ (prefix \o name)[3] = prefix[3]
  BY <1>1, ConcatProperties
<1>3. ASSUME IsPrefix(prefix, name) PROVE Len(name) >= 4 /\ name[3] = prefix[3]
  <2>1. Len(name) >= 4 /\ SubSeq(prefix, 1, 4) = SubSeq(name, 1, 4)
    BY <1>1, <1>3 DEF IsPrefix
  <2>2. SubSeq(prefix, 1, 4)[3] = prefix[3] /\ SubSeq(name, 1, 4)[3] = name[3]
    BY <1>1, <2>1
  <2> QED
    BY <2>1, <2>2
<1> QED
  BY <1>2, <1>3

\* A name with the prefix of a kind.
LEMMA PrefixOf ==
    ASSUME NEW word \in {"counter", "gauge", "histogram"}, NEW name \in Seq(Tokens)
    PROVE  /\ <<"trpc", "_", word, "_">> \o name \in Seq(Tokens)
           /\ Len(<<"trpc", "_", word, "_">> \o name) >= 4
           /\ (<<"trpc", "_", word, "_">> \o name)[3] = word
           /\ IsPrefix(<<"trpc", "_", word, "_">>, name) => Len(name) >= 4 /\ name[3] = word
<1> DEFINE prefix == <<"trpc", "_", word, "_">>
<1>1. prefix \in Seq(Tokens) /\ Len(prefix) = 4 /\ prefix[3] = word
  <2>1. "trpc" \in Tokens /\ "_" \in Tokens /\ word \in Tokens
    BY TokensIn
  <2> QED
    BY <2>1, Fours, Zenon
<1> HIDE DEF prefix
<1>2. /\ prefix \o name \in Seq(Tokens) /\ Len(prefix \o name) >= 4 /\ (prefix \o name)[3] = prefix[3]
      /\ IsPrefix(prefix, name) => Len(name) >= 4 /\ name[3] = prefix[3]
  BY <1>1, PrefixThird
<1> QED
  BY <1>1, <1>2 DEF prefix

\* A converted name is a sequence of tokens.
LEMMA ConvertType == ASSUME NEW name \in Seq(STRING) PROVE convertMetricName(name) \in Seq(Tokens)
<1> DEFINE replace(token) == IF token \in BadBytes THEN <<"FFFD", "_">>
                             ELSE IF token \in DOMAIN Pinyin THEN <<Pinyin[token], "_">>
                             ELSE IF token \in Separators THEN <<"_">> ELSE <<token>>
           items == [i \in DOMAIN name |-> replace(name[i])]
           converted == FlattenSeq(items)
<1>1. \A i \in 1 .. Len(name) : replace(name[i]) \in Seq(Tokens)
  <2> SUFFICES ASSUME NEW i \in 1 .. Len(name) PROVE replace(name[i]) \in Seq(Tokens)
    OBVIOUS
  <2>1. name[i] \in STRING
    <3> PICK S : S = STRING
      OBVIOUS
    <3>1. name \in Seq(S)
      OBVIOUS
    <3>2. name[i] \in S
      BY <3>1
    <3> QED
      BY <3>2
  <2>4. CASE name[i] \in BadBytes
    BY <2>4, TokensIn, Pairs
  <2>2. CASE name[i] \notin BadBytes /\ name[i] \in DOMAIN Pinyin
    <3>1. Pinyin[name[i]] \in Tokens
      BY <2>1, <2>2, PinyinAssumption, StringToken
    <3>2. replace(name[i]) = <<Pinyin[name[i]], "_">>
      BY <2>2
    <3> QED
      BY <3>1, <3>2, TokensIn, Pairs
  <2>3. CASE name[i] \notin BadBytes /\ name[i] \notin DOMAIN Pinyin
    <3>1. name[i] \in Tokens
      BY <2>1, StringToken
    <3> QED
      BY <2>3, <3>1, TokensIn, Pairs
  <2> QED
    BY <2>2, <2>3, <2>4
<1>2. items \in Seq(Seq(Tokens))
  <2> PICK R : R = Seq(Tokens)
    OBVIOUS
  <2>1. DOMAIN name = 1 .. Len(name) /\ Len(name) \in Nat
    OBVIOUS
  <2>2. items \in [1 .. Len(name) -> R]
    BY <1>1, <2>1
  <2> HIDE DEF items
  <2>3. items \in Seq(R)
    BY <2>1, <2>2
  <2> QED
    BY <2>3
<1>3. converted \in Seq(Tokens)
  <2> HIDE DEF items
  <2> QED
    BY <1>2, FlattenType
<1>4. Front(converted) \in Seq(Tokens)
  <2> HIDE DEF converted
  <2>1. CASE converted = <<>>
    <3>1. Len(converted) = 0
      BY <2>1
    <3> QED
      BY <1>3, <3>1 DEF Front
  <2>2. CASE converted # <<>>
    BY <1>3, <2>2 DEF Front
  <2> QED
    BY <2>1, <2>2
<1>5. convertMetricName(name) \in {converted, Front(converted)}
  BY DEF convertMetricName
<1> QED
  BY <1>3, <1>4, <1>5

\* A name starts with what it is of.
LEMMA CounterName == ASSUME NEW name \in Seq(Tokens) PROVE getCounterName(name)[3] = "counter"
<1> DEFINE prefix == <<"trpc", "_", "counter", "_">>
           suffix == <<"_", "total">>
           prefixed == IF IsPrefix(prefix, name) THEN name ELSE prefix \o name
<1>1. suffix \in Seq(Tokens)
  BY TokensIn, Pairs
<1> HIDE DEF suffix
<1>2. prefixed \in Seq(Tokens) /\ Len(prefixed) >= 4 /\ prefixed[3] = "counter"
  BY PrefixOf
<1>3. getCounterName(name) \in {prefixed, prefixed \o suffix}
  BY DEF getCounterName, suffix
<1> HIDE DEF prefixed
<1>4. (prefixed \o suffix)[3] = prefixed[3]
  BY <1>1, <1>2, ConcatProperties
<1> QED
  BY <1>2, <1>3, <1>4

\* As does that of a gauge.
LEMMA GaugeName == ASSUME NEW name \in Seq(Tokens) PROVE getGaugeName(name)[3] = "gauge"
  BY PrefixOf DEF getGaugeName

\* What a report makes is not exposed under a name of another kind.
LEMMA ExposedKind ==
    ASSUME NEW v \in Vec, v.by # 0
    PROVE  /\ Exposed(v)[3] = v.kind
           /\ \A w \in Vec : w.by # 0 /\ w.kind = v.kind /\ w.name = v.name => Exposed(w) = Exposed(v)
<1>1. \A w \in Vec : w.by # 0 => w # PlainVec("counter") /\ w # PlainVec("gauge")
  BY DEF PlainVec
<1>2. \A w \in Vec : w.by # 0 =>
          Exposed(w) = IF w.kind = "counter" THEN getCounterName(convertMetricName(w.name))
                       ELSE IF w.kind = "gauge" THEN getGaugeName(convertMetricName(w.name))
                       ELSE <<"trpc", "_", "histogram", "_">> \o convertMetricName(w.name)
  BY <1>1 DEF Exposed
<1>3. v.name \in Seq(STRING) /\ v.kind \in {"counter", "gauge", "histogram"}
  BY DEF Vec, VecKinds
<1>4. convertMetricName(v.name) \in Seq(Tokens)
  BY <1>3, ConvertType
<1>5. \A name \in Seq(Tokens) : (<<"trpc", "_", "histogram", "_">> \o name)[3] = "histogram"
  BY PrefixOf
<1>6. Exposed(v)[3] = v.kind
  <2>1. CASE v.kind = "counter"
    BY <1>2, <1>4, <2>1, CounterName
  <2>2. CASE v.kind = "gauge"
    BY <1>2, <1>4, <2>2, GaugeName
  <2>3. CASE v.kind = "histogram"
    BY <1>2, <1>4, <1>5, <2>3
  <2> QED
    BY <1>3, <2>1, <2>2, <2>3
<1>7. ASSUME NEW w \in Vec, w.by # 0, w.kind = v.kind, w.name = v.name PROVE Exposed(w) = Exposed(v)
  BY <1>2, <1>7
<1> QED
  BY <1>6, <1>7

\* The plain vectors are exposed under different names.
LEMMA PlainExposed == Exposed(PlainVec("counter")) # Exposed(PlainVec("gauge"))
<1>1. Exposed(PlainVec("counter"))[3] = "counter"
  BY DEF Exposed
<1>2. PlainVec("counter") # PlainVec("gauge")
  BY DEF PlainVec
<1>3. Exposed(PlainVec("gauge"))[3] = "gauge"
  BY <1>2 DEF Exposed
<1> QED
  BY <1>1, <1>3

-----------------------------------------------------------------------------
(* Who is to blame.                                                        *)

\* A stored histogram is registered, about to be, or refused, for its labels or because of
\* another of its name.
Settled(v) ==
    \/ v \in registered \/ ~ Described(v)
    \/ At(v.by, "register") /\ reportAt[v.by].vec = v
    \/ \E w \in registered : Exposed(w) = Exposed(v)

\* Every histogram is settled, and a report that panicked is to blame.
BlameInv ==
    /\ registered \subseteq {vecs[k] : k \in {h \in DOMAIN vecs : h[1] = "histogram"}}
    /\ \A k \in DOMAIN vecs : k[1] = "histogram" => Settled(vecs[k])
    /\ \A r \in Reporters : \A i : At(r, "panicked") /\ reportAt[r].i = i => Blame(<<r, i>>)

\* A vector that was made, and the report that made it.
LEMMA Maker ==
    ASSUME StoreInv, NEW k \in DOMAIN vecs, k \notin PlainKeys
    PROVE  \E q \in Reports : /\ vecs[k] = VecOf(q) /\ k = KeyOf(q[1], q[2]) /\ vecs[k] \in Vec
                              /\ vecs[k].by \in Reporters /\ vecs[k].by # 0 /\ vecs[k].by = q[1]
                              /\ vecs[k].kind = k[1] /\ vecs[k].name = Metric(q[1], q[2]).name
                              /\ vecs[k].name \in Text /\ Own(q)
                              /\ k[1] = "histogram" => k[2] = vecs[k].name
                              /\ k[1] # "histogram" => /\ record[q[1]].dims # <<>>
                                                       /\ vecs[k].labels = Labels(q[1])
                                                       /\ k[2] = labelsHash(vecs[k].name, vecs[k].labels)
<1>1. PICK q \in Reports : vecs[k] = VecOf(q) /\ k = KeyOf(q[1], q[2])
  BY DEF StoreInv, VecInv
<1>2. SinkType /\ q[1] \in Reporters /\ q[2] \in DOMAIN record[q[1]].metrics
  BY ReportsItems DEF StoreInv
<1>3. /\ NewVec(q[1], q[2]) \in Vec /\ Metric(q[1], q[2]).name \in Text
      /\ Kind(Metric(q[1], q[2]).policy) \in VecKinds
  BY <1>2, ReportType
<1>4. vecs[k].by = q[1] /\ vecs[k].kind = Kind(Metric(q[1], q[2]).policy) /\ vecs[k].name = Metric(q[1], q[2]).name
  BY <1>1 DEF VecOf, NewVec
<1>5. k[1] = vecs[k].kind /\ (k[1] = "histogram" => k[2] = vecs[k].name)
  BY <1>1, <1>4 DEF KeyOf
<1>6. ASSUME k[1] # "histogram"
      PROVE  /\ record[q[1]].dims # <<>> /\ vecs[k].labels = Labels(q[1])
             /\ k[2] = labelsHash(vecs[k].name, vecs[k].labels)
  <2>1. record[q[1]].dims # <<>>
    BY <1>1, <1>3, <1>4, <1>5, <1>6 DEF KeyOf, PlainKeys, VecKinds
  <2>2. vecs[k].labels = Labels(q[1])
    BY <1>1, <2>1 DEF VecOf, NewVec
  <2> QED
    BY <1>1, <1>4, <1>5, <1>6, <2>1, <2>2 DEF KeyOf
<1>7. vecs[k].by \in Reporters /\ vecs[k].by # 0
  BY <1>2, <1>4, ReportersAssumption
<1>8. Own(q)
  BY <1>1, <1>5, <1>6 DEF Own
<1> QED
  BY <1>1, <1>3, <1>4, <1>5, <1>6, <1>7, <1>8 DEF VecOf

\* Two that were made under the same name differ in their kinds or labels.
LEMMA MadeOnce ==
    ASSUME StoreInv, NEW k \in DOMAIN vecs \ PlainKeys, NEW l \in DOMAIN vecs \ PlainKeys,
           vecs[k].kind = vecs[l].kind, vecs[k].name = vecs[l].name,
           vecs[k].kind = "histogram" \/ vecs[k].labels = vecs[l].labels
    PROVE  k = l
<1>1. /\ vecs[k].kind = k[1] /\ (k[1] = "histogram" => k[2] = vecs[k].name)
      /\ k[1] # "histogram" => k[2] = labelsHash(vecs[k].name, vecs[k].labels)
  BY Maker
<1>2. /\ vecs[l].kind = l[1] /\ (l[1] = "histogram" => l[2] = vecs[l].name)
      /\ l[1] # "histogram" => l[2] = labelsHash(vecs[l].name, vecs[l].labels)
  BY Maker
<1>3. k = <<k[1], k[2]>> /\ l = <<l[1], l[2]>>
  BY Maker DEF KeyOf
<1> QED
  BY <1>1, <1>2, <1>3

\* A report that panics is to blame for one of the reasons.
LEMMA PanicBlame ==
    ASSUME StoreInv, NEW r \in Reporters, reportAt[r].step = "add", NEW i, i = reportAt[r].i,
           Refuses(reportAt[r].vec, SeriesOf(r, i), Metric(r, i).value)
    PROVE  Blame(<<r, i>>)
<1> DEFINE k == KeyOf(r, i)
           own == NewVec(r, i)
           dims == record[r].dims
           p == <<r, i>>
<1>1. /\ SinkType /\ i \in DOMAIN record[r].metrics /\ k \in DOMAIN vecs /\ vecs[k] = reportAt[r].vec
      /\ VecInv(k)
  BY DEF StoreInv, SinkType, Stage
<1>2. /\ own \in Vec /\ own.by = r /\ own.by # 0 /\ own.kind = k[1] /\ own.name = Metric(r, i).name
      /\ own.name \in Text /\ k[1] \in VecKinds /\ Labels(r) \in Seq(Text)
      /\ Len(Labels(r)) = Len(dims) /\ dims \in Seq(Text \X Text) /\ p \in Reports
  BY <1>1, ReportType, ReportersAssumption DEF NewVec, KeyOf
<1>3. VecOf(p) = own /\ p[1] = r /\ p[2] = i
  BY DEF VecOf
\* The one that is stored for another's histogram of the name.
<1>4. ASSUME k[1] = "histogram", vecs[k].labels # own.labels PROVE OneOfTwo(p)
  <2>1. k \notin PlainKeys
    BY <1>4 DEF PlainKeys
  <2>2. PICK q \in Reports : /\ vecs[k] = VecOf(q) /\ vecs[k] \in Vec /\ vecs[k].by # 0 /\ vecs[k].kind = k[1]
                             /\ k[2] = vecs[k].name /\ Own(q)
    BY <1>1, <1>4, <2>1, Maker
  <2>3. own.name = k[2]
    BY <1>2, <1>4 DEF KeyOf
  <2>4. Exposed(own) = Exposed(vecs[k])
    BY <1>2, <2>2, <2>3, ExposedKind
  <2>5. Own(p)
    BY <1>2, <1>3, <1>4 DEF Own
  <2> HIDE DEF own, k, dims, p
  <2>6. q # p
    BY <1>3, <1>4, <2>2
  <2> QED
    BY <1>3, <1>4, <2>2, <2>4, <2>5, <2>6 DEF OneOfTwo
<1>5. vecs[k].kind = k[1]
  <2>1. CASE k \in PlainKeys
    BY <1>1, <2>1 DEF VecInv, PlainVec
  <2>2. CASE k \notin PlainKeys
    BY <1>1, <2>2, Maker
  <2> QED
    BY <2>1, <2>2
<1>6. CASE Len(vecs[k].labels) # Len(SeriesOf(r, i))
  <2>1. Len(own.labels) = Len(SeriesOf(r, i)) \/ (dims = <<>> /\ k[1] # "histogram")
    <3>1. CASE dims = <<>>
      BY <3>1 DEF NewVec, SeriesOf, KeyOf
    <3>2. CASE dims # <<>>
      <4>1. own.labels = Labels(r) /\ SeriesOf(r, i) = Values(r)
        BY <3>2 DEF NewVec, SeriesOf
      <4>2. Len(Values(r)) = Len(dims)
        BY <1>2 DEF Values
      <4> QED
        BY <1>2, <4>1, <4>2
    <3> QED
      BY <3>1, <3>2
  <2>2. CASE dims = <<>> /\ k[1] # "histogram"
    <3>1. k = <<k[1], <<>> >> /\ k \in PlainKeys
      BY <1>2, <2>2 DEF KeyOf, PlainKeys, VecKinds
    <3>2. vecs[k] = PlainVec(k[1])
      BY <1>1, <3>1 DEF VecInv
    <3>3. Len(vecs[k].labels) = 1
      BY <3>2 DEF PlainVec
    <3>4. Len(SeriesOf(r, i)) = 1
      BY <2>2 DEF SeriesOf, KeyOf
    <3> QED
      BY <1>6, <3>3, <3>4
  <2>3. CASE dims # <<>> /\ k[1] # "histogram"
    <3>1. k[2] = labelsHash(own.name, Labels(r)) /\ own.labels = Labels(r)
      BY <1>2, <2>3 DEF KeyOf, NewVec
    <3>2. k \notin PlainKeys
      <4>1. Labels(r) # <<>>
        BY <1>2, <2>3
      <4>2. k[2] # <<>>
        BY <1>2, <3>1, <4>1, HashNonEmpty
      <4> QED
        BY <4>2 DEF PlainKeys
    <3>3. PICK q \in Reports : /\ vecs[k] = VecOf(q) /\ k = KeyOf(q[1], q[2]) /\ vecs[k].kind = k[1]
                               /\ vecs[k].labels = Labels(q[1]) /\ k[2] = labelsHash(vecs[k].name, vecs[k].labels)
                               /\ vecs[k].name \in Text /\ vecs[k].by # 0 /\ Own(q)
      BY <1>1, <2>3, <3>2, Maker
    <3>4. Labels(q[1]) \in Seq(Text)
      BY <1>1, ReportsItems, ReportType
    <3>5. Own(p)
      BY <1>3, <2>3 DEF Own
    <3>6. Len(own.labels) # Len(vecs[k].labels)
      BY <1>6, <2>1, <2>3
    <3>7. Malformed(p) \/ Malformed(q)
      <4> SUFFICES ASSUME ~ Malformed(p), ~ Malformed(q) PROVE FALSE
        OBVIOUS
      <4>1. Described(own) /\ Described(vecs[k])
        BY <1>3, <3>3, <3>5 DEF Malformed
      <4>2. own.name \in Clean /\ own.labels \in Seq(Clean)
        BY <1>2, <2>3, <3>1, <4>1, DescribedClean
      <4>3. vecs[k].name \in Clean /\ vecs[k].labels \in Seq(Clean)
        BY <2>3, <3>3, <3>4, <4>1, DescribedClean
      <4> HIDE DEF own, k
      <4>4. Cardinality(Marks(k[2])) = Len(own.labels)
        BY <3>1, <4>2, HashMarks
      <4>5. Cardinality(Marks(k[2])) = Len(vecs[k].labels)
        BY <3>3, <4>3, HashMarks
      <4> QED
        BY <3>6, <4>4, <4>5
    <3>8. HashOfTwo(p)
      <4>1. KeyOf(p[1], p[2]) = KeyOf(q[1], q[2])
        BY <1>3, <3>3
      <4> HIDE DEF own, k, p
      <4> QED
        BY <1>3, <3>3, <3>6, <3>7, <4>1 DEF HashOfTwo
    <3> QED
      BY <3>8 DEF Blame
  <2>4. CASE k[1] = "histogram"
    <3>1. vecs[k].labels # own.labels
      BY <1>6, <2>1, <2>4
    <3> QED
      BY <1>4, <2>4, <3>1 DEF Blame
  <2> QED
    BY <2>2, <2>3, <2>4
<1>7. CASE \E text \in ToSet(SeriesOf(r, i)) : ~ Utf8(text)
  <2>1. CASE dims # <<>>
    <3>1. SeriesOf(r, i) = Values(r)
      BY <2>1 DEF SeriesOf
    <3>2. BadValue(p)
      BY <1>3, <1>7, <3>1 DEF BadValue
    <3> QED
      BY <3>2 DEF Blame
  <2>2. CASE dims = <<>>
    <3> PICK t : t = ToValidUTF8(Metric(r, i).name)
      OBVIOUS
    <3> PICK h : h = <<"histogram">>
      OBVIOUS
    <3>1. Utf8(t)
      BY <1>2, ValidText
    <3>2. Utf8(h)
      BY BytesAssumption DEF Utf8, ToSet
    <3>3. SeriesOf(r, i) \in {<<t, h>>, <<t>>}
      BY <2>2 DEF SeriesOf
    <3>4. ToSet(<<t, h>>) \subseteq {t, h} /\ ToSet(<<t>>) \subseteq {t, h}
      BY DEF ToSet
    <3> QED
      BY <1>7, <3>1, <3>2, <3>3, <3>4
  <2> QED
    BY <2>1, <2>2
<1>8. CASE vecs[k].kind = "histogram" /\ <<"le">> \in ToSet(vecs[k].labels)
  <2>1. CASE vecs[k].labels = own.labels
    <3>1. BadValue(p)
      BY <1>2, <1>3, <1>5, <1>8, <2>1 DEF BadValue
    <3> QED
      BY <3>1 DEF Blame
  <2>2. CASE vecs[k].labels # own.labels
    BY <1>4, <1>5, <1>8, <2>2 DEF Blame
  <2> QED
    BY <2>1, <2>2
<1>9. CASE vecs[k].kind = "counter" /\ Metric(r, i).value < 0
  <2>1. BadValue(p)
    BY <1>2, <1>3, <1>5, <1>9 DEF BadValue
  <2> QED
    BY <2>1 DEF Blame
<1>10. \/ Len(vecs[k].labels) # Len(SeriesOf(r, i))
       \/ \E text \in ToSet(SeriesOf(r, i)) : ~ Utf8(text)
       \/ vecs[k].kind = "histogram" /\ <<"le">> \in ToSet(vecs[k].labels)
       \/ vecs[k].kind = "counter" /\ Metric(r, i).value < 0
  BY <1>1 DEF Refuses
<1> QED
  BY <1>6, <1>7, <1>8, <1>9, <1>10

\* At first nothing is registered and no report has panicked.
LEMMA BlameInit ==
    ASSUME NEW records \in SUBSET [Reporters -> Record], InitSink(records)
    PROVE  BlameInv
<1>1. vecs = NewSink /\ registered = {} /\ \A r \in Reporters : reportAt[r].step # "panicked"
  BY DEF InitSink
<1>2. \A k \in DOMAIN vecs : k[1] # "histogram"
  BY <1>1 DEF NewSink
<1> QED
  BY <1>1, <1>2 DEF BlameInv, At

\* No step takes a vector or a registration away.
LEMMA BlameStep ==
    ASSUME StoreInv, BlameInv, NEW r \in Reporters, UNCHANGED record,
           \A q \in Reporters \ {r} : reportAt'[q] = reportAt[q],
           \A k \in DOMAIN vecs : k \in DOMAIN vecs' /\ vecs'[k] = vecs[k],
           registered \subseteq registered',
           \A v \in registered' : v \in registered \/ \E k \in DOMAIN vecs : k[1] = "histogram" /\ v = vecs[k],
           \A k \in DOMAIN vecs' : k \notin DOMAIN vecs /\ k[1] = "histogram"
                                       => \E v : v = vecs'[k] /\ Settled(v)',
           At(r, "register") => \E v : v = reportAt[r].vec /\ Settled(v)',
           At(r, "panicked")' => Blame(<<r, reportAt[r].i>>) /\ reportAt'[r].i = reportAt[r].i
    PROVE  BlameInv'
<1>1. registered' \subseteq {vecs'[k] : k \in {h \in DOMAIN vecs' : h[1] = "histogram"}}
  <2> SUFFICES ASSUME NEW v \in registered'
               PROVE  \E k \in DOMAIN vecs' : k[1] = "histogram" /\ v = vecs'[k]
    OBVIOUS
  <2>1. \E k \in DOMAIN vecs : k[1] = "histogram" /\ v = vecs[k]
    BY DEF BlameInv
  <2> QED
    BY <2>1
<1>2. ASSUME NEW k \in DOMAIN vecs', k[1] = "histogram" PROVE \E v : v = vecs'[k] /\ Settled(v)'
  <2>1. CASE k \in DOMAIN vecs
    <3> PICK v : v = vecs[k]
      OBVIOUS
    <3>1. vecs'[k] = v /\ Settled(v)
      BY <1>2, <2>1 DEF BlameInv
    <3>2. v.by \in Reporters
      <4>1. k \notin PlainKeys
        BY <1>2 DEF PlainKeys
      <4> QED
        BY <2>1, <4>1, Maker
    <3>3. CASE v \in registered \/ ~ Described(v) \/ \E w \in registered : Exposed(w) = Exposed(v)
      BY <3>1, <3>3 DEF Settled
    <3>4. CASE At(v.by, "register") /\ reportAt[v.by].vec = v /\ v.by # r
      BY <3>1, <3>2, <3>4 DEF Settled, At
    <3>5. CASE At(v.by, "register") /\ reportAt[v.by].vec = v /\ v.by = r
      BY <3>1, <3>5
    <3> QED
      BY <3>1, <3>3, <3>4, <3>5 DEF Settled
  <2>2. CASE k \notin DOMAIN vecs
    BY <1>2, <2>2
  <2> QED
    BY <2>1, <2>2
<1>3. ASSUME NEW q \in Reporters, NEW j, At(q, "panicked")', reportAt'[q].i = j PROVE Blame(<<q, j>>)'
  <2>1. Blame(<<q, j>>)
    <3>1. CASE q = r
      <4>1. j = reportAt[r].i /\ Blame(<<r, reportAt[r].i>>)
        BY <1>3, <3>1
      <4> QED
        BY <3>1, <4>1
    <3>2. CASE q # r
      BY <1>3, <3>2 DEF BlameInv, At
    <3> QED
      BY <3>1, <3>2
  <2> QED
    BY <2>1, RecordStays
<1>4. ASSUME NEW k \in DOMAIN vecs', k[1] = "histogram" PROVE Settled(vecs[k])'
  <2>1. PICK v : v = vecs'[k] /\ Settled(v)'
    BY <1>2, <1>4
  <2> QED
    BY <2>1 DEF Settled, At
<1> QED
  BY <1>1, <1>3, <1>4 DEF BlameInv

\* A look-up neither panics nor takes a registration away.
LEMMA LoadBlame == ASSUME StoreInv, BlameInv, NEW r \in Reporters, Load(r) PROVE BlameInv'
<1>1. /\ UNCHANGED <<record, vecs, registered>> /\ ~ At(r, "register")
      /\ \A q \in Reporters \ {r} : reportAt'[q] = reportAt[q]
      /\ reportAt'[r].step # "panicked"
  BY DEF Load, GoTo, At, StoreInv, SinkType
<1>2. ~ At(r, "panicked")'
  BY <1>1 DEF At
<1> QED
  BY <1>1, <1>2, BlameStep

\* Who stores a histogram goes on to register it.
LEMMA LoadOrStoreBlame == ASSUME StoreInv, BlameInv, NEW r \in Reporters, LoadOrStore(r) PROVE BlameInv'
<1> PICK i : i = reportAt[r].i
  OBVIOUS
<1> PICK new : new = reportAt[r].vec
  OBVIOUS
<1> PICK key : key = KeyOf(r, i)
  OBVIOUS
<1>1. /\ UNCHANGED <<record, registered>> /\ ~ At(r, "register") /\ At(r, "store")
      /\ \A q \in Reporters \ {r} : reportAt'[q] = reportAt[q]
      /\ reportAt'[r].step # "panicked"
  BY DEF LoadOrStore, GoTo, At, StoreInv, SinkType
<1>2. new = NewVec(r, i)
  BY <1>1 DEF StoreInv, Stage, At
<1>3. new.by = r /\ new.kind = key[1]
  BY <1>2 DEF NewVec, KeyOf
<1>4. vecs' = IF key \in DOMAIN vecs THEN vecs ELSE Bind(vecs, key, new)
  BY DEF LoadOrStore
<1>5. \A k \in DOMAIN vecs : k \in DOMAIN vecs' /\ vecs'[k] = vecs[k]
  BY <1>4 DEF Bind
<1>6. ASSUME NEW k \in DOMAIN vecs', k \notin DOMAIN vecs, k[1] = "histogram"
      PROVE  \E v : v = vecs'[k] /\ Settled(v)'
  <2>1. k = key /\ vecs'[k] = new /\ key \notin DOMAIN vecs
    BY <1>4, <1>6 DEF Bind
  <2>2. reportAt'[r].step = "register" /\ reportAt'[r].vec = new
    BY <1>3, <1>6, <2>1 DEF LoadOrStore, GoTo, StoreInv, SinkType
  <2>3. Settled(new)'
    BY <1>3, <2>2 DEF Settled, At
  <2> QED
    BY <2>1, <2>3
<1>7. ~ At(r, "panicked")'
  BY <1>1 DEF At
<1> QED
  BY <1>1, <1>5, <1>6, <1>7, BlameStep

\* What was to be registered is, or another one of its name was before.
LEMMA RegisterBlame == ASSUME StoreInv, BlameInv, NEW r \in Reporters, RegisterHistogram(r) PROVE BlameInv'
<1> PICK v : v = reportAt[r].vec
  OBVIOUS
<1>1. /\ UNCHANGED <<record, vecs>> /\ At(r, "register")
      /\ registered' = IF ~ Described(v) \/ \E w \in registered : Exposed(w) = Exposed(v)
                       THEN registered ELSE registered \cup {v}
      /\ \A q \in Reporters \ {r} : reportAt'[q] = reportAt[q]
      /\ reportAt'[r].step # "panicked"
  BY DEF RegisterHistogram, GoTo, At, StoreInv, SinkType
<1>2. PICK k \in DOMAIN vecs : v = vecs[k] /\ v.kind = "histogram"
  BY <1>1 DEF StoreInv, Stage, At
<1>3. k[1] = "histogram"
  <2>1. CASE k \in PlainKeys
    BY <1>2, <2>1 DEF StoreInv, VecInv, PlainVec
  <2>2. CASE k \notin PlainKeys
    BY <1>2, <2>2, Maker
  <2> QED
    BY <2>1, <2>2
<1>4. Settled(v)'
  BY <1>1 DEF Settled
<1>5. ~ At(r, "panicked")'
  BY <1>1 DEF At
<1>6. \A w \in registered' : w \in registered \/ \E l \in DOMAIN vecs : l[1] = "histogram" /\ w = vecs[l]
  BY <1>1, <1>2, <1>3
<1>7. /\ registered \subseteq registered'
      /\ \A l \in DOMAIN vecs : l \in DOMAIN vecs' /\ vecs'[l] = vecs[l]
      /\ \A l \in DOMAIN vecs' : l \in DOMAIN vecs
  BY <1>1
<1> QED
  BY <1>1, <1>4, <1>5, <1>6, <1>7, BlameStep

\* A report panics only for the reasons there are.
LEMMA AddBlame == ASSUME StoreInv, BlameInv, NEW r \in Reporters, Add(r) PROVE BlameInv'
<1>1. /\ UNCHANGED <<record, vecs, registered>> /\ At(r, "add") /\ ~ At(r, "register")
      /\ \A q \in Reporters \ {r} : reportAt'[q] = reportAt[q]
  BY DEF Add, GoTo, At, StoreInv, SinkType
<1>2. ASSUME At(r, "panicked")'
      PROVE  Blame(<<r, reportAt[r].i>>) /\ reportAt'[r].i = reportAt[r].i
  <2>1. CASE Refused(r)
    <3>1. reportAt'[r].i = reportAt[r].i
      BY <2>1 DEF Add, GoTo, StoreInv, SinkType, Refused
    <3>2. Blame(<<r, reportAt[r].i>>)
      BY <1>1, <2>1, PanicBlame DEF At, Refused
    <3> QED
      BY <3>1, <3>2
  <2>2. CASE ~ Refused(r)
    <3>1. reportAt'[r].step \in {"load", "done"}
      BY <2>2 DEF Add, StoreInv, SinkType, Refused
    <3> QED
      BY <1>2, <3>1 DEF At
  <2> QED
    BY <2>1, <2>2
<1> QED
  BY <1>1, <1>2, BlameStep

\* Nothing reports.
LEMMA SinkStays ==
    ASSUME UNCHANGED sinkVars, StoreInv, CountInv, BlameInv
    PROVE  StoreInv' /\ CountInv' /\ BlameInv'
<1>1. UNCHANGED <<record, reportAt, vecs, registered, total>>
  BY DEF sinkVars
<1>2. /\ \A r, i : KeyOf(r, i)' = KeyOf(r, i) /\ SeriesOf(r, i)' = SeriesOf(r, i) /\ NewVec(r, i)' = NewVec(r, i)
      /\ \A p : VecOf(p)' = VecOf(p) /\ Blame(p)' = Blame(p)
      /\ \A p : Metric(p[1], p[2])' = Metric(p[1], p[2])
      /\ Reports' = Reports /\ Past' = Past
  BY <1>1, RecordStays DEF Past
<1>3. StoreInv'
  <2>1. SinkType'
    BY <1>1 DEF StoreInv, SinkType
  <2>2. \A k : VecInv(k)' = VecInv(k)
    BY <1>1, <1>2 DEF VecInv
  <2>3. ASSUME NEW r PROVE Stage(r)' = Stage(r)
    <3> PICK i : i = reportAt[r].i
      OBVIOUS
    <3>1. KeyOf(r, i)' = KeyOf(r, i) /\ NewVec(r, i)' = NewVec(r, i)
      BY <1>2
    <3> QED
      BY <1>1, <3>1 DEF Stage
  <2> QED
    BY <1>1, <2>1, <2>2, <2>3 DEF StoreInv
<1>4. CountInv'
  <2>1. \A key, values : PastOf(key, values)' = PastOf(key, values)
    BY <1>2 DEF PastOf
  <2>2. \A S : ValuesOf(S)' = ValuesOf(S)
    BY <1>2 DEF ValuesOf
  <2>3. \A vec, values : Shown(vec, values)' = Shown(vec, values)
    BY <1>1 DEF Shown
  <2>4. ReportsCounted'
    BY <1>1, <1>2, <2>1, <2>2, <2>3 DEF CountInv, ReportsCounted
  <2> QED
    BY <1>1, <1>2, <2>4 DEF CountInv
<1>5. BlameInv'
  <2>1. \A v : Settled(v)' = Settled(v)
    BY <1>1 DEF Settled, At
  <2>2. \A k \in DOMAIN vecs : k[1] = "histogram" => Settled(vecs[k])'
    BY <1>1, <2>1 DEF BlameInv, Settled, At
  <2>3. \A r \in Reporters : \A i : At(r, "panicked")' /\ reportAt'[r].i = i => Blame(<<r, i>>)'
    BY <1>1, <1>2 DEF BlameInv, At
  <2> QED
    BY <1>1, <2>2, <2>3 DEF BlameInv
<1> QED
  BY <1>3, <1>4, <1>5

\* No step of the sink breaks what is counted, or whom a loss is blamed on.
LEMMA SinkKept ==
    ASSUME StoreInv, CountInv, BlameInv, [SinkNext]_sinkVars
    PROVE  StoreInv' /\ CountInv' /\ BlameInv'
<1>1. CASE UNCHANGED sinkVars
  BY <1>1, SinkStays
<1>2. CASE SinkNext
  <2> PICK r \in Reporters : Load(r) \/ LoadOrStore(r) \/ RegisterHistogram(r) \/ Add(r)
    BY <1>2 DEF SinkNext
  <2>1. CASE Load(r)
    BY <2>1, LoadKeeps, LoadBlame
  <2>2. CASE LoadOrStore(r)
    BY <2>2, LoadOrStoreKeeps, LoadOrStoreBlame
  <2>3. CASE RegisterHistogram(r)
    BY <2>3, RegisterKeeps, RegisterBlame
  <2>4. CASE Add(r)
    BY <2>4, AddPanics, AddCounts, AddBlame
  <2> QED
    BY <2>1, <2>2, <2>3, <2>4
<1> QED
  BY <1>1, <1>2

\* A vector made under another name or with other labels than a report's, and exposed
\* under the same name, is of another report.
LEMMA MadeByTwo ==
    ASSUME NEW p \in Reports, NEW q \in Reports, Exposed(VecOf(p)) = Exposed(VecOf(q)), Own(p), Own(q),
           VecOf(p).name # VecOf(q).name \/ VecOf(p).labels # VecOf(q).labels
    PROVE  OneOfTwo(p)
  BY DEF OneOfTwo

\* A histogram that is not registered: it cannot be, or another one was, that is exposed
\* under its name.
LEMMA UnseenBlamed ==
    ASSUME StoreInv, CountInv, BlameInv, NEW p \in Past, NEW v, v = vecs[KeyOf(p[1], p[2])],
           v.kind = "histogram", v \notin registered
    PROVE  At(v.by, "register") \/ OneOfTwo(p) \/ Malformed(p)
<1> PICK k : k = KeyOf(p[1], p[2])
  OBVIOUS
<1>1. SinkType /\ k \in DOMAIN vecs /\ v = vecs[k] /\ VecInv(k)
  BY DEF StoreInv, CountInv
<1>2. p \in Reports
  <2>1. PICK r \in Reporters : \E j \in 1 .. reportAt[r].i - 1 : p = <<r, j>>
    BY <1>1, PastItems
  <2>2. PICK j \in 1 .. reportAt[r].i - 1 : p = <<r, j>>
    BY <2>1
  <2>3. DOMAIN record[r].metrics = 1 .. Len(record[r].metrics) /\ Len(record[r].metrics) \in Nat
    BY <1>1, RecordType DEF SinkType
  <2>4. j \in DOMAIN record[r].metrics
    BY <1>1, <2>3 DEF SinkType
  <2> QED
    BY <2>2, <2>4 DEF Reports
<1>3. k \notin PlainKeys /\ k[1] = "histogram"
  <2>1. k \notin PlainKeys
    BY <1>1 DEF VecInv, PlainKeys, PlainVec
  <2> QED
    BY <1>1, <2>1, Maker
<1>4. PICK o \in Reports : v \in Vec /\ v.by # 0 /\ v.name = k[2] /\ v = VecOf(o) /\ Own(o)
  BY <1>1, <1>3, Maker
<1>5. /\ VecOf(p) \in Vec /\ VecOf(p).by # 0 /\ VecOf(p).kind = "histogram" /\ VecOf(p).name = k[2]
  <2>1. p[1] \in Reporters /\ p[2] \in DOMAIN record[p[1]].metrics
    BY <1>2, ReportsItems
  <2>2. NewVec(p[1], p[2]) \in Vec /\ p[1] # 0
    BY <1>1, <2>1, ReportType, ReportersAssumption
  <2>3. Kind(Metric(p[1], p[2]).policy) = "histogram" /\ Metric(p[1], p[2]).name = k[2]
    BY <1>3 DEF KeyOf
  <2> QED
    BY <2>2, <2>3 DEF VecOf, NewVec
<1>6. Exposed(VecOf(p)) = Exposed(v) /\ Own(p)
  BY <1>4, <1>5, ExposedKind DEF Own
<1>7. CASE \E w \in registered : Exposed(w) = Exposed(v)
  <2>1. PICK w \in registered : Exposed(w) = Exposed(v)
    BY <1>7
  <2>2. PICK l \in DOMAIN vecs : l[1] = "histogram" /\ w = vecs[l]
    BY DEF BlameInv
  <2>3. l \notin PlainKeys
    BY <2>2 DEF PlainKeys
  <2>4. PICK q \in Reports : w = VecOf(q) /\ w.kind = "histogram" /\ Own(q)
    BY <2>2, <2>3, Maker
  <2>5. v.name # w.name
    BY <1>1, <1>3, <2>2, <2>3, <2>4, MadeOnce
  <2> QED
    BY <1>2, <1>4, <1>5, <1>6, <2>1, <2>4, <2>5, MadeByTwo
<1>8. CASE ~ Described(v)
  <2>1. CASE VecOf(p).labels = v.labels
    <3>1. ~ Described(VecOf(p))
      BY <1>4, <1>5, <1>8, <2>1 DEF Described
    <3> QED
      BY <1>6, <3>1 DEF Malformed
  <2>2. CASE VecOf(p).labels # v.labels
    BY <1>2, <1>4, <1>6, <2>2, MadeByTwo
  <2> QED
    BY <2>1, <2>2
<1>9. Settled(v)
  BY <1>1, <1>3 DEF BlameInv
<1> QED
  BY <1>7, <1>8, <1>9 DEF Settled

\* The vectors of a scrape are stored.
LEMMA ScrapedStored == ASSUME BlameInv, NEW s \in InScrape PROVE \E k \in DOMAIN vecs : s[1] = vecs[k]
<1>1. s[1] \in Scraped
  BY DEF InScrape
<1> QED
  BY <1>1 DEF Scraped, BlameInv

\* What may be named as the reason that a scrape fails.
FailBlamed(p) ==
    \/ OneOfTwo(p) \/ Malformed(p)
    \/ Own(p) /\ \E kind \in {"counter", "gauge"} : Exposed(VecOf(p)) = Exposed(PlainVec(kind))
    \/ \E q \in Reports : Suffixed(VecOf(p), VecOf(q))

\* Series that do not go together.
LEMMA ClashBlamed ==
    ASSUME StoreInv, BlameInv, NEW s \in InScrape, NEW t \in InScrape, Clash(s, t)
    PROVE  \E p \in Reports : FailBlamed(p)
<1> PICK v : v = s[1]
  OBVIOUS
<1> PICK w : w = t[1]
  OBVIOUS
<1>1. PICK k \in DOMAIN vecs : v = vecs[k]
  BY ScrapedStored
<1>2. PICK l \in DOMAIN vecs : w = vecs[l]
  BY ScrapedStored
<1>3. v # w /\ Exposed(v) = Exposed(w)
  BY DEF Clash
<1>4. \A key \in PlainKeys \cap DOMAIN vecs : key[1] \in {"counter", "gauge"} /\ vecs[key] = PlainVec(key[1])
  BY DEF StoreInv, VecInv, PlainKeys
<1>5. CASE k \in PlainKeys /\ l \in PlainKeys
  BY <1>1, <1>2, <1>3, <1>4, <1>5, PlainExposed
<1>6. CASE k \in PlainKeys /\ l \notin PlainKeys
  <2>1. PICK q \in Reports : w = VecOf(q) /\ Own(q)
    BY <1>2, <1>6, Maker
  <2> QED
    BY <1>1, <1>3, <1>4, <1>6, <2>1 DEF FailBlamed
<1>7. CASE k \notin PlainKeys /\ l \in PlainKeys
  <2>1. PICK q \in Reports : v = VecOf(q) /\ Own(q)
    BY <1>1, <1>7, Maker
  <2> QED
    BY <1>2, <1>3, <1>4, <1>7, <2>1 DEF FailBlamed
<1>8. CASE k \notin PlainKeys /\ l \notin PlainKeys
  <2>1. PICK p \in Reports : v = VecOf(p) /\ v \in Vec /\ v.by # 0 /\ Own(p)
    BY <1>1, <1>8, Maker
  <2>2. PICK q \in Reports : w = VecOf(q) /\ w \in Vec /\ w.by # 0 /\ Own(q)
    BY <1>2, <1>8, Maker
  <2>3. v.kind = w.kind
    BY <1>3, <2>1, <2>2, ExposedKind
  <2>4. v.name # w.name \/ v.labels # w.labels
    BY <1>1, <1>2, <1>3, <1>8, <2>3, MadeOnce
  <2> QED
    BY <1>3, <2>1, <2>2, <2>4, MadeByTwo DEF FailBlamed
<1> QED
  BY <1>5, <1>6, <1>7, <1>8

\* A series that is not described is of a report that cannot be.
LEMMA UndescribedBlamed ==
    ASSUME StoreInv, BlameInv, NEW s \in InScrape, ~ Described(s[1])
    PROVE  \E p \in Reports : FailBlamed(p)
<1>1. PICK k \in DOMAIN vecs : s[1] = vecs[k]
  BY ScrapedStored
<1>2. k \notin PlainKeys
  <2>1. \A key \in PlainKeys \cap DOMAIN vecs : vecs[key].by = 0
    BY DEF StoreInv, VecInv, PlainVec
  <2> QED
    BY <1>1, <2>1 DEF Described
<1>3. PICK q \in Reports : vecs[k] = VecOf(q) /\ Own(q)
  BY <1>1, <1>2, Maker
<1> QED
  BY <1>1, <1>3 DEF Malformed, FailBlamed

\* Histograms of which one has the name of another with a suffix.
LEMMA SuffixBlamed ==
    ASSUME StoreInv, BlameInv, NEW s \in InScrape, NEW t \in InScrape, Suffixed(s[1], t[1])
    PROVE  \E p \in Reports : FailBlamed(p)
<1>1. PICK k \in DOMAIN vecs : s[1] = vecs[k]
  BY ScrapedStored
<1>2. PICK l \in DOMAIN vecs : t[1] = vecs[l]
  BY ScrapedStored
<1>3. k \notin PlainKeys /\ l \notin PlainKeys
  <2>1. \A key \in PlainKeys \cap DOMAIN vecs : vecs[key].kind # "histogram"
    BY DEF StoreInv, VecInv, PlainVec, PlainKeys
  <2> QED
    BY <1>1, <1>2, <2>1 DEF Suffixed
<1>4. PICK p \in Reports : vecs[k] = VecOf(p)
  BY <1>3, Maker
<1>5. PICK q \in Reports : vecs[l] = VecOf(q)
  BY <1>3, Maker
<1>6. Suffixed(VecOf(p), VecOf(q))
  BY <1>1, <1>2, <1>4, <1>5
<1> QED
  BY <1>6 DEF FailBlamed

\* What the invariants say is enough for the blame.
LEMMA Blamed ==
    ASSUME StoreInv, CountInv, BlameInv
    PROVE  FailuresBlamed
<1>1. \A r \in Reporters : At(r, "panicked") => Blame(<<r, reportAt[r].i>>)
  BY DEF BlameInv
<1>2. ASSUME NEW p \in Past, NEW v, v = vecs[KeyOf(p[1], p[2])], v.kind = "histogram", v \notin registered
      PROVE  At(v.by, "register") \/ OneOfTwo(p) \/ Malformed(p)
  BY <1>2, UnseenBlamed
<1>3. ScrapeFails => \E p \in Reports : FailBlamed(p)
  BY ClashBlamed, UndescribedBlamed, SuffixBlamed DEF ScrapeFails
<1> QED
  BY <1>1, <1>2, <1>3 DEF FailuresBlamed, Blame, FailBlamed

-----------------------------------------------------------------------------
(* What is reported and added is accounted for.                            *)

MetricInv == KeptInv /\ AnswerInv /\ StoreInv /\ CountInv /\ BlameInv

\* The invariants hold at first,
LEMMA MetricInit == Init => MetricInv
<1> SUFFICES ASSUME Init PROVE MetricInv
  OBVIOUS
<1>1. PICK records \in SUBSET [Reporters -> Record] : InitSink(records)
  <2>1. OneOf(Records) \in Records
    BY RecordsAssumption DEF OneOf
  <2>2. Records \in SUBSET [Reporters -> Record] /\ {OneOf(Records)} \in SUBSET [Reporters -> Record]
    BY <2>1, RecordsAssumption
  <2> QED
    BY <2>2 DEF Init
<1>2. PICK sets \in SUBSET Limits : InitLimits(sets)
  <2>1. OneOf(Deployments) \in Deployments
    BY DeploymentsAssumption DEF OneOf
  <2>2. Deployments \in SUBSET Limits /\ {OneOf(Deployments)} \in SUBSET Limits
    BY <2>1, DeploymentsAssumption
  <2> QED
    BY <2>2 DEF Init
<1>3. StoreInv /\ CountInv /\ BlameInv
  BY <1>1, StoreInit, BlameInit
<1>4. KeptInv /\ AnswerInv
  BY <1>2, KeptInit, AnswerInit
<1> QED
  BY <1>3, <1>4 DEF MetricInv

\* every step keeps them,
LEMMA MetricNext == MetricInv /\ [Next]_controlVars => MetricInv'
<1> SUFFICES ASSUME MetricInv, [Next]_controlVars PROVE MetricInv'
  OBVIOUS
<1> USE DEF MetricInv
<1>1. [LimitsNext]_limitVars
  <2>1. CASE MetricStep
    BY <2>1 DEF MetricStep, LimitsNext
  <2>2. CASE FacadeStep
    BY <2>2 DEF FacadeStep
  <2>3. CASE SinkStep
    BY <2>3 DEF SinkStep
  <2>4. CASE ScrapeStep
    BY <2>4 DEF ScrapeStep
  <2>5. CASE UNCHANGED controlVars
    BY <2>5 DEF controlVars
  <2> QED
    BY <2>1, <2>2, <2>3, <2>4, <2>5 DEF Next
<1>2. [SinkNext]_sinkVars
  BY DEF Next, MetricStep, FacadeStep, SinkStep, ScrapeStep, controlVars
<1>3. KeptInv' /\ AnswerInv'
  BY <1>1, KeptNext, AnswerNext
<1>4. StoreInv' /\ CountInv' /\ BlameInv'
  BY <1>2, SinkKept
<1> QED
  BY <1>3, <1>4

\* and they say that everything is accounted for.
LEMMA MetricSafe == MetricInv => CountsAccounted
<1> SUFFICES ASSUME MetricInv PROVE CountsAccounted
  OBVIOUS
<1>1. ReportsCounted /\ FailuresBlamed
  BY Blamed DEF MetricInv, CountInv
<1>2. AdditionsKept /\ LabelsAgree
  BY DEF MetricInv, KeptInv
<1>3. AnswerBounded
  BY DEF MetricInv, AnswerInv
<1> QED
  BY <1>1, <1>2, <1>3 DEF CountsAccounted

\* However many goroutines report at once, under whatever names, labels and limits, and
\* however scrapes and deletions fall between, every report and every addition is in what
\* is scraped, but for the reasons ReportsCounted, FailuresBlamed and AdditionsKept name, and
\* no answer is larger than the limits allow (trpc_metric.go:129, limit_cardinality.go:99).
THEOREM CountsAccountedHolds == Spec => []CountsAccounted
<1>1. Init => MetricInv
  BY MetricInit
<1>2. MetricInv /\ [Next]_controlVars => MetricInv'
  BY MetricNext
<1>3. MetricInv => CountsAccounted
  BY MetricSafe
<1> QED
  BY <1>1, <1>2, <1>3, PTL DEF Spec

-----------------------------------------------------------------------------
(* Settings: what a list of options leaves of a configuration. A list is a *)
(* fold over its options, so there are the configurations after each of    *)
(* them, and what no later option touches keeps its value.                 *)

\* What no item after the n-th changes has its value at the end.
LEMMA LastChange ==
    ASSUME NEW k \in Nat, NEW n \in 0 .. k, NEW v, \A m \in (n + 1) .. k : v[m] = v[m - 1]
    PROVE  v[k] = v[n]
<1> DEFINE N == {j \in Nat : n + j <= k => v[n + j] = v[n]}
<1>1. 0 \in N
  OBVIOUS
<1>2. ASSUME NEW j \in N PROVE j + 1 \in N
  <2> SUFFICES ASSUME n + (j + 1) <= k PROVE v[n + (j + 1)] = v[n]
    OBVIOUS
  <2>1. PICK m \in (n + 1) .. k : m = n + (j + 1) /\ m - 1 = n + j
    OBVIOUS
  <2> QED
    BY <2>1
<1> HIDE DEF N
<1>3. N = Nat
  <2>1. N \in SUBSET Nat
    BY DEF N
  <2> QED
    BY <1>1, <1>2, <2>1, NatSetInduction
<1>4. k - n \in N /\ n + (k - n) = k
  BY <1>3
<1> QED
  BY <1>4 DEF N

-----------------------------------------------------------------------------
(* Options.                                                                *)

\* The configurations along a list of options.
LEMMA ExporterStepsExist ==
    ASSUME NEW list, Len(list) \in Nat
    PROVE  \E st : /\ ExporterConfig(list) = st[Len(list)] /\ st[0] = newConfig
                   /\ \A i \in 1 .. Len(list) : st[i] = ApplyExporterOption(st[i - 1], list[i])
<1> DEFINE k == Len(list)
           Upto(n, f) == f = [i \in 0 .. n |-> IF i = 0 THEN newConfig ELSE ApplyExporterOption(f[i - 1], list[i])]
           N == {n \in Nat : \E f : Upto(n, f)}
<1>1. 0 \in N
  <2>1. Upto(0, [i \in 0 .. 0 |-> newConfig])
    OBVIOUS
  <2> QED
    BY <2>1
<1>2. ASSUME NEW n \in N PROVE n + 1 \in N
  <2>1. PICK f : Upto(n, f)
    OBVIOUS
  <2>2. PICK x : x = ApplyExporterOption(f[n], list[n + 1])
    OBVIOUS
  <2>3. PICK g : g = [i \in 0 .. n + 1 |-> IF i <= n THEN f[i] ELSE x]
    OBVIOUS
  <2>4. ASSUME NEW i \in 0 .. n + 1
        PROVE  g[i] = IF i = 0 THEN newConfig ELSE ApplyExporterOption(g[i - 1], list[i])
    <3>1. CASE i = 0
      BY <2>1, <2>3, <3>1
    <3>2. CASE i \in 1 .. n
      <4>1. g[i] = f[i] /\ g[i - 1] = f[i - 1] /\ i \in 0 .. n
        BY <2>3, <3>2
      <4>2. f[i] = ApplyExporterOption(f[i - 1], list[i])
        BY <2>1, <3>2, <4>1
      <4> QED
        BY <3>2, <4>1, <4>2
    <3>3. CASE i = n + 1
      <4>1. g[i] = x /\ g[i - 1] = f[n]
        BY <2>3, <3>3
      <4> QED
        BY <2>2, <3>3, <4>1
    <3> QED
      BY <3>1, <3>2, <3>3
  <2>5. Upto(n + 1, g)
    BY <2>3, <2>4
  <2>6. n + 1 \in Nat
    OBVIOUS
  <2> HIDE DEF Upto
  <2> QED
    BY <2>5, <2>6
<1> HIDE DEF N
<1>3. N = Nat
  <2>1. N \in SUBSET Nat
    BY DEF N
  <2> QED
    BY <1>1, <1>2, <2>1, NatSetInduction
<1> DEFINE F == CHOOSE f : Upto(k, f)
<1>4. Upto(k, F)
  BY <1>3 DEF N
<1>5. ExporterConfig(list) = F[k]
  BY DEF ExporterConfig
<1> HIDE DEF F
<1>6. ASSUME NEW i \in 0 .. k
      PROVE  F[i] = IF i = 0 THEN newConfig ELSE ApplyExporterOption(F[i - 1], list[i])
  BY <1>4
<1> QED
  BY <1>5, <1>6
\* The same for the options of the facade,
LEMMA SetupStepsExist ==
    ASSUME NEW list, Len(list) \in Nat
    PROVE  \E st : /\ SetupOptions(list) = st[Len(list)] /\ st[0] = defaultSetupOptions
                   /\ \A i \in 1 .. Len(list) : st[i] = ApplySetupOption(st[i - 1], list[i])
<1> DEFINE k == Len(list)
           Upto(n, f) == f = [i \in 0 .. n |-> IF i = 0 THEN defaultSetupOptions ELSE ApplySetupOption(f[i - 1], list[i])]
           N == {n \in Nat : \E f : Upto(n, f)}
<1>1. 0 \in N
  <2>1. Upto(0, [i \in 0 .. 0 |-> defaultSetupOptions])
    OBVIOUS
  <2> QED
    BY <2>1
<1>2. ASSUME NEW n \in N PROVE n + 1 \in N
  <2>1. PICK f : Upto(n, f)
    OBVIOUS
  <2>2. PICK x : x = ApplySetupOption(f[n], list[n + 1])
    OBVIOUS
  <2>3. PICK g : g = [i \in 0 .. n + 1 |-> IF i <= n THEN f[i] ELSE x]
    OBVIOUS
  <2>4. ASSUME NEW i \in 0 .. n + 1
        PROVE  g[i] = IF i = 0 THEN defaultSetupOptions ELSE ApplySetupOption(g[i - 1], list[i])
    <3>1. CASE i = 0
      BY <2>1, <2>3, <3>1
    <3>2. CASE i \in 1 .. n
      <4>1. g[i] = f[i] /\ g[i - 1] = f[i - 1] /\ i \in 0 .. n
        BY <2>3, <3>2
      <4>2. f[i] = ApplySetupOption(f[i - 1], list[i])
        BY <2>1, <3>2, <4>1
      <4> QED
        BY <3>2, <4>1, <4>2
    <3>3. CASE i = n + 1
      <4>1. g[i] = x /\ g[i - 1] = f[n]
        BY <2>3, <3>3
      <4> QED
        BY <2>2, <3>3, <4>1
    <3> QED
      BY <3>1, <3>2, <3>3
  <2>5. Upto(n + 1, g)
    BY <2>3, <2>4
  <2>6. n + 1 \in Nat
    OBVIOUS
  <2> HIDE DEF Upto
  <2> QED
    BY <2>5, <2>6
<1> HIDE DEF N
<1>3. N = Nat
  <2>1. N \in SUBSET Nat
    BY DEF N
  <2> QED
    BY <1>1, <1>2, <2>1, NatSetInduction
<1> DEFINE F == CHOOSE f : Upto(k, f)
<1>4. Upto(k, F)
  BY <1>3 DEF N
<1>5. SetupOptions(list) = F[k]
  BY DEF SetupOptions
<1> HIDE DEF F
<1>6. ASSUME NEW i \in 0 .. k
      PROVE  F[i] = IF i = 0 THEN defaultSetupOptions ELSE ApplySetupOption(F[i - 1], list[i])
  BY <1>4
<1> QED
  BY <1>5, <1>6
\* and for those of the metric set-up.
LEMMA MetricStepsExist ==
    ASSUME NEW list, Len(list) \in Nat
    PROVE  \E st : /\ Setup(list) = st[Len(list)] /\ st[0] = DefaultConfig
                   /\ \A i \in 1 .. Len(list) : st[i] = Apply(st[i - 1], list[i])
<1> DEFINE k == Len(list)
           Upto(n, f) == f = [i \in 0 .. n |-> IF i = 0 THEN DefaultConfig ELSE Apply(f[i - 1], list[i])]
           N == {n \in Nat : \E f : Upto(n, f)}
<1>1. 0 \in N
  <2>1. Upto(0, [i \in 0 .. 0 |-> DefaultConfig])
    OBVIOUS
  <2> QED
    BY <2>1
<1>2. ASSUME NEW n \in N PROVE n + 1 \in N
  <2>1. PICK f : Upto(n, f)
    OBVIOUS
  <2>2. PICK x : x = Apply(f[n], list[n + 1])
    OBVIOUS
  <2>3. PICK g : g = [i \in 0 .. n + 1 |-> IF i <= n THEN f[i] ELSE x]
    OBVIOUS
  <2>4. ASSUME NEW i \in 0 .. n + 1
        PROVE  g[i] = IF i = 0 THEN DefaultConfig ELSE Apply(g[i - 1], list[i])
    <3>1. CASE i = 0
      BY <2>1, <2>3, <3>1
    <3>2. CASE i \in 1 .. n
      <4>1. g[i] = f[i] /\ g[i - 1] = f[i - 1] /\ i \in 0 .. n
        BY <2>3, <3>2
      <4>2. f[i] = Apply(f[i - 1], list[i])
        BY <2>1, <3>2, <4>1
      <4> QED
        BY <3>2, <4>1, <4>2
    <3>3. CASE i = n + 1
      <4>1. g[i] = x /\ g[i - 1] = f[n]
        BY <2>3, <3>3
      <4> QED
        BY <2>2, <3>3, <4>1
    <3> QED
      BY <3>1, <3>2, <3>3
  <2>5. Upto(n + 1, g)
    BY <2>3, <2>4
  <2>6. n + 1 \in Nat
    OBVIOUS
  <2> HIDE DEF Upto
  <2> QED
    BY <2>5, <2>6
<1> HIDE DEF N
<1>3. N = Nat
  <2>1. N \in SUBSET Nat
    BY DEF N
  <2> QED
    BY <1>1, <1>2, <2>1, NatSetInduction
<1> DEFINE F == CHOOSE f : Upto(k, f)
<1>4. Upto(k, F)
  BY <1>3 DEF N
<1>5. Setup(list) = F[k]
  BY DEF Setup
<1> HIDE DEF F
<1>6. ASSUME NEW i \in 0 .. k
      PROVE  F[i] = IF i = 0 THEN DefaultConfig ELSE Apply(F[i - 1], list[i])
  BY <1>4
<1> QED
  BY <1>5, <1>6
\* What an option of the exporters does to the headers.
LEMMA HeadersStep ==
    ASSUME NEW cfg, "headers" \in DOMAIN cfg, NEW o, o.opt \in ExporterOptionNames
    PROVE  /\ DOMAIN ApplyExporterOption(cfg, o) = DOMAIN cfg
           /\ o.opt = "WithHeaders" => ApplyExporterOption(cfg, o).headers = o.arg
           /\ o.opt = "WithTenantID" =>
                 ApplyExporterOption(cfg, o).headers = SetHeader(cfg.headers, TenantHeader, o.arg)
           /\ o.opt \notin {"WithHeaders", "WithTenantID"} => ApplyExporterOption(cfg, o).headers = cfg.headers
<1>1. CASE o.opt \in DOMAIN Assigns
  <2>1. /\ o.opt \notin {"WithHeaders", "WithTenantID", "WorkerCount", "WithInsecure", "WithRetryConfig"}
        /\ Assigns[o.opt] # "headers"
    BY <1>1 DEF Assigns
  <2>2. ApplyExporterOption(cfg, o) = [cfg EXCEPT ![Assigns[o.opt]] = o.arg]
    BY <1>1, <2>1 DEF ApplyExporterOption
  <2> QED
    BY <2>1, <2>2
<1>2. CASE o.opt \notin DOMAIN Assigns
  <2>1. o.opt \in {"WithHeaders", "WithTenantID", "WorkerCount", "WithInsecure", "WithRetryConfig"}
    BY <1>2 DEF ExporterOptionNames
  <2> QED
    BY <1>2, <2>1 DEF ApplyExporterOption, WithHeaders, WithTenantID
<1> QED
  BY <1>1, <1>2

\* Headers as they are after the option that touched them last.
LEMMA HeadersAlong ==
    ASSUME NEW list, IsOptionList(list, ExporterOptionNames), NEW st, st[0] = newConfig,
           \A i \in 1 .. Len(list) : st[i] = ApplyExporterOption(st[i - 1], list[i])
    PROVE  /\ \A i \in 0 .. Len(list) : "headers" \in DOMAIN st[i]
           /\ \A n \in 0 .. Len(list) :
                 (\A i \in (n + 1) .. Len(list) : list[i].opt \notin {"WithHeaders", "WithTenantID"})
                    => st[Len(list)].headers = st[n].headers
<1> DEFINE k == Len(list)
<1>1. k \in Nat /\ \A i \in 1 .. k : list[i].opt \in ExporterOptionNames
  BY DEF IsOptionList
<1> DEFINE N == {j \in Nat : j <= k => "headers" \in DOMAIN st[j]}
<1> HIDE DEF k
<1>2. 0 \in N
  BY DEF newConfig
<1>3. ASSUME NEW j \in N PROVE j + 1 \in N
  <2> SUFFICES ASSUME j + 1 <= k PROVE "headers" \in DOMAIN st[j + 1]
    OBVIOUS
  <2>1. PICK i \in 1 .. k : i = j + 1 /\ i - 1 = j
    BY <1>1
  <2>2. "headers" \in DOMAIN st[i - 1]
    BY <1>1, <2>1
  <2>3. st[i] = ApplyExporterOption(st[i - 1], list[i])
    BY DEF k
  <2> QED
    BY <1>1, <2>1, <2>2, <2>3, HeadersStep
<1> HIDE DEF N
<1>4. N = Nat
  <2>1. N \in SUBSET Nat
    BY DEF N
  <2> QED
    BY <1>2, <1>3, <2>1, NatSetInduction
<1>5. \A i \in 0 .. k : "headers" \in DOMAIN st[i]
  BY <1>1, <1>4 DEF N
<1>6. ASSUME NEW n \in 0 .. k, \A i \in (n + 1) .. k : list[i].opt \notin {"WithHeaders", "WithTenantID"}
      PROVE  st[k].headers = st[n].headers
  <2>1. PICK v : v = [i \in 0 .. k |-> st[i].headers]
    OBVIOUS
  <2>2. ASSUME NEW m \in (n + 1) .. k PROVE v[m] = v[m - 1]
    <3>1. m \in 1 .. k /\ m \in 0 .. k /\ m - 1 \in 0 .. k
      BY <1>1
    <3>2. st[m] = ApplyExporterOption(st[m - 1], list[m]) /\ list[m].opt \in ExporterOptionNames
      BY <1>1, <3>1 DEF k
    <3>3. "headers" \in DOMAIN st[m - 1]
      BY <1>5, <3>1
    <3>4. list[m].opt \notin {"WithHeaders", "WithTenantID"}
      BY <1>6
    <3>5. st[m].headers = st[m - 1].headers
      BY <3>2, <3>3, <3>4, HeadersStep
    <3> QED
      BY <2>1, <3>1, <3>5
  <2>3. v[k] = v[n]
    BY <1>1, <2>2, LastChange
  <2> QED
    BY <1>1, <2>1, <2>3
<1> QED
  BY <1>5, <1>6 DEF k

\* The last of some numbers in a list.
LEMMA LastOfList ==
    ASSUME NEW n \in Nat, NEW s \in SUBSET (1 .. n), s # {}
    PROVE  (CHOOSE i \in s : \A j \in s : j <= i) \in {i \in s : \A j \in s : j <= i}
<1>1. Max(s) \in s /\ \A x \in s : x <= Max(s)
  BY LastUpTo
<1>2. \E i \in s : \A j \in s : j <= i
  BY <1>1
<1> QED
  BY <1>2

\* Setting a header leaves one value of it.
LEMMA TenantSet ==
    ASSUME NEW headers, NEW value
    PROVE  TenantsIn(SetHeader(headers, TenantHeader, value)) = {value}
<1>1. PICK p : p = <<TenantHeader, value>>
  OBVIOUS
<1>2. p[1] = TenantHeader /\ p[2] = value
  BY <1>1
<1>3. {g \in SetHeader(headers, TenantHeader, value) : g[1] = TenantHeader} = {p}
  BY <1>1, <1>2 DEF SetHeader
<1>4. {h[2] : h \in {p}} = {value}
  BY <1>2
<1> QED
  BY <1>3, <1>4 DEF TenantsIn

\* Whatever options an exporter is made with, the tenant set last is sent.
LEMMA EveryTenantSent ==
    ASSUME NEW list, IsOptionList(list, ExporterOptionNames)
    PROVE  TenantSent(list)
<1>1. Len(list) \in Nat /\ DOMAIN list = 1 .. Len(list)
      /\ \A i \in DOMAIN list : list[i].opt \in ExporterOptionNames
  BY DEF IsOptionList
<1>2. PICK st : /\ ExporterConfig(list) = st[Len(list)] /\ st[0] = newConfig
                /\ \A i \in 1 .. Len(list) : st[i] = ApplyExporterOption(st[i - 1], list[i])
  BY <1>1, ExporterStepsExist
<1>3. PICK k \in Nat : k = Len(list)
  BY <1>1
<1>4. PICK sets : sets = {i \in DOMAIN list : list[i].opt \in {"WithHeaders", "WithTenantID"}}
  OBVIOUS
<1>5. PICK headers : headers = dialToCollector(ExporterConfig(list)).metadata
  OBVIOUS
<1>6. headers = st[k].headers
  BY <1>2, <1>3, <1>5 DEF dialToCollector
<1>7. PICK last : last = CHOOSE i \in sets : \A j \in sets : j <= i
  OBVIOUS
<1>8. PICK sent : sent = TenantsIn(headers)
  OBVIOUS
<1> SUFFICES sent = IF sets = {} THEN {}
                    ELSE IF list[last].opt = "WithTenantID" THEN {list[last].arg}
                    ELSE TenantsIn(list[last].arg)
  BY <1>4, <1>5, <1>7, <1>8 DEF TenantSent
<1>9. /\ \A i \in 0 .. k : "headers" \in DOMAIN st[i]
      /\ \A n \in 0 .. k :
            (\A i \in (n + 1) .. k : list[i].opt \notin {"WithHeaders", "WithTenantID"})
               => st[k].headers = st[n].headers
  BY <1>2, <1>3, HeadersAlong
<1>10. CASE sets = {}
  <2>1. \A i \in (0 + 1) .. k : list[i].opt \notin {"WithHeaders", "WithTenantID"}
    BY <1>1, <1>3, <1>4, <1>10
  <2>2. st[k].headers = st[0].headers
    BY <1>3, <1>9, <2>1
  <2>3. headers = newConfig.headers /\ newConfig.headers = {}
    BY <1>2, <1>6, <2>2 DEF newConfig
  <2>4. TenantsIn({}) = {}
    BY DEF TenantsIn
  <2> QED
    BY <1>8, <1>10, <2>3, <2>4
<1>11. CASE sets # {}
  <2>1. last \in sets /\ \A j \in sets : j <= last
    <3>1. sets \in SUBSET (1 .. k)
      BY <1>1, <1>3, <1>4
    <3> QED
      BY <1>7, <1>11, <3>1, LastOfList
  <2>2. last \in 1 .. k /\ last \in 0 .. k /\ last - 1 \in 0 .. k
    BY <1>1, <1>3, <1>4, <2>1
  <2>3. \A i \in (last + 1) .. k : list[i].opt \notin {"WithHeaders", "WithTenantID"}
    <3> SUFFICES ASSUME NEW i \in (last + 1) .. k, i \in sets PROVE FALSE
      BY <1>1, <1>3, <1>4, <2>2
    <3>1. i <= last
      BY <2>1
    <3> QED
      BY <2>2, <3>1
  <2>4. headers = st[last].headers
    BY <1>6, <1>9, <2>2, <2>3
  <2>5. st[last] = ApplyExporterOption(st[last - 1], list[last])
    BY <1>2, <1>3, <2>2
  <2>6. "headers" \in DOMAIN st[last - 1] /\ list[last].opt \in ExporterOptionNames
    BY <1>1, <1>3, <1>9, <2>2
  <2>7. CASE list[last].opt = "WithTenantID"
    <3>1. headers = SetHeader(st[last - 1].headers, TenantHeader, list[last].arg)
      BY <2>4, <2>5, <2>6, <2>7, HeadersStep
    <3>2. PICK before, arg : before = st[last - 1].headers /\ arg = list[last].arg
      OBVIOUS
    <3>3. TenantsIn(SetHeader(before, TenantHeader, arg)) = {arg}
      BY TenantSet
    <3>4. sent = {list[last].arg}
      BY <1>8, <3>1, <3>2, <3>3
    <3> QED
      BY <1>11, <2>7, <3>4
  <2>8. CASE list[last].opt = "WithHeaders"
    <3>1. headers = list[last].arg
      BY <2>4, <2>5, <2>6, <2>8, HeadersStep
    <3> QED
      BY <1>8, <1>11, <2>8, <3>1
  <2>9. list[last].opt \in {"WithHeaders", "WithTenantID"}
    BY <1>4, <2>1
  <2> QED
    BY <2>7, <2>8, <2>9
<1> QED
  BY <1>10, <1>11


-----------------------------------------------------------------------------
(* The facade.                                                             *)

\* The fields an option of the facade changes.
Touched(name) ==
    IF name \in DOMAIN SetupAssigns THEN {SetupAssigns[name]}
    ELSE IF name = "WithHeader" THEN {"otlptraceHeader"} ELSE {"tenantID", "otlptraceHeader"}

\* An option changes the fields it touches, and of these what it assigns has its argument.
LEMMA SetupStep ==
    ASSUME NEW o, DOMAIN o = DOMAIN defaultSetupOptions, NEW option, option.opt \in SetupOptionNames
    PROVE  /\ DOMAIN ApplySetupOption(o, option) = DOMAIN o
           /\ \A f \in DOMAIN o \ Touched(option.opt) : ApplySetupOption(o, option)[f] = o[f]
           /\ option.opt \in DOMAIN SetupAssigns =>
                 ApplySetupOption(o, option)[SetupAssigns[option.opt]] = option.arg
           /\ option.opt = "WithTenantID" =>
                 /\ ApplySetupOption(o, option).tenantID = option.arg
                 /\ ApplySetupOption(o, option).otlptraceHeader
                       = SetHeader(o.otlptraceHeader, TenantHeader, option.arg)
<1>1. {"tenantID", "otlptraceHeader"} \subseteq DOMAIN o
  BY DEF defaultSetupOptions
<1>2. CASE option.opt \in DOMAIN SetupAssigns
  <2>1. option.opt \notin {"WithHeader", "WithTenantID"}
    BY <1>2 DEF SetupAssigns
  <2>2. SetupAssigns[option.opt] \in DOMAIN o
    BY <1>2 DEF SetupAssigns, defaultSetupOptions
  <2>3. ApplySetupOption(o, option) = [o EXCEPT ![SetupAssigns[option.opt]] = option.arg]
    BY <1>2, <2>1 DEF ApplySetupOption
  <2> QED
    BY <1>2, <2>1, <2>2, <2>3 DEF Touched
<1>3. CASE option.opt = "WithHeader"
  <2>1. option.opt \notin DOMAIN SetupAssigns /\ option.opt # "WithTenantID"
    BY <1>3 DEF SetupAssigns
  <2>2. PICK h : h = option.arg \union {g \in o.otlptraceHeader : \A e \in option.arg : e[1] # g[1]}
    OBVIOUS
  <2>3. ApplySetupOption(o, option) = [o EXCEPT !.otlptraceHeader = h]
    BY <1>3, <2>1, <2>2 DEF ApplySetupOption
  <2> QED
    BY <1>1, <1>3, <2>1, <2>3 DEF Touched
<1>4. CASE option.opt = "WithTenantID"
  <2>1. option.opt \notin DOMAIN SetupAssigns /\ option.opt # "WithHeader"
    BY <1>4 DEF SetupAssigns
  <2>2. PICK h : h = SetHeader(o.otlptraceHeader, TenantHeader, option.arg)
    OBVIOUS
  <2>3. ApplySetupOption(o, option) = [o EXCEPT !.tenantID = option.arg, !.otlptraceHeader = h]
    BY <1>1, <1>4, <2>1, <2>2 DEF ApplySetupOption
  <2> QED
    BY <1>1, <1>4, <2>1, <2>2, <2>3 DEF Touched
<1> QED
  BY <1>2, <1>3, <1>4 DEF SetupOptionNames

\* The options applied up to each place of a list; none but those that touch it change a field.
SetupAlong(list, st) ==
    /\ SetupOptions(list) = st[Len(list)] /\ st[0] = defaultSetupOptions
    /\ \A i \in 1 .. Len(list) : st[i] = ApplySetupOption(st[i - 1], list[i])
    /\ \A i \in 0 .. Len(list) : DOMAIN st[i] = DOMAIN defaultSetupOptions
    /\ \A n \in 0 .. Len(list), f \in DOMAIN defaultSetupOptions :
          (\A i \in (n + 1) .. Len(list) : f \notin Touched(list[i].opt)) => st[Len(list)][f] = st[n][f]

\* There are such options for every list.
LEMMA SetupAlongExists ==
    ASSUME NEW list, IsOptionList(list, SetupOptionNames)
    PROVE  \E st : SetupAlong(list, st)
<1>1. Len(list) \in Nat /\ \A i \in 1 .. Len(list) : list[i].opt \in SetupOptionNames
  BY DEF IsOptionList
<1>2. PICK st : /\ SetupOptions(list) = st[Len(list)] /\ st[0] = defaultSetupOptions
                /\ \A i \in 1 .. Len(list) : st[i] = ApplySetupOption(st[i - 1], list[i])
  BY <1>1, SetupStepsExist
<1>3. PICK k \in Nat : k = Len(list)
  BY <1>1
<1> DEFINE N == {j \in Nat : j <= k => DOMAIN st[j] = DOMAIN defaultSetupOptions}
<1>4. 0 \in N
  BY <1>2
<1>5. ASSUME NEW j \in N PROVE j + 1 \in N
  <2> SUFFICES ASSUME j + 1 <= k PROVE DOMAIN st[j + 1] = DOMAIN defaultSetupOptions
    OBVIOUS
  <2>1. PICK i \in 1 .. k : i = j + 1 /\ i - 1 = j
    OBVIOUS
  <2>2. DOMAIN st[i - 1] = DOMAIN defaultSetupOptions
    BY <2>1
  <2>3. st[i] = ApplySetupOption(st[i - 1], list[i]) /\ list[i].opt \in SetupOptionNames
    BY <1>1, <1>2, <1>3
  <2> QED
    BY <2>1, <2>2, <2>3, SetupStep
<1> HIDE DEF N
<1>6. N = Nat
  <2>1. N \in SUBSET Nat
    BY DEF N
  <2> QED
    BY <1>4, <1>5, <2>1, NatSetInduction
<1>7. \A i \in 0 .. k : DOMAIN st[i] = DOMAIN defaultSetupOptions
  BY <1>6 DEF N
<1>8. ASSUME NEW n \in 0 .. k, NEW f \in DOMAIN defaultSetupOptions,
             \A i \in (n + 1) .. k : f \notin Touched(list[i].opt)
      PROVE  st[k][f] = st[n][f]
  <2>1. PICK v : v = [i \in 0 .. k |-> st[i][f]]
    OBVIOUS
  <2>2. ASSUME NEW m \in (n + 1) .. k PROVE v[m] = v[m - 1]
    <3>1. m \in 1 .. k /\ m \in 0 .. k /\ m - 1 \in 0 .. k
      OBVIOUS
    <3>2. st[m] = ApplySetupOption(st[m - 1], list[m]) /\ list[m].opt \in SetupOptionNames
      BY <1>1, <1>2, <1>3, <3>1
    <3>3. DOMAIN st[m - 1] = DOMAIN defaultSetupOptions
      BY <1>7, <3>1
    <3>4. f \in DOMAIN st[m - 1] \ Touched(list[m].opt)
      BY <1>8, <3>3
    <3>5. st[m][f] = st[m - 1][f]
      BY <3>2, <3>3, <3>4, SetupStep
    <3> QED
      BY <2>1, <3>1, <3>5
  <2>3. v[k] = v[n]
    BY <2>2, LastChange
  <2> QED
    BY <2>1, <2>3
<1> QED
  BY <1>2, <1>3, <1>7, <1>8 DEF SetupAlong

\* The headers of the log exporter are those of the other two.
LEMMA LogHeaders ==
    ASSUME NEW a, NEW o
    PROVE  dialToCollector(ExporterConfig(LogExporterOptions(a, o))).metadata = o.otlptraceHeader
<1>1. PICK list : list = LogExporterOptions(a, o)
  OBVIOUS
<1>2. Len(list) = 6 /\ DOMAIN list = 1 .. 6
  BY <1>1 DEF LogExporterOptions
<1>3. /\ list[1].opt = "WithInsecure" /\ list[2].opt = "WithAddress" /\ list[3].opt = "WithTenantID"
      /\ list[4].opt = "WithCompressor" /\ list[6].opt = "WithRetryConfig"
      /\ list[5].opt = "WithHeaders" /\ list[5].arg = o.otlptraceHeader
  BY <1>1 DEF LogExporterOptions
<1>4. {"WithInsecure", "WithAddress", "WithTenantID", "WithCompressor", "WithRetryConfig", "WithHeaders"}
          \subseteq ExporterOptionNames
  BY DEF ExporterOptionNames, Assigns
<1>5. IsOptionList(list, ExporterOptionNames)
  <2>1. \A i \in 1 .. 6 : i \in {1, 2, 3, 4, 5, 6}
    OBVIOUS
  <2> QED
    BY <1>2, <1>3, <1>4, <2>1 DEF IsOptionList
<1>6. PICK st : /\ ExporterConfig(list) = st[6] /\ st[0] = newConfig
                /\ \A i \in 1 .. 6 : st[i] = ApplyExporterOption(st[i - 1], list[i])
  <2>1. Len(list) \in Nat
    BY <1>2
  <2>2. PICK st : /\ ExporterConfig(list) = st[Len(list)] /\ st[0] = newConfig
                  /\ \A i \in 1 .. Len(list) : st[i] = ApplyExporterOption(st[i - 1], list[i])
    BY <2>1, ExporterStepsExist
  <2> QED
    BY <1>2, <2>2
<1>7. /\ \A i \in 0 .. 6 : "headers" \in DOMAIN st[i]
      /\ \A n \in 0 .. 6 :
            (\A i \in (n + 1) .. 6 : list[i].opt \notin {"WithHeaders", "WithTenantID"})
               => st[6].headers = st[n].headers
  <2>1. \A i \in 1 .. Len(list) : st[i] = ApplyExporterOption(st[i - 1], list[i])
    BY <1>2, <1>6
  <2>2. /\ \A i \in 0 .. Len(list) : "headers" \in DOMAIN st[i]
        /\ \A n \in 0 .. Len(list) :
              (\A i \in (n + 1) .. Len(list) : list[i].opt \notin {"WithHeaders", "WithTenantID"})
                 => st[Len(list)].headers = st[n].headers
    BY <1>5, <1>6, <2>1, HeadersAlong
  <2> QED
    BY <1>2, <2>2
<1>8. st[6].headers = st[5].headers
  <2>1. \A i \in (5 + 1) .. 6 : i = 6
    OBVIOUS
  <2>2. \A i \in (5 + 1) .. 6 : list[i].opt \notin {"WithHeaders", "WithTenantID"}
    BY <1>3, <2>1
  <2>3. 5 \in 0 .. 6
    OBVIOUS
  <2> QED
    BY <1>7, <2>2, <2>3
<1>9. st[5].headers = o.otlptraceHeader
  <2>1. 5 \in 1 .. 6 /\ 4 \in 0 .. 6 /\ 5 - 1 = 4
    OBVIOUS
  <2>2. st[5] = ApplyExporterOption(st[4], list[5]) /\ "headers" \in DOMAIN st[4]
    BY <1>6, <1>7, <2>1
  <2> QED
    BY <1>3, <1>4, <2>2, HeadersStep
<1> QED
  BY <1>1, <1>6, <1>8, <1>9 DEF dialToCollector

\* Whatever options SetupByConfig is given, the exporters of the three signals agree.
LEMMA EveryTenantAgrees ==
    ASSUME NEW a, NEW list, IsOptionList(list, SetupOptionNames)
    PROVE  TenantAgrees(a, list)
<1>1. PICK st : SetupAlong(list, st)
  BY SetupAlongExists
<1>2. PICK o : o = SetupOptions(list)
  OBVIOUS
<1>3. PICK logs : logs = dialToCollector(ExporterConfig(LogExporterOptions(a, o))).metadata
  OBVIOUS
<1>4. logs = o.otlptraceHeader
  BY <1>3, LogHeaders
<1>5. newTraceExporter(a, o).headers = logs /\ newMetricExporter(a, o).headers = logs
  BY <1>4 DEF newTraceExporter, newMetricExporter
<1>6. PICK tenants : tenants = {i \in DOMAIN list : list[i].opt = "WithTenantID"}
  OBVIOUS
<1>7. PICK headers : headers = {i \in DOMAIN list : list[i].opt = "WithHeader"}
  OBVIOUS
<1>8. ASSUME \E i \in tenants : \A j \in headers : j < i
      PROVE  TenantsIn(logs) = {o.tenantID}
  <2>1. PICK k \in Nat : k = Len(list) /\ DOMAIN list = 1 .. k
    BY DEF IsOptionList
  <2>2. tenants \in SUBSET (1 .. k) /\ headers \in SUBSET (1 .. k) /\ tenants # {}
    BY <1>6, <1>7, <1>8, <2>1
  <2>3. PICK n \in tenants : \A j \in tenants : j <= n
    BY <2>1, <2>2, LastUpTo
  <2>4. \A j \in headers : j < n
    <3>1. PICK i \in tenants : \A j \in headers : j < i
      BY <1>8
    <3>2. i <= n /\ i \in 1 .. k /\ n \in 1 .. k
      BY <2>2, <2>3
    <3> QED
      BY <2>2, <3>1, <3>2
  <2>5. n \in 1 .. k /\ n \in 0 .. k /\ n - 1 \in 0 .. k
    BY <2>2
  <2>6. ASSUME NEW f \in {"tenantID", "otlptraceHeader"} PROVE o[f] = st[n][f]
    <3>1. ASSUME NEW i \in (n + 1) .. k PROVE f \notin Touched(list[i].opt)
      <4>1. i \in 1 .. k /\ ~(i <= n)
        BY <2>5
      <4>2. i \notin tenants /\ i \notin headers
        <5>1. i \notin tenants
          BY <2>3, <4>1
        <5>2. i < n => i <= n
          BY <2>5, <4>1
        <5>3. i \notin headers
          BY <2>4, <4>1, <5>2
        <5> QED
          BY <5>1, <5>3
      <4>3. list[i].opt \in SetupOptionNames /\ list[i].opt # "WithTenantID" /\ list[i].opt # "WithHeader"
        BY <1>6, <1>7, <2>1, <4>1, <4>2 DEF IsOptionList
      <4>4. list[i].opt \in DOMAIN SetupAssigns
        BY <4>3 DEF SetupOptionNames
      <4>5. SetupAssigns[list[i].opt] \notin {"tenantID", "otlptraceHeader"}
        BY <4>4 DEF SetupAssigns
      <4> QED
        BY <4>4, <4>5 DEF Touched
    <3>2. f \in DOMAIN defaultSetupOptions
      BY DEF defaultSetupOptions
    <3>3. st[k][f] = st[n][f]
      BY <1>1, <2>1, <2>5, <3>1, <3>2 DEF SetupAlong
    <3> QED
      BY <1>1, <1>2, <2>1, <3>3 DEF SetupAlong
  <2>7. st[n] = ApplySetupOption(st[n - 1], list[n]) /\ DOMAIN st[n - 1] = DOMAIN defaultSetupOptions
    BY <1>1, <2>1, <2>5 DEF SetupAlong
  <2>8. list[n].opt = "WithTenantID" /\ list[n].opt \in SetupOptionNames
    BY <1>6, <2>1 DEF SetupOptionNames
  <2>9. /\ st[n].tenantID = list[n].arg
        /\ st[n].otlptraceHeader = SetHeader(st[n - 1].otlptraceHeader, TenantHeader, list[n].arg)
    BY <2>7, <2>8, SetupStep
  <2>10. o.tenantID = st[n].tenantID /\ o.otlptraceHeader = st[n].otlptraceHeader
    BY <2>6
  <2> QED
    BY <1>4, <2>9, <2>10, TenantSet
<1>9. ResourceOf(o).tenant = o.tenantID
  BY DEF ResourceOf
<1> QED
  BY <1>2, <1>3, <1>5, <1>6, <1>7, <1>8, <1>9 DEF TenantAgrees

-----------------------------------------------------------------------------
(* The plugin.                                                             *)

\* The options the plugin makes of its configuration give every field the value configured.
LEMMA EveryFacadeAgrees == ASSUME NEW c, NEW app PROVE FacadeAgrees(c, app)
<1>1. PICK list : list = FacadeOptions(c, app)
  OBVIOUS
<1>2. Len(list) = 12 /\ DOMAIN list = 1 .. 12
  BY <1>1 DEF FacadeOptions, Option
<1>3. /\ list[1].opt = "WithHeader" /\ list[2].opt = "WithTenantID" /\ list[3].opt = "WithSampler"
      /\ list[4].opt = "WithDeferredSampler" /\ list[5].opt = "WithServiceName" /\ list[6].opt = "WithLabels"
      /\ list[7].opt = "WithGRPCDialOption" /\ list[8].opt = "WithServerOwner" /\ list[9].opt = "WithHTTPEnabled"
      /\ list[10].opt = "WithBatchSpanProcessorOption" /\ list[11].opt = "WithIDGenerator"
      /\ list[12].opt = "WithZPageSpanProcessor"
  BY <1>1 DEF FacadeOptions, Option
<1>4. /\ list[2].arg = c.tenantID /\ list[9].arg = isHTTPEnabled(c)
      /\ list[10].arg = buildBatchSpanProcessorOptions(c.exportConfig)
  BY <1>1 DEF FacadeOptions, Option
<1>5. \A i \in 1 .. 12 : i \in {1, 2, 3, 4, 5, 6, 7, 8, 9, 10, 11, 12}
  OBVIOUS
<1>6. IsOptionList(list, SetupOptionNames)
  <2>1. Len(list) \in Nat
    BY <1>2
  <2>2. \A i \in 1 .. 12 : list[i].opt \in SetupOptionNames
    BY <1>3, <1>5 DEF SetupOptionNames, SetupAssigns
  <2> QED
    BY <1>2, <2>1, <2>2 DEF IsOptionList
<1>7. PICK st : SetupAlong(list, st)
  BY <1>6, SetupAlongExists
<1>8. PICK o : o = SetupOptions(list)
  OBVIOUS
<1>9. ASSUME NEW n \in 1 .. 12, NEW f \in DOMAIN defaultSetupOptions,
             \A i \in (n + 1) .. 12 : f \notin Touched(list[i].opt)
      PROVE  o[f] = st[n][f]
  <2>1. n \in 0 .. Len(list) /\ \A i \in (n + 1) .. Len(list) : f \notin Touched(list[i].opt)
    BY <1>2, <1>9
  <2> QED
    BY <1>7, <1>8, <2>1 DEF SetupAlong
<1>10. ASSUME NEW n \in 1 .. 12
       PROVE  /\ list[n].opt = "WithTenantID" => st[n].tenantID = list[n].arg
              /\ list[n].opt \in DOMAIN SetupAssigns => st[n][SetupAssigns[list[n].opt]] = list[n].arg
  <2>1. n \in 1 .. Len(list) /\ n - 1 \in 0 .. Len(list) /\ n \in DOMAIN list
    BY <1>2
  <2>2. /\ st[n] = ApplySetupOption(st[n - 1], list[n])
        /\ DOMAIN st[n - 1] = DOMAIN defaultSetupOptions /\ list[n].opt \in SetupOptionNames
    BY <1>6, <1>7, <2>1 DEF SetupAlong, IsOptionList
  <2> QED
    BY <2>2, SetupStep
<1>11. ASSUME NEW i \in 3 .. 12
       PROVE  Touched(list[i].opt) \in {{"sampler"}, {"deferredSampler"}, {"serviceName"}, {"additionalLabels"},
                 {"grpcDialOptions"}, {"ServerOwner"}, {"httpEnabled"}, {"batchSpanOption"}, {"idGenerator"},
                 {"zPageEnabled"}}
              /\ (i > 9 => "httpEnabled" \notin Touched(list[i].opt))
              /\ (i > 10 => "batchSpanOption" \notin Touched(list[i].opt))
  <2>1. i \in {3, 4, 5, 6, 7, 8, 9, 10, 11, 12}
    OBVIOUS
  <2> QED
    BY <1>3, <2>1 DEF Touched, SetupAssigns
<1>12. o.tenantID = c.tenantID
  <2>1. \A i \in (2 + 1) .. 12 : "tenantID" \notin Touched(list[i].opt)
    BY <1>11
  <2>2. 2 \in 1 .. 12 /\ "tenantID" \in DOMAIN defaultSetupOptions
    BY DEF defaultSetupOptions
  <2>3. o.tenantID = st[2].tenantID
    BY <1>9, <2>1, <2>2
  <2>4. st[2].tenantID = list[2].arg
    BY <1>3, <1>10, <2>2
  <2> QED
    BY <1>4, <2>3, <2>4
<1>13. o.httpEnabled = isHTTPEnabled(c)
  <2>1. \A i \in (9 + 1) .. 12 : i \in 3 .. 12 /\ i > 9
    OBVIOUS
  <2>2. 9 \in 1 .. 12 /\ "httpEnabled" \in DOMAIN defaultSetupOptions
    BY DEF defaultSetupOptions
  <2>3. o.httpEnabled = st[9].httpEnabled
    BY <1>9, <1>11, <2>1, <2>2
  <2>4. list[9].opt \in DOMAIN SetupAssigns /\ SetupAssigns[list[9].opt] = "httpEnabled"
    BY <1>3 DEF SetupAssigns
  <2>5. st[9]["httpEnabled"] = list[9].arg
    BY <1>10, <2>2, <2>4
  <2> QED
    BY <1>4, <2>3, <2>5
<1>14. o.batchSpanOption = buildBatchSpanProcessorOptions(c.exportConfig)
  <2>1. \A i \in (10 + 1) .. 12 : i \in 3 .. 12 /\ i > 10
    OBVIOUS
  <2>2. 10 \in 1 .. 12 /\ "batchSpanOption" \in DOMAIN defaultSetupOptions
    BY DEF defaultSetupOptions
  <2>3. o.batchSpanOption = st[10].batchSpanOption
    BY <1>9, <1>11, <2>1, <2>2
  <2>4. list[10].opt \in DOMAIN SetupAssigns /\ SetupAssigns[list[10].opt] = "batchSpanOption"
    BY <1>3 DEF SetupAssigns
  <2>5. st[10]["batchSpanOption"] = list[10].arg
    BY <1>10, <2>2, <2>4
  <2> QED
    BY <1>4, <2>3, <2>5
<1>15. TenantAgrees(c.addr, list)
  BY <1>6, EveryTenantAgrees
<1>16. TenantsIn(newTraceExporter(c.addr, o).headers) = {c.tenantID}
  <2>1. PICK logs : logs = dialToCollector(ExporterConfig(LogExporterOptions(c.addr, o))).metadata
    OBVIOUS
  <2>2. newTraceExporter(c.addr, o).headers = logs
    BY <1>8, <1>15, <2>1 DEF TenantAgrees
  <2>3. 2 \in {i \in DOMAIN list : list[i].opt = "WithTenantID"}
    BY <1>2, <1>3
  <2>4. \A j \in {i \in DOMAIN list : list[i].opt = "WithHeader"} : j < 2
    BY <1>2, <1>3, <1>5
  <2>5. \E i \in {i \in DOMAIN list : list[i].opt = "WithTenantID"} :
            \A j \in {k \in DOMAIN list : list[k].opt = "WithHeader"} : j < i
    BY <2>3, <2>4
  <2>6. TenantsIn(logs) = {ResourceOf(o).tenant}
    BY <1>8, <1>15, <2>1, <2>5 DEF TenantAgrees
  <2> QED
    BY <1>12, <2>2, <2>6 DEF ResourceOf
<1>17. isHTTPEnabled(c) <=> newTraceExporter(c.addr, o).protocol = "http"
  BY <1>13 DEF newTraceExporter, isHTTPEnabled
<1>18. \A option \in o.batchSpanOption : option[2] > 0
  BY <1>14 DEF buildBatchSpanProcessorOptions
<1> QED
  BY <1>1, <1>8, <1>15, <1>16, <1>17, <1>18 DEF FacadeAgrees

\* The configurations along the options of the metric set-up.
MetricAlong(list, st) ==
    /\ Setup(list) = st[Len(list)] /\ st[0] = DefaultConfig
    /\ \A i \in 1 .. Len(list) : st[i] = Apply(st[i - 1], list[i])
    /\ \A i \in 0 .. Len(list) : DOMAIN st[i] = DOMAIN DefaultConfig
    /\ \A n \in 0 .. Len(list), f \in DOMAIN DefaultConfig :
          (\A i \in (n + 1) .. Len(list) : f # list[i][1]) => st[Len(list)][f] = st[n][f]

\* There are such configurations for every list.
LEMMA MetricAlongExists ==
    ASSUME NEW list, Len(list) \in Nat
    PROVE  \E st : MetricAlong(list, st)
<1>1. PICK st : /\ Setup(list) = st[Len(list)] /\ st[0] = DefaultConfig
                /\ \A i \in 1 .. Len(list) : st[i] = Apply(st[i - 1], list[i])
  BY MetricStepsExist
<1>2. PICK k \in Nat : k = Len(list)
  OBVIOUS
<1>3. ASSUME NEW config, NEW option
      PROVE  /\ DOMAIN Apply(config, option) = DOMAIN config
             /\ \A f \in DOMAIN config : f # option[1] => Apply(config, option)[f] = config[f]
  BY DEF Apply
<1> DEFINE N == {j \in Nat : j <= k => DOMAIN st[j] = DOMAIN DefaultConfig}
<1>4. 0 \in N
  BY <1>1
<1>5. ASSUME NEW j \in N PROVE j + 1 \in N
  <2> SUFFICES ASSUME j + 1 <= k PROVE DOMAIN st[j + 1] = DOMAIN DefaultConfig
    OBVIOUS
  <2>1. PICK i \in 1 .. k : i = j + 1 /\ i - 1 = j
    OBVIOUS
  <2>2. DOMAIN st[i - 1] = DOMAIN DefaultConfig
    BY <2>1
  <2>3. st[i] = Apply(st[i - 1], list[i])
    BY <1>1, <1>2
  <2> QED
    BY <1>3, <2>1, <2>2, <2>3
<1> HIDE DEF N
<1>6. N = Nat
  <2>1. N \in SUBSET Nat
    BY DEF N
  <2> QED
    BY <1>4, <1>5, <2>1, NatSetInduction
<1>7. \A i \in 0 .. k : DOMAIN st[i] = DOMAIN DefaultConfig
  BY <1>6 DEF N
<1>8. ASSUME NEW n \in 0 .. k, NEW f \in DOMAIN DefaultConfig, \A i \in (n + 1) .. k : f # list[i][1]
      PROVE  st[k][f] = st[n][f]
  <2>1. PICK v : v = [i \in 0 .. k |-> st[i][f]]
    OBVIOUS
  <2>2. ASSUME NEW m \in (n + 1) .. k PROVE v[m] = v[m - 1]
    <3>1. m \in 1 .. k /\ m \in 0 .. k /\ m - 1 \in 0 .. k
      OBVIOUS
    <3>2. st[m] = Apply(st[m - 1], list[m]) /\ DOMAIN st[m - 1] = DOMAIN DefaultConfig
      BY <1>1, <1>2, <1>7, <3>1
    <3>3. st[m][f] = st[m - 1][f]
      BY <1>3, <1>8, <3>2
    <3> QED
      BY <2>1, <3>1, <3>3
  <2>3. v[k] = v[n]
    BY <2>2, LastChange
  <2> QED
    BY <2>1, <2>3
<1> QED
  BY <1>1, <1>2, <1>7, <1>8 DEF MetricAlong

\* No field of the push configuration is left empty, and none that is given is lost.
LEMMA EveryPushComplete == ASSUME NEW p, IsPush(p) PROVE PushComplete(p)
<1>1. PICK c : c = WithMetricsPrometheusPush(p)
  OBVIOUS
<1>2. \A f \in DOMAIN p : c[f] = IF p[f] = NoPrometheusPush[f] \/ (f = "Interval" /\ p[f] < 0)
                                 THEN DefaultPrometheusPushConfig[f] ELSE p[f]
  BY <1>1 DEF WithMetricsPrometheusPush
<1>3. "Job" \in DOMAIN p /\ "Interval" \in DOMAIN p
  BY DEF IsPush, NoPrometheusPush
<1>4. /\ NoPrometheusPush["Job"] = "" /\ NoPrometheusPush["Interval"] = 0
      /\ DefaultPrometheusPushConfig["Job"] = "reporter"
      /\ DefaultPrometheusPushConfig["Interval"] = DefaultInterval
  BY DEF NoPrometheusPush, DefaultPrometheusPushConfig
<1>5. c.Job # ""
  BY <1>2, <1>3, <1>4
<1>6. c.Interval > 0
  <2>1. p["Interval"] \in Int
    BY DEF IsPush
  <2>2. c["Interval"] = IF p["Interval"] = 0 \/ p["Interval"] < 0 THEN DefaultInterval ELSE p["Interval"]
    BY <1>2, <1>3, <1>4
  <2>3. DefaultInterval \in Nat \ {0}
    BY SetupDefaultsAssumption DEF SetupDefaultsAssumption
  <2> QED
    BY <2>1, <2>2, <2>3
<1> QED
  BY <1>1, <1>2, <1>5, <1>6 DEF PushComplete

\* The metric set-up of the plugin is refused for nothing but missing endpoints.
LEMMA EveryMetricsReachable ==
    ASSUME NEW c, NEW framework, IsPush(c.push)
    PROVE  MetricsReachable(c, framework)
<1> SUFFICES ASSUME c.metricsEnabled PROVE MetricsReachable(c, framework)
  BY DEF MetricsReachable
<1>1. PICK list : list = MetricOptions(c, framework)
  OBVIOUS
<1>2. PICK address : address = getPrometheusServerAddr(framework)
  OBVIOUS
<1>3. address.addr \in {"admin", "file", "127.0.0.1:12621"}
  BY <1>2 DEF getPrometheusServerAddr
<1>4. PICK instance : instance = [ TenantID |-> IF c.tenantID = "" THEN "default" ELSE c.tenantID,
                                   Addr |-> address.addr, KeySuffix |-> "", Key |-> "" ]
  OBVIOUS
<1>5. list = << <<"RegistryEndpoints", c.registryEndpoints>>, <<"TTL", 60>>,
                <<"Instance", instance>>, <<"EnabledZPage", c.zPage>>, <<"Configurator", TRUE>>,
                <<"ClientHistogramBuckets", c.clientBuckets>>, <<"ServerHistogramBuckets", c.serverBuckets>>,
                <<"TLSCert", c.tlsCert>>, <<"Enabled", TRUE>>,
                <<"EnabledRegister", c.enabledRegister>>, <<"PrometheusPush", c.push>> >>
  BY <1>1, <1>2, <1>4 DEF MetricOptions
<1>6. Len(list) = 11
  BY <1>5
<1>7. /\ list[1] = <<"RegistryEndpoints", c.registryEndpoints>> /\ list[3] = <<"Instance", instance>>
      /\ list[9] = <<"Enabled", TRUE>> /\ list[10] = <<"EnabledRegister", c.enabledRegister>>
      /\ list[11] = <<"PrometheusPush", c.push>>
  BY <1>5
<1>8. /\ list[2][1] = "TTL" /\ list[3][1] = "Instance" /\ list[4][1] = "EnabledZPage" /\ list[5][1] = "Configurator"
      /\ list[6][1] = "ClientHistogramBuckets" /\ list[7][1] = "ServerHistogramBuckets"
      /\ list[8][1] = "TLSCert" /\ list[9][1] = "Enabled" /\ list[10][1] = "EnabledRegister"
      /\ list[11][1] = "PrometheusPush"
  BY <1>5
<1> HIDE <1>5
<1>9. PICK st : MetricAlong(list, st)
  <2>1. Len(list) \in Nat
    BY <1>6
  <2> QED
    BY <2>1, MetricAlongExists
<1>10. PICK config : config = Setup(list)
  OBVIOUS
<1>11. ASSUME NEW n \in {1, 3, 9, 10, 11}
       PROVE  config[list[n][1]] = IF list[n][1] = "PrometheusPush"
                                   THEN WithMetricsPrometheusPush(list[n][2]) ELSE list[n][2]
  <2>1. PICK f : f = list[n][1]
    OBVIOUS
  <2>2. PICK v : v = IF f = "PrometheusPush" THEN WithMetricsPrometheusPush(list[n][2]) ELSE list[n][2]
    OBVIOUS
  <2>3. f \in DOMAIN DefaultConfig
    BY <1>7, <2>1 DEF DefaultConfig
  <2>4. n \in 1 .. 11 /\ n \in 0 .. 11 /\ n - 1 \in 0 .. 11
    OBVIOUS
  <2>5. \A i \in (n + 1) .. 11 : f # list[i][1]
    <3> SUFFICES ASSUME NEW i \in (n + 1) .. 11 PROVE f # list[i][1]
      OBVIOUS
    <3>1. i \in {2, 3, 4, 5, 6, 7, 8, 9, 10, 11} /\ i > n
      OBVIOUS
    <3> QED
      BY <1>7, <1>8, <2>1, <3>1
  <2>6. config[f] = st[n][f]
    BY <1>6, <1>9, <1>10, <2>3, <2>4, <2>5 DEF MetricAlong
  <2>7. st[n] = Apply(st[n - 1], list[n]) /\ DOMAIN st[n - 1] = DOMAIN DefaultConfig
    BY <1>6, <1>9, <2>4 DEF MetricAlong
  <2>8. st[n][f] = v
    BY <2>1, <2>2, <2>3, <2>7 DEF Apply
  <2> QED
    BY <2>1, <2>2, <2>6, <2>8
<1>12. /\ config.RegistryEndpoints = c.registryEndpoints /\ config.Instance = instance /\ config.Enabled
       /\ config.EnabledRegister = c.enabledRegister
       /\ config.PrometheusPush = WithMetricsPrometheusPush(c.push)
  <2>1. ASSUME NEW n \in {1, 3, 9, 10} PROVE config[list[n][1]] = list[n][2]
    <3>1. list[n][1] # "PrometheusPush"
      BY <1>7
    <3> QED
      BY <1>11, <3>1
  <2>2. config[list[11][1]] = WithMetricsPrometheusPush(list[11][2])
    BY <1>8, <1>11
  <2>3. /\ list[1][2] = c.registryEndpoints /\ list[3][2] = instance /\ list[9][2] = TRUE
        /\ list[10][2] = c.enabledRegister /\ list[11][2] = c.push /\ list[1][1] = "RegistryEndpoints"
    BY <1>7
  <2>4. config["RegistryEndpoints"] = c.registryEndpoints /\ config["Instance"] = instance
    BY <1>8, <2>1, <2>3
  <2>5. config["Enabled"] = TRUE /\ config["EnabledRegister"] = c.enabledRegister
    BY <1>8, <2>1, <2>3
  <2>6. config["PrometheusPush"] = WithMetricsPrometheusPush(c.push)
    BY <1>8, <2>2, <2>3
  <2> QED
    BY <2>4, <2>5, <2>6
<1>13. RegisterError(config) = IF c.registryEndpoints = {} THEN "endpoints nil" ELSE "none"
  <2>1. instance.TenantID # "" /\ instance.Addr # ""
    BY <1>3, <1>4
  <2> QED
    BY <1>12, <2>1 DEF RegisterError
<1>14. PICK routes : routes = IF address.needListen THEN AdminServer(framework, c.zPage).routes
                              ELSE {"/metrics"} \union (IF c.zPage THEN {"/debug/tracez"} ELSE {})
  OBVIOUS
<1>15. "/metrics" \in AdminServer(framework, c.zPage).routes
  BY <1>2, <1>3 DEF AdminServer, NewServer
<1>16. "/metrics" \in routes
  BY <1>14, <1>15
<1>17. MetricsOf(c, framework) = [config |-> config, routes |-> routes]
  BY <1>1, <1>2, <1>10, <1>14 DEF MetricsOf
<1>18. PICK m : m = MetricsOf(c, framework) /\ m.config = config /\ m.routes = routes
  BY <1>17
<1>19. PushComplete(c.push)
  BY EveryPushComplete
<1> QED
  BY <1>12, <1>13, <1>16, <1>18, <1>19 DEF MetricsReachable

\* A mode prints what it printed before it was written and read; a text silences the
\* calls only if it says so.
LEMMA EveryModeKept ==
    ASSUME NEW mode \in {"default", "oneline", "disable", "multiline"}, NEW text
    PROVE  LogModeKept(mode, text)
  BY DEF LogModeKept, UnmarshalText, MarshalText, FlowLogPrints

\* Neighbours that grow make a list that grows.
LEMMA Grows ==
    ASSUME NEW s \in Seq(Int), \A i \in 1 .. (Len(s) - 1) : s[i] < s[i + 1],
           NEW i \in 1 .. Len(s), NEW j \in 1 .. Len(s), i < j
    PROVE  s[i] < s[j]
<1> DEFINE N == {n \in Nat : i + n + 1 <= Len(s) => s[i] < s[i + n + 1]}
<1>1. 0 \in N
  OBVIOUS
<1>2. ASSUME NEW n \in N PROVE n + 1 \in N
  <2> SUFFICES ASSUME i + (n + 1) + 1 <= Len(s) PROVE s[i] < s[i + (n + 1) + 1]
    OBVIOUS
  <2>1. PICK m \in 1 .. (Len(s) - 1) : m = i + n + 1 /\ m + 1 = i + (n + 1) + 1
    OBVIOUS
  <2>2. s[i] < s[m] /\ s[m] < s[m + 1]
    BY <2>1
  <2>3. s[i] \in Int /\ s[m] \in Int /\ s[m + 1] \in Int
    BY <2>1
  <2> QED
    BY <2>1, <2>2, <2>3
<1> HIDE DEF N
<1>3. N = Nat
  <2>1. N \in SUBSET Nat
    BY DEF N
  <2> QED
    BY <1>1, <1>2, <2>1, NatSetInduction
<1>4. (j - i) - 1 \in N /\ i + ((j - i) - 1) + 1 = j
  BY <1>3
<1> QED
  BY <1>4 DEF N

\* Whatever bounds are configured, those used grow and end with Inf.
LEMMA EveryBucketsUsable ==
    ASSUME NEW default, Usable(default), NEW buckets \in Seq(Int), \A i \in DOMAIN buckets : buckets[i] <= Inf
    PROVE  BucketsUsable(default, buckets)
<1>1. PICK b : b = setHandledHistogramBuckets(default, buckets)
  OBVIOUS
<1>2. PICK k \in Nat : k = Len(buckets) /\ DOMAIN buckets = 1 .. k
  OBVIOUS
<1>3. PICK ok : ok = (/\ k \in 1 .. 10
                      /\ \A i \in 1 .. (k - 1) : buckets[i] <= buckets[i + 1]
                      /\ \A i \in DOMAIN buckets : buckets[i] > 0)
  OBVIOUS
<1>4. CASE ~(k # 0 /\ ok)
  <2>1. b = default
    BY <1>1, <1>2, <1>3, <1>4 DEF setHandledHistogramBuckets, validateBuckets
  <2> QED
    BY <1>1, <2>1 DEF BucketsUsable
<1>5. CASE k # 0 /\ ok
  <2>1. b = IF buckets[k] = Inf THEN SubSeq(buckets, 1, k - 1) ELSE buckets
    BY <1>1, <1>2, <1>3, <1>5 DEF setHandledHistogramBuckets, validateBuckets
  <2>2. /\ \A i \in 1 .. (k - 1) : buckets[i] <= buckets[i + 1]
        /\ \A i \in 1 .. k : buckets[i] > 0 /\ buckets[i] <= Inf /\ buckets[i] \in Int
    <3>1. /\ \A i \in 1 .. (k - 1) : buckets[i] <= buckets[i + 1]
          /\ \A i \in DOMAIN buckets : buckets[i] > 0
      BY <1>3, <1>5, Zenon
    <3>2. \A i \in 1 .. k : i \in DOMAIN buckets /\ buckets[i] \in Int
      BY <1>2
    <3> QED
      BY <3>1, <3>2
  <2>3. \A i \in DOMAIN b : i \in 1 .. k /\ b[i] = buckets[i] /\ (buckets[k] = Inf => i < k)
    BY <1>2, <1>5, <2>1
  <2>4. ASSUME \A i, j \in DOMAIN buckets : i # j => buckets[i] # buckets[j]
        PROVE  Usable(b)
    <3>1. \A i \in 1 .. (k - 1) : buckets[i] < buckets[i + 1]
      <4> SUFFICES ASSUME NEW i \in 1 .. (k - 1) PROVE buckets[i] < buckets[i + 1]
        OBVIOUS
      <4>1. i \in 1 .. k /\ i + 1 \in 1 .. k /\ i # i + 1
        OBVIOUS
      <4>2. buckets[i] # buckets[i + 1] /\ buckets[i] <= buckets[i + 1]
        BY <1>2, <2>2, <2>4, <4>1
      <4> QED
        BY <2>2, <4>1, <4>2
    <3>2. \A i, j \in 1 .. k : i < j => buckets[i] < buckets[j]
      BY <1>2, <3>1, Grows
    <3>3. ASSUME NEW i \in DOMAIN b PROVE b[i] < Inf
      <4>1. i \in 1 .. k /\ k \in 1 .. k /\ b[i] = buckets[i] /\ Inf \in Int
        BY <1>2, <1>5, <2>3, SetupDefaultsAssumption DEF SetupDefaultsAssumption
      <4>2. CASE buckets[k] = Inf
        BY <2>3, <3>2, <4>1, <4>2
      <4>3. CASE buckets[k] # Inf
        <5>1. buckets[k] < Inf
          BY <2>2, <4>1, <4>3
        <5>2. buckets[i] <= buckets[k]
          BY <2>2, <3>2, <4>1
        <5> QED
          BY <2>2, <4>1, <5>1, <5>2
      <4> QED
        BY <4>2, <4>3
    <3> QED
      BY <2>2, <2>3, <3>2, <3>3 DEF Usable
  <2>5. ~ \E i \in DOMAIN buckets : buckets[i] <= 0
    BY <1>2, <2>2
  <2> QED
    BY <1>1, <2>4, <2>5 DEF BucketsUsable
<1> QED
  BY <1>4, <1>5

-----------------------------------------------------------------------------
(* Machines.                                                               *)

\* What is defined was read and is positive.
LEMMA PositiveValue ==
    ASSUME NEW machine, IsMachine(machine), NEW cgroups, NEW subsystem, NEW param, NEW p,
           p = Positive(machine, cgroups, subsystem, param)
    PROVE  /\ p.ok \in BOOLEAN /\ p.defined \in BOOLEAN
           /\ p.defined => p.ok /\ p.value \in Int /\ p.value > 0
<1>1. CASE ~cgroups.ok \/ subsystem \notin DOMAIN cgroups.paths
  <2>1. p = Failed \/ p = Undefined
    BY <1>1 DEF Positive
  <2>2. /\ Failed.ok = FALSE /\ Failed.defined = FALSE
        /\ Undefined.ok = TRUE /\ Undefined.defined = FALSE
    BY DEF Failed, Undefined
  <2> QED
    BY <2>1, <2>2
<1>2. CASE cgroups.ok /\ subsystem \in DOMAIN cgroups.paths
  <2>1. PICK file : file = Append(cgroups.paths[subsystem], param)
    OBVIOUS
  <2>2. PICK read : read = readInt(machine, file)
    OBVIOUS
  <2>3. p = IF read.ok /\ read.value <= 0 THEN Undefined ELSE read
    BY <1>2, <2>1, <2>2 DEF Positive
  <2>4. CASE file \in DOMAIN machine.files /\ machine.files[file].kind = "number"
    <3>1. PICK v \in Int : v = machine.files[file].value
      BY <2>4 DEF IsMachine
    <3>2. read = Known(v)
      BY <2>2, <2>4, <3>1 DEF readInt
    <3> QED
      BY <2>3, <3>2 DEF Known, Undefined
  <2>5. CASE ~(file \in DOMAIN machine.files /\ machine.files[file].kind = "number")
    <3>1. read = Failed
      BY <2>2, <2>5 DEF readInt
    <3> QED
      BY <2>3, <3>1 DEF Failed, Undefined
  <2> QED
    BY <2>4, <2>5
<1> QED
  BY <1>1, <1>2

\* Whatever is in the files, the gauges are plausible.
LEMMA EveryGaugePlausible ==
    ASSUME NEW machine, IsMachine(machine)
    PROVE  GaugesPlausible(machine)
<1>1. PICK groups : groups = NewCGroups(machine, FALSE)
  OBVIOUS
<1>2. PICK cpus \in Nat, whole \in Nat, used \in Nat :
         /\ cpus = machine.cpus /\ whole = machine.total /\ used = machine.used
         /\ cpus > 0 /\ whole > 0 /\ used > 0
  BY DEF IsMachine
<1>3. PICK cores, memory, usage :
         cores = CPUQuota(machine) /\ memory = MemoryQuota(machine) /\ usage = MemoryUsage(machine)
  OBVIOUS
<1>4. PICK metrics : metrics = ProcessMetrics(machine)
  OBVIOUS
<1>5. /\ metrics.cpuCores = cores.value /\ metrics.memoryQuota = memory.value
      /\ metrics.memoryUsage = usage.value
  BY <1>3, <1>4 DEF ProcessMetrics
<1>6. cores.value[1] > 0
  <2>1. PICK q : q = CGroupCPUQuota(machine)
    OBVIOUS
  <2>2. q.defined => q.value[1] > 0
    <3>1. PICK quota : quota = Positive(machine, groups, "cpu", "cpu.cfs_quota_us")
      OBVIOUS
    <3>2. PICK period : period = readInt(machine, Append(groups.paths["cpu"], "cpu.cfs_period_us"))
      OBVIOUS
    <3>3. q = IF ~quota.defined THEN quota
              ELSE IF ~period.ok THEN Failed ELSE Known(<<quota.value, period.value>>)
      BY <1>1, <2>1, <3>1, <3>2 DEF CGroupCPUQuota
    <3>4. quota.defined => quota.value > 0
      BY <3>1, PositiveValue
    <3>5. PICK pair : pair = <<quota.value, period.value>>
      OBVIOUS
    <3>6. pair[1] = quota.value
      BY <3>5
    <3>7. quota.defined => q = Failed \/ q = Known(pair)
      BY <3>3, <3>5
    <3>8. Known(pair).value = pair /\ ~Failed.defined
      BY DEF Known, Failed
    <3> QED
      BY <3>3, <3>4, <3>6, <3>7, <3>8
  <2>3. PICK host : host = <<cpus, 1>>
    OBVIOUS
  <2>4. host[1] = cpus
    BY <2>3
  <2>5. \/ cores.value = q.value /\ q.defined
        \/ cores.value = host
    BY <1>2, <1>3, <2>1, <2>3 DEF CPUQuota
  <2> QED
    BY <1>2, <2>2, <2>4, <2>5
<1>7. /\ (~IsCGroupV2(machine) /\ memory.value # whole) => memory.value \notin UnlimitedSizes
      /\ memory.value <= 0 => ~memory.ok \/ IsCGroupV2(machine)
  <2> SUFFICES ASSUME ~IsCGroupV2(machine)
               PROVE  /\ memory.value # whole => memory.value \notin UnlimitedSizes
                      /\ memory.value <= 0 => ~memory.ok
    OBVIOUS
  <2>1. PICK quota : quota = MemoryQuotaV1(machine)
    OBVIOUS
  <2>2. PICK limit : limit = Positive(machine, NewCGroups(machine, TRUE), "memory", "memory.limit_in_bytes")
    OBVIOUS
  <2>3. quota = IF limit.defined /\ limit.value \in UnlimitedSizes THEN Undefined ELSE limit
    BY <2>1, <2>2 DEF MemoryQuotaV1
  <2>4. limit.defined => limit.value \in Int /\ limit.value > 0
    BY <2>2, PositiveValue
  <2>5. quota.defined => quota.value > 0 /\ quota.value \in Int /\ quota.value \notin UnlimitedSizes
    BY <2>3, <2>4 DEF Undefined
  <2>6. \/ memory = [ok |-> FALSE, value |-> 0]
        \/ memory = [ok |-> TRUE, value |-> IF quota.defined THEN quota.value ELSE whole]
    BY <1>2, <1>3, <2>1 DEF MemoryQuota
  <2>7. 0 \notin UnlimitedSizes
    BY SizesAssumption DEF SizesAssumption
  <2> QED
    BY <1>2, <2>5, <2>6, <2>7
<1>8. (usage.value = 0 /\ usage.ok) =>
          ProcessInContainer(machine) /\ ~Positive(machine, groups, "memory", "memory.usage_in_bytes").defined
  <2>1. PICK read : read = Positive(machine, groups, "memory", "memory.usage_in_bytes")
    OBVIOUS
  <2>2. read.defined => read.value \in Int /\ read.value > 0
    BY <2>1, PositiveValue
  <2>3. usage = IF ~ProcessInContainer(machine) THEN [ok |-> TRUE, value |-> used]
                ELSE [ok |-> read.ok, value |-> IF read.defined THEN read.value ELSE 0]
    BY <1>1, <1>2, <1>3, <2>1 DEF MemoryUsage
  <2> QED
    BY <1>2, <2>1, <2>2, <2>3
<1> QED
  BY <1>1, <1>2, <1>3, <1>4, <1>5, <1>6, <1>7, <1>8 DEF GaugesPlausible

\* A path below another one, from there.
LEMMA PathBelow ==
    ASSUME NEW group \in Seq(STRING), NEW sub \in Seq(STRING)
    PROVE  Rel(group, group \o sub) = [up |-> 0, down |-> sub]
<1>1. PICK path : path = group \o sub
  OBVIOUS
<1>2. path \in Seq(STRING) /\ Len(path) = Len(group) + Len(sub)
  BY <1>1
<1>3. PICK S : S = {group, path}
  OBVIOUS
<1>4. group \in CommonPrefixes(S)
  <2>1. SubSeq(group, 1, Len(group)) = group /\ SubSeq(path, 1, Len(group)) = group
    BY <1>1, SplitConcat
  <2>2. IsPrefix(group, group) /\ IsPrefix(group, path)
    BY <1>2, <2>1 DEF IsPrefix
  <2>3. group \in Prefixes(group)
    <3>1. Len(group) \in 0 .. Len(group)
      OBVIOUS
    <3> QED
      BY <2>1, <3>1 DEF Prefixes
  <2>4. group \in UNION {Prefixes(seq) : seq \in S}
    BY <1>3, <2>3
  <2> QED
    BY <1>3, <2>2, <2>4 DEF CommonPrefixes
<1>5. \A other \in CommonPrefixes(S) : Len(other) \in Nat /\ Len(other) <= Len(group)
  <2> SUFFICES ASSUME NEW other \in CommonPrefixes(S) PROVE Len(other) \in Nat /\ Len(other) <= Len(group)
    OBVIOUS
  <2>1. IsPrefix(other, group)
    BY <1>3 DEF CommonPrefixes
  <2>2. PICK seq \in S : other \in Prefixes(seq)
    BY DEF CommonPrefixes
  <2>3. seq \in Seq(STRING)
    BY <1>2, <1>3
  <2>4. Len(other) \in Nat
    BY <2>2, <2>3 DEF Prefixes
  <2> QED
    BY <2>1, <2>4 DEF IsPrefix
<1>6. PICK common : common = LongestCommonPrefix(S)
  OBVIOUS
<1>7. common \in CommonPrefixes(S) /\ Len(group) <= Len(common)
  BY <1>4, <1>5, <1>6 DEF LongestCommonPrefix
<1>8. Len(common) = Len(group)
  BY <1>5, <1>7
<1>9. SubSeq(path, Len(group) + 1, Len(path)) = sub
  BY <1>1, SplitConcat
<1>10. Rel(group, path) = [up |-> Len(group) - Len(common), down |-> SubSeq(path, Len(common) + 1, Len(path))]
  BY <1>3, <1>6 DEF Rel
<1>11. Len(group) - Len(common) = 0
  BY <1>8
<1> QED
  BY <1>1, <1>8, <1>9, <1>10, <1>11

\* The groups of a container with v1 groups: both packages find them, at the places of
\* the mounts with the process's path.
LEMMA GroupsV1 ==
    ASSUME NEW machine, IsMachine(machine), Parsed(machine), NEW limit, NEW group, NEW sub,
           LimitedV1(machine, limit, group, sub), NEW strict \in BOOLEAN
    PROVE  \E paths :
              /\ NewCGroups(machine, strict) = [ok |-> TRUE, paths |-> paths]
              /\ NewCGroups(machine, ~strict) = [ok |-> TRUE, paths |-> paths]
              /\ \A s \in {"cpu", "memory"} :
                    s \in DOMAIN paths /\ paths[s] = <<"sys", "fs", "cgroup", s>> \o sub
<1>1. PICK lines, points : lines = machine.cgroup /\ points = machine.mountinfo
  OBVIOUS
<1>2. PICK k \in Nat, m \in Nat : DOMAIN lines = 1 .. k /\ DOMAIN points = 1 .. m
  BY <1>1 DEF IsMachine, IsList
<1> DEFINE named == parseCGroupSubsystems(machine.cgroup)
<1>3. named = parseCGroupSubsystems(lines)
  BY <1>1
<1> HIDE DEF named
<1>4. DOMAIN named = UNION {lines[i].subsystems : i \in DOMAIN lines}
  BY <1>3 DEF parseCGroupSubsystems
<1>5. ASSUME NEW s \in DOMAIN named PROVE named[s] = group \o sub
  <2>1. PICK with : with = {i \in DOMAIN lines : s \in lines[i].subsystems}
    OBVIOUS
  <2>2. with \in SUBSET (1 .. k) /\ with # {}
    BY <1>2, <1>4, <2>1
  <2>3. PICK last : last \in with /\ \A j \in with : j <= last
    BY <2>2, LastUpTo
  <2>4. PICK i : i = CHOOSE n \in DOMAIN lines : /\ s \in lines[n].subsystems
                                                /\ \A j \in DOMAIN lines : s \in lines[j].subsystems => j <= n
    OBVIOUS
  <2>5. i \in DOMAIN lines
    BY <2>1, <2>3, <2>4
  <2>6. named[s] = lines[i].name
    BY <1>3, <1>4, <2>4 DEF parseCGroupSubsystems
  <2> QED
    BY <1>1, <2>5, <2>6 DEF LimitedV1
<1>6. PICK mounts : mounts = [s \in DOMAIN named |->
                       {i \in DOMAIN points : points[i].fsType = "cgroup" /\ s \in points[i].superOptions}]
  OBVIOUS
<1>7. PICK found : found = {s \in DOMAIN named : mounts[s] # {}}
  OBVIOUS
<1>8. PICK lastOf : lastOf = [s \in found |-> CHOOSE i \in mounts[s] : \A j \in mounts[s] : j <= i]
  OBVIOUS
<1>9. PICK paths : paths = [s \in found |-> Translate(points[lastOf[s]], named[s])]
  OBVIOUS
<1>10. group \in Seq(STRING) /\ sub \in Seq(STRING)
  BY DEF LimitedV1
<1>11. PICK rel : rel = Rel(group, group \o sub) /\ rel = [up |-> 0, down |-> sub]
  BY <1>10, PathBelow
<1>12. ASSUME NEW s \in found, NEW i \in mounts[s]
       PROVE  BelowRoot(points[i], named[s]) /\ Rel(points[i].root, named[s]) = rel
  <2>1. i \in DOMAIN points /\ points[i].fsType = "cgroup" /\ s \in DOMAIN named
    BY <1>6, <1>7
  <2>2. points[i].root = group
    BY <1>1, <2>1 DEF LimitedV1
  <2>3. Rel(points[i].root, named[s]) = rel
    BY <1>5, <1>11, <2>1, <2>2
  <2> QED
    BY <1>11, <2>3 DEF BelowRoot
<1>13. ASSUME NEW any \in BOOLEAN PROVE NewCGroups(machine, any) = [ok |-> TRUE, paths |-> paths]
  <2>1. Parsed(machine) /\ (any => \A s \in found : \A i \in mounts[s] : BelowRoot(points[i], named[s]))
    BY <1>12
  <2> DEFINE has(i, s) == machine.mountinfo[i].fsType = "cgroup" /\ s \in machine.mountinfo[i].superOptions
             of(s) == {i \in DOMAIN machine.mountinfo : has(i, s)}
             some == {s \in DOMAIN named : of(s) # {}}
             last(s) == CHOOSE i \in of(s) : \A j \in of(s) : j <= i
             ok == Parsed(machine) /\ (any => \A s \in some : \A i \in of(s) :
                                                 BelowRoot(machine.mountinfo[i], named[s]))
  <2>2. NewCGroups(machine, any) =
            [ok |-> ok, paths |-> IF ok THEN [s \in some |-> Translate(machine.mountinfo[last(s)], named[s])] ELSE <<>>]
    BY Zenon DEF NewCGroups, named
  <2>3. \A s \in DOMAIN named : of(s) = mounts[s]
    BY <1>1, <1>6
  <2> HIDE DEF of
  <2>4. some = found
    BY <1>7, <2>3
  <2>5. \A s \in found : last(s) = lastOf[s]
    BY <1>7, <1>8, <2>3
  <2>6. ok = TRUE
    BY <1>1, <1>7, <2>1, <2>3, <2>4
  <2> HIDE DEF some, last, ok
  <2>7. [s \in some |-> Translate(machine.mountinfo[last(s)], named[s])] = paths
    BY <1>1, <1>9, <2>4, <2>5
  <2> QED
    BY <2>2, <2>6, <2>7
<1>14. ASSUME NEW s \in {"cpu", "memory"}
       PROVE  s \in DOMAIN paths /\ paths[s] = <<"sys", "fs", "cgroup", s>> \o sub
  <2>1. s \in DOMAIN named
    BY <1>1, <1>4 DEF LimitedV1
  <2>2. mounts[s] # {} /\ \A i \in mounts[s] : points[i].mountPoint = <<"sys", "fs", "cgroup", s>>
    BY <1>1, <1>6, <2>1 DEF LimitedV1
  <2>3. s \in found /\ mounts[s] \in SUBSET (1 .. m)
    BY <1>2, <1>6, <1>7, <2>1, <2>2
  <2>4. lastOf[s] \in mounts[s]
    BY <1>8, <2>2, <2>3, LastOfList
  <2>5. PICK place : place = <<"sys", "fs", "cgroup", s>>
    OBVIOUS
  <2>6. PICK dirs : dirs = {"sys", "fs", "cgroup", s}
    OBVIOUS
  <2>7. place \in Seq(dirs) /\ Len(place) = 4
    BY <2>5, <2>6
  <2>8. paths[s] = Join(place, rel)
    BY <1>9, <1>12, <2>2, <2>3, <2>4, <2>5 DEF Translate
  <2>9. Join(place, rel) = place \o sub
    <3>1. Len(place) \in Nat /\ ~(0 > Len(place)) /\ Len(place) - 0 = Len(place)
      BY <2>7
    <3>2. SubSeq(place, 1, Len(place)) = place
      BY <2>7
    <3>3. rel.up = 0 /\ rel.down = sub
      BY <1>11
    <3>4. Join(place, rel) = SubSeq(place, 1, IF rel.up > Len(place) THEN 0 ELSE Len(place) - rel.up) \o rel.down
      BY Zenon DEF Join
    <3> QED
      BY <3>1, <3>2, <3>3, <3>4
  <2> QED
    BY <1>9, <2>3, <2>5, <2>8, <2>9
<1>15. strict \in BOOLEAN /\ (~strict) \in BOOLEAN
  BY Zenon
<1>16. NewCGroups(machine, strict) = [ok |-> TRUE, paths |-> paths]
  BY <1>13
<1>17. NewCGroups(machine, ~strict) = [ok |-> TRUE, paths |-> paths]
  BY <1>13, <1>15
<1> QED
  BY <1>14, <1>16, <1>17

\* What is held by a file of a group found.
LEMMA HeldValue ==
    ASSUME NEW machine, NEW cgroups, cgroups.ok, NEW s \in DOMAIN cgroups.paths, NEW param, NEW v \in Int,
           Holds(machine, Append(cgroups.paths[s], param), v)
    PROVE  Positive(machine, cgroups, s, param) = IF v > 0 THEN Known(v) ELSE Undefined
<1>1. PICK file : file = Append(cgroups.paths[s], param)
  OBVIOUS
<1>2. readInt(machine, file) = Known(v)
  BY <1>1 DEF Holds, readInt
<1>3. Known(v).ok = TRUE /\ Known(v).value = v
  BY DEF Known
<1> QED
  BY <1>1, <1>2, <1>3 DEF Positive

\* What limits a container is read, wherever its groups are.
LEMMA EveryLimitRead ==
    ASSUME NEW machine, IsMachine(machine), NEW limit, NEW group, NEW sub, Limited(machine, limit, group, sub)
    PROVE  LimitsRead(machine, limit)
<1>1. /\ Parsed(machine) /\ ProcessInContainer(machine)
      /\ \A i \in DOMAIN machine.mountinfo : NewMountPointFromLine(machine.mountinfo[i])
  BY DEF Limited, Parsed
<1>2. PICK bytes \in Int, share \in Int, period \in Int :
         limit.memory = bytes /\ limit.quota = share /\ limit.period = period
  BY DEF Limited
<1>3. bytes \notin UnlimitedSizes
  BY <1>2 DEF Limited
<1>4. PICK fine : fine = NewCGroups(machine, FALSE)
  OBVIOUS
<1>5. CASE LimitedV1(machine, limit, group, sub)
  <2>1. ~IsCGroupV2(machine)
    BY <1>5 DEF LimitedV1
  <2>2. PICK paths : /\ fine = [ok |-> TRUE, paths |-> paths]
                     /\ NewCGroups(machine, TRUE) = [ok |-> TRUE, paths |-> paths]
                     /\ \A s \in {"cpu", "memory"} :
                           s \in DOMAIN paths /\ paths[s] = <<"sys", "fs", "cgroup", s>> \o sub
    <3>1. FALSE \in BOOLEAN /\ ~FALSE = TRUE
      OBVIOUS
    <3> QED
      BY <1>1, <1>4, <1>5, <3>1, GroupsV1
  <2>3. fine.ok /\ fine.paths = paths /\ NewCGroups(machine, TRUE) = fine
    BY <2>2
  <2>4. PICK v \in Int : /\ Holds(machine, Append(paths["memory"], "memory.limit_in_bytes"), v)
                         /\ v = bytes \/ (bytes = 0 /\ v \in UnlimitedSizes)
    <3>1. paths["memory"] = <<"sys", "fs", "cgroup", "memory">> \o sub
      BY <2>2
    <3>2. UnlimitedSizes \subseteq Int
      BY SizesAssumption DEF SizesAssumption
    <3> QED
      BY <1>2, <1>5, <3>1, <3>2 DEF LimitedV1
  <2>5. /\ Holds(machine, Append(paths["cpu"], "cpu.cfs_quota_us"), share)
        /\ Holds(machine, Append(paths["cpu"], "cpu.cfs_period_us"), period)
    BY <1>2, <1>5, <2>2 DEF LimitedV1
  <2>6. MemoryQuota(machine) = [ok |-> TRUE, value |-> IF bytes > 0 THEN bytes ELSE machine.total]
    <3>1. PICK read : read = IF v > 0 THEN Known(v) ELSE Undefined
      OBVIOUS
    <3>2. Positive(machine, fine, "memory", "memory.limit_in_bytes") = read
      BY <2>2, <2>3, <2>4, <3>1, HeldValue
    <3>3. PICK quota : quota = IF read.defined /\ read.value \in UnlimitedSizes THEN Undefined ELSE read
      OBVIOUS
    <3>4. MemoryQuotaV1(machine) = quota
      BY <2>3, <3>2, <3>3 DEF MemoryQuotaV1
    <3>5. quota.ok = TRUE /\ (quota.defined <=> bytes > 0) /\ (bytes > 0 => quota.value = bytes)
      <4>1. /\ Known(v).ok = TRUE /\ Known(v).defined = TRUE /\ Known(v).value = v
            /\ Undefined.ok = TRUE /\ Undefined.defined = FALSE
        BY DEF Known, Undefined
      <4>2. \A size \in UnlimitedSizes : size > 0
        BY SizesAssumption DEF SizesAssumption
      <4> QED
        BY <1>3, <2>4, <3>1, <3>3, <4>1, <4>2
    <3> QED
      BY <1>1, <2>1, <3>4, <3>5 DEF MemoryQuota
  <2>7. PICK pair : pair = <<share, period>>
    OBVIOUS
  <2>8. CPUQuota(machine) = [ok |-> TRUE, value |-> IF share > 0 THEN pair ELSE <<machine.cpus, 1>>]
    <3>1. PICK read : read = IF share > 0 THEN Known(share) ELSE Undefined
      OBVIOUS
    <3>2. Positive(machine, fine, "cpu", "cpu.cfs_quota_us") = read
      BY <2>2, <2>3, <2>5, <3>1, HeldValue
    <3>3. readInt(machine, Append(fine.paths["cpu"], "cpu.cfs_period_us")) = Known(period)
      BY <2>3, <2>5 DEF Holds, readInt
    <3>4. PICK quota : quota = IF share > 0 THEN Known(pair) ELSE Undefined
      OBVIOUS
    <3>5. /\ Known(share).defined = TRUE /\ Known(share).value = share
          /\ Known(period).ok = TRUE /\ Known(period).value = period
          /\ Known(pair).ok = TRUE /\ Known(pair).defined = TRUE /\ Known(pair).value = pair
          /\ Undefined.ok = TRUE /\ Undefined.defined = FALSE
      BY DEF Known, Undefined
    <3>6. CGroupCPUQuota(machine) = quota
      BY <1>4, <2>7, <3>1, <3>2, <3>3, <3>4, <3>5 DEF CGroupCPUQuota
    <3> QED
      BY <1>1, <3>4, <3>5, <3>6 DEF CPUQuota
  <2> QED
    BY <1>2, <1>4, <2>1, <2>3, <2>6, <2>7, <2>8 DEF LimitsRead
<1>6. CASE LimitedV2(machine, limit)
  <2>1. IsCGroupV2(machine) /\ \A i \in DOMAIN machine.mountinfo : machine.mountinfo[i].fsType # "cgroup"
    BY <1>6 DEF LimitedV2
  <2>2. PICK paths : \A any \in BOOLEAN : NewCGroups(machine, any) = [ok |-> TRUE, paths |-> paths]
                     /\ DOMAIN paths = {}
    <3>1. PICK named : named = parseCGroupSubsystems(machine.cgroup)
      OBVIOUS
    <3>2. PICK paths : paths = [s \in {} |-> s]
      OBVIOUS
    <3>3. ASSUME NEW any \in BOOLEAN PROVE NewCGroups(machine, any) = [ok |-> TRUE, paths |-> paths]
      BY <1>1, <2>1, <3>2 DEF NewCGroups
    <3>4. DOMAIN paths = {}
      BY <3>2
    <3> QED
      BY <3>3, <3>4
  <2>3. fine = [ok |-> TRUE, paths |-> paths] /\ NewCGroups(machine, TRUE) = fine /\ DOMAIN paths = {}
    BY <1>4, <2>2
  <2>4. fine.ok /\ "cpu" \notin DOMAIN fine.paths
    BY <2>3
  <2>5. /\ Undefined.ok = TRUE /\ Undefined.defined = FALSE
        /\ Known(bytes).ok = TRUE /\ Known(bytes).defined = TRUE /\ Known(bytes).value = bytes
    BY DEF Undefined, Known
  <2>6. CPUQuota(machine) = [ok |-> TRUE, value |-> <<machine.cpus, 1>>]
    <3>1. Positive(machine, fine, "cpu", "cpu.cfs_quota_us") = Undefined
      BY <2>4 DEF Positive
    <3>2. CGroupCPUQuota(machine) = Undefined
      BY <1>4, <2>5, <3>1 DEF CGroupCPUQuota
    <3> QED
      BY <1>1, <2>5, <3>2 DEF CPUQuota
  <2>7. PICK file : file = <<"sys", "fs", "cgroup", "memory.max">>
    OBVIOUS
  <2>8. \/ Holds(machine, file, bytes) /\ bytes > 0
        \/ file \in DOMAIN machine.files /\ machine.files[file].kind = "max" /\ bytes = 0
    BY <1>2, <1>6, <2>7 DEF LimitedV2
  <2>9. MemoryQuotaV2(machine) = IF bytes > 0 THEN Known(bytes) ELSE Undefined
    <3>1. CASE Holds(machine, file, bytes) /\ bytes > 0
      <4>1. file \in DOMAIN machine.files /\ machine.files[file].kind = "number" /\ machine.files[file].value = bytes
        BY <3>1 DEF Holds
      <4>2. readInt(machine, file) = Known(bytes)
        BY <4>1 DEF readInt
      <4> QED
        BY <2>7, <3>1, <4>1, <4>2 DEF MemoryQuotaV2
    <3>2. CASE file \in DOMAIN machine.files /\ machine.files[file].kind = "max" /\ bytes = 0
      BY <2>7, <3>2 DEF MemoryQuotaV2
    <3> QED
      BY <2>8, <3>1, <3>2
  <2>10. MemoryQuota(machine) = [ok |-> TRUE, value |-> IF bytes > 0 THEN bytes ELSE machine.total]
    BY <1>1, <2>1, <2>5, <2>9 DEF MemoryQuota
  <2> QED
    BY <1>2, <1>4, <2>1, <2>3, <2>6, <2>10 DEF LimitsRead
<1> QED
  BY <1>5, <1>6 DEF Limited
-----------------------------------------------------------------------------
(* The parts and the configuration.                                        *)

\* Whichever of the settings is looked at, the parts agree with it.
LEMMA EverySettingAgrees == ASSUME IsSetting(setting) PROVE SettingsAgree
<1>1. CASE setting.of = "exporter" /\ IsOptionList(setting.options, ExporterOptionNames)
  BY <1>1, EveryTenantSent DEF SettingsAgree
<1>2. CASE setting.of = "facade" /\ IsOptionList(setting.options, SetupOptionNames)
  BY <1>2, EveryTenantAgrees DEF SettingsAgree
<1>3. CASE setting.of = "mode" /\ setting.mode \in {"default", "oneline", "disable", "multiline"}
  BY <1>3, EveryModeKept DEF SettingsAgree
<1>4. CASE setting.of = "push" /\ IsPush(setting.push)
  BY <1>4, EveryPushComplete DEF SettingsAgree
<1>5. CASE /\ setting.of = "buckets" /\ Usable(setting.default) /\ setting.buckets \in Seq(Int)
           /\ \A i \in DOMAIN setting.buckets : setting.buckets[i] <= Inf
  BY <1>5, EveryBucketsUsable DEF SettingsAgree
<1>6. CASE setting.of = "machine" /\ IsMachine(setting.machine)
  BY <1>6, EveryGaugePlausible DEF SettingsAgree
<1>7. CASE /\ setting.of = "container" /\ IsMachine(setting.machine)
           /\ Limited(setting.machine, setting.limit, setting.group, setting.sub)
  BY <1>7, EveryLimitRead DEF SettingsAgree
<1>8. CASE setting.of = "plugin" /\ IsPush(setting.config.push)
  <2>1. FacadeAgrees(setting.config, "app")
    BY EveryFacadeAgrees
  <2>2. MetricsReachable(setting.config, setting.framework)
    BY <1>8, EveryMetricsReachable
  <2> QED
    BY <1>8, <2>1, <2>2 DEF SettingsAgree
<1> QED
  BY <1>1, <1>2, <1>3, <1>4, <1>5, <1>6, <1>7, <1>8 DEF IsSetting

\* Whatever is configured, in whatever order the options come, the parts agree with the
\* configuration and with each other: the tenant of the last option that names one is
\* sent with traces, metrics and logs, pushing is given every field, the bounds of the
\* histograms grow up to Inf, and the process metrics are what limits the container
\* (opentelemetry.go:158, factory.go:91, setup.go:160, mountpoint.go:148).
THEOREM SettingsAlwaysAgree == Spec => []SettingsAgree
<1> DEFINE Configured == setting \in Settings
<1>1. Init => Configured
  BY SettingsAssumption DEF Init, OneOf, SettingsAssumption
<1>2. Configured /\ [Next]_controlVars => Configured'
  BY DEF Next, MetricStep, FacadeStep, SinkStep, ScrapeStep, controlVars
<1>3. Configured => SettingsAgree
  BY SettingsAssumption, EverySettingAgrees DEF SettingsAssumption
<1> QED
  BY <1>1, <1>2, <1>3, PTL DEF Spec
=============================================================================
