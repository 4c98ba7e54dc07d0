------------------------------ MODULE MetricSink ------------------------------
(***************************************************************************)
(* The sink of tRPC metrics, metrics/prometheus/trpc_metric.go: Report     *)
(* looks a vector up, makes it and stores it unless another was faster,    *)
(* and adds to it; any number of goroutines report at once.                *)
(*                                                                         *)
(* A text is a sequence of words, single characters and bytes. Vectors are *)
(* found by a hash, here the sequence that is hashed: hashes of different  *)
(* sequences are taken to be different. The vectors of counters and gauges *)
(* without dimensions are there from the start; those with dimensions are  *)
(* collected unchecked, so what is wrong with one shows at a scrape.       *)
(***************************************************************************)
EXTENDS Integers, SequencesExt, Functions

CONSTANTS Reporters,    \* goroutines that report, positive numbers
          Separators,   \* ASCII characters that no metric name may contain
          Pinyin,       \* Han character -> its reading, any other one -> its code
          BadBytes      \* bytes that are not part of a character in UTF-8

VARIABLES record,       \* reporter -> the record it reports
          reportAt,     \* reporter -> [step, i, vec], i the metric it is at
          vecs,         \* <<kind, hash>> -> vector: counters, gauges, histograms
          registered,   \* histogram vectors the registry took
          total         \* <<vector, values>> -> sum, last value, or number of observations

sinkVars == <<record, reportAt, vecs, registered, total>>

\* 255, a byte that a text in UTF-8 does not contain.
SeparatorByte == "|"
Text == Seq(STRING)
Utf8(text) == ToSet(text) \cap BadBytes = {}
ToValidUTF8(text) == FlattenSeq([i \in DOMAIN text |-> IF text[i] \in BadBytes THEN <<>> ELSE <<text[i]>>])

\* The records of metrics.
Record ==
    [ name : Text, dims : Seq(Text \X Text), noSink : BOOLEAN,
      metrics : Seq([name : Text, policy : STRING, value : Int]) ]

ASSUME ReportersAssumption == Reporters \subseteq Nat \ {0}
ASSUME PinyinAssumption == \A token \in DOMAIN Pinyin : Pinyin[token] \in STRING
ASSUME BytesAssumption == SeparatorByte \in BadBytes /\ "histogram" \notin BadBytes

-----------------------------------------------------------------------------
(* Names.                                                                  *)

\* A valid name stays; of another one what is not allowed is replaced, and a "_" at the
\* end cut off.
NotInNames == Separators \union DOMAIN Pinyin \union BadBytes
convertMetricName(name) ==
    LET replace(token) == IF token \in BadBytes THEN <<"FFFD", "_">>
                          ELSE IF token \in DOMAIN Pinyin THEN <<Pinyin[token], "_">>
                          ELSE IF token \in Separators THEN <<"_">> ELSE <<token>>
        valid     == name # <<>> /\ ToSet(name) \cap NotInNames = {}
        converted == FlattenSeq([i \in DOMAIN name |-> replace(name[i])])
    IN IF valid \/ name = <<>> \/ Last(converted) # "_" THEN converted ELSE Front(converted)

getCounterName(name) ==
    LET prefix   == <<"trpc", "_", "counter", "_">>
        suffix   == <<"_", "total">>
        prefixed == IF IsPrefix(prefix, name) THEN name ELSE prefix \o name
    IN IF IsSuffix(suffix, prefixed) THEN prefixed ELSE prefixed \o suffix

getGaugeName(name) ==
    LET prefix == <<"trpc", "_", "gauge", "_">>
    IN IF IsPrefix(prefix, name) THEN name ELSE prefix \o name

\* What is hashed: the name, then each label and a separator; none after the name.
labelsHash(name, labels) ==
    name \o FlattenSeq([i \in DOMAIN labels |-> Append(labels[i], SeparatorByte)])

\* NewDesc: the labels of a vector are valid names and differ, from those of the name and
\* the kind too; what these two say is a text.
ValidLabel(label) == label # <<>> /\ ToSet(label) \cap NotInNames = {} /\ ~ IsPrefix(<<"_", "_">>, label)
Described(vec) ==
    vec.by # 0 =>
       /\ IsInjective(vec.labels) /\ \A label \in ToSet(vec.labels) : ValidLabel(label)
       /\ vec.kind # "histogram" => /\ Utf8(vec.rec) /\ Utf8(vec.name)
                                    /\ ToSet(vec.labels) \cap {<<"_name">>, <<"_type">>} = {}

Kind(policy) ==
    IF policy = "SUM" THEN "counter"
    ELSE IF policy \in {"Timer", "Histogram"} THEN "histogram" ELSE "gauge"

\* s.counter and s.gauge.
PlainVec(kind) == [kind |-> kind, rec |-> <<>>, name |-> <<>>, labels |-> << <<"_name">> >>, by |-> 0]

\* The name under which a vector is exposed.
Exposed(vec) ==
    IF vec = PlainVec("counter") THEN <<"trpc", "_", "counter", "_", "total">>
    ELSE IF vec = PlainVec("gauge") THEN <<"trpc", "_", "gauge">>
    ELSE IF vec.kind = "counter" THEN getCounterName(convertMetricName(vec.name))
    ELSE IF vec.kind = "gauge" THEN getGaugeName(convertMetricName(vec.name))
    ELSE <<"trpc", "_", "histogram", "_">> \o convertMetricName(vec.name)

-----------------------------------------------------------------------------
(* Reporting.                                                              *)

Metric(r, i) == record[r].metrics[i]
Labels(r) == [d \in DOMAIN record[r].dims |-> record[r].dims[d][1]]
Values(r) == [d \in DOMAIN record[r].dims |-> record[r].dims[d][2]]

\* Where the report of r's metric i goes: a histogram is known by its name alone, a
\* counter or gauge without dimensions is a series of the plain vector.
KeyOf(r, i) ==
    LET kind == Kind(Metric(r, i).policy)
    IN IF kind = "histogram" THEN <<kind, Metric(r, i).name>>
       ELSE IF record[r].dims = <<>> THEN <<kind, <<>> >>
       ELSE <<kind, labelsHash(Metric(r, i).name, Labels(r))>>

SeriesOf(r, i) ==
    IF record[r].dims # <<>> THEN Values(r)
    ELSE IF Kind(Metric(r, i).policy) = "histogram" THEN <<ToValidUTF8(Metric(r, i).name), <<"histogram">> >>
    ELSE <<ToValidUTF8(Metric(r, i).name)>>

NewVec(r, i) ==
    [ kind |-> Kind(Metric(r, i).policy), rec |-> record[r].name, name |-> Metric(r, i).name,
      labels |-> IF record[r].dims = <<>> THEN << <<"_name">>, <<"_type">> >> ELSE Labels(r), by |-> r ]

NewSink == [key \in {<<"counter", <<>> >>, <<"gauge", <<>> >>} |-> PlainVec(key[1])]

InitSink(records) ==
    /\ record \in records
    /\ reportAt = [r \in Reporters |->
                      [step |-> IF record[r].noSink \/ record[r].metrics = <<>> THEN "done" ELSE "load",
                       i |-> 1, vec |-> PlainVec("counter")]]
    /\ vecs = NewSink /\ registered = {} /\ total = <<>>

\* The map f with x bound to value.
Bind(f, x, value) == [y \in DOMAIN f \cup {x} |-> IF y = x THEN value ELSE f[y]]

At(r, step) == reportAt[r].step = step
GoTo(r, step, vec) == reportAt' = [reportAt EXCEPT ![r].step = step, ![r].vec = vec]

Load(r) ==
    /\ At(r, "load")
    /\ LET key == KeyOf(r, reportAt[r].i)
       IN IF key \in DOMAIN vecs THEN GoTo(r, "add", vecs[key])
          ELSE GoTo(r, "store", NewVec(r, reportAt[r].i))
    /\ UNCHANGED <<record, vecs, registered, total>>

\* Mutant: the vector made replaces the one another report has stored since.
Store(r) ==
    /\ At(r, "store")
    /\ LET new == reportAt[r].vec IN
       /\ vecs' = Bind(vecs, KeyOf(r, reportAt[r].i), new)
       /\ GoTo(r, IF new.kind = "histogram" THEN "register" ELSE "add", new)
    /\ UNCHANGED <<record, registered, total>>

LoadOrStore(r) ==
    /\ At(r, "store")
    /\ LET key == KeyOf(r, reportAt[r].i)
           new == reportAt[r].vec
       IN IF key \in DOMAIN vecs THEN GoTo(r, "add", vecs[key]) /\ UNCHANGED vecs
          ELSE /\ vecs' = Bind(vecs, key, new)
               /\ GoTo(r, IF new.kind = "histogram" THEN "register" ELSE "add", new)
    /\ UNCHANGED <<record, registered, total>>

\* The registry refuses a second histogram of the same name, and one with wrong labels;
\* Report only logs that.
RegisterHistogram(r) ==
    /\ At(r, "register")
    /\ LET vec == reportAt[r].vec IN
       /\ registered' = IF ~ Described(vec) \/ \E v \in registered : Exposed(v) = Exposed(vec)
                        THEN registered ELSE registered \union {vec}
       /\ GoTo(r, "add", vec)
    /\ UNCHANGED <<record, vecs, total>>

\* WithLabelValues panics when the number of values is not the number of labels, when one
\* is no text, and when a histogram has the label of the buckets; a counter's Add when it
\* would decrease.
Refuses(vec, values, value) ==
    \/ Len(vec.labels) # Len(values)
    \/ \E text \in ToSet(values) : ~ Utf8(text)
    \/ vec.kind = "histogram" /\ <<"le">> \in ToSet(vec.labels)
    \/ vec.kind = "counter" /\ value < 0

Add(r) ==
    /\ At(r, "add")
    /\ LET i      == reportAt[r].i
           vec    == reportAt[r].vec
           series == <<vec, SeriesOf(r, i)>>
           old    == IF series \in DOMAIN total THEN total[series] ELSE 0
           new    == IF vec.kind = "counter" THEN old + Metric(r, i).value
                     ELSE IF vec.kind = "gauge" THEN Metric(r, i).value ELSE old + 1
       IN IF Refuses(vec, series[2], Metric(r, i).value) THEN GoTo(r, "panicked", vec) /\ UNCHANGED total
          ELSE /\ total' = Bind(total, series, new)
               /\ reportAt' = [reportAt EXCEPT
                      ![r] = [step |-> IF i < Len(record[r].metrics) THEN "load" ELSE "done",
                              i |-> i + 1, vec |-> PlainVec("counter")]]
    /\ UNCHANGED <<record, vecs, registered>>

SinkNext == \E r \in Reporters : Load(r) \/ LoadOrStore(r) \/ RegisterHistogram(r) \/ Add(r)

-----------------------------------------------------------------------------
(* Properties.                                                             *)

Reports == UNION {{r} \X DOMAIN record[r].metrics : r \in Reporters}
Past == UNION {{r} \X (1 .. reportAt[r].i - 1) : r \in Reporters}
Shown(vec, values) == IF <<vec, values>> \in DOMAIN total THEN total[<<vec, values>>] ELSE 0
PastOf(key, series) == {p \in Past : KeyOf(p[1], p[2]) = key /\ SeriesOf(p[1], p[2]) = series}
ValuesOf(S) == [p \in S |-> Metric(p[1], p[2]).value]

\* However reports race to make a vector, every one that returned is counted in the
\* vector that is scraped: counters hold the sum, histograms the number, gauges a value
\* that was reported (trpc_metric.go:183, :195, :271).
ReportsCounted ==
    \A p \in Past :
        LET key    == KeyOf(p[1], p[2])
            series == SeriesOf(p[1], p[2])
            same   == PastOf(key, series)
            value  == Shown(vecs[key], series)
        IN /\ vecs[key].kind = "counter" => value = SumFunctionOnSet(ValuesOf(same), same)
           /\ vecs[key].kind = "gauge" => \E q \in same : value = Metric(q[1], q[2]).value
           /\ vecs[key].kind = "histogram" => value = Cardinality(same)

\* Series that share a name must share the help text, which is the name reported, and
\* differ in their labels; a histogram's name must not be another's with a suffix.
Bound(labels, values) == {<<labels[i], values[i]>> : i \in DOMAIN labels}
Clash(s, t) ==
    LET v == s[1]
        w == t[1]
    IN /\ v # w /\ Exposed(v) = Exposed(w)
       /\ \/ v.name # w.name
          \/ v.rec = w.rec /\ Bound(v.labels, s[2]) = Bound(w.labels, t[2])
Suffixed(v, w) ==
    /\ v.kind = "histogram" /\ w.kind = "histogram"
    /\ \E suffix \in {"count", "sum", "bucket"} : Exposed(w) = Exposed(v) \o <<"_", suffix>>
Scraped == {vecs[key] : key \in {k \in DOMAIN vecs : k[1] # "histogram"}} \union registered
InScrape == {s \in DOMAIN total : s[1] \in Scraped}
ScrapeFails ==
    \/ \E s \in InScrape : ~ Described(s[1])
    \/ \E s, t \in InScrape : Clash(s, t) \/ Suffixed(s[1], t[1])

\* A report alone is to blame for a value that is no text, the label of the buckets, a
\* negative count, and for labels or names of which no vector can be described.
VecOf(p) == NewVec(p[1], p[2])
Own(p) == record[p[1]].dims # <<>> \/ VecOf(p).kind = "histogram"
BadValue(p) ==
    \/ \E text \in ToSet(Values(p[1])) : ~ Utf8(text)
    \/ VecOf(p).kind = "histogram" /\ <<"le">> \in ToSet(VecOf(p).labels)
    \/ VecOf(p).kind = "counter" /\ Metric(p[1], p[2]).value < 0
Malformed(p) == Own(p) /\ ~ Described(VecOf(p))

\* Two are, when they use names that are converted to one or a name with other labels or
\* labels in another order; or when the hash of one is that of another with more labels,
\* which takes a name or a label with the separator in it.
OneOfTwo(p) ==
    \E q \in Reports : /\ q # p /\ Own(p) /\ Own(q) /\ Exposed(VecOf(p)) = Exposed(VecOf(q))
                       /\ \/ VecOf(p).name # VecOf(q).name
                          \/ VecOf(p).labels # VecOf(q).labels
HashOfTwo(p) ==
    \E q \in Reports : /\ KeyOf(p[1], p[2]) = KeyOf(q[1], q[2])
                       /\ Len(VecOf(p).labels) # Len(VecOf(q).labels) /\ (Malformed(p) \/ Malformed(q))

\* A report panics, or is counted where no scrape sees it, or makes scrapes fail, only
\* for these reasons, or as the name of a vector is that of the plain one or of another
\* histogram's parts (trpc_metric.go:184, :197, :254, :275).
FailuresBlamed ==
    /\ \A r \in Reporters : At(r, "panicked") =>
          LET p == <<r, reportAt[r].i>> IN BadValue(p) \/ OneOfTwo(p) \/ HashOfTwo(p)
    /\ \A p \in Past :
          LET v == vecs[KeyOf(p[1], p[2])]
          IN v.kind = "histogram" /\ v \notin registered => At(v.by, "register") \/ OneOfTwo(p) \/ Malformed(p)
    /\ ScrapeFails =>
          \E p \in Reports :
             \/ OneOfTwo(p) \/ Malformed(p)
             \/ Own(p) /\ \E kind \in {"counter", "gauge"} : Exposed(VecOf(p)) = Exposed(PlainVec(kind))
             \/ \E q \in Reports : Suffixed(VecOf(p), VecOf(q))
=============================================================================
