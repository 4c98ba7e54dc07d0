----------------------------- MODULE ContextLog -----------------------------
(***************************************************************************)
(* The log API: api/log keeps the fields of a context in a slice that      *)
(* derived contexts append to, sdk/log's Logger decides what is recorded   *)
(* and hands it to the batch processor, and oteltrpc/logs writes a line    *)
(* to the span's events and to trpc-go's logger.                           *)
(*                                                                         *)
(* Two contexts derived from the same one may share the array: the second  *)
(* append then writes what the first one holds.                            *)
(***************************************************************************)
EXTENDS Integers, Sequences, FiniteSetsExt, TLC

CONSTANTS Contexts,     \* the contexts that may be made
          Background,   \* the one that is there
          LoggerOptions,\* the options of the Logger, and what it is for
          SpanOf,       \* SpanOf[x]: "sampled", "recorded", "dropped" or "none", of context x
          MaxLogs       \* bound: lines logged

ASSUME SpanAssumption ==
    \A x \in Contexts : SpanOf[x] \in {"sampled", "recorded", "dropped", "none"}

VARIABLES
    logger,             \* the global logger: its options, or the no-op one
    arrays,             \* arrays of fields: their cells, as long as their capacity
    fieldsOf,           \* [context -> [array, len]]; array 0 when it has none
    given,              \* ghost: the fields each context was given, on its way
    parentOf,           \* ghost: context -> what it was derived from
    processed,          \* what the batch processor was given
    events,             \* lines the spans' events hold, per context
    lines,              \* lines trpc-go's logger got, per context
    finished            \* contexts whose span has ended

contextLogVars == <<logger, arrays, fieldsOf, given, parentOf, processed, events, lines, finished>>

NoFields == [array |-> 0, len |-> 0]

InitContextLog ==
    /\ logger \in LoggerOptions
    /\ arrays = <<>>
    /\ fieldsOf = [x \in {Background} |-> NoFields] /\ given = [x \in {Background} |-> <<>>]
    /\ parentOf = [x \in {Background} |-> Background]
    /\ processed = <<>>
    /\ events = [x \in Contexts |-> 0] /\ lines = events /\ finished = {}

-----------------------------------------------------------------------------
(* The fields of a context.                                                *)

FromContext(x) ==
    IF fieldsOf[x].array = 0 THEN <<>> ELSE SubSeq(arrays[fieldsOf[x].array], 1, fieldsOf[x].len)

\* append: into the array as long as it has room, else into a new one that has at least
\* twice the capacity (a KeyValue has 64 bytes: no class of sizes rounds it up).
Unused == "-"
Grow(old, needed) == IF needed > 2 * old THEN needed ELSE 2 * old
AppendFields(slice, kvs) ==
    LET needed == slice.len + Len(kvs)
        old == IF slice.array = 0 THEN <<>> ELSE arrays[slice.array]
    IN IF needed <= Len(old)
       THEN [ slice  |-> [slice EXCEPT !.len = needed],
              arrays |-> IF slice.array = 0 THEN arrays ELSE
                         [arrays EXCEPT ![slice.array] = SubSeq(@, 1, slice.len) \o kvs
                                                         \o SubSeq(@, needed + 1, Len(@))] ]
       ELSE [ slice  |-> [array |-> Len(arrays) + 1, len |-> needed],
              arrays |-> Append(arrays, SubSeq(old, 1, slice.len) \o kvs
                                        \o [i \in 1..Grow(Len(old), needed) - needed |-> Unused]) ]

\* Mutant: a derived context starts from nothing.
FromNothing(slice, kvs) == AppendFields(NoFields, kvs)
Derive(slice, kvs) == AppendFields(slice, kvs)

WithValue(f, x, value) == [y \in DOMAIN f \cup {x} |-> IF y = x THEN value ELSE f[y]]

\* Logger.With, ContextWith: n fields of the new context. The no-op logger returns the
\* context it was given.
With(x, n) ==
    /\ x \in DOMAIN fieldsOf /\ Contexts \ DOMAIN fieldsOf # {}
    /\ LET child == CHOOSE y \in Contexts \ DOMAIN fieldsOf : TRUE
           kvs == [i \in 1..n |-> child \o ToString(i)]
           derived == IF logger.kind = "nop" THEN [slice |-> fieldsOf[x], arrays |-> arrays]
                      ELSE Derive(fieldsOf[x], kvs)
       IN /\ arrays' = derived.arrays
          /\ fieldsOf' = WithValue(fieldsOf, child, derived.slice)
          /\ given' = WithValue(given, child, IF logger.kind = "nop" THEN given[x] ELSE given[x] \o kvs)
          /\ parentOf' = WithValue(parentOf, child, x)
    /\ UNCHANGED <<logger, processed, events, lines, finished>>

-----------------------------------------------------------------------------
(* Logging.                                                                *)

toSeverityNumber(level) ==
    CASE level = "trace" -> 1 [] level = "debug" -> 5 [] level = "info" -> 9
      [] level = "warn" -> 13 [] level = "error" -> 17 [] level = "fatal" -> 21 [] OTHER -> 0

Steps == Len(processed) + Cardinality(finished) + FoldSet(LAMBDA x, n : n + lines[x], 0, Contexts)
IsSampled(x) == SpanOf[x] = "sampled"

\* Log: the level, and with the sampler the trace's sampling or an error.
Passes(x, level) ==
    /\ toSeverityNumber(level) >= toSeverityNumber(logger.level)
    /\ logger.sampler => IsSampled(x) \/ (logger.samplerError /\ toSeverityNumber(level) >= 17)

\* log: the record, of the fields of the line and those the context holds now.
Record(x, level, fields) ==
    [ context |-> x, level |-> level, line |-> fields, fields |-> fields \o FromContext(x),
      traced  |-> IsSampled(x) ]

Log(x, level, fields) ==
    /\ x \in DOMAIN fieldsOf /\ Steps < MaxLogs
    /\ processed' = IF logger.kind = "nop" \/ ~Passes(x, level) THEN processed
                    ELSE Append(processed, Record(x, level, fields))
    /\ UNCHANGED <<logger, arrays, fieldsOf, given, parentOf, events, lines, finished>>

\* logs.ServerFilter and ClientFilter: a line of the level info when the call has ended.
FilterLog(x) == Log(x, "info", <<"span.kind", "trpc.code">>)

\* spanLogf adds an event to the span, if it records; the line goes to the logger of the
\* message, or to the default one.
RpcLog(x) ==
    /\ x \in DOMAIN fieldsOf /\ Steps < MaxLogs
    /\ events' = IF SpanOf[x] \in {"sampled", "recorded"} /\ x \notin finished
                 THEN [events EXCEPT ![x] = @ + 1] ELSE events
    /\ lines' = [lines EXCEPT ![x] = @ + 1]
    /\ UNCHANGED <<logger, arrays, fieldsOf, given, parentOf, processed, finished>>

EndSpan(x) ==
    /\ x \in DOMAIN fieldsOf \ finished /\ Steps < MaxLogs
    /\ finished' = finished \cup {x}
    /\ UNCHANGED <<logger, arrays, fieldsOf, given, parentOf, processed, events, lines>>

ContextLogNext(lengths, lineFields, levels) ==
    \E x \in Contexts :
       \/ \E n \in lengths : With(x, n)
       \/ \E level \in levels, line \in lineFields : Log(x, level, line)
       \/ FilterLog(x) \/ RpcLog(x) \/ EndSpan(x)

-----------------------------------------------------------------------------
(* Property.                                                               *)

\* x and what it was derived from: what every set has that has x and all parents.
HasParents(S) == \A y \in S : parentOf[y] \in S
Ancestors(x) == {a \in DOMAIN parentOf :
                    \A S \in SUBSET DOMAIN parentOf : x \in S /\ HasParents(S) => a \in S}

HasSibling(x) ==
    \E a \in Ancestors(x) \ {Background}, y \in DOMAIN parentOf \ {Background} :
       y # a /\ parentOf[y] = parentOf[a]

\* A record says what its line and its own context said, and names the trace when the
\* context's span is sampled: the fields of another context get in only through a sibling
\* of the context or of one it derives from (logger.go:79). A line is missing in the
\* events of its span only if that does not record, or has ended (log.go:148).
LogsTellTrace ==
    /\ \A i \in DOMAIN processed :
          LET r == processed[i] IN
          /\ r.fields = r.line \o given[r.context] \/ HasSibling(r.context)
          /\ Len(r.fields) = Len(r.line) + Len(given[r.context])
          /\ r.traced \/ ~logger.sampler \/ r.level \in {"error", "fatal"}
    /\ \A x \in Contexts :
          events[x] < lines[x] => SpanOf[x] \in {"dropped", "none"} \/ x \in finished
=============================================================================
