----------------------------- MODULE JsonRecord -----------------------------
(***************************************************************************)
(* How otelzap/writer.go reads the JSON text zap wrote for an entry: the   *)
(* decision to keep it looks at two fields, the conversion at all of them. *)
(* An object is the sequence of its fields [key, type, value], and zap     *)
(* writes a key as often as it is given.                                   *)
(***************************************************************************)
EXTENDS Naturals, Sequences, SequencesExt, FiniteSets

\* The value of the last field with that key, or none.
Last1(raw, key, none) ==
    LET at == {i \in DOMAIN raw : raw[i].key = key}
    IN IF at = {} THEN none ELSE raw[CHOOSE i \in at : \A j \in at : j <= i].value

\* ReadString of another type is an error, and Write returns it.
StringKeys == {"sampled", "level", "msg", "traceID", "spanID", "caller"}
Malformed(raw) == \E i \in DOMAIN raw : raw[i].key \in StringKeys /\ raw[i].type # "string"

\* readSampledAndLevel counts the fields of its keys; past two of them, which takes a
\* repeated key, the next other field ends the reading.
OwnKeys == {"sampled", "level"}
ReadPart(raw) ==
    LET own(i)  == Cardinality({j \in 1..i : raw[j].key \in OwnKeys})
        read(i) == \A j \in 1..i : raw[j].key \in OwnKeys \/ own(j) <= 2
    IN SubSeq(raw, 1, Cardinality({i \in DOMAIN raw : read(i)}))

readSampledAndLevel(raw) ==
    LET seen == ReadPart(raw)
    IN [sampled |-> Last1(seen, "sampled", "") = "true", level |-> Last1(seen, "level", "")]

\* The other fields become attributes, whatever their type.
isTagsField(f) == f.key \notin StringKeys \cup {"ts"}
Tag(f) == [key |-> f.key, value |-> f.value]

\* convertToRecordV2. Every sampled and caller field adds an attribute.
Attribute(f) ==
    CASE f.key = "sampled" -> [key |-> "sampled", value |-> IF f.value = "true" THEN "true" ELSE "false"]
      [] f.key = "caller"  -> [key |-> "line", value |-> f.value]
      [] OTHER -> Tag(f)
HasAttribute(f) == f.key \in {"sampled", "caller"} \/ isTagsField(f)

AddAttribute(attrs, f) == IF HasAttribute(f) THEN Append(attrs, Attribute(f)) ELSE attrs

convertToRecordV2(raw) ==
    [ body  |-> Last1(raw, "msg", ""),     level |-> Last1(raw, "level", ""),
      trace |-> Last1(raw, "traceID", ""), span  |-> Last1(raw, "spanID", ""),
      ts    |-> Last1(raw, "ts", ""),
      attrs |-> FoldLeft(AddAttribute, <<>>, raw) ]

\* convertToRecord, the older conversion of a decoded map: without a message there is
\* no record, the last of equal keys counts, and only strings become attributes.
DecodedFields(raw) ==
    {i \in DOMAIN raw : /\ \A j \in DOMAIN raw : raw[j].key = raw[i].key => j <= i
                        /\ HasAttribute(raw[i])
                        /\ isTagsField(raw[i]) => raw[i].type = "string"}

convertToRecord(raw) ==
    IF \A i \in DOMAIN raw : raw[i].key # "msg"
    THEN [body |-> "", level |-> "", trace |-> "", span |-> "", ts |-> "", attrs |-> {}]
    ELSE [ body  |-> Last1(raw, "msg", ""),     level |-> Last1(raw, "level", ""),
           trace |-> Last1(raw, "traceID", ""), span  |-> Last1(raw, "spanID", ""),
           ts    |-> Last1(raw, "ts", ""),      attrs |-> {Attribute(raw[i]) : i \in DecodedFields(raw)} ]

\* The conversion in use keeps what the older one kept, and besides that only repeated
\* keys and values of other types (writer.go:106, 189).
ConversionsAgree(raw) ==
    LET new == convertToRecordV2(raw)
        old == convertToRecord(raw)
    IN (\E i \in DOMAIN raw : raw[i].key = "msg") =>
         /\ \A k \in {"body", "level", "trace", "span", "ts"} : new[k] = old[k]
         /\ old.attrs \subseteq ToSet(new.attrs)

\* isValidRecord: the decoded IDs have 16 and 8 bytes or none.
isValidRecord(r) == r.trace \in {"", "trace"} /\ r.span \in {"", "span"}
=============================================================================
