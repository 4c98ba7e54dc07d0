----------------------------- MODULE ZapEncoder -----------------------------
(***************************************************************************)
(* The protobuf core of otelzap/zap.go: an encoder that fills a log record *)
(* from zap fields, and the writeSyncer that decodes the bytes and puts    *)
(* the record into the log batch processor.                                *)
(*                                                                         *)
(* Clone, which zap's With calls, copies the key-value list of an encoder  *)
(* and shares its record and its buffer; EncodeEntry clears none of the    *)
(* three. The buffer so holds the bytes of every entry encoded so far, and *)
(* decoding a concatenation merges: a scalar keeps its last value that is  *)
(* not zero, a list is the lists one after the other.                      *)
(*                                                                         *)
(* Entries are written one after the other: the encoder has no lock.       *)
(***************************************************************************)
EXTENDS Naturals, Sequences, SequencesExt

CONSTANTS Loggers,      \* the root logger and those made by With
          Root,
          MaxEntries    \* bound on the entries written

ASSUME EncoderAssumption == Root \in Loggers

VARIABLES
    record,             \* encoder.record, one for all loggers
    buf,                \* encoder.buf: the marshalled records, one for all loggers
    kvs,                \* kvs[l]: encoder.kvs of logger l
    loggers,            \* the loggers that exist
    enqueued,           \* the records given to BatchProcessor.Enqueue
    wrote               \* for each, what it was to say: entry, its fields, those of its logger

encoderVars == <<record, buf, kvs, loggers, enqueued, wrote>>

EmptyRecord == [severity |-> "", body |-> "", flags |-> 0, trace |-> "", span |-> "", attrs |-> <<>>]

NewEncoder ==
    /\ record = EmptyRecord /\ buf = <<>>
    /\ kvs = [l \in Loggers |-> <<>>]
    /\ loggers = {Root}
    /\ enqueued = <<>> /\ wrote = <<>>

-----------------------------------------------------------------------------
(* Adding a field. An encoder state is a record [rec, kvs]; a field is     *)
(* [kind, key, value].                                                     *)

\* The kinds that become an attribute, with the kind of the attribute's value.
AttrKind(kind) ==
    CASE kind \in {"binary", "byteString", "duration", "time", "string", "stringer", "error"} -> "string"
      [] kind = "bool" -> "bool"
      [] kind \in {"float64", "float32"} -> "double"
      [] kind \in {"int64", "int32", "int16", "int8", "uint64", "uint32", "uint16", "uint8"} -> "int"

\* AddArray, AddObject, AddComplex, AddUintptr, AddReflected and OpenNamespace do
\* nothing, and Stringer and Skip fields call nothing.
IgnoredKinds == {"array", "object", "complex128", "complex64", "uintptr", "reflect",
                 "namespace", "stringer", "skip"}

AddAttr(s, f) == [s EXCEPT !.kvs = Append(@, [key |-> f.key, value |-> f.value, kind |-> AttrKind(f.kind)])]

\* AddString: three keys go into the record itself. A sampled flag is set, never cleared.
AddString(s, f) ==
    CASE f.key = "sampled" -> [s EXCEPT !.rec.flags = IF f.value = "true" THEN 1 ELSE @]
      [] f.key = "traceID" -> [s EXCEPT !.rec.trace = f.value]
      [] f.key = "spanID"  -> [s EXCEPT !.rec.span = f.value]
      [] OTHER -> AddAttr(s, f)

\* convertField.
convertField(s, f) ==
    CASE f.kind \in IgnoredKinds -> s
      [] f.kind \in {"string", "error"} -> AddString(s, f)
      [] OTHER -> AddAttr(s, f)

ConvertFields(s, fields) == FoldLeft(convertField, s, fields)

\* zap's Field.AddTo, which With calls: it formats a Stringer itself, and reports the
\* error of AddArray and AddObject as a string field.
AddTo(s, f) ==
    CASE f.kind = "stringer" -> AddString(s, f)
      [] f.kind \in {"array", "object"} -> AddString(s, [f EXCEPT !.kind = "string", !.key = @ \o "Error"])
      [] OTHER -> convertField(s, f)

-----------------------------------------------------------------------------
(* Entries.                                                                *)

\* Decoding the bytes of several records at once.
Later(old, new, zero) == IF new = zero THEN old ELSE new
Merge(a, b) == [ severity |-> Later(a.severity, b.severity, ""), body  |-> b.body,
                 flags    |-> Later(a.flags, b.flags, 0),        trace |-> Later(a.trace, b.trace, ""),
                 span     |-> Later(a.span, b.span, ""),         attrs |-> a.attrs \o b.attrs ]
Unmarshal(bytes) == FoldLeft(Merge, EmptyRecord, bytes)

\* Mutant: the fields of the entry are converted after the attributes were taken.
EncodeBeforeFields(l, level, msg, fields) ==
    LET s == ConvertFields([rec |-> record, kvs |-> kvs[l]], fields) IN
    [s EXCEPT !.rec.severity = level, !.rec.body = msg, !.rec.attrs = @ \o kvs[l]]

EncodeEntry(l, level, msg, fields) ==
    LET s == ConvertFields([rec |-> record, kvs |-> kvs[l]], fields) IN
    [s EXCEPT !.rec.severity = level, !.rec.body = msg, !.rec.attrs = @ \o s.kvs]

\* zap's With: a clone of the encoder, and the fields added to it.
With(parent, l, fields) ==
    /\ parent \in loggers /\ l \in Loggers \ loggers
    /\ LET s == FoldLeft(AddTo, [rec |-> record, kvs |-> kvs[parent]], fields) IN
       /\ record' = s.rec
       /\ kvs' = [kvs EXCEPT ![l] = s.kvs]
    /\ loggers' = loggers \cup {l}
    /\ UNCHANGED <<buf, enqueued, wrote>>

\* zap's ioCore.Write: EncodeEntry, then writeSyncer.Write of the buffer's bytes.
WriteEntry(l, level, msg, fields) ==
    /\ l \in loggers /\ Len(wrote) < MaxEntries
    /\ LET s == EncodeEntry(l, level, msg, fields) IN
       /\ record' = s.rec
       /\ kvs' = [kvs EXCEPT ![l] = s.kvs]
       /\ buf' = Append(buf, s.rec)
    /\ enqueued' = Append(enqueued, Unmarshal(buf'))
    /\ wrote' = Append(wrote, [level |-> level, msg |-> msg, fields |-> fields])
    /\ UNCHANGED loggers

-----------------------------------------------------------------------------
(* Properties.                                                             *)

\* A field that goes into the record itself, and whether a later one has its key.
InRecord(f) == f.kind \in {"string", "error"} /\ f.key \in {"sampled", "traceID", "spanID"}
GivenLater(fields, n) == \E m \in DOMAIN fields : m > n /\ InRecord(fields[m]) /\ fields[m].key = fields[n].key

\* What a decoded record is to say of an entry: its level, its message, the flag and the
\* IDs its fields give, the last of each if there are several, and its other fields.
Delivers(got, entry) ==
    LET own == entry.fields
    IN /\ got.severity = entry.level /\ got.body = entry.msg
       /\ \A n \in DOMAIN own : InRecord(own[n]) /\ own[n].value # "" /\ ~GivenLater(own, n) =>
             /\ own[n].key = "traceID" => got.trace = own[n].value
             /\ own[n].key = "spanID"  => got.span  = own[n].value
       /\ \A n \in DOMAIN own : InRecord(own[n]) /\ own[n].key = "sampled" /\ own[n].value = "true" =>
             got.flags = 1
       /\ \A n \in DOMAIN own : ~InRecord(own[n]) /\ own[n].kind \notin IgnoredKinds =>
             [key |-> own[n].key, value |-> own[n].value, kind |-> AttrKind(own[n].kind)] \in ToSet(got.attrs)

\* However much earlier entries left behind in the shared record and buffer, the record
\* put into the processor has the level, the message and every field of its own entry
\* (zap.go:318-341, 368-395).
OwnFieldsDelivered == \A i \in DOMAIN wrote : Delivers(enqueued[i], wrote[i])
=============================================================================
