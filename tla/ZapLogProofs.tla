---------------------------- MODULE ZapLogProofs ----------------------------
(***************************************************************************)
(* Proofs about logging through zap, for every set of entries, callers of  *)
(* Sync, configuration, batch size and retry budget.                       *)
(***************************************************************************)
EXTENDS ZapLog, SequenceLemmas

-----------------------------------------------------------------------------
(* The protobuf core.                                                      *)

FieldSet == UNION {ToSet(fields) : fields \in Fields}
Keys     == {f.key : f \in FieldSet} \cup {f.key \o "Error" : f \in FieldSet}
Values   == {f.value : f \in FieldSet} \cup {""}
Kinds    == {AttrKind(f.kind) : f \in FieldSet} \cup {"string"}
AttrSet  == [key : Keys, value : Values, kind : Kinds]
RecSet   == [severity : {"", "info", "error"}, body : {"", "m1", "m2"}, flags : {0, 1},
             trace : Values, span : Values, attrs : Seq(AttrSet)]
Encoders == [rec : RecSet, kvs : Seq(AttrSet)]

\* A field as it is given, or as AddTo rewrites it.
FieldOK(f) == /\ f.key \in Keys /\ f.value \in Values /\ AttrKind(f.kind) \in Kinds
              /\ f.kind \in {"string", "error"} => AttrKind(f.kind) = "string"

LEMMA GivenField ==
    ASSUME NEW fields \in Fields
    PROVE  /\ fields \in Seq(FieldSet)
           /\ \A n \in 1 .. Len(fields) : fields[n] \in FieldSet
<1>1. PICK T : fields \in Seq(T)
  BY EntriesAssumption DEF EntriesAssumption
<1>2. \A n \in DOMAIN fields : fields[n] \in FieldSet
  BY DEF FieldSet, ToSet
<1>3. Len(fields) \in Nat /\ DOMAIN fields = 1 .. Len(fields) /\ fields \in [1 .. Len(fields) -> T]
  BY <1>1
<1>4. fields \in [1 .. Len(fields) -> FieldSet]
  BY <1>2, <1>3
<1>5. fields \in Seq(FieldSet)
  <2>1. PICK n \in Nat : n = Len(fields)
    BY <1>3
  <2>2. fields \in [1 .. n -> FieldSet]
    BY <1>4, <2>1
  <2> QED
    BY <2>2
<1> QED
  BY <1>2, <1>3, <1>5

LEMMA FieldShape ==
    ASSUME NEW f \in FieldSet
    PROVE  f = [key |-> f.key, kind |-> f.kind, value |-> f.value]
<1>1. PICK fields \in Fields : f \in ToSet(fields)
  BY DEF FieldSet
<1>2. PICK n \in DOMAIN fields : f = fields[n]
  BY <1>1 DEF ToSet
<1>3. PICK T : T = [key : STRING, kind : STRING, value : STRING]
  OBVIOUS
<1>4. fields \in Seq(T)
  BY <1>3, EntriesAssumption DEF EntriesAssumption
<1>5. f \in T
  BY <1>2, <1>4
<1> QED
  BY <1>3, <1>5

LEMMA StringKinds == AttrKind("string") = "string" /\ AttrKind("error") = "string"
  BY DEF AttrKind

LEMMA GivenOK == ASSUME NEW f \in FieldSet PROVE FieldOK(f)
<1>1. f.key \in Keys /\ f.value \in Values /\ AttrKind(f.kind) \in Kinds
  BY DEF Keys, Values, Kinds
<1>2. f.kind \in {"string", "error"} => AttrKind(f.kind) = "string"
  BY StringKinds
<1> QED
  BY <1>1, <1>2 DEF FieldOK

\* What adding a string does.
LEMMA AddStringStep ==
    ASSUME NEW s \in Encoders, NEW f, f.key \in Keys, f.value \in Values, AttrKind(f.kind) \in Kinds
    PROVE  /\ AddString(s, f) \in Encoders
           /\ AddString(s, f).rec.flags = IF f.key = "sampled" /\ f.value = "true" THEN 1 ELSE s.rec.flags
           /\ AddString(s, f).rec.trace = IF f.key = "traceID" THEN f.value ELSE s.rec.trace
           /\ AddString(s, f).rec.span  = IF f.key = "spanID" THEN f.value ELSE s.rec.span
           /\ AddString(s, f).kvs =
                IF f.key \in {"sampled", "traceID", "spanID"} THEN s.kvs
                ELSE Append(s.kvs, [key |-> f.key, value |-> f.value, kind |-> AttrKind(f.kind)])
<1>1. CASE f.key = "sampled"
  <2>1. PICK flags \in {0, 1} : flags = IF f.value = "true" THEN 1 ELSE s.rec.flags
    BY DEF Encoders, RecSet
  <2>2. AddString(s, f) = [s EXCEPT !.rec.flags = flags]
    BY <1>1, <2>1 DEF AddString
  <2>3. AddString(s, f) \in Encoders /\ AddString(s, f).kvs = s.kvs
    BY <2>2 DEF Encoders, RecSet
  <2>4. AddString(s, f).rec.flags = flags
    BY <2>2 DEF Encoders, RecSet
  <2>5. AddString(s, f).rec.trace = s.rec.trace /\ AddString(s, f).rec.span = s.rec.span
    BY <2>2 DEF Encoders, RecSet
  <2>6. f.key # "traceID" /\ f.key # "spanID" /\ f.key \in {"sampled", "traceID", "spanID"}
    BY <1>1
  <2>7. flags = IF f.key = "sampled" /\ f.value = "true" THEN 1 ELSE s.rec.flags
    BY <1>1, <2>1
  <2> QED
    BY <2>3, <2>4, <2>5, <2>6, <2>7
<1>2. CASE f.key = "traceID"
  <2>1. AddString(s, f) = [s EXCEPT !.rec.trace = f.value]
    BY <1>2 DEF AddString
  <2> QED
    BY <1>2, <2>1 DEF Encoders, RecSet
<1>3. CASE f.key = "spanID"
  <2>1. AddString(s, f) = [s EXCEPT !.rec.span = f.value]
    BY <1>3 DEF AddString
  <2> QED
    BY <1>3, <2>1 DEF Encoders, RecSet
<1>4. CASE f.key \notin {"sampled", "traceID", "spanID"}
  <2>1. AddString(s, f) = AddAttr(s, f)
    BY <1>4 DEF AddString
  <2>2. PICK a \in AttrSet : a = [key |-> f.key, value |-> f.value, kind |-> AttrKind(f.kind)]
    BY DEF AttrSet
  <2>3. AddAttr(s, f) = [s EXCEPT !.kvs = Append(s.kvs, a)]
    BY <2>2 DEF AddAttr
  <2>4. s.rec \in RecSet /\ Append(s.kvs, a) \in Seq(AttrSet) /\ s = [rec |-> s.rec, kvs |-> s.kvs]
    BY <2>2 DEF Encoders
  <2>5. AddString(s, f) = [rec |-> s.rec, kvs |-> Append(s.kvs, a)]
    BY <2>1, <2>3, <2>4
  <2>6. AddString(s, f) \in Encoders
    BY <2>4, <2>5 DEF Encoders
  <2>7. AddString(s, f).rec = s.rec /\ AddString(s, f).kvs = Append(s.kvs, a)
    BY <2>5
  <2> QED
    BY <1>4, <2>2, <2>6, <2>7
<1> QED
  BY <1>1, <1>2, <1>3, <1>4

\* What converting a field does to an encoder.
AttrOf(f) == [key |-> f.key, value |-> f.value, kind |-> AttrKind(f.kind)]
Converts(s, f, t) ==
    /\ t.rec.flags = IF InRecord(f) /\ f.key = "sampled" /\ f.value = "true" THEN 1 ELSE s.rec.flags
    /\ t.rec.trace = IF InRecord(f) /\ f.key = "traceID" THEN f.value ELSE s.rec.trace
    /\ t.rec.span  = IF InRecord(f) /\ f.key = "spanID" THEN f.value ELSE s.rec.span
    /\ t.kvs = IF f.kind \in IgnoredKinds \/ InRecord(f) THEN s.kvs ELSE Append(s.kvs, AttrOf(f))

LEMMA AddAttrStep ==
    ASSUME NEW s \in Encoders, NEW f, f.key \in Keys, f.value \in Values, AttrKind(f.kind) \in Kinds
    PROVE  /\ AddAttr(s, f) \in Encoders
           /\ AddAttr(s, f).rec = s.rec /\ AddAttr(s, f).kvs = Append(s.kvs, AttrOf(f))
<1>1. PICK a \in AttrSet : a = AttrOf(f)
  BY DEF AttrSet, AttrOf
<1>2. AddAttr(s, f) = [s EXCEPT !.kvs = Append(s.kvs, a)]
  BY <1>1 DEF AddAttr, AttrOf
<1>3. s.rec \in RecSet /\ Append(s.kvs, a) \in Seq(AttrSet) /\ s = [rec |-> s.rec, kvs |-> s.kvs]
  BY <1>1 DEF Encoders
<1>4. AddAttr(s, f) = [rec |-> s.rec, kvs |-> Append(s.kvs, a)]
  BY <1>2, <1>3
<1>5. AddAttr(s, f) \in Encoders
  BY <1>3, <1>4 DEF Encoders
<1> QED
  BY <1>1, <1>4, <1>5

LEMMA ConvertStep ==
    ASSUME NEW s \in Encoders, NEW f, f.key \in Keys, f.value \in Values, AttrKind(f.kind) \in Kinds
    PROVE  convertField(s, f) \in Encoders /\ Converts(s, f, convertField(s, f))
<1>1. CASE f.kind \in IgnoredKinds
  <2>1. convertField(s, f) = s
    BY <1>1 DEF convertField, IgnoredKinds
  <2>2. ~InRecord(f)
    BY <1>1 DEF InRecord, IgnoredKinds
  <2> QED
    BY <1>1, <2>1, <2>2 DEF Converts
<1>2. CASE f.kind \in {"string", "error"}
  <2>1. f.kind \notin IgnoredKinds
    BY <1>2 DEF IgnoredKinds
  <2>2. convertField(s, f) = AddString(s, f)
    BY <1>2, <2>1 DEF convertField
  <2>3. InRecord(f) <=> f.key \in {"sampled", "traceID", "spanID"}
    BY <1>2 DEF InRecord
  <2> QED
    BY <2>1, <2>2, <2>3, AddStringStep DEF Converts, AttrOf
<1>3. CASE f.kind \notin IgnoredKinds /\ f.kind \notin {"string", "error"}
  <2>1. convertField(s, f) = AddAttr(s, f) /\ ~InRecord(f)
    BY <1>3 DEF convertField, InRecord
  <2> QED
    BY <1>3, <2>1, AddAttrStep DEF Converts
<1> QED
  BY <1>1, <1>2, <1>3

\* With adds the fields another way, to an encoder all the same.
LEMMA AddToStep ==
    ASSUME NEW s \in Encoders, NEW f \in FieldSet
    PROVE  AddTo(s, f) \in Encoders
<1>1. f.key \in Keys /\ f.value \in Values /\ AttrKind(f.kind) \in Kinds
  BY GivenOK DEF FieldOK
<1>2. CASE f.kind = "stringer"
  <2>1. AddTo(s, f) = AddString(s, f)
    BY <1>2 DEF AddTo
  <2> QED
    BY <1>1, <2>1, AddStringStep
<1>3. CASE f.kind \in {"array", "object"}
  <2>1. PICK g : g = [f EXCEPT !.kind = "string", !.key = f.key \o "Error"]
    OBVIOUS
  <2>2. AddTo(s, f) = AddString(s, g)
    BY <1>3, <2>1 DEF AddTo
  <2>3. g.kind = "string" /\ g.key = f.key \o "Error" /\ g.value = f.value
    BY <2>1, FieldShape
  <2>4. g.key \in Keys /\ AttrKind(g.kind) \in Kinds
    BY <2>3, StringKinds DEF Keys, Kinds
  <2> QED
    BY <1>1, <2>2, <2>3, <2>4, AddStringStep
<1>4. CASE f.kind \notin {"stringer", "array", "object"}
  <2>1. AddTo(s, f) = convertField(s, f)
    BY <1>4 DEF AddTo
  <2> QED
    BY <1>1, <2>1, ConvertStep
<1> QED
  BY <1>2, <1>3, <1>4

\* Decoding a record after others.
LEMMA MergeStep ==
    ASSUME NEW a \in RecSet, NEW b \in RecSet
    PROVE  /\ Merge(a, b) \in RecSet
           /\ Merge(a, b).body = b.body
           /\ b.severity # "" => Merge(a, b).severity = b.severity
           /\ b.flags = 1 => Merge(a, b).flags = 1
           /\ b.trace # "" => Merge(a, b).trace = b.trace
           /\ b.span # "" => Merge(a, b).span = b.span
           /\ Merge(a, b).attrs = a.attrs \o b.attrs
<1>1. a.attrs \o b.attrs \in Seq(AttrSet)
  <2>1. PICK T : T = AttrSet
    OBVIOUS
  <2>2. a.attrs \in Seq(T) /\ b.attrs \in Seq(T)
    BY <2>1 DEF RecSet
  <2>3. a.attrs \o b.attrs \in Seq(T)
    BY <2>2
  <2> QED
    BY <2>1, <2>3
<1>2. PICK attrs \in Seq(AttrSet) : attrs = a.attrs \o b.attrs
  BY <1>1
<1> QED
  BY <1>2 DEF Merge, Later, RecSet

\* The encoders along the fields of an entry.
LEMMA ConvertsAll ==
    ASSUME NEW s0 \in Encoders, NEW fields \in Seq(FieldSet)
    PROVE  \E st \in [0 .. Len(fields) -> Encoders] :
              /\ st[0] = s0 /\ ConvertFields(s0, fields) = st[Len(fields)]
              /\ \A n \in 1 .. Len(fields) : st[n] = convertField(st[n - 1], fields[n])
<1> DEFINE k == Len(fields)
           Recursion(f) == f = [s \in SUBSET (1 .. k) |->
                               IF s = {} THEN s0 ELSE convertField(f[s \ {Max(s)}], fields[Max(s)])]
<1>1. k \in Nat /\ DOMAIN fields = 1 .. k /\ \A n \in 1 .. k : fields[n] \in FieldSet
  OBVIOUS
<1>2. ASSUME NEW s \in Encoders, NEW n \in 1 .. k PROVE convertField(s, fields[n]) \in Encoders
  BY <1>1, GivenOK, ConvertStep DEF FieldOK
<1> HIDE DEF k
<1>3. PICK g : g = [n \in 1 .. k |-> [s \in Encoders |-> convertField(s, fields[n])]]
  OBVIOUS
<1>4. g \in [1 .. k -> [Encoders -> Encoders]]
  BY <1>2, <1>3
<1>5. ASSUME NEW s \in SUBSET (1 .. k), s # {}, NEW v \in Encoders
      PROVE  g[Max(s)][v] = convertField(v, fields[Max(s)])
  <2>1. Max(s) \in 1 .. k
    BY <1>1, <1>5, LastUpTo
  <2> QED
    BY <1>3, <2>1
<1>6. \E f : Recursion(f)
  <2>1. PICK f \in [SUBSET (1 .. k) -> Encoders] : FoldsWith(g, s0, k, f)
    BY <1>1, <1>4, FoldsExist
  <2>2. ASSUME NEW s \in SUBSET (1 .. k), s # {}
        PROVE  g[Max(s)][f[s \ {Max(s)}]] = convertField(f[s \ {Max(s)}], fields[Max(s)])
    <3>1. PICK v \in Encoders : v = f[s \ {Max(s)}]
      BY <2>1
    <3> QED
      BY <1>5, <2>2, <3>1
  <2>3. Recursion(f)
    BY <2>1, <2>2 DEF FoldsWith
  <2> QED
    BY <2>3
<1> DEFINE F == CHOOSE f : Recursion(f)
<1>7. Recursion(F)
  BY <1>6
<1>8. ConvertFields(s0, fields) = F[1 .. k]
  BY <1>1 DEF ConvertFields, FoldLeft, MapThenFoldSet
<1> HIDE DEF F
<1>9. PICK b : b = [s \in SUBSET (1 .. k) |-> convertField(F[s \ {Max(s)}], fields[Max(s)])]
  OBVIOUS
<1>10. Chained(k, s0, b, F)
  BY <1>7, <1>9 DEF Chained
<1>11. Follows(Encoders, g, k, b, F)
  BY <1>5, <1>9 DEF Follows
<1>12. PICK st : FoldSteps(Encoders, g, k, s0, st) /\ st[k] = F[1 .. k]
  BY <1>1, <1>4, <1>10, <1>11, ChainSteps
<1>13. st \in [0 .. k -> Encoders] /\ st[0] = s0 /\ \A n \in 1 .. k : st[n] = g[n][st[n - 1]]
  BY <1>12 DEF FoldSteps
<1>14. \A n \in 1 .. k : st[n - 1] \in Encoders /\ g[n][st[n - 1]] = convertField(st[n - 1], fields[n])
  BY <1>1, <1>3, <1>13
<1> QED
  BY <1>8, <1>12, <1>13, <1>14 DEF k

\* The encoders along the fields given to With.
LEMMA AddsAll ==
    ASSUME NEW s0 \in Encoders, NEW fields \in Seq(FieldSet)
    PROVE  \E st \in [0 .. Len(fields) -> Encoders] :
              /\ st[0] = s0 /\ FoldLeft(AddTo, s0, fields) = st[Len(fields)]
              /\ \A n \in 1 .. Len(fields) : st[n] = AddTo(st[n - 1], fields[n])
<1> DEFINE k == Len(fields)
           Recursion(f) == f = [s \in SUBSET (1 .. k) |->
                               IF s = {} THEN s0 ELSE AddTo(f[s \ {Max(s)}], fields[Max(s)])]
<1>1. k \in Nat /\ DOMAIN fields = 1 .. k /\ \A n \in 1 .. k : fields[n] \in FieldSet
  OBVIOUS
<1>2. ASSUME NEW s \in Encoders, NEW n \in 1 .. k PROVE AddTo(s, fields[n]) \in Encoders
  BY <1>1, AddToStep
<1> HIDE DEF k
<1>3. PICK g : g = [n \in 1 .. k |-> [s \in Encoders |-> AddTo(s, fields[n])]]
  OBVIOUS
<1>4. g \in [1 .. k -> [Encoders -> Encoders]]
  BY <1>2, <1>3
<1>5. ASSUME NEW s \in SUBSET (1 .. k), s # {}, NEW v \in Encoders
      PROVE  g[Max(s)][v] = AddTo(v, fields[Max(s)])
  <2>1. Max(s) \in 1 .. k
    BY <1>1, <1>5, LastUpTo
  <2> QED
    BY <1>3, <2>1
<1>6. \E f : Recursion(f)
  <2>1. PICK f \in [SUBSET (1 .. k) -> Encoders] : FoldsWith(g, s0, k, f)
    BY <1>1, <1>4, FoldsExist
  <2>2. ASSUME NEW s \in SUBSET (1 .. k), s # {}
        PROVE  g[Max(s)][f[s \ {Max(s)}]] = AddTo(f[s \ {Max(s)}], fields[Max(s)])
    <3>1. PICK v \in Encoders : v = f[s \ {Max(s)}]
      BY <2>1
    <3> QED
      BY <1>5, <2>2, <3>1
  <2>3. Recursion(f)
    BY <2>1, <2>2 DEF FoldsWith
  <2> QED
    BY <2>3
<1> DEFINE F == CHOOSE f : Recursion(f)
<1>7. Recursion(F)
  BY <1>6
<1>8. FoldLeft(AddTo, s0, fields) = F[1 .. k]
  BY <1>1 DEF FoldLeft, MapThenFoldSet
<1> HIDE DEF F
<1>9. PICK b : b = [s \in SUBSET (1 .. k) |-> AddTo(F[s \ {Max(s)}], fields[Max(s)])]
  OBVIOUS
<1>10. Chained(k, s0, b, F)
  BY <1>7, <1>9 DEF Chained
<1>11. Follows(Encoders, g, k, b, F)
  BY <1>5, <1>9 DEF Follows
<1>12. PICK st : FoldSteps(Encoders, g, k, s0, st) /\ st[k] = F[1 .. k]
  BY <1>1, <1>4, <1>10, <1>11, ChainSteps
<1>13. st \in [0 .. k -> Encoders] /\ st[0] = s0 /\ \A n \in 1 .. k : st[n] = g[n][st[n - 1]]
  BY <1>12 DEF FoldSteps
<1>14. \A n \in 1 .. k : st[n - 1] \in Encoders /\ g[n][st[n - 1]] = AddTo(st[n - 1], fields[n])
  BY <1>1, <1>3, <1>13
<1> QED
  BY <1>8, <1>12, <1>13, <1>14 DEF k

\* The records along the bytes that are decoded.
LEMMA MergesAll ==
    ASSUME NEW r0 \in RecSet, NEW bytes \in Seq(RecSet)
    PROVE  \E st \in [0 .. Len(bytes) -> RecSet] :
              /\ st[0] = r0 /\ FoldLeft(Merge, r0, bytes) = st[Len(bytes)]
              /\ \A n \in 1 .. Len(bytes) : st[n] = Merge(st[n - 1], bytes[n])
<1> DEFINE k == Len(bytes)
           Recursion(f) == f = [s \in SUBSET (1 .. k) |->
                               IF s = {} THEN r0 ELSE Merge(f[s \ {Max(s)}], bytes[Max(s)])]
<1>1. k \in Nat /\ DOMAIN bytes = 1 .. k /\ \A n \in 1 .. k : bytes[n] \in RecSet
  OBVIOUS
<1>2. ASSUME NEW s \in RecSet, NEW n \in 1 .. k PROVE Merge(s, bytes[n]) \in RecSet
  BY <1>1, MergeStep
<1> HIDE DEF k
<1>3. PICK g : g = [n \in 1 .. k |-> [s \in RecSet |-> Merge(s, bytes[n])]]
  OBVIOUS
<1>4. g \in [1 .. k -> [RecSet -> RecSet]]
  BY <1>2, <1>3
<1>5. ASSUME NEW s \in SUBSET (1 .. k), s # {}, NEW v \in RecSet
      PROVE  g[Max(s)][v] = Merge(v, bytes[Max(s)])
  <2>1. Max(s) \in 1 .. k
    BY <1>1, <1>5, LastUpTo
  <2> QED
    BY <1>3, <2>1
<1>6. \E f : Recursion(f)
  <2>1. PICK f \in [SUBSET (1 .. k) -> RecSet] : FoldsWith(g, r0, k, f)
    BY <1>1, <1>4, FoldsExist
  <2>2. ASSUME NEW s \in SUBSET (1 .. k), s # {}
        PROVE  g[Max(s)][f[s \ {Max(s)}]] = Merge(f[s \ {Max(s)}], bytes[Max(s)])
    <3>1. PICK v \in RecSet : v = f[s \ {Max(s)}]
      BY <2>1
    <3> QED
      BY <1>5, <2>2, <3>1
  <2>3. Recursion(f)
    BY <2>1, <2>2 DEF FoldsWith
  <2> QED
    BY <2>3
<1> DEFINE F == CHOOSE f : Recursion(f)
<1>7. Recursion(F)
  BY <1>6
<1>8. FoldLeft(Merge, r0, bytes) = F[1 .. k]
  BY <1>1 DEF FoldLeft, MapThenFoldSet
<1> HIDE DEF F
<1>9. PICK b : b = [s \in SUBSET (1 .. k) |-> Merge(F[s \ {Max(s)}], bytes[Max(s)])]
  OBVIOUS
<1>10. Chained(k, r0, b, F)
  BY <1>7, <1>9 DEF Chained
<1>11. Follows(RecSet, g, k, b, F)
  BY <1>5, <1>9 DEF Follows
<1>12. PICK st : FoldSteps(RecSet, g, k, r0, st) /\ st[k] = F[1 .. k]
  BY <1>1, <1>4, <1>10, <1>11, ChainSteps
<1>13. st \in [0 .. k -> RecSet] /\ st[0] = r0 /\ \A n \in 1 .. k : st[n] = g[n][st[n - 1]]
  BY <1>12 DEF FoldSteps
<1>14. \A n \in 1 .. k : st[n - 1] \in RecSet /\ g[n][st[n - 1]] = Merge(st[n - 1], bytes[n])
  BY <1>1, <1>3, <1>13
<1> QED
  BY <1>8, <1>12, <1>13, <1>14 DEF k

\* What the n-th field left in an encoder.
Kept(fields, n, t) ==
    LET f == fields[n]
    IN /\ InRecord(f) /\ f.key = "sampled" /\ f.value = "true" => t.rec.flags = 1
       /\ InRecord(f) /\ ~GivenLater(fields, n) /\ f.key = "traceID" => t.rec.trace = f.value
       /\ InRecord(f) /\ ~GivenLater(fields, n) /\ f.key = "spanID" => t.rec.span = f.value
       /\ ~InRecord(f) /\ f.kind \notin IgnoredKinds => AttrOf(f) \in ToSet(t.kvs)

LEMMA KeptNext ==
    ASSUME NEW fields \in Seq(FieldSet), NEW n \in 1 .. Len(fields), NEW m \in 1 .. Len(fields), n < m,
           NEW s \in Encoders, Kept(fields, n, s)
    PROVE  Kept(fields, n, convertField(s, fields[m]))
<1>0. PICK t : t = convertField(s, fields[m])
  OBVIOUS
<1>1. fields[m] \in FieldSet /\ m \in DOMAIN fields
  OBVIOUS
<1>2. PICK g : g = fields[m]
  OBVIOUS
<1>3. PICK f : f = fields[n]
  OBVIOUS
<1>4. t \in Encoders /\ Converts(s, g, t)
  BY <1>0, <1>1, <1>2, GivenOK, ConvertStep DEF FieldOK
<1>5. ~GivenLater(fields, n) => ~(InRecord(g) /\ g.key = f.key)
  BY <1>1, <1>2, <1>3 DEF GivenLater
<1>6. ToSet(s.kvs) \subseteq ToSet(t.kvs)
  <2>1. CASE g.kind \in IgnoredKinds \/ InRecord(g)
    BY <1>4, <2>1 DEF Converts
  <2>2. CASE ~(g.kind \in IgnoredKinds \/ InRecord(g))
    <3>1. PICK a \in AttrSet : a = AttrOf(g)
      BY <1>1, <1>2, GivenOK DEF FieldOK, AttrOf, AttrSet
    <3>2. t.kvs = Append(s.kvs, a) /\ s.kvs \in Seq(AttrSet)
      BY <1>4, <2>2, <3>1 DEF Converts, Encoders
    <3> QED
      BY <3>2, ToSetAppend
  <2> QED
    BY <2>1, <2>2
<1>7. Kept(fields, n, t)
  BY <1>3, <1>4, <1>5, <1>6 DEF Kept, Converts
<1> QED
  BY <1>0, <1>7

LEMMA KeptFirst ==
    ASSUME NEW fields \in Seq(FieldSet), NEW n \in 1 .. Len(fields), NEW s \in Encoders
    PROVE  Kept(fields, n, convertField(s, fields[n]))
<1>0. PICK t : t = convertField(s, fields[n])
  OBVIOUS
<1>1. PICK f \in FieldSet : f = fields[n]
  OBVIOUS
<1>2. t \in Encoders /\ Converts(s, f, t)
  BY <1>0, <1>1, GivenOK, ConvertStep DEF FieldOK
<1>3. ASSUME ~InRecord(f), f.kind \notin IgnoredKinds
      PROVE  AttrOf(f) \in ToSet(t.kvs)
  <2>1. PICK a \in AttrSet : a = AttrOf(f)
    BY GivenOK DEF FieldOK, AttrOf, AttrSet
  <2>2. t.kvs = Append(s.kvs, a) /\ s.kvs \in Seq(AttrSet)
    BY <1>2, <1>3, <2>1 DEF Converts, Encoders
  <2>3. a \in ToSet(t.kvs)
    BY <2>2, ToSetAppend
  <2> QED
    BY <2>1, <2>3
<1>4. Kept(fields, n, t)
  BY <1>1, <1>2, <1>3 DEF Kept, Converts
<1> QED
  BY <1>0, <1>4

\* Every field of an entry is in the encoder that converted them all.
LEMMA ConvertedFields ==
    ASSUME NEW s0 \in Encoders, NEW fields \in Seq(FieldSet)
    PROVE  /\ ConvertFields(s0, fields) \in Encoders
           /\ \A n \in 1 .. Len(fields) : Kept(fields, n, ConvertFields(s0, fields))
<1> DEFINE k == Len(fields)
<1>1. PICK st \in [0 .. k -> Encoders] :
         /\ st[0] = s0 /\ ConvertFields(s0, fields) = st[k]
         /\ \A n \in 1 .. k : st[n] = convertField(st[n - 1], fields[n])
  BY ConvertsAll
<1>2. k \in Nat
  OBVIOUS
<1>3. ASSUME NEW n \in 1 .. k PROVE Kept(fields, n, st[k])
  <2> DEFINE N == {j \in Nat : n + j <= k => Kept(fields, n, st[n + j])}
  <2>1. 0 \in N
    <3>1. n - 1 \in 0 .. k /\ n + 0 = n
      BY <1>2
    <3>2. st[n] = convertField(st[n - 1], fields[n]) /\ st[n - 1] \in Encoders
      BY <1>1, <3>1
    <3> QED
      BY <3>1, <3>2, KeptFirst
  <2>2. ASSUME NEW j \in N PROVE j + 1 \in N
    <3>1. j \in Nat /\ j + 1 \in Nat /\ n \in Nat
      OBVIOUS
    <3> SUFFICES ASSUME n + (j + 1) <= k PROVE Kept(fields, n, st[n + (j + 1)])
      BY <3>1
    <3>2. PICK m \in 1 .. k : m = n + (j + 1)
      BY <1>2, <3>1
    <3>3. n < m /\ m - 1 = n + j /\ m - 1 \in 0 .. k /\ n + j <= k
      BY <1>2, <3>1, <3>2
    <3>4. PICK s \in Encoders : s = st[m - 1]
      BY <3>3
    <3>5. Kept(fields, n, s)
      BY <3>3, <3>4
    <3>6. st[m] = convertField(s, fields[m])
      BY <1>1, <3>4
    <3> QED
      BY <3>2, <3>3, <3>5, <3>6, KeptNext
  <2> HIDE DEF N
  <2>3. N \in SUBSET Nat
    BY DEF N
  <2>4. N = Nat
    BY <2>1, <2>2, <2>3, NatSetInduction
  <2>5. k - n \in N /\ n + (k - n) = k /\ k <= k
    BY <1>2, <2>4
  <2> QED
    BY <2>5 DEF N
<1> QED
  BY <1>1, <1>2, <1>3

\* With's fields.
LEMMA AddedFields ==
    ASSUME NEW s0 \in Encoders, NEW fields \in Seq(FieldSet)
    PROVE  FoldLeft(AddTo, s0, fields) \in Encoders
<1>1. PICK st \in [0 .. Len(fields) -> Encoders] : FoldLeft(AddTo, s0, fields) = st[Len(fields)]
  BY AddsAll
<1>2. Len(fields) \in 0 .. Len(fields)
  OBVIOUS
<1> QED
  BY <1>1, <1>2

\* The last of the records that are decoded together is merged last.
LEMMA Decoded ==
    ASSUME NEW bytes \in Seq(RecSet), NEW r \in RecSet
    PROVE  \E x \in RecSet : Unmarshal(Append(bytes, r)) = Merge(x, r)
<1>1. PICK k \in Nat : k = Len(bytes)
  OBVIOUS
<1>2. PICK all : all = Append(bytes, r)
  OBVIOUS
<1>3. all \in Seq(RecSet) /\ Len(all) = k + 1 /\ all[k + 1] = r
  BY <1>1, <1>2, AppendProperties
<1>4. EmptyRecord \in RecSet
  <2>1. "" \in Values /\ <<>> \in Seq(AttrSet)
    BY EmptySeq DEF Values
  <2> QED
    BY <2>1 DEF EmptyRecord, RecSet
<1>5. PICK st \in [0 .. Len(all) -> RecSet] :
         /\ FoldLeft(Merge, EmptyRecord, all) = st[Len(all)]
         /\ \A n \in 1 .. Len(all) : st[n] = Merge(st[n - 1], all[n])
  BY <1>3, <1>4, MergesAll
<1>6. k + 1 \in 1 .. Len(all) /\ (k + 1) - 1 = k /\ k \in 0 .. Len(all)
  BY <1>3
<1>7. st[k + 1] = Merge(st[k], r) /\ st[k] \in RecSet
  BY <1>3, <1>5, <1>6
<1> QED
  BY <1>2, <1>3, <1>5, <1>7 DEF Unmarshal

\* An entry is encoded, and its record decoded after those of the entries before.
LEMMA EncodedDelivers ==
    ASSUME record \in RecSet, kvs \in [Loggers -> Seq(AttrSet)], NEW l \in Loggers,
           NEW level \in {"info", "error"}, NEW msg \in {"m1", "m2"}, NEW fields \in Fields
    PROVE  LET s == EncodeEntry(l, level, msg, fields)
           IN /\ s \in Encoders
              /\ \A x \in RecSet : Delivers(Merge(x, s.rec), [level |-> level, msg |-> msg, fields |-> fields])
<1>1. fields \in Seq(FieldSet) /\ DOMAIN fields = 1 .. Len(fields)
  BY GivenField
<1>2. PICK s0 \in Encoders : s0 = [rec |-> record, kvs |-> kvs[l]]
  BY DEF Encoders
<1>3. PICK c \in Encoders : c = ConvertFields(s0, fields)
  BY <1>1, ConvertedFields
<1>4. \A n \in 1 .. Len(fields) : Kept(fields, n, c)
  BY <1>1, <1>3, ConvertedFields
<1>5. PICK s : s = EncodeEntry(l, level, msg, fields)
  OBVIOUS
<1>6. PICK attrs \in Seq(AttrSet) : attrs = c.rec.attrs \o c.kvs
  <2>1. PICK T : T = AttrSet
    OBVIOUS
  <2>2. c.rec.attrs \in Seq(T) /\ c.kvs \in Seq(T)
    BY <2>1 DEF Encoders, RecSet
  <2>3. c.rec.attrs \o c.kvs \in Seq(T)
    BY <2>2
  <2> QED
    BY <2>1, <2>3
<1>7. s = [c EXCEPT !.rec.severity = level, !.rec.body = msg, !.rec.attrs = attrs]
  BY <1>2, <1>3, <1>5, <1>6 DEF EncodeEntry
<1>8. PICK r : r = [severity |-> level, body |-> msg, flags |-> c.rec.flags, trace |-> c.rec.trace,
                    span |-> c.rec.span, attrs |-> attrs]
  OBVIOUS
<1>9. s = [rec |-> r, kvs |-> c.kvs] /\ r \in RecSet
  BY <1>7, <1>8 DEF Encoders, RecSet
<1>10. s \in Encoders /\ s.rec = r
  BY <1>9 DEF Encoders
<1>11. ToSet(c.kvs) \subseteq ToSet(attrs)
  <2>1. PICK T : T = AttrSet
    OBVIOUS
  <2>2. c.rec.attrs \in Seq(T) /\ c.kvs \in Seq(T)
    BY <2>1 DEF Encoders, RecSet
  <2> QED
    BY <1>6, <2>2, ToSetConcat
<1>12. ASSUME NEW x \in RecSet
       PROVE  Delivers(Merge(x, r), [level |-> level, msg |-> msg, fields |-> fields])
  <2>1. PICK got \in RecSet : got = Merge(x, r)
    BY <1>9, MergeStep
  <2>2. /\ got.severity = level /\ got.body = msg
        /\ r.flags = 1 => got.flags = 1
        /\ r.trace # "" => got.trace = r.trace
        /\ r.span # "" => got.span = r.span
    <3>1. r.severity = level /\ r.severity # "" /\ r.body = msg
      BY <1>8
    <3>2. /\ got.body = r.body /\ (r.severity # "" => got.severity = r.severity)
          /\ r.flags = 1 => got.flags = 1
          /\ r.trace # "" => got.trace = r.trace
          /\ r.span # "" => got.span = r.span
      BY <1>9, <2>1, MergeStep
    <3> QED
      BY <3>1, <3>2
  <2>3. ToSet(attrs) \subseteq ToSet(got.attrs)
    <3>1. PICK T : T = AttrSet
      OBVIOUS
    <3>2. x.attrs \in Seq(T) /\ attrs \in Seq(T)
      BY <3>1 DEF RecSet
    <3>3. got.attrs = x.attrs \o attrs
      BY <1>8, <1>9, <2>1, MergeStep
    <3> QED
      BY <3>2, <3>3, ToSetConcat
  <2>4. r.flags = c.rec.flags /\ r.trace = c.rec.trace /\ r.span = c.rec.span
    BY <1>8
  <2>5. ASSUME NEW n \in DOMAIN fields, InRecord(fields[n]), fields[n].value # "", ~GivenLater(fields, n)
        PROVE  /\ fields[n].key = "traceID" => got.trace = fields[n].value
               /\ fields[n].key = "spanID"  => got.span  = fields[n].value
    <3>1. Kept(fields, n, c)
      BY <1>1, <1>4
    <3> QED
      BY <2>2, <2>4, <2>5, <3>1 DEF Kept
  <2>6. ASSUME NEW n \in DOMAIN fields, InRecord(fields[n]), fields[n].key = "sampled", fields[n].value = "true"
        PROVE  got.flags = 1
    <3>1. Kept(fields, n, c)
      BY <1>1, <1>4
    <3> QED
      BY <2>2, <2>4, <2>6, <3>1 DEF Kept
  <2>7. ASSUME NEW n \in DOMAIN fields, ~InRecord(fields[n]), fields[n].kind \notin IgnoredKinds
        PROVE  AttrOf(fields[n]) \in ToSet(got.attrs)
    <3>1. Kept(fields, n, c)
      BY <1>1, <1>4
    <3>2. AttrOf(fields[n]) \in ToSet(c.kvs)
      BY <2>7, <3>1 DEF Kept
    <3> QED
      BY <1>11, <2>3, <3>2
  <2>8. PICK entry : entry = [level |-> level, msg |-> msg, fields |-> fields]
    OBVIOUS
  <2>9. entry.level = level /\ entry.msg = msg /\ entry.fields = fields
    BY <2>8
  <2>10. Delivers(got, entry)
    BY <2>2, <2>5, <2>6, <2>7, <2>9 DEF Delivers, AttrOf
  <2> QED
    BY <2>1, <2>8, <2>10
<1> QED
  BY <1>5, <1>10, <1>12

EncoderInv ==
    /\ loggers \subseteq Loggers
    /\ record \in RecSet /\ kvs \in [Loggers -> Seq(AttrSet)]
    /\ buf \in Seq(RecSet) /\ enqueued \in Seq(RecSet)
    /\ wrote \in Seq([level : {"info", "error"}, msg : {"m1", "m2"}, fields : Fields])
    /\ Len(enqueued) = Len(wrote) /\ Len(buf) = Len(wrote)
    /\ \A i \in 1 .. Len(wrote) : Delivers(enqueued[i], wrote[i])

LEMMA EncoderInit == NewEncoder => EncoderInv
<1> SUFFICES ASSUME NewEncoder PROVE EncoderInv
  OBVIOUS
<1>1. "" \in Values
  BY DEF Values
<1>2. record \in RecSet
  BY <1>1, EmptySeq DEF NewEncoder, EmptyRecord, RecSet
<1>3. kvs \in [Loggers -> Seq(AttrSet)]
  BY EmptySeq DEF NewEncoder
<1>4. loggers \subseteq Loggers
  BY EncoderAssumption DEF NewEncoder, EncoderAssumption
<1>5. /\ buf \in Seq(RecSet) /\ enqueued \in Seq(RecSet)
      /\ wrote \in Seq([level : {"info", "error"}, msg : {"m1", "m2"}, fields : Fields])
      /\ Len(enqueued) = 0 /\ Len(buf) = 0 /\ Len(wrote) = 0
  BY EmptySeq DEF NewEncoder
<1> QED
  BY <1>2, <1>3, <1>4, <1>5 DEF EncoderInv

LEMMA WithNext ==
    ASSUME EncoderInv, NEW parent \in Loggers, NEW l \in Loggers, NEW fields \in Fields,
           With(parent, l, fields)
    PROVE  EncoderInv'
<1>1. PICK s0 \in Encoders : s0 = [rec |-> record, kvs |-> kvs[parent]]
  BY DEF Encoders, EncoderInv
<1>2. PICK s \in Encoders : s = FoldLeft(AddTo, s0, fields)
  BY GivenField, AddedFields
<1>3. record' = s.rec /\ kvs' = [kvs EXCEPT ![l] = s.kvs] /\ loggers' = loggers \cup {l}
      /\ UNCHANGED <<buf, enqueued, wrote>>
  BY <1>1, <1>2 DEF With
<1>4. record' \in RecSet /\ kvs' \in [Loggers -> Seq(AttrSet)] /\ loggers' \subseteq Loggers
  BY <1>3 DEF EncoderInv, Encoders
<1> QED
  BY <1>3, <1>4 DEF EncoderInv

LEMMA WriteNext ==
    ASSUME EncoderInv, NEW l \in Loggers, NEW level \in {"info", "error"},
           NEW msg \in {"m1", "m2"}, NEW fields \in Fields, WriteEntry(l, level, msg, fields)
    PROVE  EncoderInv'
<1>1. PICK entry : entry = [level |-> level, msg |-> msg, fields |-> fields]
  OBVIOUS
<1>2. PICK s : s = EncodeEntry(l, level, msg, fields)
  OBVIOUS
<1>3. record \in RecSet /\ kvs \in [Loggers -> Seq(AttrSet)]
  BY DEF EncoderInv
<1>4. s \in Encoders /\ \A x \in RecSet : Delivers(Merge(x, s.rec), entry)
  BY <1>1, <1>2, <1>3, EncodedDelivers
<1>5. /\ record' = s.rec /\ kvs' = [kvs EXCEPT ![l] = s.kvs] /\ loggers' = loggers
      /\ buf' = Append(buf, s.rec) /\ enqueued' = Append(enqueued, Unmarshal(buf'))
      /\ wrote' = Append(wrote, entry)
  BY <1>1, <1>2 DEF WriteEntry
<1>6. s.rec \in RecSet /\ s.kvs \in Seq(AttrSet)
  BY <1>4 DEF Encoders
<1>7. PICK x \in RecSet : Unmarshal(Append(buf, s.rec)) = Merge(x, s.rec)
  BY <1>6, Decoded DEF EncoderInv
<1>8. PICK got \in RecSet : got = Merge(x, s.rec)
  BY <1>6, MergeStep
<1>9. Delivers(got, entry)
  BY <1>4, <1>8
<1>10. /\ record' \in RecSet /\ kvs' \in [Loggers -> Seq(AttrSet)] /\ loggers' \subseteq Loggers
  BY <1>5, <1>6 DEF EncoderInv
<1>11. buf' \in Seq(RecSet) /\ Len(buf') = Len(wrote) + 1
  BY <1>5, <1>6, AppendProperties DEF EncoderInv
<1>12. enqueued' = Append(enqueued, got)
  BY <1>5, <1>7, <1>8
<1>13. /\ enqueued' \in Seq(RecSet) /\ Len(enqueued') = Len(wrote) + 1
       /\ enqueued'[Len(wrote) + 1] = got
       /\ \A i \in 1 .. Len(wrote) : enqueued'[i] = enqueued[i]
  BY <1>12, AppendProperties DEF EncoderInv
<1>14. PICK W : W = [level : {"info", "error"}, msg : {"m1", "m2"}, fields : Fields]
  OBVIOUS
<1>15. entry \in W /\ wrote \in Seq(W)
  BY <1>1, <1>14 DEF EncoderInv
<1>16. /\ wrote' \in Seq(W) /\ Len(wrote') = Len(wrote) + 1
       /\ wrote'[Len(wrote) + 1] = entry
       /\ \A i \in 1 .. Len(wrote) : wrote'[i] = wrote[i]
  BY <1>5, <1>15, AppendProperties
<1>17. ASSUME NEW i \in 1 .. Len(wrote') PROVE Delivers(enqueued'[i], wrote'[i])
  <2>1. Len(wrote) \in Nat
    BY <1>15
  <2>2. CASE i \in 1 .. Len(wrote)
    <3>1. Delivers(enqueued[i], wrote[i])
      BY <2>2 DEF EncoderInv
    <3> QED
      BY <1>13, <1>16, <2>2, <3>1
  <2>3. CASE i = Len(wrote) + 1
    BY <1>9, <1>13, <1>16, <2>3
  <2> QED
    BY <1>16, <2>1, <2>2, <2>3
<1> QED
  BY <1>10, <1>11, <1>13, <1>14, <1>16, <1>17 DEF EncoderInv

LEMMA EncoderNext == ASSUME EncoderInv, CoreStep PROVE EncoderInv'
<1>1. CASE \E parent, l \in Loggers, fields \in Fields : With(parent, l, fields)
  BY <1>1, WithNext
<1>2. CASE \E l \in Loggers, fields \in Fields, level \in {"info", "error"}, msg \in {"m1", "m2"} :
              WriteEntry(l, level, msg, fields)
  BY <1>2, WriteNext
<1> QED
  BY <1>1, <1>2 DEF CoreStep

-----------------------------------------------------------------------------
(* The JSON core.                                                          *)

TagSeqs(T) == Seq({Attribute(f) : f \in T})

LEMMA AddAttributeStep ==
    ASSUME NEW T, NEW s \in TagSeqs(T), NEW f \in T
    PROVE  /\ AddAttribute(s, f) \in TagSeqs(T) /\ ToSet(s) \subseteq ToSet(AddAttribute(s, f))
           /\ HasAttribute(f) => Attribute(f) \in ToSet(AddAttribute(s, f))
<1>1. PICK A : A = {Attribute(x) : x \in T}
  OBVIOUS
<1>2. PICK a \in A : a = Attribute(f)
  BY <1>1
<1>3. s \in Seq(A) /\ TagSeqs(T) = Seq(A)
  BY <1>1 DEF TagSeqs
<1>4. AddAttribute(s, f) = IF HasAttribute(f) THEN Append(s, a) ELSE s
  BY <1>2 DEF AddAttribute
<1>5. Append(s, a) \in Seq(A) /\ ToSet(Append(s, a)) = ToSet(s) \cup {a}
  BY <1>3, AppendProperties, ToSetAppend
<1> QED
  BY <1>1, <1>2, <1>3, <1>4, <1>5

\* The attributes along the fields of a JSON object.
TagSteps(T, raw, a0) ==
    \E st \in [0 .. Len(raw) -> TagSeqs(T)] :
       /\ st[0] = a0 /\ FoldLeft(AddAttribute, a0, raw) = st[Len(raw)]
       /\ \A n \in 1 .. Len(raw) : st[n] = AddAttribute(st[n - 1], raw[n])

LEMMA TagsAll ==
    ASSUME NEW T, NEW a0 \in TagSeqs(T), NEW raw \in Seq(T)
    PROVE  TagSteps(T, raw, a0)
<1> DEFINE k == Len(raw)
           Recursion(f) == f = [s \in SUBSET (1 .. k) |->
                               IF s = {} THEN a0 ELSE AddAttribute(f[s \ {Max(s)}], raw[Max(s)])]
<1>1. k \in Nat /\ DOMAIN raw = 1 .. k /\ \A n \in 1 .. k : raw[n] \in T
  OBVIOUS
<1>2. ASSUME NEW s \in TagSeqs(T), NEW n \in 1 .. k PROVE AddAttribute(s, raw[n]) \in TagSeqs(T)
  BY <1>1, AddAttributeStep
<1> HIDE DEF k
<1>3. PICK g : g = [n \in 1 .. k |-> [s \in TagSeqs(T) |-> AddAttribute(s, raw[n])]]
  OBVIOUS
<1>4. g \in [1 .. k -> [TagSeqs(T) -> TagSeqs(T)]]
  BY <1>2, <1>3
<1>5. ASSUME NEW s \in SUBSET (1 .. k), s # {}, NEW v \in TagSeqs(T)
      PROVE  g[Max(s)][v] = AddAttribute(v, raw[Max(s)])
  <2>1. Max(s) \in 1 .. k
    BY <1>1, <1>5, LastUpTo
  <2> QED
    BY <1>3, <2>1
<1>6. \E f : Recursion(f)
  <2>1. PICK f \in [SUBSET (1 .. k) -> TagSeqs(T)] : FoldsWith(g, a0, k, f)
    BY <1>1, <1>4, FoldsExist
  <2>2. ASSUME NEW s \in SUBSET (1 .. k), s # {}
        PROVE  g[Max(s)][f[s \ {Max(s)}]] = AddAttribute(f[s \ {Max(s)}], raw[Max(s)])
    <3>1. PICK v \in TagSeqs(T) : v = f[s \ {Max(s)}]
      BY <2>1
    <3> QED
      BY <1>5, <2>2, <3>1
  <2>3. Recursion(f)
    BY <2>1, <2>2 DEF FoldsWith
  <2> QED
    BY <2>3
<1> DEFINE F == CHOOSE f : Recursion(f)
<1>7. Recursion(F)
  BY <1>6
<1>8. FoldLeft(AddAttribute, a0, raw) = F[1 .. k]
  BY <1>1 DEF FoldLeft, MapThenFoldSet
<1> HIDE DEF F
<1>9. PICK b : b = [s \in SUBSET (1 .. k) |-> AddAttribute(F[s \ {Max(s)}], raw[Max(s)])]
  OBVIOUS
<1>10. Chained(k, a0, b, F)
  BY <1>7, <1>9 DEF Chained
<1>11. Follows(TagSeqs(T), g, k, b, F)
  BY <1>5, <1>9 DEF Follows
<1>12. PICK st : FoldSteps(TagSeqs(T), g, k, a0, st) /\ st[k] = F[1 .. k]
  BY <1>1, <1>4, <1>10, <1>11, ChainSteps
<1>13. st \in [0 .. k -> TagSeqs(T)] /\ st[0] = a0 /\ \A n \in 1 .. k : st[n] = g[n][st[n - 1]]
  BY <1>12 DEF FoldSteps
<1>14. \A n \in 1 .. k : st[n - 1] \in TagSeqs(T) /\ g[n][st[n - 1]] = AddAttribute(st[n - 1], raw[n])
  BY <1>1, <1>3, <1>13
<1> QED
  BY <1>8, <1>12, <1>13, <1>14 DEF k, TagSteps

\* Every field that has an attribute is among them.
LEMMA TagsKept ==
    ASSUME NEW T, NEW raw \in Seq(T), NEW n \in 1 .. Len(raw), HasAttribute(raw[n])
    PROVE  Attribute(raw[n]) \in ToSet(FoldLeft(AddAttribute, <<>>, raw))
<1>1. <<>> \in TagSeqs(T)
  BY EmptySeq DEF TagSeqs
<1>2. PICK a0 \in TagSeqs(T) : a0 = <<>>
  BY <1>1
<1> DEFINE k == Len(raw)
<1>3. PICK st \in [0 .. k -> TagSeqs(T)] :
         /\ st[0] = a0 /\ FoldLeft(AddAttribute, a0, raw) = st[k]
         /\ \A m \in 1 .. k : st[m] = AddAttribute(st[m - 1], raw[m])
  <2>1. a0 \in TagSeqs(T)
    BY <1>2
  <2>2. TagSteps(T, raw, a0)
    BY <2>1, TagsAll
  <2> QED
    BY <2>2 DEF TagSteps
<1>4. k \in Nat /\ \A m \in 1 .. k : raw[m] \in T /\ m - 1 \in 0 .. k
  OBVIOUS
<1>5. PICK a : a = Attribute(raw[n])
  OBVIOUS
<1> HIDE DEF k
<1>6. \A m \in 1 .. k : ToSet(st[m - 1]) \subseteq ToSet(st[m])
  BY <1>3, <1>4, AddAttributeStep
<1>7. a \in ToSet(st[n])
  <2>1. n \in 1 .. k
    BY DEF k
  <2> QED
    BY <1>3, <1>4, <1>5, <2>1, AddAttributeStep
<1> DEFINE N == {j \in Nat : n + j <= k => a \in ToSet(st[n + j])}
<1>8. n \in 1 .. k
  BY DEF k
<1>9. 0 \in N
  <2>1. n + 0 = n
    BY <1>4, <1>8
  <2> QED
    BY <1>7, <2>1
<1>10. ASSUME NEW j \in N PROVE j + 1 \in N
  <2>1. j \in Nat /\ j + 1 \in Nat /\ n \in Nat
    BY <1>4, <1>8
  <2> SUFFICES ASSUME n + (j + 1) <= k PROVE a \in ToSet(st[n + (j + 1)])
    BY <2>1
  <2>2. PICK m \in 1 .. k : m = n + (j + 1)
    BY <1>4, <1>8, <2>1
  <2>3. m - 1 = n + j /\ n + j <= k
    BY <1>4, <2>1, <2>2
  <2>4. a \in ToSet(st[m - 1])
    BY <2>3
  <2> QED
    BY <1>6, <2>2, <2>4
<1> HIDE DEF N
<1>11. N = Nat
  <2>1. N \in SUBSET Nat
    BY DEF N
  <2> QED
    BY <1>9, <1>10, <2>1, NatSetInduction
<1>12. k - n \in N /\ n + (k - n) = k /\ k <= k
  BY <1>4, <1>8, <1>11
<1>13. a \in ToSet(st[k])
  BY <1>12 DEF N
<1> QED
  BY <1>2, <1>3, <1>5, <1>13

\* The two conversions agree on every object.
LEMMA EveryConversionAgrees ==
    ASSUME NEW T, NEW raw \in Seq(T)
    PROVE  ConversionsAgree(raw)
<1>1. PICK new : new = convertToRecordV2(raw)
  OBVIOUS
<1>2. PICK old : old = convertToRecord(raw)
  OBVIOUS
<1> SUFFICES ASSUME \E i \in DOMAIN raw : raw[i].key = "msg"
             PROVE  /\ \A k \in {"body", "level", "trace", "span", "ts"} : new[k] = old[k]
                    /\ old.attrs \subseteq ToSet(new.attrs)
  BY <1>1, <1>2 DEF ConversionsAgree
<1>3. PICK attrs : attrs = {Attribute(raw[i]) : i \in DecodedFields(raw)}
  OBVIOUS
<1>4. ~ \A i \in DOMAIN raw : raw[i].key # "msg"
  OBVIOUS
<1>5. old = [ body  |-> Last1(raw, "msg", ""),     level |-> Last1(raw, "level", ""),
              trace |-> Last1(raw, "traceID", ""), span  |-> Last1(raw, "spanID", ""),
              ts    |-> Last1(raw, "ts", ""),      attrs |-> attrs ]
  BY <1>2, <1>3, <1>4 DEF convertToRecord
<1>6. PICK tags : tags = FoldLeft(AddAttribute, <<>>, raw)
  OBVIOUS
<1>7. new = [ body  |-> Last1(raw, "msg", ""),     level |-> Last1(raw, "level", ""),
              trace |-> Last1(raw, "traceID", ""), span  |-> Last1(raw, "spanID", ""),
              ts    |-> Last1(raw, "ts", ""),      attrs |-> tags ]
  BY <1>1, <1>6 DEF convertToRecordV2
<1>8. attrs \subseteq ToSet(tags)
  <2> SUFFICES ASSUME NEW a \in attrs PROVE a \in ToSet(tags)
    OBVIOUS
  <2>1. PICK i \in DecodedFields(raw) : a = Attribute(raw[i])
    BY <1>3
  <2>2. i \in 1 .. Len(raw) /\ HasAttribute(raw[i])
    BY DEF DecodedFields
  <2> QED
    BY <1>6, <2>1, <2>2, TagsKept
<1>9. old.attrs \subseteq ToSet(new.attrs)
  BY <1>5, <1>7, <1>8
<1>10. \A k \in {"body", "level", "trace", "span", "ts"} : new[k] = old[k]
  <2>1. new["body"] = old["body"] /\ new["level"] = old["level"] /\ new["trace"] = old["trace"]
    BY <1>5, <1>7
  <2>2. new["span"] = old["span"] /\ new["ts"] = old["ts"]
    BY <1>5, <1>7
  <2> QED
    BY <2>1, <2>2
<1> QED
  BY <1>9, <1>10

LEMMA RecordsAgree == \A e \in Entries : ConversionsAgree(Raw[e])
<1> SUFFICES ASSUME NEW e \in Entries PROVE ConversionsAgree(Raw[e])
  OBVIOUS
<1>1. PICK T : Raw[e] \in Seq(T)
  BY EntriesAssumption DEF EntriesAssumption
<1> QED
  BY <1>1, EveryConversionAgrees

-----------------------------------------------------------------------------
USE RetryAssumption, WriterDefaultsAssumption, BatchWriterAssumption, EncoderAssumption, ScenarioAssumption
USE DEF RetryAssumption, WriterDefaultsAssumption, BatchWriterAssumption, EncoderAssumption,
        ScenarioAssumption

-----------------------------------------------------------------------------
(* Retries.                                                                *)

\* A wait ends within the budget, and the clock stands still until an attempt whose
\* time has come begins.
WaitsWithinBudget ==
    \A c \in Exports : call[c] = "wait" => /\ now <= wake[c]
                                           /\ MaxElapsedTime # 0 => wake[c] <= MaxElapsedTime
RetryInv == RetryTypeOK /\ WaitsWithinBudget /\ RetriesWithinBudget

LEMMA RetryInit == RequestFunc => RetryInv
  BY DEF RequestFunc, RetryInv, RetryTypeOK, WaitsWithinBudget, RetriesWithinBudget

LEMMA GrownType == ASSUME RetryTypeOK PROVE grown \in InitialInterval .. MaxInterval
  BY DEF RetryTypeOK, grown, Shortest

LEMMA FailNext ==
    ASSUME RetryInv, NEW c \in Exports, Fail(c)
    PROVE  RetryInv'
<1> USE DEF RetryInv, RetryTypeOK
<1>1. now' = now /\ tried' = tried /\ call[c] = "try"
  BY DEF Fail
<1>2. CASE call' = [call EXCEPT ![c] = "failed"] /\ wake' = wake /\ interval' \in {interval, grown}
  BY <1>1, <1>2, GrownType DEF WaitsWithinBudget, RetriesWithinBudget
<1>3. ASSUME NEW throttle \in Throttles, NEW delay \in Delays, ~Elapsed(delay, throttle),
             interval' = grown, call' = [call EXCEPT ![c] = "wait"],
             wake' = [wake EXCEPT ![c] = now + Longest(delay, throttle)]
      PROVE  RetryInv'
  <2>1. delay \in Nat /\ throttle \in Nat
    BY DEF Delays
  <2>2. /\ now + Longest(delay, throttle) \in Nat /\ now <= now + Longest(delay, throttle)
        /\ MaxElapsedTime # 0 => now + Longest(delay, throttle) <= MaxElapsedTime
    BY <1>3, <2>1 DEF Elapsed, Over, Longest
  <2> DEFINE w == now + Longest(delay, throttle)
  <2>3. w \in Nat /\ now <= w /\ (MaxElapsedTime # 0 => w <= MaxElapsedTime)
        /\ wake' = [wake EXCEPT ![c] = w]
    BY <2>2, <1>3
  <2> HIDE DEF w
  <2> QED
    BY <1>1, <1>3, <2>3, GrownType DEF WaitsWithinBudget, RetriesWithinBudget
<1> QED
  BY <1>2, <1>3 DEF Fail

LEMMA RetryStepNext == ASSUME RetryInv, RetryNext PROVE RetryInv'
<1> USE DEF RetryInv, RetryTypeOK, WaitsWithinBudget, RetriesWithinBudget
<1>1. CASE (\A c \in Exports : call[c] = "wait" => now < wake[c]) /\ Tick
  BY <1>1 DEF Tick
<1>2. ASSUME NEW c \in Exports, Begin(c) \/ Succeed(c) \/ Cancelled(c) PROVE RetryInv'
  BY <1>2 DEF Begin, Succeed, Cancelled
<1>3. ASSUME NEW c \in Exports, Again(c) PROVE RetryInv'
  BY <1>3 DEF Again
<1> QED
  BY <1>1, <1>2, <1>3, FailNext DEF RetryNext

-----------------------------------------------------------------------------
(* The batch writer.                                                       *)

OptionsOK == opt.MaxExportBatchSize \in Nat \ {0} /\ opt.MaxQueueSize \in Nat

\* The worker is never outside its loop, and holds a record while it appends it.
WorkerPlace ==
    /\ at[Worker] \in {"select", "load", "store", "size", "should", "stop", "drain",
                       "reset", "check", "call", "rpc", "truncate", "zero"}
    /\ at[Worker] \in {"load", "store", "size"} => hand \in Entries

\* There is room for the record the worker may receive: a full batch is exported
\* first, and a Sync only makes room.
RoomInv ==
    /\ at[Worker] \in {"select", "load"} => len < opt.MaxExportBatchSize
    /\ at[Worker] = "store" => local < opt.MaxExportBatchSize
    /\ at[Worker] = "zero" => len = 0

\* Unless the worker is about to set it, the timer is armed or its tick is waiting.
TimerInv ==
    /\ at[Worker] = "drain" => fired = 1
    /\ at[Worker] \notin {"drain", "reset"} => timer = "armed" \/ fired = 1

\* Nothing has become of an entry that is not written yet.
FreshInv == \A e \in Entries : at[e] \in {"idle", "enqueue"} => fate[e] = "none"
UsedInv == \A e \in Entries : fate[e] = "none" =>
              /\ \A i \in 1 .. opt.MaxExportBatchSize : array[i] # e
              /\ \A i \in 1 .. Len(queue) : queue[i] # e
              /\ hand # e

\* As long as no Sync has been called the worker is alone with the batch: its records
\* are those waiting for the next export, the queue has each of the others once, and
\* the only slice handed out is the one of the call the worker is in.
Quiet == ~Synced /\ exited = "no"
Held == {array[i] : i \in 1 .. len}
Away == at[Worker] \in {"rpc", "truncate"}
BatchAlone ==
    /\ \A e \in Entries : fate[e] \notin {"lost", "twice"}
    /\ Away => \A e \in Entries : fate[e] # "batched"
    /\ ~Away => /\ \A e \in Entries : fate[e] = "batched" => e \in Held
                /\ \A i \in 1 .. len : array[i] \in Entries /\ fate[array[i]] = "batched"
QueueAlone ==
    /\ \A i \in 1 .. Len(queue) : fate[queue[i]] = "queued"
    /\ \A i, j \in 1 .. Len(queue) : queue[i] = queue[j] => i = j
    /\ at[Worker] \in {"load", "store"} =>
          fate[hand] = "queued" /\ \A i \in 1 .. Len(queue) : queue[i] # hand
    /\ at[Worker] = "store" => local = len /\ array[len + 1] = hand
SliceAlone ==
    exporter = "async" \/
       /\ altered = "no"
       /\ exports = IF at[Worker] = "rpc" THEN <<[by |-> Worker, given |-> Batch]>> ELSE <<>>
AloneInv == Quiet => BatchAlone /\ QueueAlone /\ SliceAlone

WriterInv == /\ OptionsOK /\ BatchWriterTypeOK /\ WorkerPlace /\ RoomInv /\ TimerInv
             /\ FreshInv /\ UsedInv /\ AloneInv

LEMMA ArrayItems ==
    ASSUME OptionsOK, BatchWriterTypeOK
    PROVE  /\ array \in Seq(Entries \cup {NoEntry}) /\ Len(array) = opt.MaxExportBatchSize
           /\ Batch \in Seq(Entries \cup {NoEntry}) /\ Len(Batch) = len
           /\ \A i \in 1 .. len : Batch[i] = array[i]
           /\ ToSet(Batch) = Held
<1> USE DEF OptionsOK, BatchWriterTypeOK
<1>1. array \in Seq(Entries \cup {NoEntry}) /\ Len(array) = opt.MaxExportBatchSize
  <2>1. array \in Seq(Entries \cup {NoEntry})
    <3> HIDE DEF OptionsOK, BatchWriterTypeOK
    <3>1. PICK n \in Nat : n = opt.MaxExportBatchSize
      BY DEF OptionsOK
    <3>2. PICK items : items = Entries \cup {NoEntry}
      OBVIOUS
    <3>3. array \in [1 .. n -> items]
      BY <3>1, <3>2 DEF BatchWriterTypeOK
    <3>4. array \in Seq(items)
      BY <3>3
    <3> QED
      BY <3>2, <3>4
  <2>2. DOMAIN array = 1 .. opt.MaxExportBatchSize
    OBVIOUS
  <2> QED
    BY <2>1, <2>2, LenProperties
<1>2. /\ Batch \in Seq(Entries \cup {NoEntry}) /\ Len(Batch) = len
      /\ \A i \in 1 .. len : Batch[i] = array[i]
  BY <1>1 DEF Batch
<1>3. ToSet(Batch) = Held
  <2>1. DOMAIN Batch = 1 .. len
    BY <1>2
  <2>2. ToSet(Batch) = {Batch[i] : i \in 1 .. len}
    BY <2>1 DEF ToSet
  <2>3. {Batch[i] : i \in 1 .. len} = {array[i] : i \in 1 .. len}
    BY <1>2
  <2> QED
    BY <2>2, <2>3 DEF Held
<1> QED
  BY <1>1, <1>2, <1>3

\* A goroutine other than the worker that exports has called Sync.
LEMMA SyncIsLoud ==
    ASSUME BatchWriterTypeOK, NEW p \in Procs \ {Worker}, export(p)
    PROVE  ~Quiet'
<1> USE DEF BatchWriterTypeOK
<1>1. CASE at' = [at EXCEPT ![p] = at'[p]] /\ at'[p] \in {"reset", "check", "call", "rpc", "truncate", "zero"}
  BY <1>1 DEF Quiet, Synced
<1>2. CASE Return(p)
  BY <1>2 DEF Quiet, Synced, Return, Goto, AfterExport, Procs
<1> QED
  BY <1>1, <1>2 DEF export, ResetTimer, CheckEmpty, CallExport, OtlpExport, Truncate, ZeroSize, Goto

LEMMA WriterInit ==
    ASSUME NEW options, options.MaxExportBatchSize \in Nat \ {0}, options.MaxQueueSize \in Nat,
           NEW exp, NEW users, NewBatchWriteSyncer(options, exp, users)
    PROVE  WriterInv
<1> USE DEF NewBatchWriteSyncer
<1>1. OptionsOK /\ BatchWriterTypeOK
  BY DEF OptionsOK, BatchWriterTypeOK, Procs
<1>2. WorkerPlace /\ RoomInv /\ TimerInv
  BY DEF WorkerPlace, RoomInv, TimerInv, Procs
<1>3. FreshInv /\ UsedInv
  BY DEF FreshInv, UsedInv
<1>4. AloneInv
  BY DEF AloneInv, BatchAlone, QueueAlone, SliceAlone, Away, Held, Procs
<1> QED
  BY <1>1, <1>2, <1>3, <1>4 DEF WriterInv

-----------------------------------------------------------------------------
(* The goroutines that log.                                                *)

LEMMA EntryStages ==
    ASSUME WriterInv, NEW e \in Entries, Write(e) \/ Enqueue(e) \/ Skip(e)
    PROVE  WriterInv'
<1> USE DEF WriterInv, OptionsOK, BatchWriterTypeOK, Goto, AfterWrite, batchVars, timerVars, outVars
<1>0. /\ at[e] \in {"idle", "enqueue"} /\ fate[e] = "none"
      /\ e # Worker /\ e \in Procs /\ e \notin Syncers /\ Worker \in Procs
  BY DEF Write, Enqueue, Skip, FreshInv, Procs
<1>1. PICK l \in {"enqueue", "done", "reset"} :
      /\ at' = [at EXCEPT ![e] = l]
      /\ \/ l = "enqueue" /\ fate' = fate /\ queue' = queue
         \/ l # "enqueue" /\ fate' = [fate EXCEPT ![e] = "filtered"] /\ queue' = queue
         \/ l # "enqueue" /\ fate' = [fate EXCEPT ![e] = "dropped"] /\ queue' = queue
         \/ /\ l # "enqueue" /\ fate' = [fate EXCEPT ![e] = "queued"]
            /\ queue' = Append(queue, e) /\ Len(queue) < opt.MaxQueueSize
      /\ UNCHANGED <<opt, exporter, array, len, size, timer, fired, hand, local, exports, altered, exited>>
  <2>1. CASE Write(e)
    BY <2>1 DEF Write
  <2>2. CASE Enqueue(e)
    BY <2>2 DEF Enqueue
  <2>3. CASE Skip(e)
    BY <2>3 DEF Skip
  <2> QED
    BY <2>1, <2>2, <2>3
<1>2. /\ queue' \in Seq(Entries) /\ Len(queue') <= opt.MaxQueueSize
      /\ \A i \in 1 .. Len(queue') : (i \in 1 .. Len(queue) /\ queue'[i] = queue[i])
                                     \/ (i = Len(queue) + 1 /\ queue'[i] = e /\ fate'[e] = "queued")
  <2>1. CASE queue' = queue
    BY <2>1, <1>1
  <2>2. CASE queue' = Append(queue, e) /\ Len(queue) < opt.MaxQueueSize /\ fate' = [fate EXCEPT ![e] = "queued"]
    BY <2>2, <1>1
  <2> QED
    BY <1>1, <2>1, <2>2
<1>3. fate' \in [Entries -> {"none", "filtered", "dropped", "queued", "batched", "handed", "twice", "lost"}]
      /\ \A x \in Entries : x # e => fate'[x] = fate[x]
  BY <1>1
<1>4. /\ at' \in [Procs -> {"absent", "idle", "enqueue", "done", "select", "load", "store", "size", "should",
                          "stop", "drain", "reset", "check", "call", "rpc", "truncate", "zero"}]
      /\ at'[e] = l /\ \A p \in Procs : p # e => at'[p] = at[p]
      /\ at'[Worker] = at[Worker]
  BY <1>0, <1>1
<1>8. OptionsOK' /\ BatchWriterTypeOK'
  BY <1>1, <1>2, <1>3, <1>4
<1>9. fate'[e] \in {"none", "filtered", "dropped", "queued"} /\ (fate'[e] = "none" => l = "enqueue" /\ queue' = queue)
  BY <1>0, <1>1
<1>5. WorkerPlace' /\ RoomInv' /\ TimerInv'
  BY <1>1, <1>4 DEF WorkerPlace, RoomInv, TimerInv
<1>6. FreshInv' /\ UsedInv'
  <2>1. FreshInv'
    BY <1>0, <1>1, <1>3, <1>4 DEF FreshInv
  <2>2. UsedInv'
    BY <1>0, <1>1, <1>2, <1>3, <1>9 DEF UsedInv
  <2> QED
    BY <2>1, <2>2
<1>7. AloneInv'
  <2> SUFFICES ASSUME Quiet' PROVE (BatchAlone /\ QueueAlone /\ SliceAlone)'
    BY DEF AloneInv
  <2>1. Quiet
    BY <1>0, <1>1, <1>4 DEF Quiet, Synced
  <2>2. BatchAlone /\ QueueAlone /\ SliceAlone
    BY <2>1 DEF AloneInv
  <2>3. BatchAlone'
    <3>1. \A i \in 1 .. len : array[i] # e
      BY <1>0 DEF UsedInv
    <3>2. Held' = Held /\ Away' = Away
      BY <1>1, <1>4 DEF Held, Away
    <3> QED
      BY <1>1, <1>3, <1>9, <2>2, <3>1, <3>2 DEF BatchAlone
  <2>4. QueueAlone'
    <3>1. hand # e /\ \A i \in 1 .. Len(queue) : queue[i] # e
      BY <1>0 DEF UsedInv
    <3>2. \A i \in 1 .. Len(queue) : queue[i] \in Entries
      OBVIOUS
    <3>3. at[Worker] \in {"load", "store"} => hand \in Entries
      BY DEF WorkerPlace
    <3>4. \A i \in 1 .. Len(queue') : fate'[queue'[i]] = "queued"
      BY <1>2, <1>3, <2>2, <3>1, <3>2 DEF QueueAlone
    <3>5. \A i, j \in 1 .. Len(queue') : queue'[i] = queue'[j] => i = j
      <4> SUFFICES ASSUME NEW i \in 1 .. Len(queue'), NEW j \in 1 .. Len(queue'), queue'[i] = queue'[j]
                   PROVE  i = j
        OBVIOUS
      <4>1. Len(queue) \in Nat /\ Len(queue') \in Nat
        BY <1>2
      <4>2. \A m \in 1 .. Len(queue') :
               \/ m \in 1 .. Len(queue) /\ queue'[m] = queue[m]
               \/ m = Len(queue) + 1 /\ queue'[m] = e
        BY <1>2
      <4>3. \A m, n \in 1 .. Len(queue) : queue[m] = queue[n] => m = n
        BY <2>2 DEF QueueAlone
      <4> HIDE DEF WriterInv, OptionsOK, BatchWriterTypeOK
      <4> QED
        BY <3>1, <4>1, <4>2, <4>3
    <3>6. at[Worker] \in {"load", "store"} =>
             fate'[hand] = "queued" /\ \A i \in 1 .. Len(queue') : queue'[i] # hand
      BY <1>2, <1>3, <2>2, <3>1, <3>3 DEF QueueAlone
    <3> QED
      BY <1>1, <1>4, <2>2, <3>4, <3>5, <3>6 DEF QueueAlone
  <2>5. SliceAlone'
    BY <1>1, <1>4, <2>2 DEF SliceAlone, Batch
  <2> QED
    BY <2>3, <2>4, <2>5
<1> QED
  BY <1>5, <1>6, <1>7, <1>8

LEMMA SyncNext ==
    ASSUME WriterInv, NEW p \in Syncers, Sync(p)
    PROVE  WriterInv'
<1> USE DEF WriterInv, OptionsOK, BatchWriterTypeOK, Goto, batchVars, timerVars, outVars
<1>1. /\ p # Worker /\ p \in Procs /\ p \notin Entries
      /\ at' = [at EXCEPT ![p] = "reset"]
      /\ UNCHANGED <<opt, exporter, queue, array, len, size, timer, fired, hand, local, exports, altered, fate, exited>>
  BY DEF Sync, Procs
<1>2. OptionsOK' /\ BatchWriterTypeOK' /\ at'[Worker] = at[Worker]
  BY <1>1
<1>3. WorkerPlace' /\ RoomInv' /\ TimerInv' /\ FreshInv' /\ UsedInv'
  BY <1>1, <1>2 DEF WorkerPlace, RoomInv, TimerInv, FreshInv, UsedInv
<1>4. AloneInv'
  BY <1>1 DEF AloneInv, Quiet, Synced
<1> QED
  BY <1>2, <1>3, <1>4

-----------------------------------------------------------------------------
(* The worker's loop and the timer.                                        *)

LEMMA WorkerProc == Worker \in Procs /\ Worker \notin Entries /\ Worker \notin Syncers
  BY DEF Procs

\* A step that only moves the worker and does not end a stage of export.
LEMMA WorkerMoves ==
    ASSUME BatchWriterTypeOK, NEW l, at' = [at EXCEPT ![Worker] = l], exited' = exited
    PROVE  /\ at'[Worker] = l /\ \A p \in Procs \ {Worker} : at'[p] = at[p]
           /\ \A e \in Entries : at'[e] = at[e]
           /\ Quiet' = Quiet
<1> USE DEF BatchWriterTypeOK
<1>1. at'[Worker] = l /\ \A p \in Procs \ {Worker} : at'[p] = at[p]
  BY WorkerProc
<1>2. \A e \in Entries : e \in Procs \ {Worker}
  BY DEF Procs
<1>3. \A p \in Syncers : p \in Procs \ {Worker}
  BY DEF Procs
<1> QED
  BY <1>1, <1>2, <1>3 DEF Quiet, Synced

LEMMA RecvNext == ASSUME WriterInv, WorkerRecv PROVE WriterInv'
<1> USE DEF WriterInv, OptionsOK, BatchWriterTypeOK
<1>1. /\ at[Worker] = "select" /\ queue # <<>>
      /\ hand' = Head(queue) /\ queue' = Tail(queue) /\ at' = [at EXCEPT ![Worker] = "load"]
      /\ UNCHANGED <<opt, exporter, array, len, size, timer, fired, local, exports, altered, fate, exited>>
  BY DEF WorkerRecv, Goto, batchVars, timerVars, outVars
<1>2. /\ at'[Worker] = "load" /\ \A e \in Entries : at'[e] = at[e]
      /\ Quiet' = Quiet
  BY <1>1, WorkerMoves
<1>3. /\ Head(queue) \in Entries /\ Head(queue) = queue[1] /\ 1 \in 1 .. Len(queue)
      /\ queue' \in Seq(Entries) /\ Len(queue') = Len(queue) - 1
      /\ \A i \in 1 .. Len(queue') : i + 1 \in 1 .. Len(queue) /\ queue'[i] = queue[i + 1]
  BY <1>1
<1>4. OptionsOK' /\ BatchWriterTypeOK'
  BY <1>1, <1>3, WorkerProc
<1>5. WorkerPlace' /\ RoomInv' /\ TimerInv'
  BY <1>1, <1>2, <1>3 DEF WorkerPlace, RoomInv, TimerInv
<1>6. FreshInv' /\ UsedInv'
  BY <1>1, <1>2, <1>3 DEF FreshInv, UsedInv
<1>7. AloneInv'
  <2> SUFFICES ASSUME Quiet PROVE (BatchAlone /\ QueueAlone /\ SliceAlone)'
    BY <1>2 DEF AloneInv
  <2>1. BatchAlone /\ QueueAlone /\ SliceAlone
    BY DEF AloneInv
  <2>2. BatchAlone' /\ SliceAlone'
    BY <1>1, <1>2, <2>1 DEF BatchAlone, SliceAlone, Away, Held, Batch
  <2>3. QueueAlone'
    BY <1>1, <1>2, <1>3, <2>1 DEF QueueAlone
  <2> QED
    BY <2>2, <2>3
<1> QED
  BY <1>4, <1>5, <1>6, <1>7

LEMMA AppendLoadNext == ASSUME WriterInv, AppendLoad PROVE WriterInv'
<1> USE DEF WriterInv, OptionsOK, BatchWriterTypeOK
<1>1. /\ at[Worker] = "load" /\ local' = len /\ at' = [at EXCEPT ![Worker] = "store"]
      /\ array' = [array EXCEPT ![len + 1] = hand]
      /\ UNCHANGED <<opt, exporter, queue, len, size, timer, fired, hand, exports, altered, fate, exited>>
      /\ len < opt.MaxExportBatchSize /\ hand \in Entries
  BY ArrayItems DEF AppendLoad, Goto, timerVars, outVars, RoomInv, WorkerPlace
<1>2. /\ at'[Worker] = "store" /\ \A e \in Entries : at'[e] = at[e]
      /\ Quiet' = Quiet
  BY <1>1, WorkerMoves
<1>3. /\ array' \in [1 .. opt.MaxExportBatchSize -> Entries \cup {NoEntry}]
      /\ array'[len + 1] = hand
      /\ \A i \in 1 .. opt.MaxExportBatchSize : i # len + 1 => array'[i] = array[i]
  BY <1>1
<1>4. OptionsOK' /\ BatchWriterTypeOK'
  BY <1>1, <1>3, WorkerProc
<1>5. WorkerPlace' /\ RoomInv' /\ TimerInv'
  BY <1>1, <1>2 DEF WorkerPlace, RoomInv, TimerInv
<1>6. FreshInv' /\ UsedInv'
  BY <1>1, <1>2, <1>3 DEF FreshInv, UsedInv
<1>7. AloneInv'
  <2> SUFFICES ASSUME Quiet PROVE (BatchAlone /\ QueueAlone /\ SliceAlone)'
    BY <1>2 DEF AloneInv
  <2>1. BatchAlone /\ QueueAlone /\ SliceAlone
    BY DEF AloneInv
  <2>2. BatchAlone'
    <3>1. \A i \in 1 .. len : i \in 1 .. opt.MaxExportBatchSize /\ array'[i] = array[i]
      BY <1>1, <1>3
    <3>2. Held' = Held
      BY <1>1, <3>1 DEF Held
    <3> QED
      BY <1>1, <1>2, <2>1, <3>1, <3>2 DEF BatchAlone, Away
  <2>3. SliceAlone'
    BY <1>1, <1>2, <2>1 DEF SliceAlone
  <2>4. QueueAlone'
    BY <1>1, <1>2, <1>3, <2>1 DEF QueueAlone
  <2> QED
    BY <2>2, <2>3, <2>4
<1> QED
  BY <1>4, <1>5, <1>6, <1>7

LEMMA AppendStoreNext == ASSUME WriterInv, AppendStore PROVE WriterInv'
<1> USE DEF WriterInv, OptionsOK, BatchWriterTypeOK
<1>1. /\ at[Worker] = "store" /\ len' = local + 1 /\ local' = size /\ at' = [at EXCEPT ![Worker] = "size"]
      /\ fate' = [e \in Entries |->
                    IF fate[e] \in {"queued", "lost"} /\ \E i \in 1 .. len' : array[i] = e
                    THEN "batched" ELSE fate[e]]
      /\ UNCHANGED <<opt, exporter, queue, array, size, timer, fired, hand, exports, altered, exited>>
      /\ local < opt.MaxExportBatchSize /\ hand \in Entries
  BY DEF AppendStore, Goto, timerVars, outVars, RoomInv, WorkerPlace
<1>2. /\ at'[Worker] = "size" /\ \A e \in Entries : at'[e] = at[e]
      /\ Quiet' = Quiet
  BY <1>1, WorkerMoves
<1>3. len' \in 1 .. opt.MaxExportBatchSize
  BY <1>1
<1>4. OptionsOK' /\ BatchWriterTypeOK'
  BY <1>1, <1>3, WorkerProc
<1>5. WorkerPlace' /\ RoomInv' /\ TimerInv'
  BY <1>1, <1>2 DEF WorkerPlace, RoomInv, TimerInv
<1>6. FreshInv' /\ UsedInv'
  BY <1>1, <1>2 DEF FreshInv, UsedInv
<1>7. AloneInv'
  <2> SUFFICES ASSUME Quiet PROVE (BatchAlone /\ QueueAlone /\ SliceAlone)'
    BY <1>2 DEF AloneInv
  <2>1. BatchAlone /\ QueueAlone /\ SliceAlone
    BY DEF AloneInv
  <2>2. /\ len' = len + 1 /\ array[len'] = hand /\ fate[hand] = "queued"
        /\ \A i \in 1 .. len : array[i] \in Entries /\ fate[array[i]] = "batched"
        /\ \A e \in Entries : fate[e] = "batched" => e \in Held
        /\ \A i \in 1 .. len' : i \in 1 .. len \/ i = len'
    BY <1>1, <2>1 DEF QueueAlone, BatchAlone, Away
  <2>3. \A e \in Entries : fate'[e] = IF e = hand THEN "batched" ELSE fate[e]
    <3>1. \A e \in Entries : fate[e] \in {"queued", "lost"} =>
             ((\E i \in 1 .. len' : array[i] = e) <=> e = hand)
      BY <1>3, <2>2
    <3> QED
      BY <1>1, <2>2, <3>1
  <2>4. BatchAlone'
    <3>1. \A i \in 1 .. len' : array[i] \in Entries /\ fate'[array[i]] = "batched"
      BY <1>1, <2>2, <2>3
    <3>2. \A e \in Entries : fate'[e] = "batched" => e \in Held'
      BY <1>1, <1>3, <2>2, <2>3 DEF Held
    <3> QED
      BY <1>1, <1>2, <2>1, <2>3, <3>1, <3>2 DEF BatchAlone, Away
  <2>5. SliceAlone'
    BY <1>1, <1>2, <2>1 DEF SliceAlone
  <2>6. QueueAlone'
    BY <1>1, <1>2, <2>1, <2>3 DEF QueueAlone
  <2> QED
    BY <2>4, <2>5, <2>6
<1> QED
  BY <1>4, <1>5, <1>6, <1>7

\* The steps of the loop that leave the records alone.
LEMMA LoopNext ==
    ASSUME WriterInv,
           WorkerTimer \/ AddSize \/ ShouldProcess \/ StopTimer \/ DrainTimer \/ TimerFire
    PROVE  WriterInv'
<1> USE DEF WriterInv, OptionsOK, BatchWriterTypeOK
<1> DEFINE Loop == {"select", "size", "should", "stop", "drain", "reset"}
<1>1. /\ UNCHANGED <<opt, exporter, queue, array, len, exports, altered, fate, exited>>
      /\ size' \in Nat /\ local' \in Nat /\ hand' \in {hand, NoEntry}
      /\ timer' \in {"armed", "idle"} /\ fired' \in {0, 1}
  <2>1. CASE AddSize
    BY <2>1 DEF AddSize, WorkerPlace, timerVars, outVars
  <2> QED
    BY <2>1 DEF WorkerTimer, ShouldProcess, StopTimer, DrainTimer, TimerFire,
                batchVars, timerVars, procVars, outVars
<1>2. \/ at' = at /\ hand' = hand /\ local' = local
      \/ /\ at[Worker] \in Loop
         /\ \E l \in Loop \ {"size"} : at' = [at EXCEPT ![Worker] = l]
  BY DEF WorkerTimer, AddSize, ShouldProcess, StopTimer, DrainTimer, TimerFire, Goto, procVars
<1>3. /\ \A e \in Entries : at'[e] = at[e]
      /\ Quiet' = Quiet
      /\ \/ at' = at /\ hand' = hand /\ local' = local
         \/ at[Worker] \in Loop /\ at'[Worker] \in Loop \ {"size"}
  <2>1. CASE at' = at /\ hand' = hand /\ local' = local
    <3>1. Synced' = Synced
      BY <2>1 DEF Synced
    <3> QED
      BY <1>1, <2>1, <3>1 DEF Quiet
  <2>2. ASSUME NEW l \in Loop \ {"size"}, at' = [at EXCEPT ![Worker] = l], at[Worker] \in Loop
        PROVE  /\ \A e \in Entries : at'[e] = at[e]
               /\ Quiet' = Quiet
               /\ at[Worker] \in Loop /\ at'[Worker] \in Loop \ {"size"}
    BY <1>1, <2>2, WorkerMoves
  <2> QED
    BY <1>2, <2>1, <2>2
<1>4. OptionsOK' /\ BatchWriterTypeOK'
  <2>1. at' \in [Procs -> {"absent", "idle", "enqueue", "done", "select", "load", "store", "size", "should",
                           "stop", "drain", "reset", "check", "call", "rpc", "truncate", "zero"}]
    BY <1>2
  <2> QED
    BY <1>1, <2>1
<1>5. WorkerPlace'
  BY <1>3 DEF WorkerPlace
<1>6. RoomInv' /\ TimerInv'
  <2> USE DEF RoomInv, TimerInv, Goto, procVars
  <2>1. CASE WorkerTimer
    BY <1>1, <2>1, WorkerProc DEF WorkerTimer
  <2>2. CASE AddSize
    BY <1>1, <2>2, WorkerProc DEF AddSize, timerVars
  <2>3. CASE ShouldProcess
    BY <1>1, <2>3, WorkerProc DEF ShouldProcess, shouldProcessInBatch, timerVars
  <2>4. CASE StopTimer
    BY <1>1, <2>4, WorkerProc DEF StopTimer
  <2>5. CASE DrainTimer
    BY <1>1, <2>5, WorkerProc DEF DrainTimer
  <2>6. CASE TimerFire
    BY <1>1, <2>6 DEF TimerFire
  <2> QED
    BY <2>1, <2>2, <2>3, <2>4, <2>5, <2>6
<1>7. FreshInv' /\ UsedInv'
  BY <1>1, <1>3 DEF FreshInv, UsedInv
<1>8. AloneInv'
  <2> SUFFICES ASSUME Quiet PROVE (BatchAlone /\ QueueAlone /\ SliceAlone)'
    BY <1>3 DEF AloneInv
  <2>1. BatchAlone /\ QueueAlone /\ SliceAlone
    BY DEF AloneInv
  <2>2. Away' = Away /\ Held' = Held /\ Batch' = Batch
    BY <1>1, <1>3 DEF Away, Held, Batch
  <2>3. BatchAlone'
    BY <1>1, <2>1, <2>2 DEF BatchAlone
  <2>4. SliceAlone'
    BY <1>1, <1>3, <2>1, <2>2 DEF SliceAlone
  <2>5. QueueAlone'
    BY <1>1, <1>3, <2>1 DEF QueueAlone
  <2> QED
    BY <2>3, <2>4, <2>5
<1> QED
  BY <1>4, <1>5, <1>6, <1>7, <1>8

-----------------------------------------------------------------------------
(* export.                                                                 *)

LEMMA AsyncExportNext == ASSUME WriterInv, AsyncExport PROVE WriterInv'
<1> USE DEF WriterInv, OptionsOK, BatchWriterTypeOK
<1>1. /\ UNCHANGED <<opt, exporter, queue, array, len, size, timer, fired, at, hand, local, fate, exited>>
      /\ exporter = "async" /\ altered' \in {"yes", "no"}
  BY DEF AsyncExport, Marshal, batchVars, timerVars, procVars
<1>2. OptionsOK' /\ BatchWriterTypeOK'
  BY <1>1
<1>3. WorkerPlace' /\ RoomInv' /\ TimerInv' /\ FreshInv' /\ UsedInv'
  BY <1>1 DEF WorkerPlace, RoomInv, TimerInv, FreshInv, UsedInv
<1>4. Synced' = Synced
  BY <1>1 DEF Synced
<1>5. Quiet' = Quiet
  BY <1>1, <1>4 DEF Quiet
<1>6. BatchAlone' = BatchAlone /\ QueueAlone' = QueueAlone /\ SliceAlone'
  BY <1>1 DEF BatchAlone, QueueAlone, SliceAlone, Held, Away
<1> QED
  BY <1>2, <1>3, <1>5, <1>6 DEF AloneInv

\* What a step of export leaves alone, whoever takes it, and where it leads.
LEMMA ExportMoves ==
    ASSUME WriterInv, NEW p \in Procs, export(p)
    PROVE  /\ UNCHANGED <<opt, exporter, queue, array, fired, hand, local>>
           /\ len' \in {len, 0} /\ size' \in {size, 0} /\ timer' \in {timer, "armed"}
           /\ altered' \in {"yes", "no"} /\ exited' \in {"yes", "no"}
           /\ p = Worker => exited' = exited
           /\ \E l \in {"check", "call", "rpc", "truncate", "zero", "select", "done"} :
                 /\ at' = [at EXCEPT ![p] = l]
                 /\ l = "select" => p = Worker
                 /\ l = "done" => p # Worker
           /\ fate' \in [Entries -> {"none", "filtered", "dropped", "queued", "batched", "handed", "twice", "lost"}]
           /\ \A e \in Entries : fate'[e] = "none" <=> fate[e] = "none"
<1> USE DEF WriterInv, OptionsOK, BatchWriterTypeOK, Goto, batchVars, timerVars, outVars, Return, AfterExport
<1>0. Worker \notin Entries
  OBVIOUS
<1>1. CASE ResetTimer(p)
  BY <1>1 DEF ResetTimer
<1>2. CASE CheckEmpty(p)
  BY <1>0, <1>2 DEF CheckEmpty
<1>3. CASE CallExport(p)
  <2>1. \A e \in Entries : fate[e] = "none" => e \notin ToSet(Batch)
    BY ArrayItems DEF UsedInv, Held
  <2> HIDE DEF WriterInv
  <2>2. /\ fate' = [e \in Entries |-> IF e \notin ToSet(Batch) THEN fate[e]
                                  ELSE IF fate[e] = "handed" THEN "twice" ELSE "handed"]
        /\ UNCHANGED <<opt, exporter, queue, array, len, size, timer, fired, hand, local, altered, exited>>
        /\ \E l \in {"rpc", "truncate"} : at' = [at EXCEPT ![p] = l]
    BY <1>3 DEF CallExport
  <2>3. /\ fate' \in [Entries -> {"none", "filtered", "dropped", "queued", "batched", "handed", "twice", "lost"}]
        /\ \A e \in Entries : fate'[e] = "none" <=> fate[e] = "none"
    BY <2>1, <2>2 DEF WriterInv
  <2> QED
    BY <2>2, <2>3 DEF WriterInv
<1>4. CASE OtlpExport(p)
  BY <1>4 DEF OtlpExport, Marshal
<1>5. CASE Truncate(p)
  BY <1>5 DEF Truncate
<1>6. CASE ZeroSize(p)
  BY <1>0, <1>6 DEF ZeroSize
<1> QED
  BY <1>1, <1>2, <1>3, <1>4, <1>5, <1>6 DEF export

LEMMA ExportKeepsRoom ==
    ASSUME WriterInv, NEW p \in Procs, export(p)
    PROVE  OptionsOK' /\ BatchWriterTypeOK' /\ WorkerPlace' /\ RoomInv' /\ TimerInv' /\ FreshInv' /\ UsedInv'
<1> USE DEF WriterInv, OptionsOK, BatchWriterTypeOK
<1>1. PICK l \in {"check", "call", "rpc", "truncate", "zero", "select", "done"} :
         /\ at' = [at EXCEPT ![p] = l]
         /\ l = "select" => p = Worker
         /\ l = "done" => p # Worker
  BY ExportMoves
<1>2. /\ at' \in [Procs -> {"absent", "idle", "enqueue", "done", "select", "load", "store", "size", "should",
                           "stop", "drain", "reset", "check", "call", "rpc", "truncate", "zero"}]
      /\ at'[p] = l /\ \A q \in Procs : q # p => at'[q] = at[q]
  BY <1>1
<1>3. OptionsOK' /\ BatchWriterTypeOK'
  <2>1. /\ UNCHANGED <<opt, queue, array, fired, hand, local>>
        /\ len' \in {len, 0} /\ size' \in {size, 0} /\ timer' \in {timer, "armed"}
        /\ altered' \in {"yes", "no"} /\ exited' \in {"yes", "no"}
        /\ fate' \in [Entries -> {"none", "filtered", "dropped", "queued", "batched", "handed", "twice", "lost"}]
    BY ExportMoves
  <2> QED
    BY <1>2, <2>1
<1>4. WorkerPlace'
  BY <1>1, <1>2, ExportMoves, WorkerProc DEF WorkerPlace
<1>5. FreshInv' /\ UsedInv'
  <2>1. \A e \in Entries : at'[e] \in {"idle", "enqueue"} => at[e] \in {"idle", "enqueue"}
    BY <1>2 DEF Procs
  <2> QED
    BY <2>1, ExportMoves DEF FreshInv, UsedInv
<1>6. TimerInv'
  <2>1. CASE p = Worker /\ at[p] = "reset"
    BY <1>1, <1>2, <2>1 DEF export, ResetTimer, CheckEmpty, CallExport, OtlpExport, Truncate, ZeroSize, TimerInv
  <2>2. CASE p = Worker /\ at[p] # "reset"
    BY <1>1, <1>2, <2>2, ExportMoves
    DEF export, ResetTimer, CheckEmpty, CallExport, OtlpExport, Truncate, ZeroSize, TimerInv
  <2>3. CASE p # Worker
    BY <1>2, <2>3, ExportMoves, WorkerProc DEF TimerInv
  <2> QED
    BY <2>1, <2>2, <2>3
<1>7. RoomInv'
  <2>1. CASE p = Worker
    <3>1. CASE CheckEmpty(Worker)
      BY <1>2, <2>1, <3>1, ExportMoves DEF CheckEmpty, Return, Goto, AfterExport, RoomInv, batchVars
    <3>2. CASE Truncate(Worker)
      BY <1>2, <2>1, <3>2, ExportMoves DEF Truncate, Goto, RoomInv
    <3>3. CASE ZeroSize(Worker)
      BY <1>2, <2>1, <3>3, ExportMoves DEF ZeroSize, Return, Goto, AfterExport, RoomInv
    <3>4. CASE ResetTimer(Worker) \/ CallExport(Worker) \/ OtlpExport(Worker)
      <4>1. at'[Worker] \in {"check", "rpc", "truncate"}
        BY <3>4, WorkerProc DEF ResetTimer, CallExport, OtlpExport, Goto
      <4> QED
        BY <4>1 DEF RoomInv
    <3> QED
      BY <2>1, <3>1, <3>2, <3>3, <3>4 DEF export
  <2>2. CASE p # Worker
    BY <1>2, <2>2, ExportMoves, WorkerProc DEF RoomInv
  <2> QED
    BY <2>1, <2>2
<1> QED
  BY <1>3, <1>4, <1>5, <1>6, <1>7

\* Nobody but the worker exports: a record is handed over once, and the slice of its
\* call is the batch until the call has been marshalled.
LEMMA ExportAlone ==
    ASSUME WriterInv, export(Worker), Quiet
    PROVE  (BatchAlone /\ QueueAlone /\ SliceAlone)'
<1> USE DEF WriterInv, OptionsOK, BatchWriterTypeOK
<1>1. BatchAlone /\ QueueAlone /\ SliceAlone
  BY DEF AloneInv
<1>2. /\ UNCHANGED <<opt, exporter, queue, array, hand, local>>
      /\ at[Worker] \in {"reset", "check", "call", "rpc", "truncate", "zero"}
  BY ExportMoves, WorkerProc DEF export, ResetTimer, CheckEmpty, CallExport, OtlpExport, Truncate, ZeroSize
<1>3. PICK l \in {"check", "call", "rpc", "truncate", "zero", "select"} : at' = [at EXCEPT ![Worker] = l]
  BY ExportMoves, WorkerProc
<1>4. at'[Worker] = l
  BY <1>3, WorkerProc
<1> USE DEF Away
<1>5. ASSUME at[Worker] \in {"reset", "check", "zero"}, l \in {"check", "call", "select"},
             len' = len, fate' = fate, exports' = exports, altered' = altered
      PROVE  (BatchAlone /\ QueueAlone /\ SliceAlone)'
  <2>1. Held' = Held /\ Away' = Away
    BY <1>2, <1>4, <1>5 DEF Held
  <2>2. BatchAlone'
    BY <1>1, <1>2, <1>4, <1>5, <2>1 DEF BatchAlone
  <2>3. QueueAlone' /\ SliceAlone'
    BY <1>1, <1>2, <1>4, <1>5 DEF QueueAlone, SliceAlone
  <2> QED
    BY <2>2, <2>3
<1>6. CASE CallExport(Worker)
  <2>1. /\ at[Worker] = "call" /\ len' = len /\ altered' = altered
        /\ l = IF exporter = "async" THEN "truncate" ELSE "rpc"
        /\ exports' = Append(exports, [by |-> Worker, given |-> Batch])
        /\ fate' = [e \in Entries |-> IF e \notin Held THEN fate[e]
                                      ELSE IF fate[e] = "handed" THEN "twice" ELSE "handed"]
    BY <1>3, <1>4, <1>6, ArrayItems, WorkerProc DEF CallExport, Goto, batchVars
  <2>2. \A e \in Entries : e \in Held <=> fate[e] = "batched"
    BY <1>1, <2>1 DEF BatchAlone, Held
  <2>3. \A e \in Entries : fate'[e] = IF fate[e] = "batched" THEN "handed" ELSE fate[e]
    BY <2>1, <2>2
  <2>4. BatchAlone'
    BY <1>1, <1>4, <2>1, <2>3 DEF BatchAlone
  <2>5. QueueAlone'
    <3>1. \A i \in 1 .. Len(queue) : queue[i] \in Entries /\ fate[queue[i]] = "queued"
      BY <1>1 DEF QueueAlone
    <3>2. \A i \in 1 .. Len(queue) : fate'[queue[i]] = "queued"
      BY <2>3, <3>1
    <3> QED
      BY <1>1, <1>2, <1>4, <2>1, <3>2 DEF QueueAlone
  <2>6. SliceAlone'
    <3>1. Batch' = Batch
      BY <1>2, <2>1 DEF Batch
    <3>2. ASSUME exporter # "async" PROVE exports' = <<[by |-> Worker, given |-> Batch]>>
      <4>1. exports = <<>>
        BY <1>1, <2>1, <3>2 DEF SliceAlone
      <4> QED
        BY <2>1, <4>1
    <3> QED
      BY <1>1, <1>2, <1>4, <2>1, <3>1, <3>2 DEF SliceAlone
  <2> QED
    BY <2>4, <2>5, <2>6
<1>7. CASE OtlpExport(Worker)
  <2>1. /\ at[Worker] = "rpc" /\ l = "truncate" /\ len' = len /\ fate' = fate
        /\ \E i \in DOMAIN exports : exports[i].by = Worker /\ Marshal(i)
    BY <1>3, <1>4, <1>7, WorkerProc DEF OtlpExport, Goto, batchVars
  <2>2. BatchAlone' /\ QueueAlone'
    BY <1>1, <1>2, <1>4, <2>1 DEF BatchAlone, QueueAlone
  <2>3. ASSUME exporter # "async" PROVE altered' = "no" /\ exports' = <<>>
    <3>1. /\ altered = "no" /\ exports = <<[by |-> Worker, given |-> Batch]>>
      BY <1>1, <2>1, <2>3 DEF SliceAlone
    <3>2. DOMAIN exports = {1} /\ exports[1].given = Batch /\ Len(exports) = 1
      BY <3>1
    <3>3. Marshal(1)
      BY <2>1, <3>2
    <3>4. SubSeq(array, 1, Len(Batch)) = Batch
      BY ArrayItems DEF Batch
    <3>5. altered' = "no"
      BY <3>1, <3>2, <3>3, <3>4 DEF Marshal
    <3>6. RemoveAt(exports, 1) \in Seq({exports[1]}) /\ Len(RemoveAt(exports, 1)) = 0
      <4>1. exports \in Seq({exports[1]})
        BY <3>1
      <4>2. 1 \in 1 .. Len(exports)
        BY <3>2
      <4> DEFINE S == {exports[1]}
      <4>3. exports \in Seq(S)
        BY <4>1
      <4> HIDE DEF S
      <4>4. RemoveAt(exports, 1) \in Seq(S) /\ Len(RemoveAt(exports, 1)) = Len(exports) - 1
        BY <4>2, <4>3, RemoveAtItems
      <4> QED
        BY <3>2, <4>4 DEF S
    <3>7. exports' = <<>>
      BY <3>3, <3>6 DEF Marshal
    <3> QED
      BY <3>5, <3>7
  <2>4. SliceAlone'
    BY <1>2, <1>4, <2>1, <2>3 DEF SliceAlone
  <2> QED
    BY <2>2, <2>4
<1>8. CASE Truncate(Worker)
  <2>1. /\ at[Worker] = "truncate" /\ l = "zero" /\ len' = 0 /\ exports' = exports /\ altered' = altered
        /\ fate' = [e \in Entries |-> IF fate[e] = "batched" THEN "lost" ELSE fate[e]]
    BY <1>3, <1>4, <1>8, WorkerProc DEF Truncate, Goto, outVars
  <2>2. \A e \in Entries : fate'[e] = fate[e] /\ fate[e] # "batched"
    BY <1>1, <2>1 DEF BatchAlone
  <2>3. BatchAlone'
    BY <1>1, <1>4, <2>1, <2>2 DEF BatchAlone
  <2>4. QueueAlone'
    BY <1>1, <1>2, <1>4, <2>1, <2>2 DEF QueueAlone
  <2>5. SliceAlone'
    BY <1>1, <1>2, <1>4, <2>1 DEF SliceAlone
  <2> QED
    BY <2>3, <2>4, <2>5
<1>9. CASE ResetTimer(Worker) \/ CheckEmpty(Worker) \/ ZeroSize(Worker)
  <2>1. /\ at[Worker] \in {"reset", "check", "zero"} /\ l \in {"check", "call", "select"}
        /\ len' = len /\ fate' = fate /\ exports' = exports /\ altered' = altered
    BY <1>4, <1>9, WorkerProc
    DEF ResetTimer, CheckEmpty, ZeroSize, Return, Goto, AfterExport, batchVars, timerVars, outVars
  <2> QED
    BY <1>5, <2>1
<1> QED
  BY <1>6, <1>7, <1>8, <1>9 DEF export

LEMMA ExportNext ==
    ASSUME WriterInv, NEW p \in Procs, export(p)
    PROVE  WriterInv'
<1>1. AloneInv'
  <2>1. CASE p # Worker
    BY <2>1, SyncIsLoud DEF AloneInv, WriterInv
  <2>2. CASE p = Worker
    <3>1. PICK l : at' = [at EXCEPT ![Worker] = l] /\ exited' = exited
      BY <2>2, ExportMoves
    <3>2. Quiet' = Quiet
      BY <3>1, WorkerMoves DEF WriterInv
    <3> QED
      BY <2>2, <3>2, ExportAlone DEF AloneInv
  <2> QED
    BY <2>1, <2>2
<1> QED
  BY <1>1, ExportKeepsRoom DEF WriterInv

-----------------------------------------------------------------------------
(* Logging through zap.                                                    *)

LEMMA WriterNext == ASSUME WriterInv, BatchWriterNext PROVE WriterInv'
  BY EntryStages, SyncNext, RecvNext, AppendLoadNext, AppendStoreNext, LoopNext, AsyncExportNext, ExportNext
  DEF BatchWriterNext, processQueue

LEMMA WriterStutters == ASSUME WriterInv, UNCHANGED batchWriterVars PROVE WriterInv'
<1> USE DEF WriterInv, batchWriterVars, batchVars, timerVars, procVars, outVars
<1>1. /\ UNCHANGED <<opt, exporter, queue, array, len, size, timer, fired, at, hand, local, exports,
                     altered, fate, exited>>
  OBVIOUS
<1>2. OptionsOK' /\ BatchWriterTypeOK' /\ WorkerPlace' /\ RoomInv' /\ TimerInv' /\ FreshInv' /\ UsedInv'
  BY <1>1 DEF OptionsOK, BatchWriterTypeOK, WorkerPlace, RoomInv, TimerInv, FreshInv, UsedInv
<1>3. Quiet' = Quiet
  <2>1. Synced' = Synced
    BY <1>1 DEF Synced
  <2> QED
    BY <1>1, <2>1 DEF Quiet
<1>4. BatchAlone' = BatchAlone /\ QueueAlone' = QueueAlone
  BY <1>1 DEF BatchAlone, QueueAlone, Held, Away
<1>5. SliceAlone' = SliceAlone
  BY <1>1 DEF SliceAlone, Batch
<1> QED
  BY <1>2, <1>3, <1>4, <1>5 DEF AloneInv

\* The configuration the plugin decodes gives the writer room for at least one record.
LEMMA OptionsType ==
    ASSUME NEW c \in LogsConfig
    PROVE  /\ getBatchSyncerOptions(c).MaxExportBatchSize \in Nat \ {0}
           /\ getBatchSyncerOptions(c).MaxQueueSize \in Nat
<1>1. c.batchSize \in Int /\ c.queueSize \in Int /\ c.codeQueueSize \in Int
  BY DEF LogsConfig
<1> QED
  BY <1>1 DEF getBatchSyncerOptions, Override

LEMMA ParseConfigKeeps ==
    ASSUME NEW c \in LogsConfig
    PROVE  getBatchSyncerOptions(ParseConfig(c)) = getBatchSyncerOptions(c)
<1>1. /\ ParseConfig(c).batchSize = c.batchSize /\ ParseConfig(c).queueSize = c.queueSize
      /\ ParseConfig(c).packetSize = c.packetSize /\ ParseConfig(c).codeQueueSize = c.codeQueueSize
      /\ ParseConfig(c).sampler = c.sampler /\ ParseConfig(c).samplerError = c.samplerError
  BY DEF ParseConfig, LogsConfig
<1> QED
  BY <1>1 DEF getBatchSyncerOptions

IInv == /\ part \in Parts /\ core.core \in {"nop", "error", "batch"}
        /\ WriterInv /\ RetryInv /\ EncoderInv

LEMMA ZapInit == Init => IInv
<1> SUFFICES ASSUME Init PROVE IInv
  OBVIOUS
<1>1. part \in Parts /\ RetryInv
  BY RetryInit DEF Init
<1>2. PICK scenario \in Scenarios, created \in {"ok", "fail"} :
         /\ core = IF part # "writer" THEN [core |-> "nop"]
                   ELSE IF FactorySetup(scenario.outputs).error THEN [core |-> "error"]
                   ELSE Setup(scenario.config, created)
         /\ IF core.core = "batch"
            THEN NewBatchWriteSyncer(core.options, core.exporter.kind, scenario.users)
            ELSE NewBatchWriteSyncer(getBatchSyncerOptions(scenario.config), "otlp", scenario.users)
  BY DEF Init
<1>3. scenario.config \in LogsConfig
  OBVIOUS
<1>4. /\ core.core \in {"nop", "error", "batch"}
      /\ core.core = "batch" => core.options = getBatchSyncerOptions(scenario.config)
  BY <1>2, <1>3, ParseConfigKeeps DEF Setup
<1>5. WriterInv
  <2>1. CASE core.core = "batch"
    BY <1>2, <1>3, <1>4, <2>1, OptionsType, WriterInit
  <2>2. CASE core.core # "batch"
    <3> DEFINE options == getBatchSyncerOptions(scenario.config)
    <3>1. options.MaxExportBatchSize \in Nat \ {0} /\ options.MaxQueueSize \in Nat
      BY <1>3, OptionsType
    <3>2. NewBatchWriteSyncer(options, "otlp", scenario.users)
      BY <1>2, <2>2
    <3> HIDE DEF options
    <3> QED
      BY <3>1, <3>2, WriterInit
  <2> QED
    BY <2>1, <2>2
<1>6. EncoderInv
  BY EncoderInit DEF Init
<1> QED
  BY <1>1, <1>4, <1>5, <1>6 DEF IInv

LEMMA ZapNext == IInv /\ [Next]_zapLogVars => IInv'
<1> SUFFICES ASSUME IInv, [Next]_zapLogVars PROVE IInv'
  OBVIOUS
<1>1. part' = part /\ core' = core
  BY DEF Next, WriterStep, CoreStep, RetryStep, zapLogVars
<1>2. WriterInv'
  <2>1. CASE UNCHANGED batchWriterVars
    BY <2>1, WriterStutters DEF IInv
  <2>2. CASE BatchWriterNext \/ \E e \in Entries : Skip(e)
    BY <2>2, WriterNext, EntryStages DEF IInv
  <2> QED
    BY <2>1, <2>2 DEF Next, WriterStep, CoreStep, RetryStep, zapLogVars
<1>3. RetryInv'
  <2>1. CASE UNCHANGED retryVars
    BY <2>1 DEF IInv, RetryInv, RetryTypeOK, WaitsWithinBudget, RetriesWithinBudget, retryVars
  <2>2. CASE RetryNext
    BY <2>2, RetryStepNext DEF IInv
  <2> QED
    BY <2>1, <2>2 DEF Next, WriterStep, CoreStep, RetryStep, zapLogVars
<1>4. EncoderInv'
  <2>1. CASE UNCHANGED encoderVars
    BY <2>1 DEF IInv, EncoderInv, encoderVars
  <2>2. CASE CoreStep
    BY <2>2, EncoderNext DEF IInv
  <2> QED
    BY <2>1, <2>2 DEF Next, WriterStep, RetryStep, zapLogVars
<1> QED
  BY <1>1, <1>2, <1>3, <1>4 DEF IInv

-----------------------------------------------------------------------------
(* Theorems.                                                               *)

\* The invariant the others follow from: the three parts keep theirs whatever the
\* goroutines that log, the worker, the timer, the exporters and the callers of Sync do.
THEOREM ZapInductive == Spec => []IInv
<1>1. Spec => Init /\ [][Next]_zapLogVars
  BY DEF Spec
<1> QED
  BY <1>1, ZapInit, ZapNext, PTL

\* Every variable of the plugin's writer, of the protobuf core and of the retries keeps
\* its type; the batch never outgrows its array, however Syncs race with the worker.
THEOREM ZapTypeOK == Spec => []TypeOK
<1>1. IInv => TypeOK
  BY DEF IInv, WriterInv, RetryInv, EncoderInv, TypeOK
<1> QED
  BY <1>1, ZapInductive, PTL

\* The worker never waits for a tick that does not come, nor for work without a timer
\* that wakes it (writer.go:409, 410, 419).
THEOREM WorkerWakes == Spec => []WorkerWakesUp
<1>1. IInv => WorkerWakesUp
  BY DEF IInv, WriterInv, TimerInv, WorkerWakesUp
<1> QED
  BY <1>1, ZapInductive, PTL

\* Without a Sync no record is lost or handed over twice (writer.go:405, 429).
THEOREM LossNeedsSync == Spec => []OnlySyncLoses
<1>1. IInv => OnlySyncLoses
  BY DEF IInv, WriterInv, BatchWriterTypeOK, AloneInv, BatchAlone, Quiet, OnlySyncLoses
<1> QED
  BY <1>1, ZapInductive, PTL

\* Without a Sync the OTLP exporter marshals what it was given (writer.go:425, 429).
THEOREM SlicesIntact == Spec => []DeliveredIntact
<1>1. IInv => DeliveredIntact
  BY DEF IInv, WriterInv, BatchWriterTypeOK, AloneInv, SliceAlone, Quiet, DeliveredIntact
<1> QED
  BY <1>1, ZapInductive, PTL

\* Through the protobuf core a record has all its own entry said, whatever earlier entries
\* left in the record and the buffer all loggers share; and the conversion of the JSON core
\* keeps what the older one kept (zap.go:318-341, 368-395; writer.go:106, 189).
THEOREM FieldsReachRecords == Spec => []EntryFieldsDelivered
<1>1. IInv => OwnFieldsDelivered
  <2> SUFFICES ASSUME IInv, NEW i \in DOMAIN wrote PROVE Delivers(enqueued[i], wrote[i])
    BY DEF OwnFieldsDelivered
  <2>1. i \in 1 .. Len(wrote)
    BY DEF IInv, EncoderInv
  <2> QED
    BY <2>1 DEF IInv, EncoderInv
<1>2. IInv => EntryFieldsDelivered
  BY <1>1, RecordsAgree DEF EntryFieldsDelivered
<1> QED
  BY <1>2, ZapInductive, PTL

\* Nothing is tried again once the time budget of the exporter is spent, whatever delays
\* the backoff draws and the collector asks for (retry.go:87, 101-115).
THEOREM RetryBudgetKept == Spec => []RetriesWithinBudget
<1>1. IInv => RetriesWithinBudget
  BY DEF IInv, RetryInv
<1> QED
  BY <1>1, ZapInductive, PTL
=============================================================================
