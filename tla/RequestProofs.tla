---------------------------- MODULE RequestProofs ----------------------------
(***************************************************************************)
(* Proofs about what the plugin does for requests, for every set of calls, *)
(* configuration of the filters, outcome of the handlers, stream, context  *)
(* and configuration of the return codes.                                  *)
(***************************************************************************)
EXTENDS Request, SequenceLemmas, FiniteSetTheorems

-----------------------------------------------------------------------------
(* Codes: the sort, by induction over the list.                            *)

\* What the recursion of SortSlice asks of its function.
Sorts(seq, f) == f = [n \in 0 .. Len(seq) |-> IF n = 0 THEN <<>> ELSE Insert(f[n - 1], seq[n])]

LEMMA SortsStep ==
    ASSUME NEW S, NEW seq \in Seq(S), NEW f, Sorts(seq, f)
    PROVE  f[0] = <<>> /\ \A n \in 1 .. Len(seq) : f[n] = Insert(f[n - 1], seq[n])
<1> DEFINE body(g, n) == IF n = 0 THEN <<>> ELSE Insert(g[n - 1], seq[n])
<1>1. \A n \in 0 .. Len(seq) : f[n] = body(f, n)
  <2>1. f = [n \in 0 .. Len(seq) |-> body(f, n)]
    BY DEF Sorts
  <2> HIDE DEF body
  <2> QED
    BY <2>1
<1>2. 0 \in 0 .. Len(seq) /\ \A n \in 1 .. Len(seq) : n \in 0 .. Len(seq) /\ n # 0
  OBVIOUS
<1> QED
  BY <1>1, <1>2

\* Any function that sorts gives the value of SortSlice.
LEMMA SortsValue ==
    ASSUME NEW S, NEW seq \in Seq(S), NEW f, Sorts(seq, f)
    PROVE  SortSlice(seq) = f[Len(seq)]
<1> DEFINE F == CHOOSE g : g = [n \in 0 .. Len(seq) |-> IF n = 0 THEN <<>> ELSE Insert(g[n - 1], seq[n])]
           N == {n \in Nat : n <= Len(seq) => F[n] = f[n]}
<1>1. Sorts(seq, F) /\ SortSlice(seq) = F[Len(seq)]
  BY DEF Sorts, SortSlice
<1> HIDE DEF F
<1>2. 0 \in N
  BY <1>1, SortsStep
<1>3. ASSUME NEW n \in N PROVE n + 1 \in N
  <2> SUFFICES ASSUME n + 1 <= Len(seq) PROVE F[n + 1] = f[n + 1]
    OBVIOUS
  <2>1. F[n] = f[n] /\ n + 1 \in 1 .. Len(seq) /\ (n + 1) - 1 = n
    OBVIOUS
  <2> QED
    BY <1>1, <2>1, SortsStep
<1> HIDE DEF N
<1>4. N = Nat
  <2>1. N \subseteq Nat
    BY DEF N
  <2> QED
    BY <1>2, <1>3, <2>1, NatSetInduction
<1>5. Len(seq) \in N
  BY <1>4
<1> QED
  BY <1>1, <1>5 DEF N

\* The function for a longer list, from the one for the shorter.
LEMMA SortsNext ==
    ASSUME NEW S, NEW seq \in Seq(S), NEW x \in S, NEW f, Sorts(seq, f)
    PROVE  \E g : Sorts(Append(seq, x), g) /\ g[Len(seq) + 1] = Insert(f[Len(seq)], x)
<1> DEFINE g == [n \in 0 .. Len(seq) + 1 |-> IF n <= Len(seq) THEN f[n] ELSE Insert(f[Len(seq)], x)]
<1>1. Len(Append(seq, x)) = Len(seq) + 1 /\ Len(seq) \in Nat
  OBVIOUS
<1>2. ASSUME NEW n \in 0 .. Len(seq) + 1
      PROVE  g[n] = IF n = 0 THEN <<>> ELSE Insert(g[n - 1], Append(seq, x)[n])
  <2>1. CASE n = 0
    BY <1>1, <2>1, SortsStep
  <2>2. CASE n \in 1 .. Len(seq)
    <3>1. Append(seq, x)[n] = seq[n] /\ g[n] = f[n] /\ g[n - 1] = f[n - 1]
      BY <1>1, <2>2
    <3> QED
      BY <2>2, <3>1, SortsStep
  <2>3. CASE n = Len(seq) + 1
    <3>1. Append(seq, x)[n] = x /\ g[n] = Insert(f[Len(seq)], x) /\ g[n - 1] = f[Len(seq)] /\ n # 0
      BY <1>1, <2>3
    <3> QED
      BY <3>1
  <2> QED
    BY <1>1, <2>1, <2>2, <2>3
<1>3. Sorts(Append(seq, x), g)
  BY <1>1, <1>2 DEF Sorts
<1>4. g[Len(seq) + 1] = Insert(f[Len(seq)], x)
  BY <1>1
<1> QED
  BY <1>3, <1>4

LEMMA SortEmpty == SortSlice(<<>>) = <<>>
<1>1. Sorts(<<>>, [n \in 0 .. 0 |-> <<>>])
  BY DEF Sorts
<1> QED
  BY <1>1, SortsValue, EmptySeq

LEMMA SortAppend ==
    ASSUME NEW S, NEW seq \in Seq(S), NEW x \in S
    PROVE  SortSlice(Append(seq, x)) = Insert(SortSlice(seq), x)
<1> DEFINE T == {s \in Seq(S) : \E f : Sorts(s, f)}
<1>1. <<>> \in T
  <2>1. Sorts(<<>>, [n \in 0 .. 0 |-> <<>>])
    BY DEF Sorts
  <2> QED
    BY <2>1
<1>2. ASSUME NEW s \in T, NEW y \in S PROVE Append(s, y) \in T
  BY SortsNext
<1>3. PICK f : Sorts(seq, f)
  <2> HIDE DEF T
  <2>1. T = Seq(S)
    <3>1. T \subseteq Seq(S)
      BY DEF T
    <3> QED
      BY <1>1, <1>2, <3>1, SeqSetInduction
  <2> QED
    BY <2>1 DEF T
<1>4. PICK g : Sorts(Append(seq, x), g) /\ g[Len(seq) + 1] = Insert(f[Len(seq)], x)
  BY <1>3, SortsNext
<1>5. SortSlice(seq) = f[Len(seq)]
  BY <1>3, SortsValue
<1>6. SortSlice(Append(seq, x)) = g[Len(seq) + 1]
  <2>1. Append(seq, x) \in Seq(S) /\ Len(Append(seq, x)) = Len(seq) + 1
    OBVIOUS
  <2> QED
    BY <1>4, <2>1, SortsValue
<1> QED
  BY <1>4, <1>5, <1>6

\* Where an element goes: behind the last it is not less than.
LEMMA InsertPlace ==
    ASSUME NEW S, NEW s \in Seq(S), NEW x \in S
    PROVE  \E n \in 1 .. Len(s) + 1 :
              /\ Insert(s, x) = InsertAt(s, n, x)
              /\ n # 1 => ~ Less(x, s[n - 1])
              /\ \A i \in n .. Len(s) : Less(x, s[i])
<1> DEFINE T == {0} \cup {i \in DOMAIN s : ~ Less(x, s[i])}
           m == Max(T)
<1>1. T \in SUBSET Nat /\ T # {} /\ Len(s) \in Nat /\ \A i \in T : i <= Len(s)
  OBVIOUS
<1>2. m \in T /\ \A i \in T : i <= m
  <2> HIDE DEF T
  <2> QED
    BY <1>1, GreatestElement
<1>3. Insert(s, x) = InsertAt(s, m + 1, x)
  BY DEF Insert
<1> HIDE DEF m
<1>4. m + 1 \in 1 .. Len(s) + 1 /\ (m + 1 # 1 => ~ Less(x, s[(m + 1) - 1]))
  BY <1>2
<1>5. ASSUME NEW i \in m + 1 .. Len(s) PROVE Less(x, s[i])
  BY <1>2
<1> QED
  BY <1>3, <1>4, <1>5

\* What inserting an element makes of a list.
Inserted(S, t, s, n, x) ==
    /\ t \in Seq(S) /\ Len(t) = Len(s) + 1
    /\ \A i \in 1 .. Len(s) + 1 : t[i] = IF i < n THEN s[i] ELSE IF i = n THEN x ELSE s[i - 1]

LEMMA InsertAtInserted ==
    ASSUME NEW S, NEW seq \in Seq(S), NEW n \in 1 .. Len(seq) + 1, NEW x \in S
    PROVE  Inserted(S, InsertAt(seq, n, x), seq, n, x)
  BY InsertAtItems DEF Inserted

\* Sorting keeps the length and the elements.
LEMMA InsertType ==
    ASSUME NEW S, NEW s \in Seq(S), NEW x \in S
    PROVE  /\ Insert(s, x) \in Seq(S) /\ Len(Insert(s, x)) = Len(s) + 1
           /\ ToSet(Insert(s, x)) = ToSet(s) \cup {x}
<1>1. PICK n \in 1 .. Len(s) + 1 : Insert(s, x) = InsertAt(s, n, x)
  BY InsertPlace
<1> DEFINE t == InsertAt(s, n, x)
<1>2. /\ t \in Seq(S) /\ Len(t) = Len(s) + 1
      /\ \A i \in 1 .. Len(s) + 1 : t[i] = IF i < n THEN s[i] ELSE IF i = n THEN x ELSE s[i - 1]
  <2>1. Inserted(S, t, s, n, x)
    BY InsertAtInserted
  <2> HIDE DEF t
  <2> QED
    BY <2>1 DEF Inserted
<1> HIDE DEF t
<1>3. ToSet(t) \subseteq ToSet(s) \cup {x}
  <2> SUFFICES ASSUME NEW i \in 1 .. Len(s) + 1 PROVE t[i] \in ToSet(s) \cup {x}
    BY <1>2 DEF ToSet
  <2>1. CASE i < n
    BY <1>2, <2>1 DEF ToSet
  <2>2. CASE i = n
    BY <1>2, <2>2
  <2>3. CASE i > n
    <3>1. i - 1 \in DOMAIN s /\ t[i] = s[i - 1]
      BY <1>2, <2>3
    <3> QED
      BY <3>1 DEF ToSet
  <2> QED
    BY <2>1, <2>2, <2>3
<1>4. ASSUME NEW i \in DOMAIN s PROVE s[i] \in ToSet(t)
  <2>1. CASE i < n
    BY <1>2, <2>1 DEF ToSet
  <2>2. CASE i >= n
    <3>1. i + 1 \in DOMAIN t /\ t[i + 1] = s[i]
      BY <1>2, <2>2
    <3> QED
      BY <3>1 DEF ToSet
  <2> QED
    BY <2>1, <2>2
<1>5. x \in ToSet(t)
  <2>1. n \in DOMAIN t /\ t[n] = x
    BY <1>2
  <2> QED
    BY <2>1 DEF ToSet
<1>6. ToSet(s) \subseteq ToSet(t)
  BY <1>4 DEF ToSet
<1> QED
  BY <1>1, <1>2, <1>3, <1>5, <1>6 DEF t

LEMMA SortType ==
    ASSUME NEW S, NEW seq \in Seq(S)
    PROVE  /\ SortSlice(seq) \in Seq(S) /\ Len(SortSlice(seq)) = Len(seq)
           /\ ToSet(SortSlice(seq)) = ToSet(seq)
<1> DEFINE T == {s \in Seq(S) : /\ SortSlice(s) \in Seq(S) /\ Len(SortSlice(s)) = Len(s)
                                /\ ToSet(SortSlice(s)) = ToSet(s)}
<1>1. <<>> \in T
  BY SortEmpty, EmptySeq
<1>2. ASSUME NEW s \in T, NEW x \in S PROVE Append(s, x) \in T
  <2>1. SortSlice(Append(s, x)) = Insert(SortSlice(s), x)
    BY SortAppend
  <2>2. ToSet(Append(s, x)) = ToSet(s) \cup {x}
    BY ToSetAppend
  <2>3. Append(s, x) \in Seq(S) /\ Len(Append(s, x)) = Len(s) + 1
    OBVIOUS
  <2>4. /\ Insert(SortSlice(s), x) \in Seq(S) /\ Len(Insert(SortSlice(s), x)) = Len(SortSlice(s)) + 1
        /\ ToSet(Insert(SortSlice(s), x)) = ToSet(SortSlice(s)) \cup {x}
    <3> DEFINE t == SortSlice(s)
    <3>1. t \in Seq(S)
      OBVIOUS
    <3> HIDE DEF t
    <3>2. /\ Insert(t, x) \in Seq(S) /\ Len(Insert(t, x)) = Len(t) + 1
          /\ ToSet(Insert(t, x)) = ToSet(t) \cup {x}
      BY <3>1, InsertType
    <3> QED
      BY <3>2 DEF t
  <2> QED
    BY <2>1, <2>2, <2>3, <2>4
<1> HIDE DEF T
<1>3. T = Seq(S)
  <2>1. T \subseteq Seq(S)
    BY DEF T
  <2> QED
    BY <1>1, <1>2, <2>1, SeqSetInduction
<1> QED
  BY <1>3 DEF T

-----------------------------------------------------------------------------
(* Codes that name more come first, and those that name the same keep      *)
(* their order, however often the list is sorted.                          *)

LEMMA LessOpen ==
    ASSUME NEW a, NEW b
    PROVE  /\ Open(a) \in Nat /\ Open(b) \in Nat
           /\ Less(a, b) => Open(a) <= Open(b)
           /\ ~ Less(a, b) => Open(b) <= Open(a)
           /\ SameNames(a, b) => ~ Less(a, b)
<1> DEFINE aService == IF a.service = "" THEN 1 ELSE 0
           aMethod == IF a.method = "" THEN 1 ELSE 0
           bService == IF b.service = "" THEN 1 ELSE 0
           bMethod == IF b.method = "" THEN 1 ELSE 0
<1>1. aService \in {0, 1} /\ aMethod \in {0, 1} /\ bService \in {0, 1} /\ bMethod \in {0, 1}
  BY Zenon
<1>2. Open(a) = aService + aMethod /\ Open(b) = bService + bMethod
  BY Zenon DEF Open
<1>3. ASSUME a.service # "", b.service = "" PROVE aService = 0 /\ bService = 1
  BY <1>3, Zenon
<1>4. ASSUME a.method # "", b.method = "" PROVE aMethod = 0 /\ bMethod = 1
  BY <1>4, Zenon
<1>5. ASSUME ~ Less(a, b) PROVE (aService = 1 \/ bService = 0) /\ (aMethod = 1 \/ bMethod = 0)
  BY <1>5, Zenon DEF Less
<1>6. ASSUME SameNames(a, b) PROVE ~ Less(a, b)
  BY <1>6, Zenon DEF SameNames, Less
<1> HIDE DEF aService, aMethod, bService, bMethod
<1>7. Open(a) \in Nat /\ Open(b) \in Nat
  BY <1>1, <1>2
<1>8. ASSUME aService = 0, bService = 1 PROVE Open(a) <= Open(b)
  BY <1>1, <1>2, <1>8
<1>9. ASSUME aMethod = 0, bMethod = 1 PROVE Open(a) <= Open(b)
  BY <1>1, <1>2, <1>9
<1>10. ASSUME aService = 1 \/ bService = 0, aMethod = 1 \/ bMethod = 0 PROVE Open(b) <= Open(a)
  BY <1>1, <1>2, <1>10
<1>11. Less(a, b) => Open(a) <= Open(b)
  BY <1>3, <1>4, <1>8, <1>9, Zenon DEF Less
<1> QED
  BY <1>5, <1>6, <1>7, <1>10, <1>11, Zenon

MoreFirst(list) == \A i, j \in DOMAIN list : i < j => Open(list[i]) <= Open(list[j])

LEMMA InsertMoreFirst ==
    ASSUME NEW S, NEW s \in Seq(S), NEW x \in S, MoreFirst(s)
    PROVE  MoreFirst(Insert(s, x))
<1>1. PICK n \in 1 .. Len(s) + 1 :
         /\ Insert(s, x) = InsertAt(s, n, x)
         /\ n # 1 => ~ Less(x, s[n - 1])
         /\ \A i \in n .. Len(s) : Less(x, s[i])
  BY InsertPlace
<1> DEFINE t == InsertAt(s, n, x)
<1>2. /\ t \in Seq(S) /\ Len(t) = Len(s) + 1
      /\ \A i \in 1 .. Len(s) + 1 : t[i] = IF i < n THEN s[i] ELSE IF i = n THEN x ELSE s[i - 1]
  <2>1. Inserted(S, t, s, n, x)
    BY InsertAtInserted
  <2> HIDE DEF t
  <2> QED
    BY <2>1 DEF Inserted
<1> HIDE DEF t
<1>3. ASSUME NEW i \in DOMAIN s
      PROVE  (i < n => Open(s[i]) <= Open(x)) /\ (i >= n => Open(x) <= Open(s[i]))
  <2>1. CASE i >= n
    BY <1>1, <2>1, LessOpen
  <2>2. CASE i = n - 1
    BY <1>1, <2>2, LessOpen
  <2>3. CASE i < n - 1
    <3>1. n - 1 \in DOMAIN s /\ ~ Less(x, s[n - 1]) /\ n # 1
      BY <1>1, <2>3
    <3>2. Open(s[i]) <= Open(s[n - 1])
      BY <2>3, <3>1 DEF MoreFirst
    <3>3. Open(s[n - 1]) <= Open(x)
      BY <3>1, LessOpen
    <3>4. Open(s[i]) \in Nat /\ Open(s[n - 1]) \in Nat /\ Open(x) \in Nat
      BY LessOpen
    <3> QED
      BY <2>3, <3>2, <3>3, <3>4
  <2> QED
    BY <2>1, <2>2, <2>3
<1>4. ASSUME NEW i \in 1 .. Len(s) + 1, NEW j \in 1 .. Len(s) + 1, i < j PROVE Open(t[i]) <= Open(t[j])
  <2>1. CASE i = n
    <3>1. j - 1 \in DOMAIN s /\ j - 1 >= n /\ t[j] = s[j - 1] /\ t[i] = x
      BY <1>2, <1>4, <2>1
    <3> QED
      BY <1>3, <3>1
  <2>2. CASE j = n
    <3>1. i \in DOMAIN s /\ i < n /\ t[i] = s[i] /\ t[j] = x
      BY <1>2, <1>4, <2>2
    <3> QED
      BY <1>3, <3>1
  <2>3. CASE i # n /\ j # n
    <3> DEFINE k == IF i < n THEN i ELSE i - 1
               l == IF j < n THEN j ELSE j - 1
    <3>1. k \in DOMAIN s /\ l \in DOMAIN s /\ k < l /\ t[i] = s[k] /\ t[j] = s[l]
      BY <1>2, <1>4, <2>3
    <3> HIDE DEF k, l
    <3> QED
      BY <3>1 DEF MoreFirst
  <2> QED
    BY <2>1, <2>2, <2>3
<1> QED
  BY <1>1, <1>2, <1>4 DEF MoreFirst, t

\* An element goes behind those that name the same.
LEMMA InsertPrecedes ==
    ASSUME NEW S, NEW s \in Seq(S), NEW x \in S, NEW a, NEW b, SameNames(a, b), Precedes(s, a, b)
    PROVE  Precedes(Insert(s, x), a, b)
<1>1. PICK n \in 1 .. Len(s) + 1 :
         /\ Insert(s, x) = InsertAt(s, n, x)
         /\ \A i \in n .. Len(s) : Less(x, s[i])
  BY InsertPlace
<1> DEFINE t == InsertAt(s, n, x)
<1>2. /\ t \in Seq(S) /\ Len(t) = Len(s) + 1
      /\ \A i \in 1 .. Len(s) + 1 : t[i] = IF i < n THEN s[i] ELSE IF i = n THEN x ELSE s[i - 1]
  <2>1. Inserted(S, t, s, n, x)
    BY InsertAtInserted
  <2> HIDE DEF t
  <2> QED
    BY <2>1 DEF Inserted
<1> HIDE DEF t
<1>3. PICK k \in DOMAIN s : s[k] = a /\ \A j \in 1 .. k : s[j] # b
  BY DEF Precedes
<1>4. k \in 1 .. Len(s)
  OBVIOUS
<1>5. CASE n > k
  <2>1. t[k] = a /\ \A j \in 1 .. k : t[j] # b
    BY <1>2, <1>3, <1>4, <1>5
  <2> QED
    BY <1>1, <1>2, <1>4, <2>1 DEF Precedes, t
<1>6. CASE n <= k
  <2>1. x # b
    <3>1. Less(x, a)
      BY <1>1, <1>3, <1>4, <1>6
    <3> QED
      BY <3>1, LessOpen DEF SameNames, Less
  <2>2. t[k + 1] = a
    BY <1>2, <1>3, <1>4, <1>6
  <2>3. ASSUME NEW j \in 1 .. k + 1 PROVE t[j] # b
    <3>1. CASE j < n
      BY <1>2, <1>3, <1>4, <1>6, <3>1
    <3>2. CASE j = n
      BY <1>2, <1>4, <2>1, <3>2
    <3>3. CASE j > n
      <4>1. j - 1 \in 1 .. k /\ t[j] = s[j - 1]
        BY <1>2, <1>4, <3>3
      <4> QED
        BY <1>3, <4>1
    <3> QED
      BY <3>1, <3>2, <3>3
  <2>4. k + 1 \in DOMAIN t
    BY <1>2, <1>4
  <2> QED
    BY <1>1, <2>2, <2>3, <2>4 DEF Precedes, t
<1> QED
  BY <1>4, <1>5, <1>6

\* What is in a list without another comes before it.
LEMMA PrecedesAbsent ==
    ASSUME NEW S, NEW s \in Seq(S), NEW a \in ToSet(s), NEW b, b \notin ToSet(s)
    PROVE  Precedes(s, a, b)
<1>1. PICK i \in DOMAIN s : s[i] = a
  BY DEF ToSet
<1>2. \A j \in 1 .. i : j \in DOMAIN s /\ s[j] # b
  BY <1>1 DEF ToSet
<1> QED
  BY <1>1, <1>2 DEF Precedes

\* Sorting keeps the order of those that name the same.
KeepsOrder(list, seq) == \A a, b \in ToSet(seq) : SameNames(a, b) /\ Precedes(seq, a, b) => Precedes(list, a, b)

LEMMA SortKeepsOrder ==
    ASSUME NEW S, NEW seq \in Seq(S)
    PROVE  KeepsOrder(SortSlice(seq), seq)
<1> DEFINE T == {s \in Seq(S) : KeepsOrder(SortSlice(s), s)}
<1>1. <<>> \in T
  BY ToSetEmpty, EmptySeq DEF KeepsOrder
<1>2. ASSUME NEW s \in T, NEW x \in S PROVE Append(s, x) \in T
  <2> DEFINE t == SortSlice(s)
             u == Append(s, x)
  <2>1. t \in Seq(S) /\ ToSet(t) = ToSet(s) /\ SortSlice(u) = Insert(t, x)
    BY SortType, SortAppend
  <2>2. u \in Seq(S) /\ Len(u) = Len(s) + 1 /\ u[Len(s) + 1] = x /\ \A i \in 1 .. Len(s) : u[i] = s[i]
    OBVIOUS
  <2>3. KeepsOrder(t, s)
    OBVIOUS
  <2> HIDE DEF t, u
  <2>4. ASSUME NEW a, NEW b, SameNames(a, b), Precedes(u, a, b) PROVE Precedes(Insert(t, x), a, b)
    <3>1. PICK i \in DOMAIN u : u[i] = a /\ \A j \in 1 .. i : u[j] # b
      BY <2>4 DEF Precedes
    <3>2. a # b /\ i \in 1 .. Len(s) + 1
      BY <2>2, <3>1
    <3>3. CASE i # Len(s) + 1
      <4>1. i \in DOMAIN s /\ s[i] = a /\ \A j \in 1 .. i : s[j] # b
        BY <2>2, <3>1, <3>2, <3>3
      <4>2. Precedes(s, a, b) /\ a \in ToSet(s)
        BY <4>1 DEF Precedes, ToSet
      <4>3. Precedes(t, a, b)
        <5>1. CASE b \in ToSet(s)
          BY <2>3, <2>4, <4>2, <5>1 DEF KeepsOrder
        <5>2. CASE b \notin ToSet(s)
          BY <2>1, <4>2, <5>2, PrecedesAbsent
        <5> QED
          BY <5>1, <5>2
      <4> QED
        BY <2>1, <2>4, <4>3, InsertPrecedes
    <3>4. CASE i = Len(s) + 1
      <4>1. a = x /\ \A j \in DOMAIN s : s[j] # b
        BY <2>2, <3>1, <3>4
      <4>2. b \notin ToSet(t)
        BY <2>1, <4>1 DEF ToSet
      <4>3. Insert(t, x) \in Seq(S) /\ ToSet(Insert(t, x)) = ToSet(t) \cup {x}
        <5>1. t \in Seq(S) /\ x \in S
          BY <2>1
        <5> HIDE DEF T
        <5> QED
          BY <5>1, InsertType
      <4>4. b \notin ToSet(Insert(t, x)) /\ a \in ToSet(Insert(t, x))
        BY <3>2, <4>1, <4>2, <4>3
      <4> QED
        BY <4>3, <4>4, PrecedesAbsent
    <3> QED
      BY <3>3, <3>4
  <2>5. KeepsOrder(SortSlice(u), u)
    BY <2>1, <2>4 DEF KeepsOrder
  <2> QED
    BY <2>2, <2>5 DEF u
<1> HIDE DEF T
<1>3. T = Seq(S)
  <2>1. T \subseteq Seq(S)
    BY DEF T
  <2> QED
    BY <1>1, <1>2, <2>1, SeqSetInduction
<1> QED
  BY <1>3 DEF T

LEMMA SortMoreFirst ==
    ASSUME NEW S, NEW seq \in Seq(S)
    PROVE  MoreFirst(SortSlice(seq))
<1> DEFINE T == {s \in Seq(S) : MoreFirst(SortSlice(s))}
<1>1. <<>> \in T
  BY SortEmpty, EmptySeq DEF MoreFirst
<1>2. ASSUME NEW s \in T, NEW x \in S PROVE Append(s, x) \in T
  <2>1. SortSlice(s) \in Seq(S) /\ MoreFirst(SortSlice(s))
    BY SortType
  <2>2. MoreFirst(Insert(SortSlice(s), x))
    <3> DEFINE t == SortSlice(s)
    <3> HIDE DEF t
    <3>1. t \in Seq(S) /\ MoreFirst(t)
      BY <2>1 DEF t
    <3>2. MoreFirst(Insert(t, x))
      BY <3>1, InsertMoreFirst
    <3> QED
      BY <3>2 DEF t
  <2> QED
    BY <2>2, SortAppend
<1> HIDE DEF T
<1>3. T = Seq(S)
  <2>1. T \subseteq Seq(S)
    BY DEF T
  <2> QED
    BY <1>1, <1>2, <2>1, SeqSetInduction
<1> QED
  BY <1>3 DEF T

\* However often a list is sorted, it has the configured codes in a due order.
LEMMA SortPrioritised ==
    ASSUME NEW S, NEW list \in Seq(S), NEW named \in Seq(S), list = named \/ Prioritised(list, named)
    PROVE  SortSlice(list) \in Seq(S) /\ Prioritised(SortSlice(list), named)
<1> DEFINE t == SortSlice(list)
<1>1. t \in Seq(S) /\ Len(t) = Len(list) /\ ToSet(t) = ToSet(list)
  BY SortType
<1>2. MoreFirst(t) /\ KeepsOrder(t, list)
  BY SortMoreFirst, SortKeepsOrder
<1> HIDE DEF t
<1>3. Len(list) = Len(named) /\ ToSet(list) = ToSet(named)
  BY DEF Prioritised
<1>4. KeepsOrder(list, named)
  BY DEF Prioritised, KeepsOrder
<1>5. KeepsOrder(t, named)
  BY <1>2, <1>3, <1>4 DEF KeepsOrder
<1>6. Prioritised(t, named)
  BY <1>1, <1>2, <1>3, <1>5 DEF Prioritised, MoreFirst, KeepsOrder
<1> QED
  BY <1>1, <1>6 DEF t

-----------------------------------------------------------------------------
(* The remote configuration.                                               *)

\* What the service's codes are, none before its first answer is applied.
Remote(v) == IF v = 0 THEN <<>> ELSE ApplyConfig(<<>>, Operations[v].codes)

\* A registered function that is not about to be called.
Applied(fn) == fn \in ToSet(applyFuncs) /\ fn \notin ToSet(todo)

\* Code, with the type NewCode gives by default.
SomeCode == [code : STRING, type : STRING \cup {"success"}, service : STRING, method : STRING]
Function == {"owners", "codes"}

\* Each function that is registered and not about to be called was applied last to the
\* last answer.
ConfigInv ==
    /\ served \in DOMAIN Operations /\ fetched \in {0} \cup DOMAIN Operations
    /\ lastConfig \in {0} \cup DOMAIN Operations
    /\ applyFuncs \in Seq(Function) /\ todo \in Seq(Function) /\ ToSet(todo) \subseteq ToSet(applyFuncs)
    /\ todo # <<>> => lastConfig # 0 /\ mu # "free"
    /\ "owners" \in ToSet(applyFuncs) => metricSetup = "done"
    /\ "codes" \in ToSet(applyFuncs) => setup # "codes"
    /\ codes \in Seq(SomeCode) /\ configured \in Seq(SomeCode)
    /\ setup = "codes" => codes = configured
    /\ setup # "codes" => Prioritised(codes, configured)
    /\ Applied("owners") /\ lastConfig # 0 => Operations[lastConfig].owners \in {"none", owner}
    /\ Applied("codes") => codeMapping = codes \o Remote(lastConfig)

\* The codes of an answer, as Code.
LEMMA RemoteCodes ==
    ASSUME NEW v \in DOMAIN Operations
    PROVE  /\ Remote(v) \in Seq(SomeCode)
           /\ \A s \in Seq(SomeCode) : ApplyConfig(s, Operations[v].codes) = s \o Remote(v)
<1> DEFINE list == Operations[v].codes
           added == [i \in DOMAIN list |-> NewCode(list[i].code, list[i].type, list[i].service, list[i].method)]
<1>1. list \in Seq(Code)
  <2> DEFINE R == [codes : Seq(Code), owners : STRING]
  <2>1. Operations \in Seq(R)
    BY OperationsAssumption DEF OperationsAssumption
  <2>2. Operations[v] \in R
    <3> HIDE DEF R
    <3> QED
      BY <2>1
  <2> QED
    BY <2>2
<1>2. ASSUME NEW i \in DOMAIN list
      PROVE  NewCode(list[i].code, list[i].type, list[i].service, list[i].method) \in SomeCode
  <2> DEFINE c == list[i]
  <2>1. c \in Code
    BY <1>1
  <2> HIDE DEF c
  <2>2. c.code \in STRING /\ c.type \in STRING /\ c.service \in STRING /\ c.method \in STRING
    BY <2>1 DEF Code
  <2> DEFINE type == IF c.type \in {"success", "exception", "timeout"} THEN c.type ELSE "success"
  <2>3. NewCode(c.code, c.type, c.service, c.method) \in SomeCode
    <3>1. type \in STRING \cup {"success"}
      BY <2>2
    <3>2. NewCode(c.code, c.type, c.service, c.method)
             = [code |-> c.code, type |-> type, service |-> c.service, method |-> c.method]
      BY DEF NewCode
    <3> HIDE DEF type
    <3> QED
      BY <2>2, <3>1, <3>2 DEF SomeCode
  <2> QED
    BY <2>3 DEF c
<1>3. /\ Remote(v) = <<>> \o added
      /\ \A s : ApplyConfig(s, Operations[v].codes) = s \o added
  <2>1. v # 0
    BY OperationsAssumption DEF OperationsAssumption
  <2> QED
    BY <2>1 DEF Remote, ApplyConfig
<1>4. added \in Seq(SomeCode)
  <2> HIDE DEF list
  <2> QED
    BY <1>1, <1>2
<1> HIDE DEF added
<1>5. <<>> \o added = added
  BY <1>4, ConcatEmptySeq
<1> QED
  BY <1>3, <1>4, <1>5

LEMMA ConfigInit == Init => ConfigInv
<1> SUFFICES ASSUME Init PROVE ConfigInv
  OBVIOUS
<1>1. PICK local \in IF part = "config" THEN CodeLists ELSE {scenario.codes},
           metrics \in IF part = "config" THEN BOOLEAN ELSE {FALSE} : NewRemoteConfigurator(local, metrics)
  BY DEF Init
<1>2. local \in Seq(SomeCode)
  <2>1. Code \subseteq SomeCode
    BY DEF Code, SomeCode
  <2>2. local \in Seq(Code)
    BY CallScenarioAssumption DEF Init, CallScenarioAssumption
  <2> QED
    BY <2>1, <2>2
<1>3. 1 \in DOMAIN Operations
  BY OperationsAssumption DEF OperationsAssumption
<1>4. applyFuncs = <<>> /\ todo = <<>> /\ ToSet(applyFuncs) = {} /\ ToSet(todo) = {}
  BY <1>1, ToSetEmpty DEF NewRemoteConfigurator
<1> QED
  BY <1>1, <1>2, <1>3, <1>4 DEF NewRemoteConfigurator, ConfigInv, Applied

\* Registering a function: it is about to be called, or there is no answer to call it with.
LEMMA Registers ==
    ASSUME ConfigInv, NEW fn \in Function, RegisterConfigApplyFunc(fn), UNCHANGED lastConfig
    PROVE  /\ mu = "free" /\ todo = <<>> /\ ToSet(todo) = {} /\ mu' \in {mu, fn}
           /\ applyFuncs' \in Seq(Function) /\ ToSet(applyFuncs') = ToSet(applyFuncs) \cup {fn}
           /\ todo' \in Seq(Function) /\ ToSet(todo') \subseteq {fn}
           /\ todo' # <<>> => lastConfig' # 0 /\ mu' = fn
           /\ lastConfig' # 0 => fn \in ToSet(todo')
<1>1. mu = "free" /\ todo = <<>> /\ applyFuncs \in Seq(Function)
  BY DEF RegisterConfigApplyFunc, ConfigInv
<1>2. applyFuncs' = Append(applyFuncs, fn) /\ ToSet(applyFuncs') = ToSet(applyFuncs) \cup {fn}
  BY <1>1, ToSetAppend DEF RegisterConfigApplyFunc
<1>3. <<fn>> \in Seq(Function) /\ <<fn>> # <<>> /\ ToSet(<<fn>>) = {fn}
  BY DEF ToSet
<1>4. lastConfig # 0 \/ lastConfig = 0
  OBVIOUS
<1>5. CASE lastConfig # 0
  <2>1. mu' = fn /\ todo' = <<fn>>
    BY <1>5 DEF RegisterConfigApplyFunc
  <2> QED
    BY <1>1, <1>2, <1>3, <1>5, <2>1, ToSetEmpty
<1>6. CASE lastConfig = 0
  <2>1. mu' = mu /\ todo' = todo
    BY <1>6 DEF RegisterConfigApplyFunc
  <2> QED
    BY <1>1, <1>2, <1>3, <1>6, <2>1, ToSetEmpty
<1> QED
  BY <1>5, <1>6

LEMMA SetupSteps ==
    ASSUME ConfigInv, SetServerOwner \/ RegisterOwners \/ SetupCodes \/ SetMapper
    PROVE  ConfigInv'
<1>0. Remote(lastConfig)' = Remote(lastConfig)
  BY DEF Remote, SetServerOwner, RegisterOwners, SetupCodes, SetMapper
<1>1. CASE SetServerOwner
  <2>1. "owners" \notin ToSet(applyFuncs)
    BY <1>1 DEF ConfigInv, SetServerOwner
  <2>2. ~ Applied("owners")' /\ Applied("codes")' = Applied("codes")
    BY <1>1, <2>1 DEF Applied, SetServerOwner
  <2> QED
    BY <1>0, <1>1, <2>1, <2>2 DEF ConfigInv, SetServerOwner
<1>2. CASE RegisterOwners
  <2>1. /\ metricSetup' = "done" /\ RegisterConfigApplyFunc("owners") /\ "owners" \in Function
        /\ UNCHANGED <<served, fetched, lastConfig, codes, codeMapping, owner, setup, configured>>
    BY <1>2 DEF RegisterOwners, Function
  <2>2. /\ todo = <<>> /\ ToSet(todo) = {}
        /\ applyFuncs' \in Seq(Function) /\ ToSet(applyFuncs') = ToSet(applyFuncs) \cup {"owners"}
        /\ todo' \in Seq(Function) /\ ToSet(todo') \subseteq {"owners"}
        /\ todo' # <<>> => lastConfig' # 0 /\ mu' = "owners"
        /\ lastConfig' # 0 => "owners" \in ToSet(todo')
    BY <2>1, Registers
  <2>3. (lastConfig' # 0 => ~ Applied("owners")') /\ (Applied("codes")' => Applied("codes"))
    BY <2>2 DEF Applied
  <2> QED
    BY <1>0, <2>1, <2>2, <2>3 DEF ConfigInv
<1>3. CASE SetupCodes
  <2>1. /\ setup = "codes" /\ setup' = "mapper" /\ RegisterConfigApplyFunc("codes") /\ "codes" \in Function
        /\ codes' = SortSlice(codes) /\ codeMapping' = codes'
        /\ UNCHANGED <<served, fetched, lastConfig, owner, metricSetup, configured>>
    BY <1>3 DEF SetupCodes, Function
  <2>2. /\ todo = <<>> /\ ToSet(todo) = {}
        /\ applyFuncs' \in Seq(Function) /\ ToSet(applyFuncs') = ToSet(applyFuncs) \cup {"codes"}
        /\ todo' \in Seq(Function) /\ ToSet(todo') \subseteq {"codes"}
        /\ todo' # <<>> => lastConfig' # 0 /\ mu' = "codes"
        /\ lastConfig' # 0 => "codes" \in ToSet(todo')
    BY <2>1, Registers
  <2>3. codes' \in Seq(SomeCode) /\ Prioritised(codes', configured)
    BY <2>1, SortPrioritised DEF ConfigInv
  <2>4. Applied("owners")' => Applied("owners")
    BY <2>2 DEF Applied
  <2>5. Applied("codes")' => codeMapping' = codes' \o Remote(lastConfig)'
    <3>1. CASE lastConfig = 0
      <4>1. codes' \o <<>> = codes'
        BY <2>3, ConcatEmptySeq
      <4> QED
        BY <1>0, <2>1, <3>1, <4>1 DEF Remote
    <3>2. CASE lastConfig # 0
      BY <2>1, <2>2, <3>2 DEF Applied
    <3> QED
      BY <3>1, <3>2
  <2> QED
    BY <2>1, <2>2, <2>3, <2>4, <2>5 DEF ConfigInv
<1>4. CASE SetMapper
  BY <1>0, <1>4 DEF ConfigInv, Applied, SetMapper
<1> QED
  BY <1>1, <1>2, <1>3, <1>4

\* Calling a function: it is applied unless it is to be called again, and so is what was.
LEMMA CallsOne ==
    ASSUME ConfigInv, NEW fn \in Function, todo # <<>>, Head(todo) = fn, Called, UNCHANGED <<applyFuncs, mu, lastConfig>>
    PROVE  /\ todo' \in Seq(Function) /\ ToSet(todo') \subseteq ToSet(applyFuncs')
           /\ todo' # <<>> => lastConfig' # 0 /\ mu' # "free"
           /\ fn \in ToSet(applyFuncs) /\ ~ Applied(fn) /\ lastConfig \in DOMAIN Operations
           /\ \A other : other # fn /\ Applied(other)' => Applied(other)
<1>1. todo \in Seq(Function) /\ ToSet(todo) \subseteq ToSet(applyFuncs) /\ lastConfig # 0 /\ mu # "free"
  BY DEF ConfigInv
<1>2. ToSet(todo) = {fn} \cup ToSet(Tail(todo)) /\ Tail(todo) \in Seq(Function)
  BY <1>1, ToSetTail
<1>3. todo' = Tail(todo)
  BY DEF Called
<1> QED
  BY <1>1, <1>2, <1>3 DEF Applied, ConfigInv

LEMMA ApplySteps == ASSUME ConfigInv, ApplyCodes \/ ResetOwner \/ ApplyOwners PROVE ConfigInv'
<1>0. Remote(lastConfig)' = Remote(lastConfig)
  BY DEF Remote, ApplyCodes, ResetOwner, ApplyOwners
<1>1. CASE ApplyCodes
  <2>1. /\ todo # <<>> /\ Head(todo) = "codes" /\ Called /\ codes' = SortSlice(codes) /\ "codes" \in Function
        /\ codeMapping' = ApplyConfig(codes', Operations[lastConfig].codes)
        /\ UNCHANGED <<served, fetched, lastConfig, applyFuncs, mu, owner, setup, metricSetup, configured>>
    BY <1>1 DEF ApplyCodes, Function
  <2>2. /\ todo' \in Seq(Function) /\ ToSet(todo') \subseteq ToSet(applyFuncs')
        /\ todo' # <<>> => lastConfig' # 0 /\ mu' # "free"
        /\ "codes" \in ToSet(applyFuncs) /\ lastConfig \in DOMAIN Operations
        /\ Applied("owners")' => Applied("owners")
    BY <2>1, CallsOne
  <2>3. setup # "codes"
    BY <2>2 DEF ConfigInv
  <2>4. codes' \in Seq(SomeCode) /\ Prioritised(codes', configured)
    BY <2>1, <2>3, SortPrioritised DEF ConfigInv
  <2>5. codeMapping' = codes' \o Remote(lastConfig)'
    BY <1>0, <2>1, <2>2, <2>4, RemoteCodes
  <2> QED
    BY <2>1, <2>2, <2>3, <2>4, <2>5 DEF ConfigInv
<1>2. CASE ResetOwner
  <2>1. /\ todo # <<>> /\ Head(todo) = "owners"
        /\ UNCHANGED <<served, fetched, lastConfig, applyFuncs, mu, todo, codes, codeMapping, setup, metricSetup, configured>>
    BY <1>2 DEF ResetOwner
  <2>2. ~ Applied("owners")' /\ Applied("codes")' = Applied("codes")
    <3>1. "owners" \in ToSet(todo)
      BY <2>1, ToSetTail DEF ConfigInv
    <3> QED
      BY <2>1, <3>1 DEF Applied
  <2> QED
    BY <1>0, <2>1, <2>2 DEF ConfigInv
<1>3. CASE ApplyOwners
  <2>1. /\ todo # <<>> /\ Head(todo) = "owners" /\ Called /\ "owners" \in Function
        /\ owner' = IF Operations[lastConfig].owners = "none" THEN owner ELSE Operations[lastConfig].owners
        /\ UNCHANGED <<served, fetched, lastConfig, applyFuncs, mu, codes, codeMapping, setup, metricSetup, configured>>
    BY <1>3 DEF ApplyOwners, Function
  <2>2. /\ todo' \in Seq(Function) /\ ToSet(todo') \subseteq ToSet(applyFuncs')
        /\ todo' # <<>> => lastConfig' # 0 /\ mu' # "free"
        /\ Applied("codes")' => Applied("codes")
    BY <2>1, CallsOne
  <2>3. Operations[lastConfig].owners \in {"none", owner'}
    BY <2>1
  <2> QED
    BY <1>0, <2>1, <2>2, <2>3 DEF ConfigInv
<1> QED
  BY <1>1, <1>2, <1>3

LEMMA ConfigNext == ASSUME ConfigInv, [RemoteNext]_remoteVars PROVE ConfigInv'
<1>1. CASE UNCHANGED remoteVars
  BY <1>1 DEF ConfigInv, Applied, Remote, remoteVars
<1>2. CASE Publish
  BY <1>2 DEF ConfigInv, Applied, Remote, Publish
<1>3. CASE Fetch
  BY <1>3 DEF ConfigInv, Applied, Remote, Fetch
<1>4. CASE Unlock
  BY <1>4 DEF ConfigInv, Applied, Remote, Unlock
<1>5. CASE LockAndApply
  <2>1. ~ Applied("owners")' /\ ~ Applied("codes")'
    BY <1>5 DEF Applied, LockAndApply
  <2> QED
    BY <1>5, <2>1 DEF ConfigInv, LockAndApply
<1> QED
  BY <1>1, <1>2, <1>3, <1>4, <1>5, SetupSteps, ApplySteps DEF RemoteNext

LEMMA ConfigInvCurrent == ConfigInv => MappingCurrent
<1> SUFFICES ASSUME ConfigInv, mu = "free" PROVE MappingCurrent
  BY DEF MappingCurrent
<1>1. todo = <<>> /\ ToSet(todo) = {}
  BY ToSetEmpty DEF ConfigInv
<1>2. ASSUME lastConfig # 0, "owners" \in ToSet(applyFuncs)
      PROVE  Operations[lastConfig].owners \in {"none", owner}
  BY <1>1, <1>2 DEF ConfigInv, Applied
<1> DEFINE remote == IF lastConfig = 0 THEN <<>> ELSE ApplyConfig(<<>>, Operations[lastConfig].codes)
           local  == SubSeq(codeMapping, 1, Len(configured))
<1>3. ASSUME "codes" \in ToSet(applyFuncs)
      PROVE  codeMapping = local \o remote /\ Prioritised(local, configured)
  <2>1. remote = Remote(lastConfig) /\ remote \in Seq(SomeCode)
    <3>1. CASE lastConfig = 0
      BY <3>1 DEF Remote
    <3>2. CASE lastConfig # 0
      <4>1. lastConfig \in DOMAIN Operations
        BY <3>2 DEF ConfigInv
      <4> QED
        BY <3>2, <4>1, RemoteCodes DEF Remote
    <3> QED
      BY <3>1, <3>2
  <2> HIDE DEF remote
  <2>2. codeMapping = codes \o remote /\ codes \in Seq(SomeCode) /\ Prioritised(codes, configured)
    BY <1>1, <1>3, <2>1 DEF ConfigInv, Applied
  <2>3. Len(codes) = Len(configured)
    BY <2>2 DEF Prioritised
  <2>4. local = codes
    BY <2>1, <2>2, <2>3, SplitConcat
  <2> QED
    BY <2>2, <2>4
<1> QED
  BY <1>2, <1>3 DEF MappingCurrent

\* Whenever no function is being applied, what is registered has been applied to the last
\* answer of the service, whichever of the two was registered first and however the
\* goroutine that registers the owners, the plugin's Setup and the daemon interleave.
THEOREM MappingIsCurrent == Spec => []MappingCurrent
<1>1. ConfigInv /\ [Next]_requestVars => ConfigInv'
  BY ConfigNext DEF Next, CallStep, ConfigStep, StreamStep, LogStep, requestVars, remoteVars
<1> QED
  BY ConfigInit, <1>1, ConfigInvCurrent, PTL DEF Spec

-----------------------------------------------------------------------------
(* Contexts: who derives from whom.                                        *)

\* Every context but the one that is there derives from another.
TreeInv ==
    /\ Background \in DOMAIN parentOf /\ parentOf[Background] = Background
    /\ \A x \in DOMAIN parentOf : parentOf[x] \in DOMAIN parentOf

LEMMA AncestorsClosed ==
    ASSUME TreeInv, NEW x \in DOMAIN parentOf
    PROVE  /\ x \in Ancestors(x) /\ Ancestors(x) \subseteq DOMAIN parentOf
           /\ HasParents(Ancestors(x))
           /\ \A a \in Ancestors(x) : Ancestors(a) \subseteq Ancestors(x)
  BY DEF TreeInv, Ancestors, HasParents

\* From an ancestor down to a context there is a step.
LEMMA AncestorsStep ==
    ASSUME TreeInv, NEW y \in DOMAIN parentOf, NEW x \in Ancestors(y), x # y
    PROVE  \E z \in Ancestors(y) \ {Background} : parentOf[z] = x
<1>1. ASSUME \A z \in Ancestors(y) : parentOf[z] = x => z = x PROVE FALSE
  <2> DEFINE S == Ancestors(y) \ {x}
  <2>1. S \in SUBSET DOMAIN parentOf /\ y \in S
    BY AncestorsClosed
  <2>2. HasParents(S)
    BY <1>1, AncestorsClosed DEF HasParents
  <2>3. x \in S
    <3> HIDE DEF S
    <3> QED
      BY <2>1, <2>2 DEF Ancestors
  <2> QED
    BY <2>3
<1>2. PICK z \in Ancestors(y) : parentOf[z] = x /\ z # x
  BY <1>1
<1> QED
  BY <1>2 DEF TreeInv

\* A new context changes nothing of the others, and has what it derives from behind it.
LEMMA NewContext ==
    ASSUME TreeInv, NEW x \in DOMAIN parentOf, NEW c, c \notin DOMAIN parentOf,
           parentOf' = WithValue(parentOf, c, x)
    PROVE  /\ TreeInv' /\ DOMAIN parentOf' = DOMAIN parentOf \cup {c} /\ parentOf'[c] = x
           /\ \A y \in DOMAIN parentOf : parentOf'[y] = parentOf[y] /\ Ancestors(y)' = Ancestors(y)
           /\ Ancestors(x) \cup {c} \subseteq Ancestors(c)'
           /\ \A y \in DOMAIN parentOf : HasSibling(y) => HasSibling(y)'
           /\ HasSibling(x) => HasSibling(c)'
<1>1. /\ DOMAIN parentOf' = DOMAIN parentOf \cup {c} /\ parentOf'[c] = x
      /\ \A y \in DOMAIN parentOf : parentOf'[y] = parentOf[y]
  BY DEF WithValue
<1>2. TreeInv'
  BY <1>1 DEF TreeInv
<1>3. ASSUME NEW y \in DOMAIN parentOf PROVE Ancestors(y)' = Ancestors(y)
  <2>1. ASSUME NEW a \in Ancestors(y)' PROVE a \in Ancestors(y)
    <3>1. ASSUME NEW S \in SUBSET DOMAIN parentOf, y \in S, HasParents(S) PROVE a \in S
      <4>1. S \in SUBSET DOMAIN parentOf' /\ HasParents(S)'
        BY <1>1, <3>1 DEF HasParents
      <4> QED
        BY <3>1, <4>1 DEF Ancestors
    <3>2. HasParents(DOMAIN parentOf)
      BY DEF HasParents, TreeInv
    <3>3. a \in DOMAIN parentOf
      BY <3>1, <3>2
    <3> QED
      BY <3>1, <3>3 DEF Ancestors
  <2>2. ASSUME NEW a \in Ancestors(y) PROVE a \in Ancestors(y)'
    <3>1. a \in DOMAIN parentOf'
      BY <1>1 DEF Ancestors
    <3>2. ASSUME NEW S \in SUBSET DOMAIN parentOf', y \in S, HasParents(S)' PROVE a \in S
      <4> DEFINE R == S \cap DOMAIN parentOf
      <4>1. R \in SUBSET DOMAIN parentOf /\ y \in R /\ HasParents(R)
        BY <1>1, <3>2 DEF HasParents, TreeInv
      <4>2. a \in R
        <5> HIDE DEF R
        <5> QED
          BY <4>1 DEF Ancestors
      <4> QED
        BY <4>2
    <3> QED
      BY <3>1, <3>2 DEF Ancestors
  <2> QED
    BY <2>1, <2>2
<1>4. Ancestors(x) \cup {c} \subseteq Ancestors(c)'
  <2>1. /\ c \in Ancestors(c)' /\ HasParents(Ancestors(c))'
        /\ \A a \in Ancestors(c)' : Ancestors(a)' \subseteq Ancestors(c)'
    <3> DEFINE p == parentOf'
    <3>1. c \in DOMAIN parentOf'
      BY <1>1
    <3> QED
      BY <1>2, <3>1 DEF TreeInv, Ancestors, HasParents
  <2>2. x \in Ancestors(c)'
    BY <1>1, <2>1 DEF HasParents
  <2> QED
    BY <1>3, <2>1, <2>2
<1>5. ASSUME NEW y \in DOMAIN parentOf, HasSibling(y) PROVE HasSibling(y)'
  <2>1. PICK a \in Ancestors(y) \ {Background}, w \in DOMAIN parentOf \ {Background} :
           w # a /\ parentOf[w] = parentOf[a]
    BY <1>5 DEF HasSibling
  <2>2. a \in DOMAIN parentOf
    BY <2>1, AncestorsClosed
  <2> QED
    BY <1>1, <1>3, <2>1, <2>2 DEF HasSibling
<1>6. ASSUME HasSibling(x) PROVE HasSibling(c)'
  <2>1. PICK a \in Ancestors(x) \ {Background}, w \in DOMAIN parentOf \ {Background} :
           w # a /\ parentOf[w] = parentOf[a]
    BY <1>6 DEF HasSibling
  <2>2. a \in DOMAIN parentOf
    BY <2>1, AncestorsClosed
  <2> QED
    BY <1>1, <1>4, <2>1, <2>2 DEF HasSibling
<1> QED
  BY <1>1, <1>2, <1>3, <1>4, <1>5, <1>6

-----------------------------------------------------------------------------
(* The fields of the contexts.                                             *)

GivenField == {x \o ToString(i) : x \in Contexts, i \in Nat}
Field == STRING \cup {Unused, "span.kind", "trpc.code"} \cup GivenField
Made == DOMAIN parentOf

\* Each context's slice lies in an array, and is as long as what it was given.
SliceInv ==
    /\ TreeInv /\ DOMAIN fieldsOf = Made /\ DOMAIN given = Made
    /\ arrays \in Seq(Seq(Field))
    /\ \A x \in Made :
          /\ fieldsOf[x] \in [array : 0 .. Len(arrays), len : Nat]
          /\ given[x] \in Seq(Field) /\ Len(given[x]) = fieldsOf[x].len
          /\ fieldsOf[x].array = 0 => fieldsOf[x].len = 0
          /\ fieldsOf[x].array # 0 => fieldsOf[x].len <= Len(arrays[fieldsOf[x].array])

\* Contexts that share an array: one derives from the other and holds at least as much of
\* it, or on the way to each of them two were derived from one.
Behind(x, y) == x \in Ancestors(y) /\ fieldsOf[x].len <= fieldsOf[y].len
SharedInv ==
    \A x, y \in Made :
       x # y /\ fieldsOf[x].array = fieldsOf[y].array /\ fieldsOf[x].array # 0 =>
          Behind(x, y) \/ Behind(y, x) \/ (HasSibling(x) /\ HasSibling(y))

\* What a context holds is what it was given, unless another was derived beside it.
HeldInv == \A x \in Made : FromContext(x) = given[x] \/ HasSibling(x)

LEMMA FromContextType ==
    ASSUME SliceInv, NEW x \in Made
    PROVE  FromContext(x) \in Seq(Field) /\ Len(FromContext(x)) = Len(given[x])
<1> USE DEF SliceInv
<1>1. CASE fieldsOf[x].array = 0
  BY <1>1, EmptySeq DEF FromContext
<1>2. CASE fieldsOf[x].array # 0
  <2> DEFINE cells == arrays[fieldsOf[x].array]
             n == fieldsOf[x].len
  <2>1. cells \in Seq(Field) /\ n \in 0 .. Len(cells)
    BY <1>2
  <2>2. FromContext(x) = SubSeq(cells, 1, n)
    BY <1>2 DEF FromContext
  <2>3. n = Len(given[x])
    OBVIOUS
  <2> HIDE DEF cells, n
  <2> QED
    BY <2>1, <2>2, <2>3
<1> QED
  BY <1>1, <1>2

\* What deriving from x with the fields kvs gives: a slice that holds those of x and these,
\* in an array that holds what it held as far as x reaches.
Held(slice, cells) == IF slice.array = 0 THEN <<>> ELSE SubSeq(cells[slice.array], 1, slice.len)
Extends(x, kvs, slice, cells) ==
    /\ cells \in Seq(Seq(Field)) /\ Len(arrays) <= Len(cells)
    /\ slice \in [array : 0 .. Len(cells), len : Nat] /\ slice.len = fieldsOf[x].len + Len(kvs)
    /\ slice.array = 0 => slice.len = 0
    /\ slice.array # 0 => slice.len <= Len(cells[slice.array])
    /\ Held(slice, cells) = FromContext(x) \o kvs
    /\ slice.array \in {fieldsOf[x].array, Len(arrays) + 1}
    /\ \A i \in 1 .. Len(arrays) :
          /\ Len(cells[i]) = Len(arrays[i])
          /\ i # fieldsOf[x].array => cells[i] = arrays[i]
          /\ \A m \in 0 .. fieldsOf[x].len : SubSeq(cells[i], 1, m) = SubSeq(arrays[i], 1, m)

LEMMA SameExtends ==
    ASSUME SliceInv, NEW x \in Made
    PROVE  Extends(x, <<>>, fieldsOf[x], arrays)
<1>1. FromContext(x) \in Seq(Field)
  BY FromContextType
<1>2. FromContext(x) \o <<>> = FromContext(x)
  BY <1>1, ConcatEmptySeq
<1>3. Held(fieldsOf[x], arrays) = FromContext(x)
  BY DEF Held, FromContext
<1>4. fieldsOf[x].len \in Nat /\ Len(<<>>) = 0
  BY DEF SliceInv
<1> QED
  BY <1>2, <1>3, <1>4 DEF Extends, SliceInv

LEMMA AppendExtends ==
    ASSUME SliceInv, NEW x \in Made, NEW kvs \in Seq(Field)
    PROVE  Extends(x, kvs, AppendFields(fieldsOf[x], kvs).slice, AppendFields(fieldsOf[x], kvs).arrays)
<1> DEFINE slice == fieldsOf[x]
           old == IF slice.array = 0 THEN <<>> ELSE arrays[slice.array]
           needed == slice.len + Len(kvs)
           d == AppendFields(slice, kvs)
<1>1. /\ slice.array \in 0 .. Len(arrays) /\ slice.len \in Nat /\ Len(kvs) \in Nat /\ Len(arrays) \in Nat
      /\ arrays \in Seq(Seq(Field)) /\ (slice.array = 0 => slice.len = 0)
      /\ slice = [array |-> slice.array, len |-> slice.len]
  BY DEF SliceInv
<1>2. old \in Seq(Field) /\ slice.len \in 0 .. Len(old) /\ FromContext(x) = SubSeq(old, 1, slice.len)
  <2>1. CASE slice.array = 0
    BY <1>1, <2>1, EmptySeq DEF FromContext
  <2>2. CASE slice.array # 0
    BY <1>1, <2>2 DEF FromContext, SliceInv
  <2> QED
    BY <2>1, <2>2
<1>3. CASE needed <= Len(old)
  <2>1. CASE slice.array = 0
    <3>1. kvs = <<>> /\ needed = slice.len
      BY <1>1, <1>3, <2>1
    <3>2. d.slice = slice /\ d.arrays = arrays
      BY <1>1, <1>3, <2>1, <3>1 DEF AppendFields
    <3> QED
      BY <3>1, <3>2, SameExtends
  <2>2. CASE slice.array # 0
    <3> DEFINE rest == SubSeq(old, needed + 1, Len(old))
               u == SubSeq(old, 1, slice.len) \o kvs \o rest
    <3>1. rest \in Seq(Field) /\ Len(rest) = Len(old) - needed
      <4>1. needed \in 0 .. Len(old)
        BY <1>1, <1>3
      <4> HIDE DEF needed, old
      <4> QED
        BY <1>2, <4>1, RestOf
    <3>2. d = [slice |-> [slice EXCEPT !.len = needed], arrays |-> [arrays EXCEPT ![slice.array] = u]]
      BY <1>3, <2>2 DEF AppendFields
    <3>3. /\ u \in Seq(Field) /\ Len(u) = slice.len + Len(kvs) + Len(rest)
          /\ SubSeq(u, 1, slice.len + Len(kvs)) = SubSeq(old, 1, slice.len) \o kvs
          /\ \A m \in 0 .. slice.len : SubSeq(u, 1, m) = SubSeq(old, 1, m)
      <4> DEFINE k == slice.len
      <4>1. u = SubSeq(old, 1, k) \o kvs \o rest /\ k \in 0 .. Len(old)
        BY <1>2
      <4> HIDE DEF rest, old, k, u
      <4>2. /\ u \in Seq(Field) /\ Len(u) = k + Len(kvs) + Len(rest)
            /\ SubSeq(u, 1, k + Len(kvs)) = SubSeq(old, 1, k) \o kvs
            /\ \A m \in 0 .. k : SubSeq(u, 1, m) = SubSeq(old, 1, m)
        <5> DEFINE front == SubSeq(old, 1, k) \o kvs
        <5>1. old \in Seq(Field) /\ kvs \in Seq(Field) /\ rest \in Seq(Field)
          BY <1>2, <3>1
        <5>2. SubSeq(old, 1, k) \in Seq(Field) /\ Len(SubSeq(old, 1, k)) = k
          BY <4>1, <5>1
        <5>3. front \in Seq(Field) /\ Len(front) = k + Len(kvs)
          BY <5>1, <5>2
        <5>4. /\ u \in Seq(Field) /\ Len(u) = k + Len(kvs) + Len(rest)
              /\ \A m \in 0 .. k : SubSeq(u, 1, m) = SubSeq(old, 1, m)
          BY <4>1, <5>1, Overwrite
        <5>5. u = front \o rest
          BY <4>1
        <5> HIDE DEF front
        <5>6. SubSeq(u, 1, k + Len(kvs)) = front
          BY <5>1, <5>5, <5>3, SplitConcat
        <5> QED
          BY <5>4, <5>6 DEF front
      <4> QED
        BY <4>2 DEF k
    <3> HIDE DEF u
    <3>4. Len(u) = Len(old)
      <4>1. Len(old) \in Nat /\ slice.len \in Nat /\ Len(kvs) \in Nat
        BY <1>1, <1>2
      <4> HIDE DEF old, slice
      <4>2. Len(u) = slice.len + Len(kvs) + (Len(old) - (slice.len + Len(kvs)))
        BY <3>1, <3>3
      <4> QED
        BY <4>1, <4>2
    <3>5. /\ d.arrays \in Seq(Seq(Field)) /\ Len(d.arrays) = Len(arrays) /\ d.arrays[slice.array] = u
          /\ \A i \in 1 .. Len(arrays) : i # slice.array => d.arrays[i] = arrays[i]
      <4>1. slice.array \in 1 .. Len(arrays) /\ arrays \in Seq(Seq(Field))
        BY <1>1, <2>2
      <4> HIDE DEF d, slice, old, needed
      <4>2. d.arrays = [arrays EXCEPT ![slice.array] = u] /\ u \in Seq(Field)
        BY <3>2, <3>3
      <4> QED
        BY <4>1, <4>2, ExceptSeq
    <3>6. /\ d.slice.array = slice.array /\ d.slice.len = needed
          /\ d.slice \in [array : 0 .. Len(d.arrays), len : Nat]
      <4>1. d.slice = [array |-> slice.array, len |-> needed]
        BY <1>1, <3>2
      <4>2. needed \in Nat /\ slice.array \in 0 .. Len(d.arrays)
        BY <1>1, <3>5
      <4> HIDE DEF d, slice, needed
      <4> QED
        BY <4>1, <4>2
    <3>7. Held(d.slice, d.arrays) = FromContext(x) \o kvs
      BY <1>2, <2>2, <3>3, <3>5, <3>6 DEF Held
    <3>8. old = arrays[slice.array]
      BY <2>2
    <3> HIDE DEF d, slice, old
    <3>9. ASSUME NEW i \in 1 .. Len(arrays)
          PROVE  /\ Len(d.arrays[i]) = Len(arrays[i])
                 /\ i # slice.array => d.arrays[i] = arrays[i]
                 /\ \A m \in 0 .. slice.len : SubSeq(d.arrays[i], 1, m) = SubSeq(arrays[i], 1, m)
      BY <3>3, <3>4, <3>5, <3>8
    <3>10. needed <= Len(d.arrays[slice.array]) /\ Len(arrays) <= Len(d.arrays)
      BY <1>1, <1>3, <3>4, <3>5
    <3> QED
      BY <2>2, <3>5, <3>6, <3>7, <3>9, <3>10 DEF Extends, d, slice
  <2> QED
    BY <2>1, <2>2
<1>4. CASE ~ (needed <= Len(old))
  <2> DEFINE size == Grow(Len(old), needed)
             fill == [i \in 1 .. size - needed |-> Unused]
             u == SubSeq(old, 1, slice.len) \o kvs \o fill
  <2>1. size \in Nat /\ needed <= size /\ needed \in Nat
    <3>1. needed \in Nat
      BY <1>1
    <3>2. Len(old) \in Nat
      BY <1>2
    <3> HIDE DEF needed, old
    <3> QED
      BY <3>1, <3>2, <1>4 DEF Grow
  <2>2. fill \in Seq(Field) /\ Len(fill) = size - needed
    <3>1. Unused \in Field
      BY DEF Field
    <3> HIDE DEF size, needed
    <3> QED
      BY <2>1, <3>1
  <2>3. d = [slice |-> [array |-> Len(arrays) + 1, len |-> needed], arrays |-> Append(arrays, u)]
    BY <1>4 DEF AppendFields
  <2>4. /\ u \in Seq(Field) /\ Len(u) = slice.len + Len(kvs) + Len(fill)
        /\ SubSeq(u, 1, slice.len + Len(kvs)) = SubSeq(old, 1, slice.len) \o kvs
    <3> DEFINE k == slice.len
    <3>1. u = SubSeq(old, 1, k) \o kvs \o fill /\ k \in 0 .. Len(old)
      BY <1>2
    <3> HIDE DEF fill, old, k, u
    <3>2. /\ u \in Seq(Field) /\ Len(u) = k + Len(kvs) + Len(fill)
          /\ SubSeq(u, 1, k + Len(kvs)) = SubSeq(old, 1, k) \o kvs
      <4> DEFINE front == SubSeq(old, 1, k) \o kvs
      <4>1. old \in Seq(Field) /\ kvs \in Seq(Field) /\ fill \in Seq(Field)
        BY <1>2, <2>2
      <4>2. SubSeq(old, 1, k) \in Seq(Field) /\ Len(SubSeq(old, 1, k)) = k
        BY <3>1, <4>1
      <4>3. front \in Seq(Field) /\ Len(front) = k + Len(kvs)
        BY <4>1, <4>2
      <4>4. u \in Seq(Field) /\ Len(u) = k + Len(kvs) + Len(fill)
        BY <3>1, <4>1, Overwrite
      <4>5. u = front \o fill
        BY <3>1
      <4> HIDE DEF front
      <4>6. SubSeq(u, 1, k + Len(kvs)) = front
        BY <4>1, <4>5, <4>3, SplitConcat
      <4> QED
        BY <4>4, <4>6 DEF front
    <3> QED
      BY <3>2 DEF k
  <2> HIDE DEF u
  <2>5. Len(u) = size
    <3>1. slice.len \in Nat /\ Len(kvs) \in Nat
      BY <1>1
    <3> HIDE DEF slice, size, fill
    <3> QED
      BY <2>1, <2>2, <2>4, <3>1
  <2>6. /\ d.arrays \in Seq(Seq(Field)) /\ Len(d.arrays) = Len(arrays) + 1
        /\ d.arrays[Len(arrays) + 1] = u
        /\ \A i \in 1 .. Len(arrays) : d.arrays[i] = arrays[i]
    <3>1. d.arrays = Append(arrays, u)
      BY <2>3
    <3>2. u \in Seq(Field) /\ arrays \in Seq(Seq(Field))
      BY <1>1, <2>4
    <3> HIDE DEF d
    <3> QED
      BY <3>1, <3>2, AppendProperties
  <2>7. /\ d.slice.array = Len(arrays) + 1 /\ d.slice.len = needed
        /\ d.slice \in [array : 0 .. Len(d.arrays), len : Nat]
    BY <1>1, <2>1, <2>3, <2>6
  <2>8. Held(d.slice, d.arrays) = FromContext(x) \o kvs
    <3>1. d.slice.array # 0 /\ d.arrays[d.slice.array] = u /\ d.slice.len = slice.len + Len(kvs)
      BY <1>1, <2>6, <2>7
    <3> HIDE DEF d, slice, old
    <3>2. Held(d.slice, d.arrays) = SubSeq(u, 1, slice.len + Len(kvs))
      BY <3>1 DEF Held
    <3> QED
      BY <1>2, <2>4, <3>2
  <2>9. needed <= Len(d.arrays[d.slice.array]) /\ Len(arrays) <= Len(d.arrays) /\ d.slice.array # 0
    BY <1>1, <2>1, <2>5, <2>6, <2>7
  <2> HIDE DEF d, slice, old
  <2>10. d.slice.len = slice.len + Len(kvs)
    BY <2>7
  <2> QED
    BY <2>6, <2>7, <2>8, <2>9, <2>10 DEF Extends, d, slice
<1> QED
  BY <1>3, <1>4

\* A context is derived.
LEMMA WithKeeps ==
    ASSUME SliceInv, SharedInv, HeldInv, NEW x \in Made, NEW c, c \notin Made,
           NEW kvs \in Seq(Field), NEW slice, NEW cells, Extends(x, kvs, slice, cells), arrays' = cells,
           fieldsOf' = WithValue(fieldsOf, c, slice), given' = WithValue(given, c, given[x] \o kvs),
           parentOf' = WithValue(parentOf, c, x)
    PROVE  SliceInv' /\ SharedInv' /\ HeldInv'
<1> USE DEF Made
<1>1. TreeInv /\ x \in DOMAIN parentOf /\ c \notin DOMAIN parentOf
  BY DEF SliceInv
<1>2. /\ TreeInv' /\ DOMAIN parentOf' = DOMAIN parentOf \cup {c} /\ parentOf'[c] = x
      /\ \A y \in DOMAIN parentOf : parentOf'[y] = parentOf[y] /\ Ancestors(y)' = Ancestors(y)
      /\ Ancestors(x) \cup {c} \subseteq Ancestors(c)'
      /\ \A y \in DOMAIN parentOf : HasSibling(y) => HasSibling(y)'
      /\ HasSibling(x) => HasSibling(c)'
  BY <1>1, NewContext
<1>3. /\ DOMAIN fieldsOf' = Made \cup {c} /\ fieldsOf'[c] = slice
      /\ \A y \in Made : fieldsOf'[y] = fieldsOf[y]
  BY DEF WithValue, SliceInv
<1>4. /\ DOMAIN given' = Made \cup {c} /\ given'[c] = given[x] \o kvs
      /\ \A y \in Made : given'[y] = given[y]
  BY DEF WithValue, SliceInv
<1>5. /\ given[x] \in Seq(Field) /\ Len(given[x]) = fieldsOf[x].len
      /\ fieldsOf[x].array \in 0 .. Len(arrays) /\ fieldsOf[x].len \in Nat
  BY DEF SliceInv
<1>6. SliceInv'
  <2>1. Len(given[x] \o kvs) = slice.len /\ given[x] \o kvs \in Seq(Field)
    <3>1. slice.len = fieldsOf[x].len + Len(kvs)
      BY DEF Extends
    <3> QED
      BY <1>5, <3>1
  <2>2. /\ cells \in Seq(Seq(Field)) /\ Len(arrays) <= Len(cells) /\ Len(arrays) \in Nat /\ Len(cells) \in Nat
        /\ \A i \in 1 .. Len(arrays) : Len(cells[i]) = Len(arrays[i])
        /\ slice \in [array : 0 .. Len(cells), len : Nat] /\ (slice.array = 0 => slice.len = 0)
        /\ slice.array # 0 => slice.len <= Len(cells[slice.array])
    <3>1. arrays \in Seq(Seq(Field))
      BY DEF SliceInv
    <3> QED
      BY <3>1 DEF Extends
  <2>3. ASSUME NEW y \in Made
        PROVE  /\ fieldsOf[y] \in [array : 0 .. Len(cells), len : Nat]
               /\ fieldsOf[y].array = 0 => fieldsOf[y].len = 0
               /\ fieldsOf[y].array # 0 => fieldsOf[y].len <= Len(cells[fieldsOf[y].array])
               /\ given[y] \in Seq(Field) /\ Len(given[y]) = fieldsOf[y].len
    <3>1. /\ fieldsOf[y] \in [array : 0 .. Len(arrays), len : Nat]
          /\ fieldsOf[y].array = 0 => fieldsOf[y].len = 0
          /\ fieldsOf[y].array # 0 => fieldsOf[y].len <= Len(arrays[fieldsOf[y].array])
          /\ given[y] \in Seq(Field) /\ Len(given[y]) = fieldsOf[y].len
      BY DEF SliceInv
    <3>2. fieldsOf[y].array # 0 => Len(cells[fieldsOf[y].array]) = Len(arrays[fieldsOf[y].array])
      BY <2>2, <3>1
    <3> QED
      BY <2>2, <3>1, <3>2
  <2>4. ASSUME NEW y \in Made \cup {c}
        PROVE  /\ fieldsOf'[y] \in [array : 0 .. Len(cells), len : Nat]
               /\ given'[y] \in Seq(Field) /\ Len(given'[y]) = fieldsOf'[y].len
               /\ fieldsOf'[y].array = 0 => fieldsOf'[y].len = 0
               /\ fieldsOf'[y].array # 0 => fieldsOf'[y].len <= Len(cells[fieldsOf'[y].array])
    <3>1. CASE y = c
      BY <1>3, <1>4, <2>1, <2>2, <3>1
    <3>2. CASE y \in Made
      BY <1>3, <1>4, <2>3, <3>2
    <3> QED
      BY <3>1, <3>2
  <2> QED
    BY <1>2, <1>3, <1>4, <2>2, <2>4 DEF SliceInv
\* A context that shares the array with x has a sibling behind it, or is before x.
<1>7. ASSUME NEW y \in Made, y # x, fieldsOf[y].array = fieldsOf[x].array, fieldsOf[y].array # 0
      PROVE  (y \in Ancestors(x) /\ fieldsOf[y].len <= fieldsOf[x].len) \/ (HasSibling(y)' /\ HasSibling(c)')
  <2>1. CASE x \in Ancestors(y)
    <3>1. PICK z \in Ancestors(y) \ {Background} : parentOf[z] = x
      BY <1>1, <1>7, <2>1, AncestorsStep
    <3>2. z \in DOMAIN parentOf /\ z # c /\ c # Background
      BY <1>1, <3>1, AncestorsClosed DEF TreeInv
    <3>3. parentOf'[z] = x /\ parentOf'[c] = x /\ z \in DOMAIN parentOf' /\ c \in DOMAIN parentOf'
      BY <1>2, <3>1, <3>2
    <3>4. z \in Ancestors(y)' /\ c \in Ancestors(c)'
      BY <1>2, <3>1
    <3> QED
      BY <3>1, <3>2, <3>3, <3>4 DEF HasSibling
  <2>2. CASE x \notin Ancestors(y)
    <3>1. Behind(x, y) \/ Behind(y, x) \/ (HasSibling(x) /\ HasSibling(y))
      BY <1>7 DEF SharedInv
    <3> QED
      BY <1>2, <2>2, <3>1 DEF Behind
  <2> QED
    BY <2>1, <2>2
<1>8. SharedInv'
  <2>1. ASSUME NEW y \in Made, fieldsOf'[y].array = fieldsOf'[c].array, fieldsOf'[y].array # 0
        PROVE  Behind(y, c)' \/ (HasSibling(y)' /\ HasSibling(c)')
    <3>1. fieldsOf[y].array = slice.array /\ fieldsOf[y].array # 0
      BY <1>3, <2>1
    <3>2. slice.array = fieldsOf[x].array
      BY <3>1 DEF Extends, SliceInv
    <3>3. fieldsOf[x].len <= slice.len /\ slice.len \in Nat /\ fieldsOf[y].len \in Nat
      BY <1>5 DEF Extends, SliceInv
    <3>4. CASE y = x
      <4>1. x \in Ancestors(x)
        BY <1>1, AncestorsClosed
      <4> QED
        BY <1>2, <1>3, <3>3, <3>4, <4>1 DEF Behind
    <3>5. CASE y # x /\ y \in Ancestors(x) /\ fieldsOf[y].len <= fieldsOf[x].len
      BY <1>2, <1>3, <1>5, <3>3, <3>5 DEF Behind
    <3> QED
      BY <1>7, <3>1, <3>2, <3>4, <3>5
  <2>2. ASSUME NEW y \in Made, NEW z \in Made, y # z,
               fieldsOf'[y].array = fieldsOf'[z].array, fieldsOf'[y].array # 0
        PROVE  Behind(y, z)' \/ Behind(z, y)' \/ (HasSibling(y)' /\ HasSibling(z)')
    <3>1. Behind(y, z) \/ Behind(z, y) \/ (HasSibling(y) /\ HasSibling(z))
      BY <1>3, <2>2 DEF SharedInv
    <3>2. Behind(y, z)' = Behind(y, z) /\ Behind(z, y)' = Behind(z, y)
      BY <1>2, <1>3 DEF Behind
    <3> QED
      BY <1>2, <3>1, <3>2
  <2> QED
    BY <1>2, <2>1, <2>2 DEF SharedInv
<1>9. HeldInv'
  <2>1. FromContext(c)' = given'[c] \/ HasSibling(c)'
    <3>1. FromContext(c)' = Held(slice, cells)
      BY <1>3 DEF FromContext, Held
    <3>2. FromContext(c)' = FromContext(x) \o kvs
      BY <3>1 DEF Extends
    <3>3. FromContext(x) = given[x] \/ HasSibling(x)
      BY DEF HeldInv
    <3> QED
      BY <1>2, <1>4, <3>2, <3>3
  <2>2. ASSUME NEW y \in Made PROVE FromContext(y)' = given'[y] \/ HasSibling(y)'
    <3>1. FromContext(y) = given[y] \/ HasSibling(y)
      BY DEF HeldInv
    <3>2. FromContext(y)' = Held(fieldsOf[y], cells) /\ FromContext(y) = Held(fieldsOf[y], arrays)
      BY <1>3 DEF FromContext, Held
    <3>3. fieldsOf[y].array \in 0 .. Len(arrays) /\ fieldsOf[y].len \in Nat
      BY DEF SliceInv
    <3>4. CASE fieldsOf[y].array = 0
      <4>1. FromContext(y)' = FromContext(y)
        BY <3>2, <3>4 DEF Held
      <4> QED
        BY <1>2, <1>4, <3>1, <4>1
    <3>5. CASE fieldsOf[y].array # 0 /\ (fieldsOf[y].array # fieldsOf[x].array \/ fieldsOf[y].len <= fieldsOf[x].len)
      <4>1. fieldsOf[y].array \in 1 .. Len(arrays)
        BY <3>3, <3>5
      <4>2. SubSeq(cells[fieldsOf[y].array], 1, fieldsOf[y].len) = SubSeq(arrays[fieldsOf[y].array], 1, fieldsOf[y].len)
        <5>1. CASE fieldsOf[y].array # fieldsOf[x].array
          BY <4>1, <5>1 DEF Extends
        <5>2. CASE fieldsOf[y].len <= fieldsOf[x].len
          <6>1. fieldsOf[y].len \in 0 .. fieldsOf[x].len
            BY <1>5, <3>3, <5>2
          <6> QED
            BY <4>1, <6>1 DEF Extends
        <5> QED
          BY <3>5, <5>1, <5>2
      <4>3. FromContext(y)' = FromContext(y)
        BY <3>2, <4>2 DEF Held
      <4> QED
        BY <1>2, <1>4, <3>1, <4>3
    <3>6. CASE fieldsOf[y].array # 0 /\ fieldsOf[y].array = fieldsOf[x].array /\ ~ (fieldsOf[y].len <= fieldsOf[x].len)
      <4>1. y # x
        BY <1>5, <3>6
      <4> QED
        BY <1>7, <3>6, <4>1
    <3> QED
      BY <3>4, <3>5, <3>6
  <2> QED
    BY <1>2, <2>1, <2>2 DEF HeldInv
<1> QED
  BY <1>6, <1>8, <1>9

-----------------------------------------------------------------------------
(* Lines logged with a context.                                            *)

\* What the batch processor was given: the line, and what its context held, which is what
\* it was given unless another was derived beside it; and what the options let pass.
Recorded ==
    [ context : Made, level : Levels \cup {"info"}, line : Seq(Field), fields : Seq(Field),
      traced : BOOLEAN ]
RecordTold(r) ==
    /\ r.fields = r.line \o given[r.context] \/ HasSibling(r.context)
    /\ Len(r.fields) = Len(r.line) + Len(given[r.context])
    /\ r.traced \/ ~logger.sampler \/ r.level \in {"error", "fatal"}
RecordsInv == processed \in Seq(Recorded) /\ \A i \in DOMAIN processed : RecordTold(processed[i])

\* The lines a span has are in its events, as long as it records.
LinesInv ==
    /\ events \in [Contexts -> Nat] /\ lines \in [Contexts -> Nat]
    /\ \A x \in Contexts :
          SpanOf[x] \in {"sampled", "recorded"} /\ x \notin finished => events[x] = lines[x]

LogInv == SliceInv /\ SharedInv /\ HeldInv /\ RecordsInv /\ LinesInv

LEMMA LogInit == InitContextLog => LogInv
<1> SUFFICES ASSUME InitContextLog PROVE LogInv
  OBVIOUS
<1> USE DEF InitContextLog
<1>1. Made = {Background} /\ arrays = <<>>
  BY DEF Made
<1>2. SliceInv
  <2>1. <<>> \in Seq(Field) /\ <<>> \in Seq(Seq(Field)) /\ Len(<<>>) = 0
    OBVIOUS
  <2> QED
    BY <1>1, <2>1 DEF SliceInv, TreeInv, NoFields, Made
<1>3. SharedInv
  BY <1>1 DEF SharedInv
<1>4. HeldInv
  BY <1>1 DEF HeldInv, FromContext, NoFields
<1>5. RecordsInv
  <2>1. <<>> \in Seq(Recorded) /\ DOMAIN <<>> = {}
    OBVIOUS
  <2> QED
    BY <2>1 DEF RecordsInv
<1>6. LinesInv
  BY DEF LinesInv
<1> QED
  BY <1>2, <1>3, <1>4, <1>5, <1>6 DEF LogInv

LEMMA WithNext == ASSUME LogInv, NEW x, NEW n \in Lengths, With(x, n) PROVE LogInv'
<1> DEFINE child == CHOOSE y \in Contexts \ DOMAIN fieldsOf : TRUE
           kvs == [i \in 1 .. n |-> child \o ToString(i)]
<1>1. child \in Contexts /\ child \notin Made /\ x \in Made
  BY DEF LogInv, SliceInv, With
<1>2. kvs \in Seq(Field) /\ Len(kvs) = n
  <2>1. n \in Nat
    BY CallScenarioAssumption DEF CallScenarioAssumption
  <2>2. ASSUME NEW i \in 1 .. n PROVE child \o ToString(i) \in Field
    <3>1. i \in Nat
      BY <2>1
    <3> HIDE DEF child
    <3>2. child \o ToString(i) \in GivenField
      BY <1>1, <3>1 DEF GivenField
    <3> QED
      BY <3>2 DEF Field
  <2> HIDE DEF child
  <2> QED
    BY <2>1, <2>2
<1>3. SliceInv' /\ SharedInv' /\ HeldInv'
  <2> USE DEF LogInv
  <2>1. CASE logger.kind = "nop"
    <3>1. /\ arrays' = arrays /\ fieldsOf' = WithValue(fieldsOf, child, fieldsOf[x])
          /\ given' = WithValue(given, child, given[x]) /\ parentOf' = WithValue(parentOf, child, x)
      BY <2>1 DEF With
    <3>2. given[x] \o <<>> = given[x] /\ <<>> \in Seq(Field)
      <4>1. given[x] \in Seq(Field)
        BY <1>1 DEF SliceInv
      <4> QED
        BY <4>1, ConcatEmptySeq
    <3>3. Extends(x, <<>>, fieldsOf[x], arrays)
      BY <1>1, SameExtends
    <3> HIDE DEF child
    <3> QED
      BY <1>1, <3>1, <3>2, <3>3, WithKeeps
  <2>2. CASE logger.kind # "nop"
    <3> DEFINE d == AppendFields(fieldsOf[x], kvs)
    <3>1. /\ arrays' = d.arrays /\ fieldsOf' = WithValue(fieldsOf, child, d.slice)
          /\ given' = WithValue(given, child, given[x] \o kvs) /\ parentOf' = WithValue(parentOf, child, x)
      BY <2>2 DEF With, Derive
    <3> HIDE DEF kvs, child
    <3>2. Extends(x, kvs, d.slice, d.arrays)
      BY <1>1, <1>2, AppendExtends
    <3> HIDE DEF d
    <3> QED
      BY <1>1, <1>2, <3>1, <3>2, WithKeeps
  <2> QED
    BY <2>1, <2>2
<1>4. RecordsInv'
  <2>1. /\ \A y \in Made : given'[y] = given[y] /\ (HasSibling(y) => HasSibling(y)')
        /\ Made \subseteq Made'
    <3>1. /\ parentOf' = WithValue(parentOf, child, x) /\ \E v : given' = WithValue(given, child, v)
      BY DEF With
    <3>2. TreeInv /\ DOMAIN given = Made
      BY DEF LogInv, SliceInv
    <3> HIDE DEF child
    <3>3. DOMAIN parentOf' = DOMAIN parentOf \cup {child} /\ \A y \in DOMAIN parentOf : HasSibling(y) => HasSibling(y)'
      BY <1>1, <3>1, <3>2, NewContext DEF Made
    <3>4. \A y \in Made : given'[y] = given[y]
      BY <1>1, <3>1, <3>2 DEF WithValue
    <3> QED
      BY <3>3, <3>4 DEF Made
  <2>2. processed' = processed /\ logger' = logger
    BY DEF With
  <2>3. processed \in Seq(Recorded) /\ Recorded \subseteq Recorded'
    BY <2>1 DEF LogInv, RecordsInv, Recorded
  <2>4. ASSUME NEW i \in DOMAIN processed PROVE RecordTold(processed[i])'
    <3>1. processed[i] \in Recorded /\ RecordTold(processed[i])
      BY <2>3 DEF LogInv, RecordsInv
    <3> QED
      BY <2>1, <2>2, <3>1 DEF RecordTold, Recorded
  <2> QED
    BY <2>2, <2>3, <2>4 DEF RecordsInv
<1>5. LinesInv'
  BY DEF LogInv, LinesInv, With
<1> QED
  BY <1>3, <1>4, <1>5 DEF LogInv

\* Nothing but deriving touches the fields of a context.
LEMMA FieldsStay ==
    ASSUME LogInv, UNCHANGED <<logger, arrays, fieldsOf, given, parentOf>>
    PROVE  /\ SliceInv' /\ SharedInv' /\ HeldInv'
           /\ processed' = processed => RecordsInv'
<1>1. SliceInv' = SliceInv
  BY DEF SliceInv, TreeInv, Made
<1>2. Made' = Made /\ \A x : Ancestors(x)' = Ancestors(x) /\ HasSibling(x)' = HasSibling(x)
  BY DEF Made, Ancestors, HasParents, HasSibling
<1>3. SharedInv' = SharedInv
  BY <1>2 DEF SharedInv, Behind
<1>4. HeldInv' = HeldInv
  BY <1>2 DEF HeldInv, FromContext
<1>5. Recorded' = Recorded /\ \A r : RecordTold(r)' = RecordTold(r)
  BY <1>2 DEF Recorded, RecordTold
<1>6. processed' = processed => RecordsInv'
  BY <1>5 DEF LogInv, RecordsInv
<1> QED
  BY <1>1, <1>3, <1>4, <1>6 DEF LogInv

LEMMA LogNext ==
    ASSUME LogInv, NEW x \in Contexts, NEW level \in Levels \cup {"info"}, NEW line \in Seq(Field),
           Log(x, level, line)
    PROVE  LogInv'
<1> USE DEF Log
<1>1. /\ SliceInv' /\ SharedInv' /\ HeldInv' /\ (processed' = processed => RecordsInv')
  BY FieldsStay
<1>2. LinesInv'
  BY DEF LogInv, LinesInv
<1>3. ASSUME processed' # processed PROVE RecordsInv'
  <2> DEFINE r == Record(x, level, line)
  <2>1. processed' = Append(processed, r) /\ Passes(x, level) /\ x \in Made
    BY <1>3 DEF LogInv, SliceInv
  <2>2. FromContext(x) \in Seq(Field) /\ Len(FromContext(x)) = Len(given[x])
        /\ (FromContext(x) = given[x] \/ HasSibling(x))
    BY <2>1, FromContextType DEF LogInv, HeldInv
  <2>3. /\ line \o FromContext(x) \in Seq(Field)
        /\ Len(line \o FromContext(x)) = Len(line) + Len(given[x])
    BY <2>2
  <2>4. IsSampled(x) \/ ~logger.sampler \/ level \in {"error", "fatal"}
    BY <2>1 DEF Passes, toSeverityNumber
  <2>5. r \in Recorded
    BY <2>1, <2>3 DEF Record, Recorded, IsSampled
  <2>6. RecordTold(r)
    BY <2>2, <2>3, <2>4 DEF Record, RecordTold
  <2> HIDE DEF r
  <2>7. /\ processed \in Seq(Recorded) /\ \A i \in DOMAIN processed : RecordTold(processed[i])
    BY DEF LogInv, RecordsInv
  <2>8. /\ processed' \in Seq(Recorded) /\ \A i \in DOMAIN processed' : RecordTold(processed'[i])
    BY <2>1, <2>5, <2>6, <2>7
  <2>9. Recorded' = Recorded /\ \A q : RecordTold(q)' = RecordTold(q)
    BY DEF Recorded, Made, RecordTold, HasSibling, Ancestors, HasParents
  <2> QED
    BY <2>8, <2>9 DEF RecordsInv
<1> QED
  BY <1>1, <1>2, <1>3 DEF LogInv

LEMMA ContextLogSteps ==
    ASSUME LogInv, [ContextLogNext(Lengths, LineFields, Levels)]_contextLogVars
    PROVE  LogInv'
<1>1. CASE UNCHANGED contextLogVars
  BY <1>1, FieldsStay DEF contextLogVars, LogInv, LinesInv
<1>2. ASSUME NEW x \in Contexts, NEW n \in Lengths, With(x, n) PROVE LogInv'
  BY <1>2, WithNext
<1>3. ASSUME NEW x \in Contexts, NEW level \in Levels, NEW line \in LineFields, Log(x, level, line) PROVE LogInv'
  <2>1. line \in Seq(Field)
    BY CallScenarioAssumption DEF CallScenarioAssumption, Field
  <2> QED
    BY <1>3, <2>1, LogNext
<1>4. ASSUME NEW x \in Contexts, FilterLog(x) PROVE LogInv'
  <2>1. <<"span.kind", "trpc.code">> \in Seq(Field)
    BY DEF Field
  <2> QED
    BY <1>4, <2>1, LogNext DEF FilterLog
<1>5. ASSUME NEW x \in Contexts, RpcLog(x) PROVE LogInv'
  BY <1>5, FieldsStay DEF RpcLog, LogInv, LinesInv
<1>6. ASSUME NEW x \in Contexts, EndSpan(x) PROVE LogInv'
  BY <1>6, FieldsStay DEF EndSpan, LogInv, LinesInv
<1> QED
  BY <1>1, <1>2, <1>3, <1>4, <1>5, <1>6 DEF ContextLogNext

\* A line that was logged names what its own context was given, whatever others were
\* derived meanwhile, unless from the same one; and the lines of a span that records are
\* in its events.
THEOREM LogsAreTold == Spec => []LogsTellTrace
<1>1. Init => LogInv
  BY LogInit DEF Init
<1>2. LogInv /\ [Next]_requestVars => LogInv'
  BY ContextLogSteps DEF Next, CallStep, ConfigStep, StreamStep, LogStep, requestVars, contextLogVars
<1>3. LogInv => LogsTellTrace
  <2> SUFFICES ASSUME LogInv PROVE LogsTellTrace
    OBVIOUS
  <2>1. \A i \in DOMAIN processed : RecordTold(processed[i])
    BY DEF LogInv, RecordsInv
  <2>2. ASSUME NEW x \in Contexts, events[x] < lines[x] PROVE SpanOf[x] \in {"dropped", "none"} \/ x \in finished
    BY <2>2, SpanAssumption DEF LogInv, LinesInv, SpanAssumption
  <2> QED
    BY <2>1, <2>2 DEF LogsTellTrace, RecordTold
<1> QED
  BY <1>1, <1>2, <1>3, PTL DEF Spec

-----------------------------------------------------------------------------
(* Calls. What is true of a call on its own, given the filters' options    *)
(* and the time.                                                           *)

USE ScaleAssumption, CallAssumption, CallScenarioAssumption
USE DEF ScaleAssumption, CallAssumption, CallScenarioAssumption

CallSteps == {"idle", "traced", "handling", "returned", "panicked", "metered", "done"}

CallShape ==
    /\ now \in Nat /\ filters.deferred.slow \in Int
    /\ at \in [Calls -> CallSteps]
    /\ carried \in [Calls -> SpanContext \X SpanContext]
    /\ DOMAIN span = Calls /\ DOMAIN meter = Calls /\ DOMAIN outcome = Calls /\ DOMAIN ended = Calls

\* A span has a trace, began before now, and is recorded when the deferred sampler may
\* want it; a client call hands it on.
SpanInv(c) ==
    /\ at[c] = "idle" => ~Traced(c)
    /\ Traced(c) => /\ span[c].trace \in Int \ {-1} /\ span[c].start \in Nat /\ span[c].start <= now
                    /\ span[c].decision \in {"sample", "record", "drop"}
                    /\ filters.deferred.enabled => span[c].decision # "drop"
                    /\ Kind[c] = "client" =>
                          carried[c][1] = [trace |-> span[c].trace, sampled |-> span[c].decision = "sample"]

\* What the reporter of a call has seen, and which exemplars it may have chosen.
CounterChosen(c) ==
    IF filters.deferred.enabled /\ filters.deferred.error THEN meter[c].type # "success"
    ELSE span[c].decision = "sample"
HistogramChosen(c) ==
    IF filters.deferred.enabled THEN now - span[c].start >= filters.deferred.slow
    ELSE span[c].decision = "sample"
MeterInv(c) ==
    /\ DOMAIN meter[c] = {"start", "started", "handled", "type", "exemplars"}
    /\ meter[c].start \in Nat /\ meter[c].start <= now
    /\ meter[c].started = IF at[c] \in {"idle", "traced"} \/ ~filters.metrics THEN 0 ELSE 1
    /\ at[c] \in {"idle", "traced", "handling", "returned", "panicked"} =>
          meter[c].handled = 0 /\ meter[c].exemplars = {}
    /\ filters.metrics /\ at[c] \in {"handling", "returned"} /\ Traced(c) => span[c].start <= meter[c].start
    /\ at[c] = "metered" => meter[c].handled = meter[c].started
    /\ at[c] = "metered" /\ Traced(c) =>
          /\ "counter" \in meter[c].exemplars => CounterChosen(c)
          /\ "histogram" \in meter[c].exemplars => HistogramChosen(c)
    /\ at[c] = "panicked" => outcome[c].kind = "panic"
    /\ at[c] = "done" => meter[c].handled = meter[c].started \/ outcome[c].kind = "panic"

\* What the end of a span decided.
Kept(c) ==
    /\ span[c].decision = "sample" => ended[c].kept
    /\ filters.deferred.enabled /\ filters.deferred.error /\ ended[c].status # "Ok" => ended[c].kept
Reported(c) ==
    ended[c].status = "Error" /\ IsError(outcome[c]) =>
       /\ filters.noBody \/ ended[c].body \in 1..MaxStringLength
       /\ ended[c].logged \/ filters.mode = "disable"
          \/ \E rule \in filters.exclude : rule.code \in {"", getErrCode(outcome[c])}
Resolved(c) ==
    outcome[c].kind # "panic" =>
       /\ "counter" \in meter[c].exemplars /\ meter[c].type = ended[c].type => ended[c].kept
       /\ "histogram" \in meter[c].exemplars
             /\ (filters.deferred.enabled => filters.deferred.slow # 0) => ended[c].kept
EndInv(c) == Done(c) => Kept(c) /\ Reported(c) /\ Resolved(c)

\* A call begins while the one that makes it is handled, and gets its trace and decision.
LinkInv(c) ==
    Caller[c] # "none" =>
       /\ at[c] # "idle" => at[Caller[c]] # "idle"
       /\ Kind[c] = "server" /\ Traced(c) /\ Traced(Caller[c]) =>
             /\ span[c].trace = span[Caller[c]].trace
             /\ span[Caller[c]].decision = "sample" /\ ~filters.noParent => span[c].decision = "sample"

CallInv == CallShape /\ \A c \in Calls : SpanInv(c) /\ MeterInv(c) /\ EndInv(c) /\ LinkInv(c)

\* Call d is left alone by a step; time may go on.
Unmoved(d) ==
    /\ filters' = filters /\ now' \in Nat /\ now <= now'
    /\ at'[d] = at[d] /\ span'[d] = span[d] /\ carried'[d] = carried[d]
    /\ meter'[d] = meter[d] /\ outcome'[d] = outcome[d] /\ ended'[d] = ended[d]

LEMMA UnmovedKeeps ==
    ASSUME CallShape, NEW d \in Calls, Unmoved(d), SpanInv(d), MeterInv(d), EndInv(d)
    PROVE  SpanInv(d)' /\ MeterInv(d)' /\ EndInv(d)'
<1> USE DEF CallShape, Unmoved
<1>1. Traced(d)' = Traced(d)
  BY DEF Traced
<1>2. SpanInv(d)'
  BY <1>1 DEF SpanInv
<1>3. MeterInv(d)'
  <2>1. CounterChosen(d)' = CounterChosen(d)
    BY DEF CounterChosen
  <2>2. Traced(d) /\ HistogramChosen(d) => HistogramChosen(d)'
    BY DEF HistogramChosen, SpanInv
  <2> QED
    BY <1>1, <2>1, <2>2 DEF MeterInv
<1>4. EndInv(d)'
  <2>1. Done(d)' = Done(d)
    BY <1>1 DEF Done
  <2>2. Kept(d)' = Kept(d) /\ Reported(d)' = Reported(d) /\ Resolved(d)' = Resolved(d)
    BY DEF Kept, Reported, Resolved
  <2> QED
    BY <2>1, <2>2 DEF EndInv
<1> QED
  BY <1>2, <1>3, <1>4

\* Links only change where a call begins.
LEMMA LinksKept ==
    ASSUME CallInv, filters' = filters, span' = span,
           \A d \in Calls : at[d] # "idle" => at'[d] # "idle",
           \A d \in Calls : at[d] = "idle" => at'[d] = "idle"
    PROVE  \A d \in Calls : LinkInv(d)'
<1>1. \A d \in Calls : Traced(d)' = Traced(d)
  BY DEF Traced
<1> QED
  BY <1>1 DEF CallInv, LinkInv

LEMMA TickNext == ASSUME CallInv, Tick \/ Toggle PROVE CallInv'
<1> USE DEF CallInv
<1>1. /\ UNCHANGED <<filters, at, carried, span, meter, outcome, ended>>
      /\ now' \in Nat /\ now <= now'
  BY DEF Tick, Toggle, CallShape
<1>2. CallShape'
  BY <1>1 DEF CallShape
<1>3. \A d \in Calls : Unmoved(d)
  BY <1>1 DEF Unmoved
<1>4. \A d \in Calls : SpanInv(d)' /\ MeterInv(d)' /\ EndInv(d)'
  BY <1>3, UnmovedKeeps
<1>5. \A d \in Calls : LinkInv(d)'
  BY <1>1, LinksKept
<1> QED
  BY <1>2, <1>4, <1>5

-----------------------------------------------------------------------------
(* The trace filter, before the handler.                                   *)

LEMMA CarriedType == ASSUME CallInv, NEW c \in Calls PROVE Carried(c) \in SpanContext \X SpanContext
<1>1. NoContext \in SpanContext
  BY DEF NoContext, SpanContext
<1>2. \A d \in Calls : carried[d] \in SpanContext \X SpanContext
  BY DEF CallInv, CallShape
<1>3. CASE Caller[c] = "none"
  <2>1. Carried(c) = carried[c]
    BY <1>3 DEF Carried
  <2> QED
    BY <1>2, <2>1
<1>4. CASE Caller[c] # "none" /\ Kind[c] = "client"
  <2>1. carried[Caller[c]] \in SpanContext \X SpanContext
    BY <1>2, <1>4
  <2> QED
    BY <1>1, <1>4, <2>1 DEF Carried
<1>5. CASE Caller[c] # "none" /\ Kind[c] # "client"
  <2>1. carried[Caller[c]] \in SpanContext \X SpanContext
    BY <1>2, <1>5
  <2> QED
    BY <1>5, <2>1 DEF Carried
<1> QED
  BY <1>3, <1>4, <1>5

LEMMA StartFields ==
    ASSUME NEW c, NEW trace
    PROVE  /\ Start(c, trace).trace = trace /\ Start(c, trace).start = now
           /\ Start(c, trace).decision \in {"sample", "record", "drop"}
           /\ filters.deferred.enabled => Start(c, trace).decision # "drop"
           /\ Parent(c).sampled => Start(c, trace).decision = "sample"
  BY DEF Start, ShouldSample, DefaultSamplingDecision

LEMMA TraceFilterNext == ASSUME CallInv, NEW c \in Calls, TraceFilter(c) PROVE CallInv'
<1> USE DEF CallInv
<1>1. /\ at[c] = "idle" /\ at' = [at EXCEPT ![c] = "traced"]
      /\ Caller[c] # "none" => at[Caller[c]] = "handling"
      /\ UNCHANGED <<filters, now, meter, outcome, ended>>
  BY DEF TraceFilter, Goto
<1>2. PICK trace \in IF Parent(c).trace # -1 THEN {Parent(c).trace} ELSE 0 .. Scale - 1 :
         IF traceStatus = "off"
         THEN span' = span /\ carried' = [carried EXCEPT ![c] = Carried(c)]
         ELSE /\ span' = [span EXCEPT ![c] = Start(c, trace)]
              /\ carried' = [carried EXCEPT ![c] =
                    IF Kind[c] = "server" THEN Carried(c)
                    ELSE Set(c, [trace |-> trace, sampled |-> Start(c, trace).decision = "sample"])]
  BY DEF TraceFilter
<1>3. /\ at'[c] = "traced" /\ \A d \in Calls : d # c => at'[d] = at[d]
      /\ at' \in [Calls -> CallSteps]
  BY <1>1 DEF CallShape, CallSteps
<1>4. Carried(c) \in SpanContext \X SpanContext
  BY CarriedType
<1>5. Parent(c).trace \in Int /\ trace # -1 /\ trace \in Int
  <2>1. Get(Carried(c)) \in SpanContext
    BY <1>4 DEF Get
  <2>2. CASE Kind[c] = "server"
    BY <2>1, <2>2 DEF Parent, SpanContext
  <2>3. CASE Kind[c] # "server" /\ Caller[c] # "none" /\ Traced(Caller[c])
    BY <2>3 DEF Parent, SpanInv
  <2>4. CASE Kind[c] # "server" /\ ~(Caller[c] # "none" /\ Traced(Caller[c]))
    BY <2>4 DEF Parent, NoContext
  <2> QED
    BY <1>2, <2>2, <2>3, <2>4
<1>6. CallShape'
  <2>1. [trace |-> trace, sampled |-> Start(c, trace).decision = "sample"] \in SpanContext
    BY <1>5 DEF SpanContext
  <2>2. Set(c, [trace |-> trace, sampled |-> Start(c, trace).decision = "sample"]) \in SpanContext \X SpanContext
    <3> DEFINE x == [trace |-> trace, sampled |-> Start(c, trace).decision = "sample"]
    <3>1. x \in SpanContext /\ NoContext \in SpanContext
      BY <2>1 DEF NoContext, SpanContext
    <3> HIDE DEF x
    <3>2. Set(c, x) \in SpanContext \X SpanContext
      BY <3>1 DEF Set
    <3> QED
      BY <3>2 DEF x
  <2>3. carried' \in [Calls -> SpanContext \X SpanContext]
    <3>1. PICK y \in SpanContext \X SpanContext : carried' = [carried EXCEPT ![c] = y]
      BY <1>2, <1>4, <2>2
    <3> QED
      BY <3>1 DEF CallShape
  <2>4. DOMAIN span' = Calls
    BY <1>2 DEF CallShape
  <2> QED
    BY <1>1, <1>3, <2>3, <2>4 DEF CallShape
<1>7. /\ \A d \in Calls : d # c => span'[d] = span[d] /\ carried'[d] = carried[d]
      /\ span'[c] = IF traceStatus = "off" THEN span[c] ELSE Start(c, trace)
      /\ carried'[c] = IF traceStatus = "off" \/ Kind[c] = "server" THEN Carried(c)
                       ELSE Set(c, [trace |-> trace, sampled |-> Start(c, trace).decision = "sample"])
  BY <1>2 DEF CallShape
<1>8. ASSUME NEW d \in Calls, d # c PROVE SpanInv(d)' /\ MeterInv(d)' /\ EndInv(d)'
  <2>1. Unmoved(d)
    BY <1>1, <1>3, <1>7, <1>8 DEF Unmoved, CallShape
  <2> QED
    BY <2>1, UnmovedKeeps
<1>9. SpanInv(c)'
  <2>1. ~Traced(c)
    BY <1>1 DEF SpanInv
  <2>2. CASE traceStatus = "off"
    BY <1>3, <1>7, <2>1, <2>2 DEF SpanInv, Traced
  <2>3. CASE traceStatus # "off"
    <3>1. ASSUME Kind[c] = "client"
          PROVE  carried'[c][1] = [trace |-> trace, sampled |-> Start(c, trace).decision = "sample"]
      <4> DEFINE x == [trace |-> trace, sampled |-> Start(c, trace).decision = "sample"]
      <4>1. carried'[c] = Set(c, x)
        BY <1>7, <2>3, <3>1
      <4> HIDE DEF x
      <4>2. Set(c, x)[1] = x
        BY DEF Set
      <4> QED
        BY <4>1, <4>2 DEF x
    <3> QED
      BY <1>1, <1>3, <1>5, <1>7, <2>3, <3>1, StartFields DEF SpanInv, CallShape
  <2> QED
    BY <2>2, <2>3
<1>10. MeterInv(c)'
  BY <1>1, <1>3 DEF MeterInv, CallShape
<1>11. EndInv(c)'
  BY <1>3 DEF EndInv, Done
<1>12. ASSUME NEW d \in Calls PROVE LinkInv(d)'
  <2>1. CASE d = c
    <3>1. ASSUME Caller[c] # "none" PROVE at'[Caller[c]] # "idle" /\ Caller[c] # c /\ Caller[c] \in Calls
      BY <1>1, <1>3, <3>1
    <3>2. ASSUME Caller[c] # "none", Kind[c] = "server", Traced(c)', Traced(Caller[c])'
          PROVE  /\ span'[c].trace = span'[Caller[c]].trace
                 /\ span'[Caller[c]].decision = "sample" /\ ~filters.noParent => span'[c].decision = "sample"
      <4> DEFINE up == Caller[c]
      <4>1. up \in Calls /\ up # c /\ Kind[up] = "client" /\ span'[up] = span[up]
        BY <1>7, <3>1, <3>2
      <4>2. Traced(up)
        BY <3>2, <4>1 DEF Traced
      <4>3. carried[up][1] = [trace |-> span[up].trace, sampled |-> span[up].decision = "sample"]
            /\ span[up].trace \in Int \ {-1}
        BY <4>1, <4>2 DEF SpanInv
      <4>4. Carried(c) = carried[up]
        BY <3>2 DEF Carried
      <4>5. Get(Carried(c)) = [trace |-> span[up].trace, sampled |-> span[up].decision = "sample"]
        BY <4>3, <4>4 DEF Get, NoContext
      <4>6. /\ Parent(c).trace = span[up].trace
            /\ span[up].decision = "sample" /\ ~filters.noParent => Parent(c).sampled
        <5> DEFINE x == Get(Carried(c))
        <5>1. Parent(c) = [x EXCEPT !.sampled = @ /\ ~filters.noParent]
          BY <3>2 DEF Parent
        <5>2. x.trace = span[up].trace /\ x.sampled = (span[up].decision = "sample") /\ DOMAIN x = {"trace", "sampled"}
          BY <4>5
        <5> HIDE DEF x
        <5>3. Parent(c).trace = x.trace /\ Parent(c).sampled = (x.sampled /\ ~filters.noParent)
          BY <5>1, <5>2
        <5> QED
          BY <5>2, <5>3
      <4>7. traceStatus # "off" /\ span'[c] = Start(c, trace)
        <5>1. ~Traced(c)
          BY <1>1 DEF SpanInv
        <5> QED
          BY <1>7, <3>2, <5>1 DEF Traced
      <4>8. trace = span[up].trace
        BY <1>2, <4>3, <4>6
      <4>9. /\ Start(c, trace).trace = trace
            /\ Parent(c).sampled => Start(c, trace).decision = "sample"
        BY StartFields
      <4>10. /\ span'[c].trace = span[up].trace
             /\ span[up].decision = "sample" /\ ~filters.noParent => span'[c].decision = "sample"
        BY <4>6, <4>7, <4>8, <4>9
      <4> QED
        BY <4>1, <4>10
    <3> QED
      BY <1>1, <2>1, <3>1, <3>2 DEF LinkInv
  <2>2. CASE d # c /\ Caller[d] = c
    <3>1. at[d] = "idle" /\ ~Traced(d)
      BY <1>1, <2>2 DEF LinkInv, SpanInv
    <3>2. ~Traced(d)' /\ at'[d] = "idle"
      BY <1>3, <1>7, <2>2, <3>1 DEF Traced
    <3> QED
      BY <3>2 DEF LinkInv
  <2>3. CASE d # c /\ Caller[d] # c
    <3>1. /\ at'[d] = at[d] /\ Traced(d)' = Traced(d) /\ span'[d] = span[d]
      BY <1>3, <1>7, <2>3 DEF Traced
    <3>2. ASSUME Caller[d] # "none"
          PROVE  at'[Caller[d]] = at[Caller[d]] /\ Traced(Caller[d])' = Traced(Caller[d])
                 /\ span'[Caller[d]] = span[Caller[d]]
      BY <1>3, <1>7, <2>3, <3>2 DEF Traced
    <3> QED
      BY <1>1, <3>1, <3>2 DEF LinkInv
  <2> QED
    BY <2>1, <2>2, <2>3
<1> QED
  BY <1>6, <1>8, <1>9, <1>10, <1>11, <1>12

-----------------------------------------------------------------------------
(* The other steps of a call.                                              *)

LEMMA CallMoves ==
    ASSUME CallInv, NEW c \in Calls, at[c] # "idle",
           NEW l \in CallSteps \ {"idle"}, at' = [at EXCEPT ![c] = l],
           UNCHANGED <<filters, now, carried, span>>,
           DOMAIN meter' = Calls, DOMAIN outcome' = Calls, DOMAIN ended' = Calls,
           \A d \in Calls \ {c} : meter'[d] = meter[d] /\ outcome'[d] = outcome[d] /\ ended'[d] = ended[d],
           MeterInv(c)', EndInv(c)'
    PROVE  CallInv'
<1> USE DEF CallInv
<1>1. at'[c] = l /\ (\A d \in Calls : d # c => at'[d] = at[d]) /\ at' \in [Calls -> CallSteps]
  BY DEF CallShape
<1>2. CallShape'
  BY <1>1 DEF CallShape
<1>3. ASSUME NEW d \in Calls, d # c PROVE SpanInv(d)' /\ MeterInv(d)' /\ EndInv(d)'
  <2>1. Unmoved(d)
    BY <1>1, <1>3 DEF Unmoved, CallShape
  <2> QED
    BY <2>1, UnmovedKeeps
<1>4. SpanInv(c)'
  BY <1>1 DEF SpanInv, Traced
<1>5. \A d \in Calls : LinkInv(d)'
  BY <1>1, LinksKept
<1> QED
  BY <1>2, <1>3, <1>4, <1>5

LEMMA MetricFilterNext == ASSUME CallInv, NEW c \in Calls, MetricFilter(c) PROVE CallInv'
<1> USE DEF CallInv
<1>1. /\ at[c] = "traced" /\ at' = [at EXCEPT ![c] = "handling"]
      /\ meter' = IF filters.metrics THEN [meter EXCEPT ![c].start = now, ![c].started = 1] ELSE meter
      /\ UNCHANGED <<filters, now, carried, span, outcome, ended>>
  BY DEF MetricFilter, Goto
<1>2. /\ at'[c] = "handling" /\ DOMAIN meter' = Calls
      /\ \A d \in Calls \ {c} : meter'[d] = meter[d]
      /\ meter'[c] = IF filters.metrics THEN [meter[c] EXCEPT !.start = now, !.started = 1] ELSE meter[c]
  BY <1>1 DEF CallShape
<1>3. MeterInv(c)'
  <2>1. MeterInv(c) /\ SpanInv(c) /\ now \in Nat
    BY DEF CallShape
  <2>2. Traced(c)' = Traced(c)
    BY <1>1 DEF Traced
  <2> QED
    BY <1>1, <1>2, <2>1, <2>2 DEF MeterInv, SpanInv
<1>4. EndInv(c)'
  BY <1>2 DEF EndInv, Done
<1>5. "handling" \in CallSteps \ {"idle"}
  BY DEF CallSteps
<1> QED
  BY <1>1, <1>2, <1>3, <1>4, <1>5, CallMoves DEF CallShape

LEMMA HandlerReturnsNext == ASSUME CallInv, NEW c \in Calls, NEW o, HandlerReturns(c, o) PROVE CallInv'
<1> USE DEF CallInv
<1>1. PICK l \in {"panicked", "returned"} :
         /\ at[c] = "handling" /\ at' = [at EXCEPT ![c] = l]
         /\ outcome' = [outcome EXCEPT ![c] = LogRecovery(o)]
         /\ l = "panicked" => LogRecovery(o).kind = "panic"
         /\ UNCHANGED <<filters, now, carried, span, meter, ended>>
  BY DEF HandlerReturns, Goto
<1>2. /\ at'[c] = l /\ DOMAIN outcome' = Calls /\ outcome'[c] = LogRecovery(o)
      /\ \A d \in Calls \ {c} : outcome'[d] = outcome[d]
  BY <1>1 DEF CallShape
<1>3. MeterInv(c)'
  <2>1. Traced(c)' = Traced(c)
    BY <1>1 DEF Traced
  <2> QED
    BY <1>1, <1>2, <2>1 DEF MeterInv
<1>4. EndInv(c)'
  BY <1>2 DEF EndInv, Done
<1>5. l \in CallSteps \ {"idle"}
  BY DEF CallSteps
<1> QED
  BY <1>1, <1>2, <1>3, <1>4, <1>5, CallMoves DEF CallShape

LEMMA HandledNext == ASSUME CallInv, NEW c \in Calls, Handled(c) PROVE CallInv'
<1> USE DEF CallInv
<1> DEFINE type == CodeType(GetCode(outcome[c]), cleanServiceName(Callee[c].service), MetricMethod(c))
           cost == now - meter[c].start
           chosen == {e \in {"counter", "histogram"} :
                        IF e = "counter" THEN counterNeedUseExemplar(filters.deferred, span[c].decision, type)
                        ELSE histogramNeedUseExemplar(filters.deferred, span[c].decision, cost)}
<1>1. /\ at[c] = "returned" /\ at' = [at EXCEPT ![c] = "metered"]
      /\ meter' = IF ~filters.metrics THEN meter ELSE
            [meter EXCEPT ![c].handled = @ + 1, ![c].type = type, ![c].exemplars = chosen]
      /\ UNCHANGED <<filters, now, carried, span, outcome, ended>>
  BY DEF Handled, Goto
<1>2. chosen \in SUBSET {"counter", "histogram"}
      /\ ("counter" \in chosen <=> counterNeedUseExemplar(filters.deferred, span[c].decision, type))
      /\ ("histogram" \in chosen <=> histogramNeedUseExemplar(filters.deferred, span[c].decision, cost))
  OBVIOUS
<1> HIDE DEF type, chosen
<1>3. /\ at'[c] = "metered" /\ DOMAIN meter' = Calls
      /\ \A d \in Calls \ {c} : meter'[d] = meter[d]
      /\ meter'[c] = IF ~filters.metrics THEN meter[c] ELSE
            [meter[c] EXCEPT !.handled = @ + 1, !.type = type, !.exemplars = chosen]
  BY <1>1 DEF CallShape
<1>4. MeterInv(c) /\ SpanInv(c) /\ now \in Nat /\ filters.deferred.slow \in Int
  BY DEF CallShape
<1>5. Traced(c)' = Traced(c)
  BY <1>1 DEF Traced
<1>6. MeterInv(c)'
  <2>1. CASE ~filters.metrics
    BY <1>1, <1>3, <1>4, <1>5, <2>1 DEF MeterInv
  <2>2. CASE filters.metrics
    <3>1. /\ DOMAIN meter'[c] = {"start", "started", "handled", "type", "exemplars"}
          /\ meter'[c].start = meter[c].start /\ meter'[c].started = meter[c].started
          /\ meter'[c].handled = meter[c].handled + 1 /\ meter'[c].type = type /\ meter'[c].exemplars = chosen
      BY <1>3, <1>4, <2>2 DEF MeterInv
    <3>2. meter[c].handled = 0 /\ meter[c].started = 1
      BY <1>1, <1>4, <2>2 DEF MeterInv
    <3>3. "counter" \in chosen => CounterChosen(c)'
      BY <1>1, <1>2, <3>1 DEF counterNeedUseExemplar, CounterChosen
    <3>4. ASSUME Traced(c), "histogram" \in chosen PROVE HistogramChosen(c)'
      <4>1. /\ span[c].start \in Nat /\ meter[c].start \in Nat /\ span[c].start <= meter[c].start
        BY <1>1, <1>4, <2>2, <3>4 DEF MeterInv, SpanInv
      <4>2. filters.deferred.enabled => cost >= filters.deferred.slow
        BY <1>2, <3>4 DEF histogramNeedUseExemplar
      <4>3. ~filters.deferred.enabled => span[c].decision = "sample"
        BY <1>2, <3>4 DEF histogramNeedUseExemplar
      <4> QED
        BY <1>1, <1>4, <4>1, <4>2, <4>3 DEF HistogramChosen
    <3> QED
      BY <1>1, <1>3, <1>4, <1>5, <2>2, <3>1, <3>2, <3>3, <3>4 DEF MeterInv
  <2> QED
    BY <2>1, <2>2
<1>7. EndInv(c)'
  BY <1>3 DEF EndInv, Done
<1>8. "metered" \in CallSteps \ {"idle"}
  BY DEF CallSteps
<1> QED
  BY <1>1, <1>3, <1>6, <1>7, <1>8, CallMoves DEF CallShape

LEMMA FinishNext == ASSUME CallInv, NEW c \in Calls, Finish(c) PROVE CallInv'
<1> USE DEF CallInv
<1> DEFINE kept == OnEnd(filters.deferred, Ended(c, handleError(c)))
           body == IF needToTraceBody(c) THEN fixStringTooLong(Message[c].body) ELSE 0
           r == [kept |-> kept, status |-> handleError(c), type |-> SpanType(c), body |-> body, logged |-> doFlowLog(c)]
<1>1. /\ at[c] = "metered" /\ at' = [at EXCEPT ![c] = "done"]
      /\ ended' = IF ~Traced(c) THEN ended ELSE [ended EXCEPT ![c] = r]
      /\ UNCHANGED <<filters, now, carried, span, meter, outcome>>
  BY DEF Finish, Goto
<1>2. /\ r.kept = kept /\ r.status = handleError(c) /\ r.type = SpanType(c)
      /\ r.body = body /\ r.logged = doFlowLog(c)
  OBVIOUS
<1> HIDE DEF r
<1>3. /\ at'[c] = "done" /\ DOMAIN ended' = Calls
      /\ \A d \in Calls \ {c} : ended'[d] = ended[d]
      /\ Traced(c) => ended'[c] = r
  BY <1>1 DEF CallShape
<1>4. MeterInv(c) /\ SpanInv(c) /\ now \in Nat /\ filters.deferred.slow \in Int
  BY DEF CallShape
<1>5. Traced(c)' = Traced(c)
  BY <1>1 DEF Traced
<1>6. MeterInv(c)'
  BY <1>1, <1>3, <1>4, <1>5 DEF MeterInv
<1>7. EndInv(c)'
  <2> SUFFICES ASSUME Traced(c) PROVE Kept(c)' /\ Reported(c)' /\ Resolved(c)'
    BY <1>5 DEF EndInv, Done
  <2>1. kept <=> /\ span[c].decision # "drop"
                 /\ \/ span[c].decision = "sample"
                    \/ filters.deferred.enabled /\ filters.deferred.error /\ handleError(c) # "Ok"
                    \/ filters.deferred.enabled /\ filters.deferred.slow # 0
                          /\ now - span[c].start >= filters.deferred.slow
    BY DEF OnEnd, DeferredSampler, Ended
  <2>2. filters.deferred.enabled => span[c].decision # "drop"
    BY <1>4 DEF SpanInv
  <2>3. ended'[c] = r
    BY <1>3
  <2> HIDE DEF kept, body
  <2>4. Kept(c)'
    BY <1>1, <1>2, <2>1, <2>2, <2>3 DEF Kept
  <2>5. Reported(c)'
    <3> SUFFICES ASSUME IsError(outcome[c])
                 PROVE  /\ filters.noBody \/ body \in 1 .. MaxStringLength
                        /\ doFlowLog(c) \/ filters.mode = "disable"
                           \/ \E rule \in filters.exclude : rule.code \in {"", getErrCode(outcome[c])}
      BY <1>1, <1>2, <2>3 DEF Reported
    <3>1. filters.noBody \/ body \in 1 .. MaxStringLength
      <4>1. Message[c].body \in Nat \ {0} /\ MaxStringLength \in Nat \ {0} /\ SuffixLength \in 0 .. MaxStringLength
        OBVIOUS
      <4> QED
        BY <4>1 DEF body, needToTraceBody, fixStringTooLong
    <3>2. doFlowLog(c) \/ filters.mode = "disable"
          \/ \E rule \in filters.exclude : rule.code \in {"", getErrCode(outcome[c])}
      BY DEF doFlowLog, Excluded
    <3> QED
      BY <3>1, <3>2
  <2>6. Resolved(c)'
    <3>1. /\ "counter" \in meter[c].exemplars => CounterChosen(c)
          /\ "histogram" \in meter[c].exemplars => HistogramChosen(c)
      BY <1>1, <1>4 DEF MeterInv
    <3>2. "counter" \in meter[c].exemplars /\ meter[c].type = SpanType(c) => kept
      BY <2>1, <2>2, <3>1 DEF CounterChosen, handleError
    <3>3. "histogram" \in meter[c].exemplars /\ (filters.deferred.enabled => filters.deferred.slow # 0) => kept
      BY <2>1, <2>2, <3>1 DEF HistogramChosen
    <3> QED
      BY <1>1, <1>2, <2>3, <3>2, <3>3 DEF Resolved
  <2> QED
    BY <2>4, <2>5, <2>6
<1>8. "done" \in CallSteps \ {"idle"}
  BY DEF CallSteps
<1> QED
  BY <1>1, <1>3, <1>6, <1>7, <1>8, CallMoves DEF CallShape

LEMMA UnwindNext == ASSUME CallInv, NEW c \in Calls, Unwind(c) PROVE CallInv'
<1> USE DEF CallInv
<1> DEFINE kept == OnEnd(filters.deferred, Ended(c, "Unset"))
           r == [NotEnded EXCEPT !.kept = kept, !.status = "Unset"]
<1>1. /\ at[c] = "panicked" /\ at' = [at EXCEPT ![c] = "done"]
      /\ ended' = IF ~Traced(c) THEN ended ELSE [ended EXCEPT ![c] = r]
      /\ UNCHANGED <<filters, now, carried, span, meter, outcome>>
  BY DEF Unwind, Goto
<1>2. r.kept = kept /\ r.status = "Unset"
  BY DEF NotEnded
<1> HIDE DEF r
<1>3. /\ at'[c] = "done" /\ DOMAIN ended' = Calls
      /\ \A d \in Calls \ {c} : ended'[d] = ended[d]
      /\ Traced(c) => ended'[c] = r
  BY <1>1 DEF CallShape
<1>4. MeterInv(c) /\ SpanInv(c) /\ outcome[c].kind = "panic"
  BY <1>1 DEF MeterInv
<1>5. Traced(c)' = Traced(c)
  BY <1>1 DEF Traced
<1>6. MeterInv(c)'
  BY <1>1, <1>3, <1>4, <1>5 DEF MeterInv
<1>7. EndInv(c)'
  <2> SUFFICES ASSUME Traced(c) PROVE Kept(c)' /\ Reported(c)' /\ Resolved(c)'
    BY <1>5 DEF EndInv, Done
  <2>1. /\ span[c].decision # "drop"
        /\ span[c].decision = "sample" \/ (filters.deferred.enabled /\ filters.deferred.error)
        => kept
    BY DEF OnEnd, DeferredSampler, Ended
  <2>2. filters.deferred.enabled => span[c].decision # "drop"
    BY <1>4 DEF SpanInv
  <2> HIDE DEF kept
  <2>3. span'[c] = span[c] /\ filters' = filters /\ ended'[c].kept = kept
    BY <1>1, <1>2, <1>3
  <2>5. Kept(c)'
    <3>1. span[c].decision = "sample" => kept
      BY <2>1
    <3>2. filters.deferred.enabled /\ filters.deferred.error => kept
      BY <2>1, <2>2
    <3> QED
      BY <2>3, <3>1, <3>2 DEF Kept
  <2>4. Reported(c)' /\ Resolved(c)'
    BY <1>1, <1>2, <1>3, <1>4 DEF Reported, Resolved
  <2> QED
    BY <2>4, <2>5
<1>8. "done" \in CallSteps \ {"idle"}
  BY DEF CallSteps
<1> QED
  BY <1>1, <1>3, <1>6, <1>7, <1>8, CallMoves DEF CallShape

LEMMA CallInit == Init => CallInv
<1> SUFFICES ASSUME Init PROVE CallInv
  OBVIOUS
<1>1. /\ scenario \in Scenarios /\ filters \in scenario.setups /\ now = 0
      /\ at = [c \in Calls |-> "idle"] /\ carried \in [Calls -> scenario.remotes]
      /\ span = [c \in Calls |-> NoSpan] /\ meter = [c \in Calls |-> NoMeter]
      /\ outcome = [c \in Calls |-> [kind |-> "none", code |-> "0"]] /\ ended = [c \in Calls |-> NotEnded]
  BY DEF Init, InitCalls
<1>2. CallShape
  <2>1. carried \in [Calls -> SpanContext \X SpanContext] /\ filters.deferred.slow \in Int
    BY <1>1
  <2> QED
    BY <1>1, <2>1 DEF CallShape, CallSteps
<1>3. ASSUME NEW c \in Calls PROVE SpanInv(c) /\ MeterInv(c) /\ EndInv(c) /\ LinkInv(c)
  BY <1>1 DEF SpanInv, MeterInv, EndInv, LinkInv, Traced, Done, NoSpan, NoMeter
<1> QED
  BY <1>2, <1>3 DEF CallInv

LEMMA CallsNext == ASSUME CallInv, [Next]_requestVars PROVE CallInv'
<1>1. ASSUME UNCHANGED callVars PROVE CallInv'
  <2>1. CallShape' = CallShape
    BY <1>1 DEF CallShape, callVars
  <2>2. ASSUME NEW c \in Calls
        PROVE  SpanInv(c)' = SpanInv(c) /\ MeterInv(c)' = MeterInv(c) /\ LinkInv(c)' = LinkInv(c)
    BY <1>1 DEF SpanInv, MeterInv, CounterChosen, HistogramChosen, LinkInv, Traced, callVars
  <2>3. ASSUME NEW c \in Calls PROVE EndInv(c)' = EndInv(c)
    BY <1>1 DEF EndInv, Kept, Reported, Resolved, Done, Traced, callVars
  <2> QED
    BY <2>1, <2>2, <2>3 DEF CallInv
<1>2. CASE CallNext(scenario.outcomes, scenario.toggles)
  BY <1>2, TickNext, TraceFilterNext, MetricFilterNext, HandlerReturnsNext, HandledNext, FinishNext, UnwindNext
     DEF CallNext
<1> QED
  BY <1>1, <1>2 DEF Next, CallStep, ConfigStep, StreamStep, LogStep, requestVars

\* The state of every call, its span, its reporter and what was decided of it belong
\* together in every reachable state.
THEOREM CallsInductive == Spec => []CallInv
<1>1. CallInv /\ [Next]_requestVars => CallInv'
  BY CallsNext
<1> QED
  BY CallInit, <1>1, PTL DEF Spec

\* What an operator may rely on in the traces: failed and panicked calls kept and reported
\* as configured, linked calls in one trace, kept together.
THEOREM SpansAreKept == Spec => []SpansKept
<1>1. CallInv => SpansKept
  <2> SUFFICES ASSUME CallInv, NEW c \in Calls, Done(c)
               PROVE  /\ Kept(c) /\ Reported(c)
                      /\ Kind[c] = "server" /\ Caller[c] # "none" /\ Traced(Caller[c]) =>
                            /\ span[c].trace = span[Caller[c]].trace
                            /\ span[Caller[c]].decision = "sample" /\ ~filters.noParent => ended[c].kept
    BY DEF SpansKept, Kept, Reported
  <2>1. EndInv(c) /\ LinkInv(c)
    BY DEF CallInv
  <2> QED
    BY <2>1 DEF EndInv, LinkInv, Kept, Done
<1> QED
  BY <1>1, CallsInductive, PTL

\* The exemplars the reporters choose name traces that are stored.
THEOREM ExemplarsResolve == Spec => []ExemplarResolves
<1>1. CallInv => ExemplarResolves
  BY DEF CallInv, EndInv, Resolved, ExemplarResolves
<1> QED
  BY <1>1, CallsInductive, PTL

-----------------------------------------------------------------------------
(* Streams.                                                                *)

EndCodes == {"0", "error"}

\* A stream is counted as started before it ends, and what is handled is what was told.
StreamInv ==
    /\ stream \in [Streams -> {"idle", "open", "half", "closed"}]
    /\ answers \in [Streams -> [EndCodes -> Nat]] /\ handledStreams \in [EndCodes -> Nat]
    /\ IsFiniteSet(startedStreams)
    /\ \A s \in Streams : stream[s] # "idle" => s \in startedStreams
    /\ \A s \in Streams : answers[s]["0"] + answers[s]["error"] # 0 => s \in startedStreams
    /\ \A k \in EndCodes : IsFiniteSet(Answered(k)) /\ handledStreams[k] = Cardinality(Answered(k))

LEMMA StreamsInit == InitStreams => StreamInv
<1> SUFFICES ASSUME InitStreams PROVE StreamInv
  OBVIOUS
<1>1. ASSUME NEW k \in EndCodes PROVE Answered(k) = {}
  BY DEF InitStreams, Answered, EndCodes
<1>2. ASSUME NEW k \in EndCodes
      PROVE  IsFiniteSet(Answered(k)) /\ handledStreams[k] = Cardinality(Answered(k))
  BY <1>1, FS_EmptySet DEF InitStreams, EndCodes
<1> QED
  BY <1>2, FS_EmptySet DEF InitStreams, StreamInv, EndCodes

\* The user of a stream is told that it ended, and that is counted.
LEMMA AnswerCounted ==
    ASSUME StreamInv, NEW s \in Streams, NEW k \in EndCodes, HandledWith(k), Told(s, k),
           startedStreams' \in {startedStreams, startedStreams \cup {s}}, s \in startedStreams',
           NEW l \in {"half", "closed"}, stream' = [stream EXCEPT ![s] = l]
    PROVE  StreamInv'
<1> USE DEF StreamInv
<1>1. /\ answers' = [answers EXCEPT ![s][k] = @ + 1] /\ handledStreams' = [handledStreams EXCEPT ![k] = @ + 1]
      /\ answers' \in [Streams -> [EndCodes -> Nat]] /\ handledStreams' \in [EndCodes -> Nat]
  BY DEF Told, HandledWith
<1>2. /\ answers'[s][k] = answers[s][k] + 1
      /\ \A t \in Streams, j \in EndCodes : <<t, j>> # <<s, k>> => answers'[t][j] = answers[t][j]
  BY <1>1
<1>3. Answered(k)' = Answered(k) \cup {<<s, answers[s][k] + 1>>}
  <2>1. answers[s][k] \in Nat
    OBVIOUS
  <2>2. ASSUME NEW p \in Answered(k)' PROVE p \in Answered(k) \cup {<<s, answers[s][k] + 1>>}
    <3>1. PICK t \in Streams : p \in {t} \X (1 .. answers'[t][k])
      BY DEF Answered
    <3>2. CASE t # s
      BY <1>2, <3>1, <3>2 DEF Answered
    <3>3. CASE t = s
      <4>1. PICK n \in 1 .. answers[s][k] + 1 : p = <<s, n>>
        BY <1>2, <3>1, <3>3
      <4>2. n \in 1 .. answers[s][k] => p \in Answered(k)
        BY <4>1 DEF Answered
      <4> QED
        BY <2>1, <4>1, <4>2
    <3> QED
      BY <3>2, <3>3
  <2>3. ASSUME NEW p \in Answered(k) PROVE p \in Answered(k)'
    <3>1. PICK t \in Streams : p \in {t} \X (1 .. answers[t][k])
      BY DEF Answered
    <3>2. answers[t][k] \in Nat /\ answers'[t][k] \in {answers[t][k], answers[t][k] + 1}
      BY <1>2
    <3>3. 1 .. answers[t][k] \subseteq 1 .. answers'[t][k]
      BY <3>2
    <3>4. p \in {t} \X (1 .. answers'[t][k])
      BY <3>1, <3>3
    <3> QED
      BY <3>4 DEF Answered
  <2>4. <<s, answers[s][k] + 1>> \in Answered(k)'
    <3>1. <<s, answers[s][k] + 1>> \in {s} \X (1 .. answers'[s][k])
      BY <1>2, <2>1
    <3> QED
      BY <3>1 DEF Answered
  <2> QED
    BY <2>2, <2>3, <2>4
<1>4. <<s, answers[s][k] + 1>> \notin Answered(k)
  BY DEF Answered
<1>5. IsFiniteSet(Answered(k))' /\ handledStreams'[k] = Cardinality(Answered(k)')
  <2> DEFINE old == Answered(k)
             x == <<s, answers[s][k] + 1>>
  <2>1. Cardinality(Answered(k)') = Cardinality(Answered(k)) + 1 /\ IsFiniteSet(Answered(k)')
    <3>1. IsFiniteSet(old) /\ x \notin old /\ Answered(k)' = old \cup {x}
      BY <1>3, <1>4
    <3> HIDE DEF old, x
    <3>2. IsFiniteSet(old \cup {x}) /\ Cardinality(old \cup {x}) = Cardinality(old) + 1
      BY <3>1, FS_AddElement
    <3> QED
      BY <3>1, <3>2 DEF old
  <2> QED
    BY <1>1, <2>1
<1>6. ASSUME NEW j \in EndCodes, j # k
      PROVE  IsFiniteSet(Answered(j))' /\ handledStreams'[j] = Cardinality(Answered(j)')
  <2>1. Answered(j)' = Answered(j)
    BY <1>2, <1>6 DEF Answered
  <2> QED
    BY <1>1, <1>6, <2>1
<1>7. IsFiniteSet(startedStreams')
  <2>1. IsFiniteSet(startedStreams \cup {s})
    BY FS_AddElement
  <2> QED
    BY <2>1
<1>8. \A t \in Streams : answers'[t]["0"] + answers'[t]["error"] # 0 => t \in startedStreams'
  BY <1>2 DEF EndCodes
<1> QED
  BY <1>1, <1>5, <1>6, <1>7, <1>8

\* The other steps of a stream.
LEMMA StreamMoves ==
    ASSUME StreamInv, UNCHANGED <<answers, handledStreams>>,
           \/ UNCHANGED <<stream, startedStreams>>
           \/ \E s \in Streams, l \in {"open", "closed"} :
                 /\ startedStreams' \in {startedStreams, startedStreams \cup {s}} /\ s \in startedStreams'
                 /\ stream' = [stream EXCEPT ![s] = l]
    PROVE  StreamInv'
<1> USE DEF StreamInv
<1>1. ASSUME NEW k \in EndCodes PROVE Answered(k)' = Answered(k)
  BY DEF Answered
<1>2. IsFiniteSet(startedStreams')
  <2>1. ASSUME NEW s, startedStreams' = startedStreams \cup {s} PROVE IsFiniteSet(startedStreams')
    <3>1. IsFiniteSet(startedStreams \cup {s})
      BY FS_AddElement
    <3> QED
      BY <2>1, <3>1
  <2>2. startedStreams' = startedStreams => IsFiniteSet(startedStreams')
    OBVIOUS
  <2>3. startedStreams' = startedStreams \/ \E s : startedStreams' = startedStreams \cup {s}
    OBVIOUS
  <2> QED
    BY <2>1, <2>2, <2>3
<1>3. startedStreams \subseteq startedStreams'
  OBVIOUS
<1>4. /\ stream' \in [Streams -> {"idle", "open", "half", "closed"}]
      /\ \A s \in Streams : stream'[s] # "idle" => s \in startedStreams'
  OBVIOUS
<1> QED
  BY <1>1, <1>2, <1>3, <1>4

LEMMA StreamsNext == ASSUME StreamInv, [StreamNext]_streamVars PROVE StreamInv'
<1> USE DEF StreamInv
<1>1. CASE UNCHANGED streamVars
  BY <1>1, StreamMoves DEF streamVars
<1>2. ASSUME NEW s \in Streams, NEW answer \in {"ok", "EOF", "error"}, Create(s, answer) PROVE StreamInv'
  <2>1. CASE answer = "ok"
    BY <1>2, <2>1, StreamMoves DEF Create
  <2>2. CASE answer # "ok"
    <3> DEFINE k == IF answer = "EOF" THEN "0" ELSE "error"
    <3>1. /\ HandledWith(k) /\ Told(s, k) /\ k \in EndCodes
          /\ startedStreams' = startedStreams \cup {s} /\ stream' = [stream EXCEPT ![s] = "closed"]
      BY <1>2, <2>2 DEF Create, HandledEnd, EndCodes
    <3> HIDE DEF k
    <3> QED
      BY <3>1, AnswerCounted
  <2> QED
    BY <2>1, <2>2
<1>3. ASSUME NEW s \in Streams, NEW answer \in {"EOF", "error"}, RecvEnd(s, answer) PROVE StreamInv'
  <2> DEFINE k == IF answer = "EOF" THEN "0" ELSE "error"
  <2>1. /\ HandledWith(k) /\ Told(s, k) /\ k \in EndCodes
        /\ startedStreams' = startedStreams /\ s \in startedStreams /\ stream' = [stream EXCEPT ![s] = "half"]
    BY <1>3 DEF RecvEnd, HandledEnd, EndCodes
  <2> HIDE DEF k
  <2> QED
    BY <2>1, AnswerCounted
<1>4. ASSUME NEW s \in Streams, NEW k \in EndCodes, HandlerEnds(s, k) PROVE StreamInv'
  BY <1>4, AnswerCounted DEF HandlerEnds
<1>5. ASSUME NEW s \in Streams, Leave(s) \/ HandlerPanics(s) \/ Accept(s) PROVE StreamInv'
  BY <1>5, StreamMoves DEF Leave, HandlerPanics, Accept
<1>6. ASSUME NEW s \in Streams, NEW ok, NEW direction, SendMsg(s, ok) \/ RecvMessage(s) \/ ServeMessage(s, direction)
      PROVE  StreamInv'
  BY <1>6, StreamMoves DEF SendMsg, RecvMessage, ServeMessage
<1> QED
  BY <1>1, <1>2, <1>3, <1>4, <1>5, <1>6 DEF StreamNext, EndCodes

\* More streams handled than started: some user was told twice.
LEMMA StreamInvCounts == StreamInv => StreamsCounted
<1> SUFFICES ASSUME StreamInv, handledStreams["0"] + handledStreams["error"] > Cardinality(startedStreams),
                    \A s \in Streams : ~ (answers[s]["0"] + answers[s]["error"] > 1)
             PROVE  FALSE
  BY DEF StreamsCounted, StreamInv, EndCodes
<1> USE DEF StreamInv
<1> DEFINE U == Answered("0") \cup Answered("error")
           told == [p \in U |-> p[1]]
<1>1. /\ handledStreams["0"] = Cardinality(Answered("0")) /\ IsFiniteSet(Answered("0"))
      /\ handledStreams["error"] = Cardinality(Answered("error")) /\ IsFiniteSet(Answered("error"))
      /\ \A s \in Streams : answers[s]["0"] \in Nat /\ answers[s]["error"] \in Nat
  BY DEF EndCodes
<1>2. ASSUME NEW k \in EndCodes, NEW p \in Answered(k)
      PROVE  /\ p[1] \in Streams /\ p[2] \in 1 .. answers[p[1]][k] /\ p = <<p[1], p[2]>>
             /\ p[1] \in startedStreams
  <2>1. PICK s \in Streams : p \in {s} \X (1 .. answers[s][k])
    BY <1>2 DEF Answered
  <2>2. answers[s][k] # 0
    BY <1>1, <2>1 DEF EndCodes
  <2>3. answers[s]["0"] + answers[s]["error"] # 0
    BY <1>1, <2>2 DEF EndCodes
  <2> QED
    BY <2>1, <2>3
<1>3. ASSUME NEW p \in U, NEW q \in U, p[1] = q[1] PROVE p = q
  <2>1. PICK j \in EndCodes : p \in Answered(j)
    BY DEF EndCodes
  <2>2. PICK k \in EndCodes : q \in Answered(k)
    BY DEF EndCodes
  <2>3. /\ p[2] \in 1 .. answers[p[1]][j] /\ q[2] \in 1 .. answers[p[1]][k] /\ p[1] \in Streams
        /\ p = <<p[1], p[2]>> /\ q = <<q[1], q[2]>>
    BY <1>2, <1>3, <2>1, <2>2
  <2>4. p[2] = q[2]
    <3> DEFINE zeros == answers[p[1]]["0"]
               errors == answers[p[1]]["error"]
    <3>1. zeros \in Nat /\ errors \in Nat /\ ~ (zeros + errors > 1)
      BY <1>1, <2>3
    <3>2. /\ p[2] \in 1 .. zeros \/ p[2] \in 1 .. errors
          /\ q[2] \in 1 .. zeros \/ q[2] \in 1 .. errors
      BY <2>3 DEF EndCodes
    <3>3. \A m, n : (m \in 1 .. zeros \/ m \in 1 .. errors) /\ (n \in 1 .. zeros \/ n \in 1 .. errors)
                    => m = n
      <4> HIDE DEF zeros, errors
      <4>1. zeros <= 1 /\ errors <= 1
        BY <3>1
      <4>2. \A n \in Nat : n <= 1 => \A m \in 1 .. n : m = 1
        OBVIOUS
      <4>3. \A m : m \in 1 .. zeros \/ m \in 1 .. errors => m = 1
        BY <3>1, <4>1, <4>2
      <4> QED
        BY <4>3
    <3> HIDE DEF zeros, errors
    <3> QED
      BY <3>2, <3>3
  <2> QED
    BY <1>3, <2>3, <2>4
<1>4. Answered("0") \cap Answered("error") = {}
  <2> SUFFICES ASSUME NEW p \in Answered("0"), p \in Answered("error") PROVE FALSE
    OBVIOUS
  <2>1. p[1] \in Streams /\ p[2] \in 1 .. answers[p[1]]["0"] /\ p[2] \in 1 .. answers[p[1]]["error"]
    BY <1>2 DEF EndCodes
  <2> QED
    BY <1>1, <2>1
<1>5. IsFiniteSet(U) /\ Cardinality(U) = handledStreams["0"] + handledStreams["error"]
  <2>1. /\ IsFiniteSet(U)
        /\ Cardinality(U) = Cardinality(Answered("0")) + Cardinality(Answered("error"))
                             - Cardinality(Answered("0") \cap Answered("error"))
    BY <1>1, FS_Union
  <2>2. Cardinality(Answered("0") \cap Answered("error")) = 0
    BY <1>4, FS_EmptySet
  <2>3. Cardinality(Answered("0")) \in Nat /\ Cardinality(Answered("error")) \in Nat
    BY <1>1, FS_CardinalityType
  <2> QED
    BY <1>1, <2>1, <2>2, <2>3
<1>6. told \in [U -> startedStreams]
  BY <1>2 DEF EndCodes
<1>7. Cardinality(startedStreams) < Cardinality(U)
  <2>1. Cardinality(startedStreams) \in Nat /\ Cardinality(U) \in Nat
    BY <1>5, FS_CardinalityType
  <2> QED
    BY <1>5, <2>1
<1> HIDE DEF U
<1>8. \E p, q \in U : p # q /\ told[p] = told[q]
  <2> HIDE DEF told
  <2> QED
    BY <1>5, <1>6, <1>7, FS_PigeonHole
<1> QED
  BY <1>3, <1>8

\* The counters of started and of handled calls, and streams, agree as far as the
\* reporters see them end.
THEOREM CountersAgree == Spec => []StartedHandledAgree
<1>1. Init => StreamInv
  BY StreamsInit DEF Init
<1>2. StreamInv /\ [Next]_requestVars => StreamInv'
  BY StreamsNext DEF Next, CallStep, ConfigStep, StreamStep, LogStep, requestVars, streamVars
<1>3. StreamInv /\ CallInv => StartedHandledAgree
  BY StreamInvCounts DEF StartedHandledAgree, UnaryCounted, CallInv, MeterInv
<1> QED
  BY <1>1, <1>2, <1>3, CallsInductive, PTL DEF Spec
=============================================================================
