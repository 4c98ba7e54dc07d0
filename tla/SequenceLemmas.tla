--------------------------- MODULE SequenceLemmas ---------------------------
(***************************************************************************)
(* What the proofs about queues, batches, lists, names and sums need:      *)
(* the items of a sequence as a set; how moving an item from the head of   *)
(* one to the end of another, splitting a concatenation, removing or       *)
(* inserting an item changes the whole; induction over the naturals and    *)
(* over sequences, stated of sets; FlattenSeq; and sums over finite sets.  *)
(***************************************************************************)
EXTENDS Integers, Sequences, FiniteSets, SequencesExt, Functions, SequenceTheorems, FiniteSetTheorems,
        WellFoundedInduction, TLAPS

-----------------------------------------------------------------------------
(* Items as sets.                                                          *)

\* The empty sequence has no items.
LEMMA ToSetEmpty == ToSet(<<>>) = {}
  BY DEF ToSet

\* What is appended is an item.
LEMMA ToSetAppend ==
    ASSUME NEW S, NEW seq \in Seq(S), NEW x \in S
    PROVE  ToSet(Append(seq, x)) = ToSet(seq) \cup {x}
<1>1. ToSet(Append(seq, x)) \subseteq ToSet(seq) \cup {x}
  BY DEF ToSet
<1>2. ASSUME NEW n \in DOMAIN seq PROVE seq[n] \in ToSet(Append(seq, x))
  <2>1. Append(seq, x)[n] = seq[n] /\ n \in DOMAIN Append(seq, x)
    OBVIOUS
  <2> QED
    BY <2>1 DEF ToSet
<1>3. x \in ToSet(Append(seq, x))
  <2>1. Append(seq, x)[Len(seq) + 1] = x /\ Len(seq) + 1 \in DOMAIN Append(seq, x)
    OBVIOUS
  <2> QED
    BY <2>1 DEF ToSet
<1> QED
  BY <1>1, <1>2, <1>3 DEF ToSet

\* A concatenation has the items of both.
LEMMA ToSetConcat ==
    ASSUME NEW S, NEW s \in Seq(S), NEW t \in Seq(S)
    PROVE  ToSet(s \o t) = ToSet(s) \cup ToSet(t)
<1>1. ToSet(s \o t) \subseteq ToSet(s) \cup ToSet(t)
  BY DEF ToSet
<1>2. ASSUME NEW n \in DOMAIN s PROVE s[n] \in ToSet(s \o t)
  <2>1. (s \o t)[n] = s[n] /\ n \in DOMAIN (s \o t)
    OBVIOUS
  <2> QED
    BY <2>1 DEF ToSet
<1>3. ASSUME NEW n \in DOMAIN t PROVE t[n] \in ToSet(s \o t)
  <2>1. (s \o t)[Len(s) + n] = t[n] /\ Len(s) + n \in DOMAIN (s \o t)
    OBVIOUS
  <2> QED
    BY <2>1 DEF ToSet
<1> QED
  BY <1>1, <1>2, <1>3 DEF ToSet

\* The tail and the head have the items of the whole.
LEMMA ToSetTail ==
    ASSUME NEW S, NEW seq \in Seq(S), seq # <<>>
    PROVE  ToSet(seq) = {Head(seq)} \cup ToSet(Tail(seq))
<1>1. ASSUME NEW n \in DOMAIN seq, n # 1 PROVE seq[n] \in ToSet(Tail(seq))
  <2>1. n - 1 \in DOMAIN Tail(seq) /\ Tail(seq)[n - 1] = seq[n]
    BY <1>1
  <2> QED
    BY <2>1 DEF ToSet
<1>2. ASSUME NEW n \in DOMAIN Tail(seq) PROVE Tail(seq)[n] \in ToSet(seq)
  <2>1. n + 1 \in DOMAIN seq /\ Tail(seq)[n] = seq[n + 1]
    OBVIOUS
  <2> QED
    BY <2>1 DEF ToSet
<1>3. Head(seq) = seq[1] /\ 1 \in DOMAIN seq
  OBVIOUS
<1> QED
  BY <1>1, <1>2, <1>3 DEF ToSet

-----------------------------------------------------------------------------
(* Moving and splitting.                                                   *)

\* The head of t moves to the end of s, and the whole stays.
LEMMA MoveHead ==
    ASSUME NEW S, NEW s \in Seq(S), NEW t \in Seq(S), t # <<>>
    PROVE  Append(s, Head(t)) \o Tail(t) = s \o t
<1> DEFINE l == Append(s, Head(t)) \o Tail(t)
<1>1. l \in Seq(S) /\ s \o t \in Seq(S) /\ Len(l) = Len(s \o t)
  OBVIOUS
<1>2. ASSUME NEW i \in 1 .. Len(l) PROVE l[i] = (s \o t)[i]
  OBVIOUS
<1> QED
  BY <1>1, <1>2, SeqEqual

\* An item appended to t is appended to the whole.
LEMMA ConcatAppend ==
    ASSUME NEW S, NEW s \in Seq(S), NEW t \in Seq(S), NEW x \in S
    PROVE  s \o Append(t, x) = Append(s \o t, x)
<1>1. /\ s \o Append(t, x) \in Seq(S) /\ Append(s \o t, x) \in Seq(S)
      /\ Len(s \o Append(t, x)) = Len(Append(s \o t, x))
  OBVIOUS
<1>2. ASSUME NEW i \in 1 .. Len(s \o Append(t, x))
      PROVE  (s \o Append(t, x))[i] = Append(s \o t, x)[i]
  OBVIOUS
<1> QED
  BY <1>1, <1>2, SeqEqual

\* Taking away the first Len(s) items of the whole leaves t.
LEMMA SplitConcat ==
    ASSUME NEW S, NEW s \in Seq(S), NEW t \in Seq(S)
    PROVE  /\ SubSeq(s \o t, 1, Len(s)) = s
           /\ SubSeq(s \o t, Len(s) + 1, Len(s \o t)) = t
<1>1. s \o t \in Seq(S) /\ Len(s \o t) = Len(s) + Len(t)
  OBVIOUS
<1>2. SubSeq(s \o t, 1, Len(s)) = s
  <2>1. /\ SubSeq(s \o t, 1, Len(s)) \in Seq(S)
        /\ Len(SubSeq(s \o t, 1, Len(s))) = Len(s)
        /\ \A i \in 1 .. Len(s) : SubSeq(s \o t, 1, Len(s))[i] = (s \o t)[i]
    BY <1>1
  <2>2. \A i \in 1 .. Len(s) : (s \o t)[i] = s[i]
    OBVIOUS
  <2> QED
    BY <2>1, <2>2, SeqEqual
<1>3. SubSeq(s \o t, Len(s) + 1, Len(s \o t)) = t
  <2> DEFINE r == SubSeq(s \o t, Len(s) + 1, Len(s \o t))
  <2>1. /\ r \in Seq(S) /\ Len(r) = Len(t)
        /\ \A i \in 1 .. Len(t) : r[i] = (s \o t)[Len(s) + i]
    BY <1>1
  <2>2. \A i \in 1 .. Len(t) : (s \o t)[Len(s) + i] = t[i]
    OBVIOUS
  <2> HIDE DEF r
  <2> QED
    BY <2>1, <2>2, SeqEqual
<1> QED
  BY <1>2, <1>3

\* What is behind the first n items.
LEMMA RestOf ==
    ASSUME NEW S, NEW s \in Seq(S), NEW n \in 0 .. Len(s)
    PROVE  SubSeq(s, n + 1, Len(s)) \in Seq(S) /\ Len(SubSeq(s, n + 1, Len(s))) = Len(s) - n
  OBVIOUS

\* Writing behind the first k items of a list.
LEMMA Overwrite ==
    ASSUME NEW S, NEW s \in Seq(S), NEW k \in 0 .. Len(s), NEW t \in Seq(S), NEW r \in Seq(S)
    PROVE  /\ SubSeq(s, 1, k) \o t \o r \in Seq(S)
           /\ Len(SubSeq(s, 1, k) \o t \o r) = k + Len(t) + Len(r)
           /\ \A m \in 0 .. k : SubSeq(SubSeq(s, 1, k) \o t \o r, 1, m) = SubSeq(s, 1, m)
<1> DEFINE front == SubSeq(s, 1, k)
           a == front \o t
           u == a \o r
<1>1. front \in Seq(S) /\ Len(front) = k /\ \A i \in 1 .. k : front[i] = s[i]
  OBVIOUS
<1> HIDE DEF front
<1>2. a \in Seq(S) /\ Len(a) = k + Len(t) /\ \A i \in 1 .. k : a[i] = s[i]
  <2>1. a \in Seq(S) /\ Len(a) = Len(front) + Len(t)
        /\ \A i \in 1 .. Len(front) + Len(t) : a[i] = IF i <= Len(front) THEN front[i] ELSE t[i - Len(front)]
    BY <1>1, ConcatProperties
  <2>2. Len(t) \in Nat
    OBVIOUS
  <2> HIDE DEF a
  <2>3. k \in Nat /\ Len(a) = k + Len(t)
    BY <1>1, <2>1
  <2>4. ASSUME NEW i \in 1 .. k PROVE a[i] = s[i]
    <3>1. i \in 1 .. Len(front) + Len(t) /\ i <= Len(front)
      BY <1>1, <2>2, <2>3
    <3> QED
      BY <1>1, <2>1, <3>1
  <2> QED
    BY <2>1, <2>3, <2>4
<1> HIDE DEF a
<1>3. /\ u \in Seq(S) /\ Len(u) = k + Len(t) + Len(r)
      /\ \A i \in 1 .. k : u[i] = s[i]
  <2>1. u \in Seq(S) /\ Len(u) = Len(a) + Len(r)
        /\ \A i \in 1 .. Len(a) + Len(r) : u[i] = IF i <= Len(a) THEN a[i] ELSE r[i - Len(a)]
    <3>1. a \in Seq(S)
      BY <1>2
    <3> QED
      BY <3>1, ConcatProperties, Zenon
  <2>2. Len(t) \in Nat /\ Len(r) \in Nat /\ k \in Nat
    OBVIOUS
  <2> HIDE DEF u
  <2>3. ASSUME NEW i \in 1 .. k PROVE u[i] = s[i]
    <3>1. i \in 1 .. Len(a) + Len(r) /\ i <= Len(a)
      BY <1>2, <2>2
    <3> QED
      BY <1>2, <2>1, <3>1
  <2>4. Len(u) = k + Len(t) + Len(r)
    BY <1>2, <2>1, <2>2
  <2> QED
    BY <2>1, <2>3, <2>4
<1> HIDE DEF u
<1>4. ASSUME NEW m \in 0 .. k PROVE SubSeq(u, 1, m) = SubSeq(s, 1, m)
  <2>1. /\ SubSeq(u, 1, m) \in Seq(S) /\ Len(SubSeq(u, 1, m)) = m
        /\ \A i \in 1 .. m : SubSeq(u, 1, m)[i] = u[i]
    BY <1>3
  <2>2. /\ SubSeq(s, 1, m) \in Seq(S) /\ Len(SubSeq(s, 1, m)) = m
        /\ \A i \in 1 .. m : SubSeq(s, 1, m)[i] = s[i]
    OBVIOUS
  <2>3. \A i \in 1 .. m : SubSeq(u, 1, m)[i] = SubSeq(s, 1, m)[i]
    BY <1>3, <2>1, <2>2
  <2> QED
    BY <2>1, <2>2, <2>3, SeqEqual
<1> QED
  BY <1>3, <1>4 DEF u, a, front

\* What is left when one item is removed: those before it, and those after it one earlier.
LEMMA RemoveAtItems ==
    ASSUME NEW S, NEW seq \in Seq(S), NEW n \in 1 .. Len(seq)
    PROVE  /\ RemoveAt(seq, n) \in Seq(S)
           /\ Len(RemoveAt(seq, n)) = Len(seq) - 1
           /\ \A i \in 1 .. Len(seq) - 1 :
                  RemoveAt(seq, n)[i] = IF i < n THEN seq[i] ELSE seq[i + 1]
<1> DEFINE before == SubSeq(seq, 1, n - 1)
           after == SubSeq(seq, n + 1, Len(seq))
<1>1. /\ before \in Seq(S) /\ Len(before) = n - 1
      /\ \A i \in 1 .. n - 1 : before[i] = seq[i]
  OBVIOUS
<1>2. /\ after \in Seq(S) /\ Len(after) = Len(seq) - n
      /\ \A i \in 1 .. Len(seq) - n : after[i] = seq[n + i]
  OBVIOUS
<1>3. RemoveAt(seq, n) = before \o after
  BY DEF RemoveAt
<1> HIDE DEF before, after
<1>4. /\ RemoveAt(seq, n) \in Seq(S)
      /\ Len(RemoveAt(seq, n)) = Len(seq) - 1
  BY <1>1, <1>2, <1>3
<1>5. ASSUME NEW i \in 1 .. Len(seq) - 1
      PROVE  RemoveAt(seq, n)[i] = IF i < n THEN seq[i] ELSE seq[i + 1]
  <2>1. CASE i < n
    BY <1>1, <1>2, <1>3, <2>1
  <2>2. CASE ~ (i < n)
    <3>1. i - Len(before) \in 1 .. Len(seq) - n /\ n + (i - Len(before)) = i + 1
      BY <1>1, <2>2
    <3>2. (before \o after)[i] = after[i - Len(before)]
      BY <1>1, <1>2, <2>2, <3>1
    <3> QED
      BY <1>2, <1>3, <2>2, <3>1, <3>2
  <2> QED
    BY <2>1, <2>2
<1> QED
  BY <1>4, <1>5

\* The items of a sequence into which one has been inserted.
LEMMA InsertAtItems ==
    ASSUME NEW S, NEW seq \in Seq(S), NEW n \in 1 .. Len(seq) + 1, NEW x \in S
    PROVE  /\ InsertAt(seq, n, x) \in Seq(S)
           /\ Len(InsertAt(seq, n, x)) = Len(seq) + 1
           /\ \A i \in 1 .. Len(seq) + 1 :
                  InsertAt(seq, n, x)[i] = IF i < n THEN seq[i] ELSE IF i = n THEN x ELSE seq[i - 1]
<1> DEFINE before == Append(SubSeq(seq, 1, n - 1), x)
           after == SubSeq(seq, n, Len(seq))
<1>1. /\ before \in Seq(S) /\ Len(before) = n
      /\ \A i \in 1 .. n : before[i] = IF i < n THEN seq[i] ELSE x
  OBVIOUS
<1>2. /\ after \in Seq(S) /\ Len(after) = Len(seq) + 1 - n
      /\ \A i \in 1 .. Len(seq) + 1 - n : after[i] = seq[n + i - 1]
  OBVIOUS
<1>3. InsertAt(seq, n, x) = before \o after
  <2>1. SubSeq(seq, 1, n - 1) \in Seq(S)
    OBVIOUS
  <2>2. SubSeq(seq, 1, n - 1) \o <<x>> = before
    BY <2>1, AppendIsConcat
  <2> QED
    BY <2>2 DEF InsertAt
<1> HIDE DEF before, after
<1>4. /\ InsertAt(seq, n, x) \in Seq(S)
      /\ Len(InsertAt(seq, n, x)) = Len(seq) + 1
  BY <1>1, <1>2, <1>3
<1>5. ASSUME NEW i \in 1 .. Len(seq) + 1
      PROVE  InsertAt(seq, n, x)[i] = IF i < n THEN seq[i] ELSE IF i = n THEN x ELSE seq[i - 1]
  <2>1. CASE i <= n
    BY <1>1, <1>2, <1>3, <2>1
  <2>2. CASE i > n
    <3>1. i - Len(before) \in 1 .. Len(seq) + 1 - n /\ n + (i - Len(before)) - 1 = i - 1
      BY <1>1, <2>2
    <3>2. (before \o after)[i] = after[i - Len(before)]
      BY <1>1, <1>2, <2>2, <3>1
    <3> QED
      BY <1>2, <1>3, <2>2, <3>1, <3>2
  <2> QED
    BY <2>1, <2>2
<1> QED
  BY <1>4, <1>5

-----------------------------------------------------------------------------
(* Induction.                                                              *)

\* A set of naturals that is not empty has a least element: the naturals are well founded.
LEMMA LeastElement ==
    ASSUME NEW T \in SUBSET Nat, T # {}
    PROVE  \E x \in T : \A y \in T : x <= y
<1> DEFINE R == {p \in Nat \X Nat : p[1] < p[2]}
<1>1. IsWellFoundedOn(R, Nat)
  BY NatLessThanWellFounded, Zenon DEF OpToRel
<1> HIDE DEF R
<1>2. PICK x \in T : \A y \in T : ~ (<<y, x>> \in R)
  BY <1>1, WFMin
<1>3. ASSUME NEW y \in T, y < x PROVE <<y, x>> \in R
  <2>1. <<y, x>> \in Nat \X Nat /\ <<y, x>>[1] = y /\ <<y, x>>[2] = x
    OBVIOUS
  <2> QED
    BY <1>3, <2>1 DEF R
<1>4. ASSUME NEW y \in T PROVE x <= y
  <2>1. ~ (y < x)
    BY <1>2, <1>3
  <2> QED
    BY <2>1
<1> QED
  BY <1>4

\* A set of naturals with a bound has a greatest element.
LEMMA GreatestElement ==
    ASSUME NEW T \in SUBSET Nat, T # {}, NEW b \in Nat, \A x \in T : x <= b
    PROVE  Max(T) \in T /\ \A y \in T : y <= Max(T)
<1> DEFINE D == {n \in Nat : b - n \in T}
<1>1. D # {} /\ D \in SUBSET Nat
  <2>1. PICK x \in T : TRUE
    OBVIOUS
  <2>2. b - x \in Nat /\ b - (b - x) = x
    OBVIOUS
  <2> QED
    BY <2>2
<1>2. PICK n \in D : \A m \in D : n <= m
  <2> HIDE DEF D
  <2> QED
    BY <1>1, LeastElement
<1>3. b - n \in T /\ \A y \in T : b - n >= y
  <2>1. ASSUME NEW y \in T PROVE b - y \in D
    <3>1. b - y \in Nat /\ b - (b - y) = y
      OBVIOUS
    <3> QED
      BY <3>1
  <2> QED
    BY <1>2, <2>1
<1>4. Max(T) \in T /\ \A y \in T : Max(T) >= y
  <2> DEFINE P(x) == \A y \in T : x >= y
  <2>1. \E x \in T : P(x)
    BY <1>3
  <2>2. Max(T) = CHOOSE x \in T : P(x)
    BY DEF Max
  <2> HIDE DEF P
  <2>3. Max(T) \in T /\ P(Max(T))
    BY <2>1, <2>2
  <2> QED
    BY <2>3 DEF P
<1> QED
  BY <1>4

\* Induction over the naturals and over sequences, stated of a set instead of a predicate:
\* a theorem with an operator parameter cannot be used here.
LEMMA NatSetInduction ==
    ASSUME NEW T \in SUBSET Nat, 0 \in T, \A n \in T : n + 1 \in T
    PROVE  T = Nat
<1> SUFFICES ASSUME T # Nat PROVE FALSE
  OBVIOUS
<1>1. PICK x \in Nat \ T : \A y \in Nat \ T : x <= y
  BY LeastElement
<1>2. x # 0 /\ x - 1 \in Nat /\ x - 1 \in T
  BY <1>1
<1> QED
  BY <1>1, <1>2

\* Induction over sequences that grow at the end.
LEMMA SeqSetInduction ==
    ASSUME NEW S, NEW T \in SUBSET Seq(S), <<>> \in T,
           \A s \in T, x \in S : Append(s, x) \in T
    PROVE  T = Seq(S)
<1> DEFINE N == {n \in Nat : \A s \in Seq(S) : Len(s) = n => s \in T}
<1>1. 0 \in N
  BY EmptySeq
<1>2. ASSUME NEW n \in N PROVE n + 1 \in N
  <2> SUFFICES ASSUME NEW s \in Seq(S), Len(s) = n + 1 PROVE s \in T
    BY <1>2
  <2> DEFINE r == SubSeq(s, 1, n)
  <2>1. r \in Seq(S) /\ Len(r) = n /\ s[n + 1] \in S
    OBVIOUS
  <2>2. s = Append(r, s[n + 1])
    <3>1. Append(r, s[n + 1]) \in Seq(S) /\ Len(Append(r, s[n + 1])) = Len(s)
      <4>1. Len(s) = n + 1
        OBVIOUS
      <4> HIDE DEF r, N
      <4>2. Append(r, s[n + 1]) \in Seq(S) /\ Len(Append(r, s[n + 1])) = Len(r) + 1
        BY <2>1, AppendProperties
      <4> QED
        BY <2>1, <4>1, <4>2
    <3>2. \A i \in 1 .. n : r[i] = s[i]
      OBVIOUS
    <3>3. \A i \in 1 .. Len(s) : Append(r, s[n + 1])[i] = s[i]
      <4>1. n \in Nat /\ Len(s) = n + 1
        BY <1>2
      <4>2. \A i \in 1 .. n : Append(r, s[n + 1])[i] = r[i]
        BY <2>1, AppendProperties
      <4> HIDE DEF r, N
      <4>3. Append(r, s[n + 1])[Len(r) + 1] = s[n + 1]
        BY <2>1, AppendProperties
      <4>4. Append(r, s[n + 1])[n + 1] = s[n + 1]
        BY <2>1, <4>3
      <4>5. \A i \in 1 .. Len(s) : i \in 1 .. n \/ i = n + 1
        BY <4>1
      <4> QED
        BY <3>2, <4>2, <4>4, <4>5
    <3> QED
      BY <3>1, <3>3, SeqEqual
  <2>3. r \in T
    BY <2>1
  <2> HIDE DEF r
  <2> QED
    BY <2>1, <2>2, <2>3
<1> HIDE DEF N
<1>3. N = Nat
  <2>1. N \subseteq Nat
    BY DEF N
  <2> QED
    BY <1>1, <1>2, <2>1, NatSetInduction
<1>4. ASSUME NEW s \in Seq(S) PROVE s \in T
  <2>1. Len(s) \in N
    BY <1>3
  <2> QED
    BY <2>1 DEF N
<1> QED
  BY <1>4

-----------------------------------------------------------------------------
(* Folds.                                                                  *)

\* f has the values of the recursion of FoldLeft over the first n items, when g[i] is
\* what the i-th item does to a value.
FoldsWith(g, base, n, f) ==
    f = [s \in SUBSET (1 .. n) |-> IF s = {} THEN base ELSE g[Max(s)][f[s \ {Max(s)}]]]

\* The last of a set of numbers up to n.
LEMMA LastUpTo ==
    ASSUME NEW n \in Nat, NEW s \in SUBSET (1 .. n), s # {}
    PROVE  Max(s) \in s /\ \A x \in s : x <= Max(s)
<1>1. s \in SUBSET Nat /\ \A x \in s : x <= n
  OBVIOUS
<1> QED
  BY <1>1, GreatestElement

LEMMA MaxOf ==
    ASSUME NEW n \in Nat, NEW s \in SUBSET (1 .. n), NEW m \in s, \A x \in s : x <= m
    PROVE  Max(s) = m
<1>1. Max(s) \in s /\ \A x \in s : x <= Max(s)
  BY LastUpTo
<1>2. m \in Nat /\ Max(s) \in Nat /\ m <= Max(s) /\ Max(s) <= m
  <2>1. \A x \in s : x \in Nat
    OBVIOUS
  <2> QED
    BY <1>1, <2>1
<1> HIDE DEF Max
<1> QED
  BY <1>2

\* The values of the recursion.
FoldValues(g, base, n, f) ==
    /\ f[{}] = base
    /\ \A s \in SUBSET (1 .. n) : s # {} => f[s] = g[Max(s)][f[s \ {Max(s)}]]

LEMMA FoldsValue ==
    ASSUME NEW g, NEW base, NEW n, NEW f, FoldsWith(g, base, n, f)
    PROVE  FoldValues(g, base, n, f)
<1> DEFINE body(h, s) == IF s = {} THEN base ELSE g[Max(s)][h[s \ {Max(s)}]]
<1>1. \A s \in SUBSET (1 .. n) : f[s] = body(f, s)
  <2>1. f = [s \in SUBSET (1 .. n) |-> body(f, s)]
    BY DEF FoldsWith
  <2> HIDE DEF body
  <2> QED
    BY <2>1
<1>2. {} \in SUBSET (1 .. n)
  OBVIOUS
<1> QED
  BY <1>1, <1>2 DEF FoldValues

\* A function over the subsets of the first n numbers, along the numbers in their order.
Chained(n, base, b, f) == f = [s \in SUBSET (1 .. n) |-> IF s = {} THEN base ELSE b[s]]
Chains(n, base, b, f) ==
    /\ f[1 .. 0] = base
    /\ \A m \in 1 .. n : f[1 .. m] = b[1 .. m] /\ Max(1 .. m) = m /\ (1 .. m) \ {m} = 1 .. m - 1

LEMMA InOrder ==
    ASSUME NEW n \in Nat, NEW base, NEW b, NEW f, Chained(n, base, b, f)
    PROVE  Chains(n, base, b, f)
<1>1. ASSUME NEW m \in 1 .. n
      PROVE  f[1 .. m] = b[1 .. m] /\ Max(1 .. m) = m /\ (1 .. m) \ {m} = 1 .. m - 1
  <2>1. PICK s : s = 1 .. m
    OBVIOUS
  <2>2. s \in SUBSET (1 .. n) /\ m \in s /\ \A x \in s : x <= m
    BY <2>1
  <2>3. Max(s) = m
    BY <2>2, MaxOf
  <2>4. s \ {m} = 1 .. m - 1
    BY <2>1
  <2>5. f[s] = b[s]
    BY <2>2 DEF Chained
  <2> QED
    BY <2>1, <2>3, <2>4, <2>5
<1>2. PICK s : s = 1 .. 0
  OBVIOUS
<1>3. s = {} /\ s \in SUBSET (1 .. n)
  BY <1>2
<1>4. f[s] = base
  BY <1>3 DEF Chained
<1> QED
  BY <1>1, <1>2, <1>4 DEF Chains

\* What holds of the values it has on the way, when each item takes V to V.
FoldSteps(V, g, n, base, st) ==
    /\ st \in [0 .. n -> V] /\ st[0] = base
    /\ \A m \in 1 .. n : st[m] = g[m][st[m - 1]]

Follows(V, g, n, b, f) ==
    \A s \in SUBSET (1 .. n) : s # {} /\ f[s \ {Max(s)}] \in V => b[s] = g[Max(s)][f[s \ {Max(s)}]]

LEMMA ChainSteps ==
    ASSUME NEW V, NEW base \in V, NEW n \in Nat, NEW g \in [1 .. n -> [V -> V]], NEW b, NEW f,
           Chained(n, base, b, f), Follows(V, g, n, b, f)
    PROVE  \E st : FoldSteps(V, g, n, base, st) /\ st[n] = f[1 .. n]
<1>1. Chains(n, base, b, f)
  BY InOrder
<1> DEFINE N == {m \in Nat : m <= n => f[1 .. m] \in V}
<1>2. ASSUME NEW m \in 1 .. n, f[1 .. m - 1] \in V
      PROVE  f[1 .. m] = g[m][f[1 .. m - 1]] /\ f[1 .. m] \in V
  <2>1. PICK s : s = 1 .. m
    OBVIOUS
  <2>2. s \in SUBSET (1 .. n) /\ m \in s
    BY <2>1
  <2>3. f[s] = b[s] /\ Max(s) = m /\ s \ {m} = 1 .. m - 1
    BY <1>1, <2>1 DEF Chains
  <2>4. f[s \ {Max(s)}] \in V
    BY <1>2, <2>3
  <2>5. b[s] = g[Max(s)][f[s \ {Max(s)}]]
    BY <2>2, <2>4 DEF Follows
  <2>6. f[1 .. m] = g[m][f[1 .. m - 1]]
    BY <2>1, <2>3, <2>5
  <2> QED
    BY <1>2, <2>6
<1>3. 0 \in N
  BY <1>1 DEF Chains
<1>4. ASSUME NEW m \in N PROVE m + 1 \in N
  <2>1. m \in Nat /\ m + 1 \in Nat
    OBVIOUS
  <2> SUFFICES ASSUME m + 1 <= n PROVE f[1 .. m + 1] \in V
    BY <2>1
  <2>2. m + 1 \in 1 .. n /\ (m + 1) - 1 = m /\ f[1 .. m] \in V
    BY <2>1
  <2> HIDE DEF N
  <2>3. PICK l \in 1 .. n : l = m + 1
    BY <2>2
  <2>4. f[1 .. l - 1] \in V
    BY <2>2, <2>3
  <2>5. f[1 .. l] \in V
    BY <1>2, <2>4
  <2> QED
    BY <2>3, <2>5
<1> HIDE DEF N
<1>5. N = Nat
  <2>1. N \in SUBSET Nat
    BY DEF N
  <2> QED
    BY <1>3, <1>4, <2>1, NatSetInduction
<1>6. \A m \in 0 .. n : f[1 .. m] \in V
  BY <1>5 DEF N
<1>7. PICK st : st = [m \in 0 .. n |-> f[1 .. m]]
  OBVIOUS
<1>8. st \in [0 .. n -> V] /\ st[0] = base /\ st[n] = f[1 .. n]
  BY <1>1, <1>6, <1>7 DEF Chains
<1>9. ASSUME NEW m \in 1 .. n PROVE st[m] = g[m][st[m - 1]]
  <2>1. m - 1 \in 0 .. n /\ m \in 0 .. n
    OBVIOUS
  <2>2. f[1 .. m - 1] \in V
    BY <1>6, <2>1
  <2>3. f[1 .. m] = g[m][f[1 .. m - 1]]
    BY <1>2, <2>2
  <2> QED
    BY <1>7, <2>1, <2>3
<1> QED
  BY <1>8, <1>9 DEF FoldSteps

\* The recursion has a function.
LEMMA FoldsExist ==
    ASSUME NEW V, NEW base \in V, NEW k \in Nat, NEW g \in [1 .. k -> [V -> V]]
    PROVE  \E f \in [SUBSET (1 .. k) -> V] : FoldsWith(g, base, k, f)
<1> DEFINE N == {n \in Nat : n <= k => \E f \in [SUBSET (1 .. n) -> V] : FoldsWith(g, base, n, f)}
<1>1. 0 \in N
  <2>1. PICK f : f = [s \in SUBSET (1 .. 0) |-> base]
    OBVIOUS
  <2>2. f \in [SUBSET (1 .. 0) -> V] /\ \A s \in SUBSET (1 .. 0) : s = {}
    BY <2>1
  <2>3. f = [s \in SUBSET (1 .. 0) |-> IF s = {} THEN base ELSE g[Max(s)][f[s \ {Max(s)}]]]
    BY <2>1, <2>2
  <2> QED
    BY <2>2, <2>3 DEF FoldsWith
<1>2. ASSUME NEW n \in N PROVE n + 1 \in N
  <2>0. n \in Nat /\ n + 1 \in Nat
    OBVIOUS
  <2> SUFFICES ASSUME n + 1 <= k
               PROVE  \E f \in [SUBSET (1 .. n + 1) -> V] : FoldsWith(g, base, n + 1, f)
    BY <2>0
  <2>1. n + 1 \in 1 .. k /\ n <= k
    BY <2>0
  <2>2. PICK f \in [SUBSET (1 .. n) -> V] : FoldsWith(g, base, n, f)
    BY <2>1
  <2> HIDE DEF N
  <2>3. PICK l \in [V -> V] : l = g[n + 1]
    BY <2>1
  <2>4. PICK m : m = n + 1
    OBVIOUS
  <2>5. PICK h : h = [s \in SUBSET (1 .. m) |-> IF m \in s THEN l[f[s \ {m}]] ELSE f[s]]
    OBVIOUS
  <2>6. ASSUME NEW s \in SUBSET (1 .. m)
        PROVE  /\ m \in s => Max(s) = m /\ s \ {m} \in SUBSET (1 .. n)
               /\ m \notin s => s \in SUBSET (1 .. n)
    <3>1. m \in Nat /\ \A x \in s : x \in Nat /\ x <= m
      BY <2>0, <2>4
    <3>2. m \in s => Max(s) = m
      BY <3>1, MaxOf
    <3>3. \A x \in s : x # m => x \in 1 .. n
      BY <2>0, <2>4
    <3> QED
      BY <3>2, <3>3
  <2>7. \A s \in SUBSET (1 .. n) : s \in SUBSET (1 .. m) /\ m \notin s
    BY <2>0, <2>4
  <2>8. \A s \in SUBSET (1 .. m) : h[s] = IF m \in s THEN l[f[s \ {m}]] ELSE f[s]
    BY <2>5
  <2>9. h \in [SUBSET (1 .. m) -> V]
    <3>1. \A s \in SUBSET (1 .. m) : h[s] \in V
      BY <2>6, <2>8
    <3> QED
      BY <2>5, <3>1
  <2>10. \A s \in SUBSET (1 .. n) : h[s] = f[s]
    BY <2>7, <2>8
  <2>11. /\ f[{}] = base
         /\ \A s \in SUBSET (1 .. n) : s # {} => f[s] = g[Max(s)][f[s \ {Max(s)}]]
    <3>1. FoldsWith(g, base, n, f)
      BY <2>2
    <3>2. FoldValues(g, base, n, f)
      BY <3>1, FoldsValue
    <3> QED
      BY <3>2 DEF FoldValues
  <2>12. ASSUME NEW s \in SUBSET (1 .. m)
         PROVE  h[s] = IF s = {} THEN base ELSE g[Max(s)][h[s \ {Max(s)}]]
    <3>1. CASE m \in s
      <4>1. Max(s) = m /\ s \ {m} \in SUBSET (1 .. n)
        BY <2>6, <3>1
      <4>2. h[s \ {m}] = f[s \ {m}]
        BY <2>10, <4>1
      <4>3. h[s] = l[f[s \ {m}]]
        BY <2>8, <3>1
      <4>4. g[Max(s)] = l
        BY <2>3, <2>4, <4>1
      <4> QED
        BY <3>1, <4>1, <4>2, <4>3, <4>4
    <3>2. CASE m \notin s
      <4>1. s \in SUBSET (1 .. n) /\ s \ {Max(s)} \in SUBSET (1 .. n)
        BY <2>6, <3>2
      <4>2. h[s] = f[s] /\ h[s \ {Max(s)}] = f[s \ {Max(s)}]
        BY <2>10, <4>1
      <4>3. s = {} => h[s] = base
        BY <2>11, <4>2
      <4>4. s # {} => f[s] = g[Max(s)][f[s \ {Max(s)}]]
        BY <2>11, <4>1
      <4> QED
        BY <4>2, <4>3, <4>4
    <3> QED
      BY <3>1, <3>2
  <2>13. h = [s \in SUBSET (1 .. m) |-> IF s = {} THEN base ELSE g[Max(s)][h[s \ {Max(s)}]]]
    <3>1. PICK b : b = [s \in SUBSET (1 .. m) |-> IF s = {} THEN base ELSE g[Max(s)][h[s \ {Max(s)}]]]
      OBVIOUS
    <3>2. \A s \in SUBSET (1 .. m) : b[s] = h[s]
      BY <2>12, <3>1
    <3>3. h = b
      BY <2>9, <3>1, <3>2
    <3> QED
      BY <3>1, <3>3
  <2> QED
    BY <2>4, <2>9, <2>13 DEF FoldsWith
<1> HIDE DEF N
<1>3. N = Nat
  <2>1. N \in SUBSET Nat
    BY DEF N
  <2> QED
    BY <1>1, <1>2, <2>1, NatSetInduction
<1>4. k \in N /\ k <= k
  BY <1>3
<1> QED
  BY <1>4 DEF N

-----------------------------------------------------------------------------
(* Flattening.                                                             *)

\* f has the values of the recursion of FlattenSeq.
Flattens(seqs, f) == f = [i \in 1 .. Len(seqs) |-> IF i = 1 THEN seqs[i] ELSE f[i - 1] \o seqs[i]]

\* The values of the recursion.
LEMMA FlattensStep ==
    ASSUME NEW S, NEW seqs \in Seq(Seq(S)), NEW f, Flattens(seqs, f)
    PROVE  \A n \in 1 .. Len(seqs) : f[n] = IF n = 1 THEN seqs[n] ELSE f[n - 1] \o seqs[n]
<1> DEFINE body(g, n) == IF n = 1 THEN seqs[n] ELSE g[n - 1] \o seqs[n]
<1>1. f = [n \in 1 .. Len(seqs) |-> body(f, n)]
  BY DEF Flattens
<1>2. \A n \in 1 .. Len(seqs) : f[n] = body(f, n)
  <2> HIDE DEF body
  <2> QED
    BY <1>1
<1> QED
  BY <1>2

\* Parentheses do not matter.
LEMMA Regroup ==
    ASSUME NEW S
    PROVE  \A a, b, c \in Seq(S) : a \o (b \o c) = (a \o b) \o c
<1> SUFFICES ASSUME NEW a \in Seq(S), NEW b \in Seq(S), NEW c \in Seq(S)
             PROVE  a \o (b \o c) = (a \o b) \o c
  OBVIOUS
<1> QED
  OBVIOUS

\* Flattening nothing gives nothing.
LEMMA FlattenEmpty == FlattenSeq(<<>>) = <<>>
  BY EmptySeq DEF FlattenSeq

\* The recursion has a function.
LEMMA FlattensExists ==
    ASSUME NEW S, NEW seqs \in Seq(Seq(S)), seqs # <<>>
    PROVE  \E f : /\ Flattens(seqs, f) /\ FlattenSeq(seqs) = f[Len(seqs)]
                  /\ \A n \in 1 .. Len(seqs) : f[n] \in Seq(S)
<1> DEFINE T == {s \in Seq(Seq(S)) : s # <<>> => \E f : Flattens(s, f)}
<1>1. <<>> \in T
  OBVIOUS
<1>2. ASSUME NEW s \in T, NEW x \in Seq(S) PROVE Append(s, x) \in T
  <2>1. s \in Seq(Seq(S)) /\ Append(s, x) \in Seq(Seq(S)) /\ Len(Append(s, x)) = Len(s) + 1 /\ Len(s) \in Nat
    OBVIOUS
  <2>2. \A n \in 1 .. Len(s) : Append(s, x)[n] = s[n]
    BY <2>1
  <2>3. Append(s, x)[Len(s) + 1] = x
    BY <2>1
  <2>4. CASE s = <<>>
    <3> DEFINE f == [n \in 1 .. 1 |-> x]
    <3>1. Len(Append(s, x)) = 1 /\ Append(s, x)[1] = x
      BY <2>1, <2>3, <2>4
    <3>2. Flattens(Append(s, x), f)
      BY <3>1 DEF Flattens
    <3> QED
      BY <2>1, <3>1, <3>2
  <2>5. CASE s # <<>>
    <3>1. PICK f : Flattens(s, f)
      BY <2>5
    <3> DEFINE k == Len(s)
               last == f[k] \o x
               g == [n \in 1 .. k + 1 |-> IF n <= k THEN f[n] ELSE last]
    <3>2. k \in Nat /\ k # 0
      BY <2>5
    <3>4. \A n \in 1 .. k : f[n] = IF n = 1 THEN s[n] ELSE f[n - 1] \o s[n]
      BY <2>1, <3>1, FlattensStep
    <3> HIDE DEF last, k
    <3>5. ASSUME NEW n \in 1 .. k + 1
          PROVE  g[n] = IF n = 1 THEN Append(s, x)[n] ELSE g[n - 1] \o Append(s, x)[n]
      <4>1. CASE n = k + 1
        <5>1. g[n] = last /\ g[n - 1] = f[k] /\ n # 1 /\ Append(s, x)[n] = x
          BY <2>3, <3>2, <4>1 DEF k
        <5> QED
          BY <5>1 DEF last
      <4>2. CASE n # k + 1
        <5>1. n \in 1 .. k /\ g[n] = f[n] /\ Append(s, x)[n] = s[n] /\ (n # 1 => g[n - 1] = f[n - 1])
          BY <2>2, <3>2, <4>2 DEF k
        <5> QED
          BY <3>4, <5>1
      <4> QED
        BY <4>1, <4>2
    <3>6. Len(Append(s, x)) = k + 1
      BY <2>1 DEF k
    <3>7. Flattens(Append(s, x), g)
      <4> DEFINE b == [n \in 1 .. k + 1 |-> IF n = 1 THEN Append(s, x)[n] ELSE g[n - 1] \o Append(s, x)[n]]
      <4>1. \A n \in 1 .. k + 1 : g[n] = b[n]
        BY <3>5
      <4>2. g = b
        BY <4>1
      <4> HIDE DEF g
      <4> QED
        BY <3>6, <4>2 DEF Flattens
    <3> QED
      BY <2>1, <3>5, <3>6, <3>7
  <2> QED
    BY <2>4, <2>5
<1> HIDE DEF T
<1>3. T = Seq(Seq(S))
  <2>1. T \in SUBSET Seq(Seq(S))
    BY DEF T
  <2> QED
    BY <1>1, <1>2, <2>1, SeqSetInduction
<1>4. PICK h : Flattens(seqs, h)
  BY <1>3 DEF T
<1> DEFINE F == CHOOSE f : Flattens(seqs, f)
<1>5. Flattens(seqs, F)
  BY <1>4
<1>6. FlattenSeq(seqs) = F[Len(seqs)]
  <2>1. Len(seqs) # 0
    OBVIOUS
  <2> QED
    BY <2>1 DEF FlattenSeq, Flattens
<1> HIDE DEF F
<1>7. \A n \in 1 .. Len(seqs) : F[n] \in Seq(S)
  <2> DEFINE N == {n \in Nat : n \in 1 .. Len(seqs) => F[n] \in Seq(S)}
  <2>1. 0 \in N
    OBVIOUS
  <2>2. ASSUME NEW n \in N PROVE n + 1 \in N
    <3> SUFFICES ASSUME n + 1 \in 1 .. Len(seqs) PROVE F[n + 1] \in Seq(S)
      OBVIOUS
    <3>1. n \in Nat /\ seqs[n + 1] \in Seq(S) /\ (n + 1) - 1 = n
      OBVIOUS
    <3>2. n + 1 # 1 => F[n] \in Seq(S)
      BY <3>1
    <3>3. F[n + 1] = IF n + 1 = 1 THEN seqs[n + 1] ELSE F[n] \o seqs[n + 1]
      BY <1>5, <3>1, FlattensStep
    <3> HIDE DEF N
    <3> QED
      BY <3>1, <3>2, <3>3
  <2> HIDE DEF N
  <2>3. N = Nat
    <3>1. N \in SUBSET Nat
      BY DEF N
    <3> QED
      BY <2>1, <2>2, <3>1, NatSetInduction
  <2>4. \A n \in 1 .. Len(seqs) : n \in N
    BY <2>3
  <2> QED
    BY <2>4 DEF N
<1> QED
  BY <1>5, <1>6, <1>7

\* What is flattened is a sequence of the items.
LEMMA FlattenType ==
    ASSUME NEW S, NEW seqs \in Seq(Seq(S))
    PROVE  FlattenSeq(seqs) \in Seq(S)
<1>1. CASE seqs = <<>>
  <2>1. FlattenSeq(seqs) = <<>>
    BY <1>1, FlattenEmpty, Zenon
  <2> QED
    BY <2>1
<1>2. CASE seqs # <<>>
  <2>1. PICK f : FlattenSeq(seqs) = f[Len(seqs)] /\ \A n \in 1 .. Len(seqs) : f[n] \in Seq(S)
    BY <1>2, FlattensExists
  <2>2. Len(seqs) \in 1 .. Len(seqs)
    BY <1>2
  <2> QED
    BY <2>1, <2>2
<1> QED
  BY <1>1, <1>2

\* What is appended to the list is appended to it.
LEMMA FlattenAppend ==
    ASSUME NEW S, NEW seqs \in Seq(Seq(S)), NEW s \in Seq(S)
    PROVE  FlattenSeq(Append(seqs, s)) = FlattenSeq(seqs) \o s
<1> DEFINE longer == Append(seqs, s)
           k == Len(seqs)
<1>1. /\ longer \in Seq(Seq(S)) /\ longer # <<>> /\ Len(longer) = k + 1 /\ k \in Nat
      /\ longer[k + 1] = s /\ \A n \in 1 .. k : longer[n] = seqs[n]
  <2> PICK R : R = Seq(S)
    OBVIOUS
  <2>1. seqs \in Seq(R) /\ s \in R
    OBVIOUS
  <2>2. longer \in Seq(R) /\ Len(longer) = k + 1 /\ k \in Nat
    BY <2>1
  <2>3. longer[k + 1] = s /\ longer # <<>>
    BY <2>1, <2>2
  <2>4. \A n \in 1 .. k : longer[n] = seqs[n]
    BY <2>1
  <2> QED
    BY <2>2, <2>3, <2>4
<1>2. PICK g : Flattens(longer, g) /\ FlattenSeq(longer) = g[k + 1]
  <2> HIDE DEF longer
  <2> QED
    BY <1>1, FlattensExists
<1> HIDE DEF longer
<1>3. \A n \in 1 .. k + 1 : g[n] = IF n = 1 THEN longer[n] ELSE g[n - 1] \o longer[n]
  <2>1. \A n \in 1 .. Len(longer) : g[n] = IF n = 1 THEN longer[n] ELSE g[n - 1] \o longer[n]
    BY <1>1, <1>2, FlattensStep
  <2> QED
    BY <1>1, <2>1
<1>4. CASE seqs = <<>>
  <2>1. k = 0
    BY <1>4
  <2>2. g[1] = s
    BY <1>1, <1>3, <2>1
  <2>3. <<>> \o s = s
    OBVIOUS
  <2> QED
    BY <1>2, <1>4, <2>1, <2>2, <2>3, FlattenEmpty DEF longer
<1>5. CASE seqs # <<>>
  <2>1. PICK f : Flattens(seqs, f) /\ FlattenSeq(seqs) = f[k]
    BY <1>5, FlattensExists
  <2>2. \A n \in 1 .. k : f[n] = IF n = 1 THEN seqs[n] ELSE f[n - 1] \o seqs[n]
    BY <2>1, FlattensStep
  <2>3. k # 0
    BY <1>5
  <2> DEFINE N == {n \in Nat : n \in 1 .. k => f[n] = g[n]}
  <2> HIDE DEF k
  <2>4. 0 \in N
    OBVIOUS
  <2>5. ASSUME NEW n \in N PROVE n + 1 \in N
    <3> SUFFICES ASSUME n + 1 \in 1 .. k PROVE f[n + 1] = g[n + 1]
      OBVIOUS
    <3>1. n \in Nat /\ n + 1 \in 1 .. k + 1 /\ (n + 1) - 1 = n /\ (n + 1 # 1 => n \in 1 .. k)
      BY <1>1
    <3>2. n + 1 # 1 => f[n] = g[n]
      BY <3>1
    <3>3. longer[n + 1] = seqs[n + 1]
      BY <1>1
    <3>4. f[n + 1] = IF n + 1 = 1 THEN seqs[n + 1] ELSE f[n] \o seqs[n + 1]
      BY <2>2, <3>1
    <3>5. g[n + 1] = IF n + 1 = 1 THEN longer[n + 1] ELSE g[n] \o longer[n + 1]
      BY <1>3, <3>1
    <3> QED
      BY <3>2, <3>3, <3>4, <3>5
  <2> HIDE DEF N
  <2>6. N = Nat
    <3>1. N \in SUBSET Nat
      BY DEF N
    <3> QED
      BY <2>4, <2>5, <3>1, NatSetInduction
  <2>7. k \in N /\ k \in 1 .. k
    BY <1>1, <2>3, <2>6
  <2>8. f[k] = g[k]
    BY <2>7 DEF N
  <2>9. g[k + 1] = g[k] \o s
    <3>1. k + 1 \in 1 .. k + 1 /\ k + 1 # 1 /\ (k + 1) - 1 = k
      BY <1>1, <2>3
    <3> QED
      BY <1>1, <1>3, <3>1
  <2> QED
    BY <1>2, <2>1, <2>8, <2>9 DEF longer
<1> QED
  BY <1>4, <1>5

-----------------------------------------------------------------------------
(* Sums over finite sets.                                                  *)

\* Induction over the subsets of a finite set.
LEMMA SubsetInduction ==
    ASSUME NEW D, IsFiniteSet(D), NEW T \in SUBSET SUBSET D, {} \in T,
           \A s \in SUBSET D : s # {} /\ (\A x \in s : s \ {x} \in T) => s \in T
    PROVE  T = SUBSET D
<1> DEFINE N == {n \in Nat : \A s \in SUBSET D : Cardinality(s) = n => s \in T}
<1>1. 0 \in N
  <2>1. ASSUME NEW s \in SUBSET D, Cardinality(s) = 0 PROVE s = {}
    BY <2>1, FS_Subset, FS_EmptySet
  <2> QED
    BY <2>1
<1>2. ASSUME NEW n \in N PROVE n + 1 \in N
  <2> SUFFICES ASSUME NEW s \in SUBSET D, Cardinality(s) = n + 1 PROVE s \in T
    BY <1>2
  <2>1. IsFiniteSet(s)
    BY FS_Subset
  <2>2. n \in Nat /\ n + 1 # 0
    OBVIOUS
  <2>3. s # {}
    BY <2>2, FS_EmptySet
  <2>4. ASSUME NEW x \in s PROVE s \ {x} \in T
    <3>1. Cardinality(s \ {x}) = Cardinality(s) - 1
      BY <2>1, FS_RemoveElement
    <3>2. Cardinality(s \ {x}) = n
      <4> HIDE DEF N
      <4> QED
        BY <2>2, <3>1
    <3> QED
      BY <3>2
  <2> QED
    BY <2>3, <2>4
<1>3. N = Nat
  <2> HIDE DEF N
  <2>1. N \subseteq Nat
    BY DEF N
  <2> QED
    BY <1>1, <1>2, <2>1, NatSetInduction
<1>4. ASSUME NEW s \in SUBSET D PROVE s \in T
  <2>1. Cardinality(s) \in Nat
    BY FS_Subset, FS_CardinalityType
  <2>2. Cardinality(s) \in N
    BY <1>3, <2>1
  <2> QED
    BY <2>2
<1> QED
  BY <1>4

\* f has the sums of the recursion of SumFunctionOnSet over the subsets of D.
Pick(s) == CHOOSE x \in s : TRUE
Adds(w, D, f) == f = [s \in SUBSET D |-> IF s = {} THEN 0 ELSE w[Pick(s)] + f[s \ {Pick(s)}]]

\* The item the sum starts with is in the set.
LEMMA PickIn == ASSUME NEW s, s # {} PROVE Pick(s) \in s
  BY DEF Pick

\* The values of the recursion.
LEMMA AddsValue ==
    ASSUME NEW w, NEW D, NEW f, Adds(w, D, f)
    PROVE  /\ f[{}] = 0
           /\ \A s \in SUBSET D : s # {} => f[s] = w[Pick(s)] + f[s \ {Pick(s)}]
<1> DEFINE body(g, s) == IF s = {} THEN 0 ELSE w[Pick(s)] + g[s \ {Pick(s)}]
<1>1. f = [s \in SUBSET D |-> body(f, s)]
  BY DEF Adds
<1>2. \A s \in SUBSET D : f[s] = body(f, s)
  <2> HIDE DEF body
  <2> QED
    BY <1>1
<1> QED
  BY <1>2

\* They depend on the summands only.
LEMMA AddsSame ==
    ASSUME NEW w, NEW v, NEW D, IsFiniteSet(D), NEW C \in SUBSET D, NEW f, NEW g,
           Adds(w, D, f), Adds(v, C, g), \A x \in C : v[x] = w[x]
    PROVE  \A s \in SUBSET C : f[s] = g[s]
<1> DEFINE T == {s \in SUBSET C : f[s] = g[s]}
<1>1. {} \in T
  BY AddsValue
<1>2. ASSUME NEW s \in SUBSET C, s # {}, \A x \in s : s \ {x} \in T PROVE s \in T
  <2>1. Pick(s) \in s /\ f[s \ {Pick(s)}] = g[s \ {Pick(s)}]
    BY <1>2, PickIn
  <2>2. f[s] = w[Pick(s)] + f[s \ {Pick(s)}]
    <3>1. s \in SUBSET D
      OBVIOUS
    <3> QED
      BY <1>2, <3>1, AddsValue
  <2>3. g[s] = v[Pick(s)] + g[s \ {Pick(s)}]
    BY <1>2, AddsValue
  <2>4. v[Pick(s)] = w[Pick(s)]
    BY <2>1
  <2> QED
    BY <2>1, <2>2, <2>3, <2>4
<1> HIDE DEF T
<1>3. T = SUBSET C
  <2>1. T \in SUBSET SUBSET C /\ IsFiniteSet(C)
    BY FS_Subset DEF T
  <2> QED
    BY <1>1, <1>2, <2>1, SubsetInduction
<1> QED
  BY <1>3 DEF T

\* They are the same over a larger domain.
LEMMA AddsPart ==
    ASSUME NEW w, NEW D, IsFiniteSet(D), NEW C \in SUBSET D, NEW f, NEW g, Adds(w, D, f), Adds(w, C, g)
    PROVE  f[C] = g[C]
<1>1. PICK v : v = w
  OBVIOUS
<1>2. Adds(v, C, g) /\ \A x \in C : v[x] = w[x]
  BY <1>1
<1>3. \A s \in SUBSET C : f[s] = g[s]
  BY <1>2, AddsSame
<1> QED
  BY <1>3

\* The recursion has a function.
LEMMA AddsExists ==
    ASSUME NEW w, NEW D, IsFiniteSet(D)
    PROVE  \E f : Adds(w, D, f)
<1> DEFINE T == {C \in SUBSET D : \E f : Adds(w, C, f)}
<1>1. {} \in T
  <2>1. Adds(w, {}, [s \in SUBSET {} |-> 0])
    BY DEF Adds
  <2> QED
    BY <2>1
<1>2. ASSUME NEW C \in SUBSET D, C # {}, \A x \in C : C \ {x} \in T PROVE C \in T
  <2> DEFINE G(t) == (CHOOSE g : Adds(w, t, g))[t]
             f == [s \in SUBSET C |-> IF s = {} THEN 0 ELSE w[Pick(s)] + G(s \ {Pick(s)})]
  <2>1. ASSUME NEW t \in SUBSET C, t # C PROVE \E g : Adds(w, t, g)
    <3>1. PICK x \in C : x \notin t
      BY <2>1
    <3>2. PICK h : Adds(w, C \ {x}, h)
      BY <1>2
    <3> DEFINE g == [s \in SUBSET t |-> h[s]]
    <3>3. \A s \in SUBSET t : s # {} => h[s] = w[Pick(s)] + h[s \ {Pick(s)}]
      <4>1. SUBSET t \subseteq SUBSET (C \ {x})
        BY <3>1
      <4>2. \A s \in SUBSET (C \ {x}) : s # {} => h[s] = w[Pick(s)] + h[s \ {Pick(s)}]
        BY <3>2, AddsValue
      <4> QED
        BY <4>1, <4>2
    <3>4. h[{}] = 0
      BY <3>2, AddsValue
    <3>5. \A s \in SUBSET t : g[s] = IF s = {} THEN 0 ELSE w[Pick(s)] + g[s \ {Pick(s)}]
      BY <3>3, <3>4
    <3>6. Adds(w, t, g)
      <4> DEFINE b == [s \in SUBSET t |-> IF s = {} THEN 0 ELSE w[Pick(s)] + g[s \ {Pick(s)}]]
      <4>1. g = b
        BY <3>5
      <4> QED
        BY <4>1 DEF Adds
    <3> QED
      BY <3>6
  <2>2. ASSUME NEW t \in SUBSET C, t # C PROVE f[t] = G(t)
    <3> DEFINE g == CHOOSE g : Adds(w, t, g)
    <3>1. Adds(w, t, g)
      BY <2>1, <2>2
    <3> HIDE DEF g
    <3>2. CASE t = {}
      BY <3>1, <3>2, AddsValue DEF g
    <3>3. CASE t # {}
      <4> DEFINE u == t \ {Pick(t)}
                 h == CHOOSE h : Adds(w, u, h)
      <4>1. u \in SUBSET C /\ u # C /\ u \in SUBSET t
        BY <2>2
      <4>2. Adds(w, u, h)
        <5> HIDE DEF u
        <5> QED
          BY <2>1, <4>1
      <4> HIDE DEF h
      <4>3. IsFiniteSet(t)
        BY FS_Subset
      <4>4. g[u] = h[u]
        <5> HIDE DEF u, f, G, T
        <5> QED
          BY <3>1, <4>1, <4>2, <4>3, AddsPart
      <4>5. g[t] = w[Pick(t)] + g[u]
        BY <3>1, <3>3, AddsValue
      <4>6. f[t] = w[Pick(t)] + h[u]
        BY <3>3 DEF h
      <4>7. G(t) = g[t]
        BY DEF g
      <4> QED
        BY <4>4, <4>5, <4>6, <4>7
    <3> QED
      BY <3>2, <3>3
  <2>3. \A s \in SUBSET C : f[s] = IF s = {} THEN 0 ELSE w[Pick(s)] + f[s \ {Pick(s)}]
    <3>3. f[{}] = 0
      OBVIOUS
    <3> SUFFICES ASSUME NEW s \in SUBSET C, s # {} PROVE f[s] = w[Pick(s)] + f[s \ {Pick(s)}]
      <4> HIDE DEF f, G
      <4> QED
        BY <3>3
    <3>1. s \ {Pick(s)} \in SUBSET C /\ s \ {Pick(s)} # C
      BY PickIn
    <3>2. f[s] = w[Pick(s)] + G(s \ {Pick(s)})
      OBVIOUS
    <3> HIDE DEF f, G
    <3> QED
      BY <2>2, <3>1, <3>2
  <2>4. Adds(w, C, f)
    <3> DEFINE b == [s \in SUBSET C |-> IF s = {} THEN 0 ELSE w[Pick(s)] + f[s \ {Pick(s)}]]
    <3>1. \A s \in SUBSET C : f[s] = b[s]
      BY <2>3
    <3>2. f = b
      BY <3>1
    <3> QED
      BY <3>2 DEF Adds
  <2> QED
    BY <2>4
<1> HIDE DEF T
<1>3. T = SUBSET D
  <2>1. T \in SUBSET SUBSET D
    BY DEF T
  <2> QED
    BY <1>1, <1>2, <2>1, SubsetInduction
<1> QED
  BY <1>3 DEF T

\* A sum is its value.
LEMMA SumDef ==
    ASSUME NEW w, NEW D, IsFiniteSet(D)
    PROVE  \E f : Adds(w, D, f) /\ SumFunctionOnSet(w, D) = f[D]
<1> DEFINE f == CHOOSE f : Adds(w, D, f)
<1>1. Adds(w, D, f)
  BY AddsExists
<1>2. SumFunctionOnSet(w, D) = f[D]
  BY DEF SumFunctionOnSet, FoldFunctionOnSet, MapThenFoldSet, Adds, Pick
<1> HIDE DEF f
<1> QED
  BY <1>1, <1>2

\* The sum over no element, the sum over some depends on their values only, and one
\* element may be added first.
LEMMA SumEmpty == ASSUME NEW w PROVE SumFunctionOnSet(w, {}) = 0
  BY SumDef, AddsValue, FS_EmptySet

\* Sums of the same summands are equal.
LEMMA SumSame ==
    ASSUME NEW D, IsFiniteSet(D), NEW v, NEW w, \A x \in D : v[x] = w[x]
    PROVE  SumFunctionOnSet(v, D) = SumFunctionOnSet(w, D)
<1>1. PICK f : Adds(w, D, f) /\ SumFunctionOnSet(w, D) = f[D]
  BY SumDef
<1>2. PICK g : Adds(v, D, g) /\ SumFunctionOnSet(v, D) = g[D]
  BY SumDef
<1>3. \A s \in SUBSET D : f[s] = g[s]
  BY <1>1, <1>2, AddsSame
<1> QED
  BY <1>1, <1>2, <1>3

\* Any item may be taken out first.
LEMMA SumRemove ==
    ASSUME NEW D, IsFiniteSet(D), NEW w, \A x \in D : w[x] \in Int
    PROVE  /\ SumFunctionOnSet(w, D) \in Int
           /\ \A x \in D : SumFunctionOnSet(w, D) = w[x] + SumFunctionOnSet(w, D \ {x})
<1>1. PICK f : Adds(w, D, f) /\ SumFunctionOnSet(w, D) = f[D]
  BY SumDef
<1> DEFINE T == {s \in SUBSET D : f[s] \in Int /\ \A x \in s : f[s \ {x}] \in Int /\ f[s] = w[x] + f[s \ {x}]}
<1>2. {} \in T
  BY <1>1, AddsValue
<1>3. ASSUME NEW s \in SUBSET D, s # {}, \A x \in s : s \ {x} \in T PROVE s \in T
  <2> DEFINE c == Pick(s)
  <2>1. c \in s /\ f[s] = w[c] + f[s \ {c}] /\ w[c] \in Int
    <3>1. c \in s
      BY <1>3, PickIn
    <3>2. \A t \in SUBSET D : t # {} => f[t] = w[Pick(t)] + f[t \ {Pick(t)}]
      BY <1>1, AddsValue
    <3> QED
      BY <1>3, <3>1, <3>2
  <2> HIDE DEF c
  <2>2. \A x \in s : f[s \ {x}] \in Int
    BY <1>3
  <2>3. f[s] \in Int
    BY <2>1, <2>2
  <2>4. ASSUME NEW x \in s, x # c PROVE f[s] = w[x] + f[s \ {x}]
    <3>1. s \ {c} \in T /\ s \ {x} \in T
      BY <1>3, <2>1
    <3>2. x \in s \ {c} /\ c \in s \ {x} /\ (s \ {c}) \ {x} = (s \ {x}) \ {c}
      BY <2>1, <2>4
    <3> DEFINE r == (s \ {c}) \ {x}
    <3>3. f[s \ {c}] = w[x] + f[r] /\ f[r] \in Int
      BY <3>1, <3>2
    <3>4. f[s \ {x}] = w[c] + f[r]
      BY <3>1, <3>2
    <3>5. w[c] \in Int /\ w[x] \in Int
      BY <2>1
    <3> HIDE DEF r, T
    <3> QED
      BY <2>1, <3>3, <3>4, <3>5
  <2> QED
    BY <2>1, <2>2, <2>3, <2>4
<1> HIDE DEF T
<1>4. T = SUBSET D
  <2>1. T \in SUBSET SUBSET D
    BY DEF T
  <2> QED
    BY <1>2, <1>3, <2>1, SubsetInduction
<1>5. D \in T
  BY <1>4
<1>6. ASSUME NEW x \in D PROVE f[D \ {x}] = SumFunctionOnSet(w, D \ {x})
  <2>1. IsFiniteSet(D \ {x}) /\ D \ {x} \in SUBSET D
    BY FS_RemoveElement
  <2>2. PICK g : Adds(w, D \ {x}, g) /\ SumFunctionOnSet(w, D \ {x}) = g[D \ {x}]
    BY <2>1, SumDef
  <2> QED
    BY <1>1, <2>1, <2>2, AddsPart
<1> QED
  BY <1>1, <1>5, <1>6 DEF T

\* An item that is added adds its summand.
LEMMA SumAdd ==
    ASSUME NEW D, IsFiniteSet(D), NEW x, x \notin D, NEW w, \A y \in D \cup {x} : w[y] \in Int
    PROVE  SumFunctionOnSet(w, D \cup {x}) = SumFunctionOnSet(w, D) + w[x]
<1> DEFINE E == D \cup {x}
<1>1. IsFiniteSet(E) /\ x \in E /\ E \ {x} = D
  BY FS_AddElement
<1>2. SumFunctionOnSet(w, D) \in Int
  BY SumRemove
<1>3. \A y \in E : w[y] \in Int
  OBVIOUS
<1> HIDE DEF E
<1>4. SumFunctionOnSet(w, E) = w[x] + SumFunctionOnSet(w, E \ {x})
  BY <1>1, <1>3, SumRemove
<1>5. w[x] \in Int
  BY <1>1, <1>3
<1>6. SumFunctionOnSet(w, E) = SumFunctionOnSet(w, D) + w[x]
  <2> DEFINE a == SumFunctionOnSet(w, D)
             b == w[x]
  <2>1. SumFunctionOnSet(w, E) = b + a /\ a \in Int /\ b \in Int
    BY <1>1, <1>2, <1>4, <1>5
  <2> HIDE DEF a, b
  <2>2. SumFunctionOnSet(w, E) = a + b
    BY <2>1
  <2> QED
    BY <2>2 DEF a, b
<1> QED
  BY <1>6 DEF E

\* Where the value is 0 nothing is added.
LEMMA SumPart ==
    ASSUME NEW D, IsFiniteSet(D), NEW C \in SUBSET D, NEW w, \A x \in D : w[x] \in Int,
           \A x \in D \ C : w[x] = 0
    PROVE  SumFunctionOnSet(w, D) = SumFunctionOnSet(w, C)
<1> DEFINE T == {s \in SUBSET (D \ C) : SumFunctionOnSet(w, C \cup s) = SumFunctionOnSet(w, C)}
<1>1. {} \in T
  <2>1. C \cup {} = C
    OBVIOUS
  <2> QED
    BY <2>1
<1>2. ASSUME NEW s \in SUBSET (D \ C), s # {}, \A x \in s : s \ {x} \in T PROVE s \in T
  <2>1. PICK x \in s : TRUE
    BY <1>2
  <2> DEFINE r == C \cup (s \ {x})
  <2>2. SumFunctionOnSet(w, r) = SumFunctionOnSet(w, C)
    BY <1>2
  <2>3. IsFiniteSet(r) /\ x \notin r /\ C \cup s = r \cup {x} /\ r \subseteq D
    <3>1. r \subseteq D
      OBVIOUS
    <3> QED
      BY <3>1, FS_Subset
  <2>4. w[x] = 0 /\ \A y \in r \cup {x} : w[y] \in Int
    OBVIOUS
  <2> HIDE DEF r
  <2>5. SumFunctionOnSet(w, r \cup {x}) = SumFunctionOnSet(w, r) + w[x]
    BY <2>3, <2>4, SumAdd
  <2>6. SumFunctionOnSet(w, r) \in Int
    BY <2>3, <2>4, SumRemove
  <2>7. SumFunctionOnSet(w, r \cup {x}) = SumFunctionOnSet(w, C)
    <3> DEFINE a == SumFunctionOnSet(w, r)
    <3>1. a \in Int /\ SumFunctionOnSet(w, r \cup {x}) = a + 0
      BY <2>4, <2>5, <2>6
    <3> HIDE DEF a
    <3>2. SumFunctionOnSet(w, r \cup {x}) = a
      BY <3>1
    <3> QED
      BY <2>2, <3>2 DEF a
  <2> QED
    BY <2>3, <2>7
<1> HIDE DEF T
<1>3. T = SUBSET (D \ C)
  <2>1. T \in SUBSET SUBSET (D \ C) /\ IsFiniteSet(D \ C)
    BY FS_Subset DEF T
  <2> QED
    BY <1>1, <1>2, <2>1, SubsetInduction
<1>4. C \cup (D \ C) = D /\ D \ C \in T
  BY <1>3
<1> QED
  BY <1>4 DEF T
=============================================================================
