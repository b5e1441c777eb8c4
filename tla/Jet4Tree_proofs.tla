-------------------------- MODULE Jet4Tree_proofs -------------------------
(***************************************************************************)
(* What the operators of Jet4Index make of the pages of a B-tree: the      *)
(* search, the walk, and the single calls of an insertion or a removal     *)
(* (insertIntoPage, splitPage, propagateMaxChange, removeIndexPage,        *)
(* walkIndex).  Between two calls one divider may be stale, and pages wait *)
(* to be unlinked.                                                         *)
(***************************************************************************)
EXTENDS Jet4Index, Maxima, SequenceTheorems, FunctionTheorems

(* Entries, sequences and their order *)

ItemSet == [e : Entry, child : Nat]

Increasing(s) == \A i, j \in DOMAIN s : i < j => Less(s[i].e, s[j].e)

LEMMA EntryParts == \A a \in Entry : a = <<a[1], a[2]>> /\ a[1] \in Nat /\ a[2] \in 1 .. MaxRows
<1> SUFFICES ASSUME NEW a \in Entry PROVE a = <<a[1], a[2]>> /\ a[1] \in Nat /\ a[2] \in 1 .. MaxRows
  OBVIOUS
<1>1. PICK k \in Keys \cup {EmptyKey}, r \in 1 .. MaxRows : a = <<k, r>>
  BY DEF Entry
<1>2. k \in Nat
  BY IndexConstants DEF EmptyKey
<1> QED
  BY <1>1, <1>2

LEMMA LessOrder ==
    ASSUME NEW a \in Entry, NEW b \in Entry, NEW c \in Entry
    PROVE  /\ ~ Less(a, a)
           /\ Less(a, b) /\ Less(b, c) => Less(a, c)
           /\ a = b \/ Less(a, b) \/ Less(b, a)
<1>1. a[1] \in Nat /\ b[1] \in Nat /\ c[1] \in Nat /\ a[2] \in Int /\ b[2] \in Int /\ c[2] \in Int
  BY EntryParts
<1>2. ~ Less(a, a) /\ (Less(a, b) /\ Less(b, c) => Less(a, c))
  BY <1>1 DEF Less
<1>3. a[1] = b[1] /\ a[2] = b[2] => a = b
  BY EntryParts
<1>4. a = b \/ Less(a, b) \/ Less(b, a)
  BY <1>1, <1>3 DEF Less
<1> QED
  BY <1>2, <1>4

LEMMA InsertAtAt ==
    ASSUME NEW S, NEW s \in Seq(S), NEW x \in S, NEW i \in 1 .. Len(s) + 1
    PROVE  /\ InsertAt(s, i, x) \in Seq(S)
           /\ Len(InsertAt(s, i, x)) = Len(s) + 1
           /\ \A j \in 1 .. Len(s) + 1 :
                InsertAt(s, i, x)[j] = IF j < i THEN s[j] ELSE IF j = i THEN x ELSE s[j - 1]
<1> DEFINE low == SubSeq(s, 1, i - 1)
           high == SubSeq(s, i, Len(s))
<1>1. Len(s) \in Nat /\ i \in Nat /\ i >= 1 /\ i <= Len(s) + 1 /\ \A j \in 1 .. Len(s) : s[j] \in S
  BY LenProperties, ElementOfSeq
<1>2. /\ low \in Seq(S) /\ Len(low) = i - 1 /\ \A j \in 1 .. i - 1 : low[j] = s[j]
  BY <1>1, SubSeqProperties
<1>3. /\ high \in Seq(S) /\ Len(high) = Len(s) - i + 1 /\ \A j \in 1 .. Len(s) - i + 1 : high[j] = s[i + j - 1]
  BY <1>1, SubSeqProperties
<1>4. <<x>> \in Seq(S) /\ Len(<<x>>) = 1 /\ <<x>>[1] = x
  OBVIOUS
<1> HIDE DEF low, high
<1>5. /\ low \o <<x>> \in Seq(S) /\ Len(low \o <<x>>) = i
      /\ \A j \in 1 .. i : (low \o <<x>>)[j] = IF j <= i - 1 THEN low[j] ELSE <<x>>[j - (i - 1)]
  BY <1>1, <1>2, <1>4, ConcatProperties
<1>6. \A j \in 1 .. i : (low \o <<x>>)[j] = IF j < i THEN s[j] ELSE x
  BY <1>1, <1>2, <1>4, <1>5
<1> DEFINE front == low \o <<x>>
<1> HIDE DEF front
<1>10. /\ front \in Seq(S) /\ Len(front) = i
       /\ \A j \in 1 .. i : front[j] = IF j < i THEN s[j] ELSE x
  BY <1>5, <1>6 DEF front
<1>11. /\ front \o high \in Seq(S) /\ Len(front \o high) = Len(front) + Len(high)
       /\ \A j \in 1 .. Len(front) + Len(high) :
            (front \o high)[j] = IF j <= Len(front) THEN front[j] ELSE high[j - Len(front)]
  BY <1>3, <1>10, ConcatProperties
<1>12. Len(front) + Len(high) = Len(s) + 1
  BY <1>1, <1>3, <1>10
<1>7. /\ front \o high \in Seq(S) /\ Len(front \o high) = Len(s) + 1
      /\ \A j \in 1 .. Len(s) + 1 : (front \o high)[j] = IF j <= i THEN front[j] ELSE high[j - i]
  BY <1>10, <1>11, <1>12
<1>8. \A j \in 1 .. Len(s) + 1 : (front \o high)[j] = IF j < i THEN s[j] ELSE IF j = i THEN x ELSE s[j - 1]
  <2> SUFFICES ASSUME NEW j \in 1 .. Len(s) + 1
               PROVE (front \o high)[j] = IF j < i THEN s[j] ELSE IF j = i THEN x ELSE s[j - 1]
    OBVIOUS
  <2>0. j <= i \/ j > i
    BY <1>1
  <2>1. CASE j <= i
    BY <1>1, <1>7, <1>10, <2>1
  <2>2. CASE j > i
    <3>1. (front \o high)[j] = high[j - i] /\ j - i \in 1 .. Len(s) - i + 1
      BY <1>1, <1>7, <2>2
    <3>2. high[j - i] = s[i + (j - i) - 1]
      BY <1>3, <3>1
    <3> QED
      BY <1>1, <2>2, <3>1, <3>2
  <2> QED
    BY <2>0, <2>1, <2>2
<1>9. InsertAt(s, i, x) = front \o high
  BY DEF InsertAt, front, low, high
<1> QED
  BY <1>7, <1>8, <1>9

LEMMA RemoveAtAt ==
    ASSUME NEW S, NEW s \in Seq(S), NEW i \in DOMAIN s
    PROVE  /\ RemoveAt(s, i) \in Seq(S)
           /\ Len(RemoveAt(s, i)) = Len(s) - 1
           /\ \A j \in 1 .. Len(s) - 1 : RemoveAt(s, i)[j] = IF j < i THEN s[j] ELSE s[j + 1]
<1> DEFINE low == SubSeq(s, 1, i - 1)
           high == SubSeq(s, i + 1, Len(s))
<1>1. Len(s) \in Nat /\ i \in Nat /\ i >= 1 /\ i <= Len(s) /\ \A j \in 1 .. Len(s) : s[j] \in S
  BY LenProperties, ElementOfSeq
<1>2. /\ low \in Seq(S) /\ Len(low) = i - 1 /\ \A j \in 1 .. i - 1 : low[j] = s[j]
  BY <1>1, SubSeqProperties
<1>3. /\ high \in Seq(S) /\ Len(high) = Len(s) - i /\ \A j \in 1 .. Len(s) - i : high[j] = s[i + j]
  BY <1>1, SubSeqProperties
<1> HIDE DEF low, high
<1>7. /\ low \o high \in Seq(S) /\ Len(low \o high) = Len(low) + Len(high)
      /\ \A j \in 1 .. Len(low) + Len(high) :
           (low \o high)[j] = IF j <= Len(low) THEN low[j] ELSE high[j - Len(low)]
  BY <1>2, <1>3, ConcatProperties
<1>8. Len(low) + Len(high) = Len(s) - 1
  BY <1>1, <1>2, <1>3
<1>4. /\ low \o high \in Seq(S) /\ Len(low \o high) = Len(s) - 1
      /\ \A j \in 1 .. Len(s) - 1 : (low \o high)[j] = IF j <= i - 1 THEN low[j] ELSE high[j - (i - 1)]
  BY <1>2, <1>7, <1>8
<1>5. \A j \in 1 .. Len(s) - 1 : (low \o high)[j] = IF j < i THEN s[j] ELSE s[j + 1]
  <2> SUFFICES ASSUME NEW j \in 1 .. Len(s) - 1
               PROVE (low \o high)[j] = IF j < i THEN s[j] ELSE s[j + 1]
    OBVIOUS
  <2>0. j < i \/ j >= i
    BY <1>1
  <2>1. CASE j < i
    BY <1>1, <1>2, <1>4, <2>1
  <2>2. CASE j >= i
    <3>1. (low \o high)[j] = high[j - (i - 1)] /\ j - (i - 1) \in 1 .. Len(s) - i
      BY <1>1, <1>4, <2>2
    <3>2. high[j - (i - 1)] = s[i + (j - (i - 1))]
      BY <1>3, <3>1
    <3> QED
      BY <1>1, <2>2, <3>1, <3>2
  <2> QED
    BY <2>0, <2>1, <2>2
<1>6. RemoveAt(s, i) = low \o high
  BY DEF RemoveAt, low, high
<1> QED
  BY <1>4, <1>5, <1>6

LEMMA MinIsLeast ==
    ASSUME NEW S, S \subseteq Nat, S # {}
    PROVE  Min(S) \in S /\ \A x \in S : Min(S) <= x
<1>1. \E m \in S : \A x \in S : m <= x
  BY HasLeast
<1> QED
  BY <1>1 DEF Min

\* An item that is taken out of a sorted list and inserted again is where it was.
LEMMA InsertedBack ==
    ASSUME NEW s \in Seq(ItemSet), Increasing(s), NEW j \in 1 .. Len(s)
    PROVE  Inserted(RemoveAt(s, j), s[j]) = s
<1> DEFINE x == s[j]
           t == RemoveAt(s, j)
           at == {i \in DOMAIN t : Less(x.e, t[i].e)}
           p == IF at = {} THEN Len(t) + 1 ELSE Min(at)
<1>1. /\ Len(s) \in Nat /\ DOMAIN s = 1 .. Len(s) /\ j \in 1 .. Len(s)
      /\ \A i \in 1 .. Len(s) : s[i] \in ItemSet
  BY LenProperties, ElementOfSeq
<1>0. Len(s) \in Int /\ j \in Int /\ 1 <= j /\ j <= Len(s)
  BY LenProperties
<1>2. /\ t \in Seq(ItemSet) /\ Len(t) = Len(s) - 1 /\ DOMAIN t = 1 .. Len(s) - 1
      /\ \A i \in 1 .. Len(s) - 1 : t[i] = IF i < j THEN s[i] ELSE s[i + 1]
  <2>1. /\ t \in Seq(ItemSet) /\ Len(t) = Len(s) - 1
        /\ \A i \in 1 .. Len(s) - 1 : t[i] = IF i < j THEN s[i] ELSE s[i + 1]
    BY <1>1, RemoveAtAt
  <2> HIDE DEF t
  <2>2. DOMAIN t = 1 .. Len(t)
    BY <2>1
  <2> QED
    BY <2>1, <2>2
<1>3. \A i \in 1 .. Len(s) : s[i].e \in Entry
  BY <1>1 DEF ItemSet
<1> HIDE DEF t
<1>4. \A i \in 1 .. Len(s) - 1 : i \in at <=> i >= j
  <2> SUFFICES ASSUME NEW i \in 1 .. Len(s) - 1 PROVE Less(x.e, t[i].e) <=> i >= j
    BY <1>2
  <2>1. CASE i < j
    BY <1>1, <1>2, <1>3, <2>1, LessOrder DEF Increasing
  <2>2. CASE i >= j
    <3>1. i + 1 \in 1 .. Len(s) /\ j < i + 1 /\ ~ (i < j)
      BY <1>0, <2>2
    <3>2. Less(s[j].e, s[i + 1].e)
      BY <1>1, <3>1 DEF Increasing
    <3>3. t[i] = s[i + 1]
      BY <1>2, <3>1
    <3> QED
      BY <2>2, <3>2, <3>3
  <2> QED
    BY <1>1, <2>1, <2>2
<1>5. at \subseteq Nat
  BY <1>2
<1>6. p = j
  <2>1. CASE j = Len(s)
    BY <1>1, <1>2, <1>4, <2>1
  <2>2. CASE j < Len(s)
    <3>1. j \in at /\ at # {}
      BY <1>1, <1>4, <2>2
    <3>2. Min(at) \in at /\ \A i \in at : Min(at) <= i
      BY <1>5, <3>1, MinIsLeast
    <3>3. \A i \in at : i \in Int /\ i >= j
      BY <1>1, <1>2, <1>4
    <3> HIDE DEF at
    <3>4. Min(at) <= j /\ Min(at) >= j /\ Min(at) \in Int /\ j \in Int
      BY <1>0, <3>1, <3>2, <3>3
    <3>5. Min(at) = j
      BY <3>4
    <3> QED
      BY <3>1, <3>5
  <2>3. j = Len(s) \/ j < Len(s)
    BY <1>0
  <2> QED
    BY <2>1, <2>2, <2>3
<1> HIDE DEF at, p
<1>7. Inserted(t, x) = InsertAt(t, j, x)
  BY <1>6 DEF Inserted, p, at
<1>8. /\ InsertAt(t, j, x) \in Seq(ItemSet) /\ Len(InsertAt(t, j, x)) = Len(s)
      /\ \A i \in 1 .. Len(s) : InsertAt(t, j, x)[i] = IF i < j THEN t[i] ELSE IF i = j THEN x ELSE t[i - 1]
  <2>1. x \in ItemSet /\ Len(t) + 1 = Len(s) /\ j \in 1 .. Len(t) + 1 /\ t \in Seq(ItemSet)
    BY <1>1, <1>2
  <2> HIDE DEF x
  <2>3. /\ InsertAt(t, j, x) \in Seq(ItemSet) /\ Len(InsertAt(t, j, x)) = Len(t) + 1
        /\ \A i \in 1 .. Len(t) + 1 : InsertAt(t, j, x)[i] = IF i < j THEN t[i] ELSE IF i = j THEN x ELSE t[i - 1]
    BY <2>1, InsertAtAt
  <2> QED
    BY <2>1, <2>3
<1>9. \A i \in 1 .. Len(s) : InsertAt(t, j, x)[i] = s[i]
  BY <1>1, <1>2, <1>8
<1>10. InsertAt(t, j, x) = s
  BY <1>8, <1>9, SeqEqual
<1> QED
  BY <1>7, <1>10 DEF t

\* A new entry is inserted where it keeps the list sorted.
LEMMA InsertedNew ==
    ASSUME NEW s \in Seq(ItemSet), Increasing(s), NEW x \in ItemSet, \A i \in DOMAIN s : s[i].e # x.e
    PROVE  /\ Inserted(s, x) \in Seq(ItemSet) /\ Len(Inserted(s, x)) = Len(s) + 1
           /\ Increasing(Inserted(s, x))
           /\ \E p \in 1 .. Len(s) + 1 :
                /\ \A i \in 1 .. Len(s) + 1 :
                     Inserted(s, x)[i] = IF i < p THEN s[i] ELSE IF i = p THEN x ELSE s[i - 1]
                /\ \A i \in 1 .. Len(s) : IF i < p THEN Less(s[i].e, x.e) ELSE Less(x.e, s[i].e)
<1> DEFINE at == {i \in DOMAIN s : Less(x.e, s[i].e)}
           p == IF at = {} THEN Len(s) + 1 ELSE Min(at)
           t == InsertAt(s, p, x)
<1>1. /\ Len(s) \in Nat /\ DOMAIN s = 1 .. Len(s)
      /\ \A i \in 1 .. Len(s) : s[i] \in ItemSet /\ s[i].e \in Entry /\ s[i].e # x.e
      /\ x.e \in Entry
  <2>1. Len(s) \in Nat /\ DOMAIN s = 1 .. Len(s) /\ \A i \in 1 .. Len(s) : s[i] \in ItemSet
    BY LenProperties, ElementOfSeq
  <2> QED
    BY <2>1 DEF ItemSet
<1>2. at \subseteq Nat
  BY <1>1
<1>3. at # {} => Min(at) \in at /\ \A i \in at : Min(at) <= i
  BY <1>2, MinIsLeast
<1>4. p \in 1 .. Len(s) + 1
  BY <1>1, <1>3
<1>5. \A i \in 1 .. Len(s) : i < p => Less(s[i].e, x.e)
  <2> SUFFICES ASSUME NEW i \in 1 .. Len(s), i < p PROVE ~ Less(x.e, s[i].e)
    BY <1>1, LessOrder
  <2>1. i \in at => Min(at) <= i /\ p = Min(at)
    BY <1>3
  <2>2. i \notin at
    <3> HIDE DEF at
    <3> QED
      BY <1>1, <1>4, <2>1
  <2> QED
    BY <1>1, <2>2
<1>6. \A i \in 1 .. Len(s) : i >= p => Less(x.e, s[i].e)
  <2> SUFFICES ASSUME NEW i \in 1 .. Len(s), i >= p PROVE Less(x.e, s[i].e)
    OBVIOUS
  <2>1. at # {} /\ p \in at /\ Less(x.e, s[p].e) /\ p \in 1 .. Len(s)
    BY <1>1, <1>3
  <2>2. i = p \/ Less(s[p].e, s[i].e)
    BY <1>1, <2>1 DEF Increasing
  <2> HIDE DEF p
  <2> QED
    BY <1>1, <2>1, <2>2, LessOrder
<1>7. Inserted(s, x) = t
  BY DEF Inserted
<1> HIDE DEF p, at
<1>8. /\ t \in Seq(ItemSet) /\ Len(t) = Len(s) + 1
      /\ \A i \in 1 .. Len(s) + 1 : t[i] = IF i < p THEN s[i] ELSE IF i = p THEN x ELSE s[i - 1]
  BY <1>4, InsertAtAt
<1>9. Increasing(t)
  <2> HIDE DEF t
  <2> SUFFICES ASSUME NEW i \in 1 .. Len(s) + 1, NEW j \in 1 .. Len(s) + 1, i < j PROVE Less(t[i].e, t[j].e)
    BY <1>1, <1>8, LenProperties DEF Increasing
  <2>1. CASE j < p
    <3>1. t[i] = s[i] /\ t[j] = s[j] /\ i \in DOMAIN s /\ j \in DOMAIN s
      BY <1>1, <1>4, <1>8, <2>1
    <3> QED
      BY <3>1 DEF Increasing
  <2>5. CASE i > p
    <3>1. t[i] = s[i - 1] /\ t[j] = s[j - 1] /\ i - 1 \in DOMAIN s /\ j - 1 \in DOMAIN s /\ i - 1 < j - 1
      BY <1>1, <1>4, <1>8, <2>5
    <3> QED
      BY <3>1 DEF Increasing
  <2>2. CASE j = p
    BY <1>1, <1>4, <1>5, <1>8, <2>2
  <2>3. CASE i = p
    BY <1>1, <1>4, <1>6, <1>8, <2>3
  <2>4. CASE i < p /\ j > p
    <3>1. j - 1 \in 1 .. Len(s) /\ i \in 1 .. Len(s) /\ (i < j - 1 \/ i = j - 1)
      BY <1>1, <1>4, <2>4
    <3>2. Less(s[i].e, x.e) /\ Less(x.e, s[j - 1].e) /\ i \in 1 .. Len(s) /\ j - 1 \in 1 .. Len(s)
      BY <1>1, <1>4, <1>5, <1>6, <2>4
    <3>3. Less(s[i].e, s[j - 1].e)
      BY <1>1, <3>2, LessOrder
    <3> QED
      BY <1>4, <1>8, <2>4, <3>3
  <2> QED
    BY <1>4, <2>1, <2>2, <2>3, <2>4, <2>5
<1> HIDE DEF t
<1> QED
  BY <1>1, <1>4, <1>5, <1>6, <1>7, <1>8, <1>9
-----------------------------------------------------------------------------
(* The parts of a tree *)

\* Induction up to N.
LEMMA Counted ==
    ASSUME NEW N \in Nat, NEW A, 0 \in A, \A i \in 1 .. N : i - 1 \in A => i \in A
    PROVE  \A i \in 0 .. N : i \in A
<1> DEFINE Bad == {i \in 0 .. N : i \notin A}
<1> SUFFICES ASSUME Bad # {} PROVE FALSE
  OBVIOUS
<1>1. PICK m \in Bad : \A x \in Bad : m <= x
  <2>1. Bad \subseteq Nat
    OBVIOUS
  <2> HIDE DEF Bad
  <2> QED
    BY <2>1, HasLeast
<1>2. m \in 1 .. N /\ m - 1 \in 0 .. N /\ ~ (m <= m - 1)
  BY <1>1
<1>3. m - 1 \in A
  BY <1>1, <1>2
<1> QED
  BY <1>1, <1>2, <1>3

Counts(g, m) == g = [i \in 0 .. m |-> g[i]]

\* A function continued by one more value.
LEMMA Extended ==
    ASSUME NEW m \in Nat \ {0}, NEW h, NEW v
    PROVE  \E g : /\ Counts(g, m) /\ g[m] = v
                  /\ \A i \in 0 .. m - 1 : g[i] = h[i]
                  /\ \A i \in 0 .. m : i = m \/ (i \in 0 .. m - 1 /\ (i # 0 => i - 1 \in 0 .. m - 1))
                  /\ m - 1 \in 0 .. m - 1
<1> DEFINE g == [i \in 0 .. m |-> IF i = m THEN v ELSE h[i]]
<1>1. m \in 0 .. m /\ m - 1 \in 0 .. m - 1 /\ \A i \in 0 .. m - 1 : i \in 0 .. m /\ i # m
  OBVIOUS
<1>2. Counts(g, m)
  BY DEF Counts
<1>3. g[m] = v /\ \A i \in 0 .. m - 1 : g[i] = h[i]
  BY <1>1
<1>4. \A i \in 0 .. m : i = m \/ (i \in 0 .. m - 1 /\ (i # 0 => i - 1 \in 0 .. m - 1))
  OBVIOUS
<1> HIDE DEF g
<1> QED
  BY <1>1, <1>2, <1>3, <1>4

Shaped(P) == PagesOK(P) /\ Linked(P) /\ Hung(P)

\* What a page of an index is made of.
LEMMA PageFacts ==
    ASSUME NEW P, PagesOK(P), NEW q \in DOMAIN P
    PROVE  /\ q \in Nat /\ q # 0
           /\ P[q].level \in Nat /\ P[q].prev \in Nat /\ P[q].next \in Nat /\ P[q].tail \in Nat
           /\ P[q].entries \in Seq(ItemSet)
           /\ Len(P[q].entries) \in Nat /\ DOMAIN P[q].entries = 1 .. Len(P[q].entries)
           /\ \A i \in 1 .. Len(P[q].entries) :
                /\ P[q].entries[i] \in ItemSet
                /\ P[q].entries[i].e \in Entry /\ P[q].entries[i].child \in Nat
<1>1. P[q] \in Page /\ q \in Nat \ {0}
  BY DEF PagesOK
<1>2. P[q].entries \in Seq(ItemSet)
  BY <1>1 DEF Page, ItemSet
<1>3. /\ Len(P[q].entries) \in Nat /\ DOMAIN P[q].entries = 1 .. Len(P[q].entries)
      /\ \A i \in 1 .. Len(P[q].entries) : P[q].entries[i] \in ItemSet
  BY <1>2, LenProperties, ElementOfSeq
<1>4. \A x \in ItemSet : x.e \in Entry /\ x.child \in Nat
  BY DEF ItemSet
<1>5. P[q].level \in Nat /\ P[q].prev \in Nat /\ P[q].next \in Nat /\ P[q].tail \in Nat
  BY <1>1 DEF Page
<1> QED
  BY <1>1, <1>2, <1>3, <1>4, <1>5

LEMMA LastHead ==
    ASSUME NEW s \in Seq(ItemSet), s # << >>
    PROVE  /\ Len(s) \in Nat /\ Len(s) >= 1 /\ Last(s) = s[Len(s)] /\ Head(s) = s[1]
           /\ Last(s) \in ItemSet /\ Last(s).e \in Entry /\ Head(s) \in ItemSet /\ Head(s).e \in Entry
<1>1. Len(s) \in Nat \ {0}
  BY EmptySeq
<1>2. Last(s) = s[Len(s)] /\ Head(s) = s[1]
  BY DEF Last
<1>3. s[Len(s)] \in ItemSet /\ s[1] \in ItemSet
  BY <1>1, ElementOfSeq
<1>4. \A x \in ItemSet : x.e \in Entry
  BY DEF ItemSet
<1> QED
  BY <1>1, <1>2, <1>3, <1>4

\* A page with entries.
LEMMA FilledPage ==
    ASSUME NEW P, PagesOK(P), NEW q \in DOMAIN P, P[q].entries # << >>
    PROVE  /\ Len(P[q].entries) \in Nat /\ Len(P[q].entries) >= 1
           /\ Last(P[q].entries) = P[q].entries[Len(P[q].entries)] /\ Head(P[q].entries) = P[q].entries[1]
           /\ Last(P[q].entries).e \in Entry /\ Head(P[q].entries).e \in Entry
BY PageFacts, LastHead

\* Only a root without children is empty.
LEMMA Filled ==
    ASSUME NEW P, PagesOK(P), NEW q \in DOMAIN P, q # Root \/ ~ Leaf(P[q])
    PROVE  P[q].entries # << >>
BY DEF PagesOK, Leaf, EmptyLeaf

\* The children of a node, and the first and the last of them.
LEMMA NodeFacts ==
    ASSUME NEW P, PagesOK(P), NEW q \in DOMAIN P, ~ Leaf(P[q])
    PROVE  /\ Len(P[q].entries) \in Nat /\ Len(P[q].entries) >= 1
           /\ \A i : i \in ChildNos(P[q]) <=> i \in 1 .. Len(P[q].entries) \/ (P[q].tail # 0 /\ i = Len(P[q].entries) + 1)
           /\ \A i \in 1 .. Len(P[q].entries) : i \in ChildNos(P[q]) /\ Child(P[q], i) = P[q].entries[i].child
           /\ Child(P[q], Len(P[q].entries) + 1) = P[q].tail
           /\ (P[q].next # 0 => P[q].tail = 0)
<1>1. Len(P[q].entries) \in Nat /\ Len(P[q].entries) >= 1
  BY Filled, FilledPage
<1>2. P[q].next # 0 => P[q].tail = 0
  BY DEF PagesOK
<1> DEFINE n == Len(P[q].entries)
<1>3. ChildNos(P[q]) = 1 .. n + (IF P[q].tail = 0 THEN 0 ELSE 1)
  BY DEF ChildNos
<1>4. \A i : Child(P[q], i) = IF i <= n THEN P[q].entries[i].child ELSE P[q].tail
  BY DEF Child
<1> HIDE DEF n
<1>5. n \in Nat /\ n >= 1
  BY <1>1 DEF n
<1>6. \A i : i \in ChildNos(P[q]) <=> i \in 1 .. n \/ (P[q].tail # 0 /\ i = n + 1)
  <2>1. CASE P[q].tail = 0
    BY <1>3, <1>5, <2>1
  <2>2. CASE P[q].tail # 0
    BY <1>3, <1>5, <2>2
  <2> QED
    BY <2>1, <2>2
<1>7. \A i \in 1 .. n : i \in ChildNos(P[q]) /\ Child(P[q], i) = P[q].entries[i].child
  BY <1>4, <1>5, <1>6
<1>8. Child(P[q], n + 1) = P[q].tail
  BY <1>4, <1>5
<1> QED
  BY <1>1, <1>2, <1>6, <1>7, <1>8 DEF n

\* A child, and the page behind it.
LEMMA ChildFacts ==
    ASSUME NEW P, Shaped(P), NEW q \in DOMAIN P, NEW i \in ChildNos(P[q])
    PROVE  /\ ~ Leaf(P[q]) /\ i \in Nat /\ 1 <= i /\ i <= Len(P[q].entries) + 1
           /\ (P[q].tail = 0 => i <= Len(P[q].entries))
           /\ Len(P[q].entries) \in Nat /\ Len(P[q].entries) >= 1
           /\ Child(P[q], i) \in DOMAIN P /\ Child(P[q], i) # Root /\ Child(P[q], i) # 0
           /\ P[Child(P[q], i)].entries # << >>
           /\ P[Child(P[q], i)].level + 1 = P[q].level
           /\ P[Child(P[q], i)].next = Behind(P, q, i)
           /\ (i <= Len(P[q].entries) => P[Child(P[q], i)].tail = 0)
<1>1. ~ Leaf(P[q]) /\ i \in 1 .. Len(P[q].entries) + (IF P[q].tail = 0 THEN 0 ELSE 1)
  BY DEF ChildNos
<1>2. Len(P[q].entries) \in Nat /\ Len(P[q].entries) >= 1
  BY <1>1, Filled, FilledPage DEF Shaped
<1>3. /\ Child(P[q], i) \in DOMAIN P /\ Child(P[q], i) # Root
      /\ P[Child(P[q], i)].level + 1 = P[q].level
      /\ P[Child(P[q], i)].next = Behind(P, q, i)
      /\ (i <= Len(P[q].entries) => P[Child(P[q], i)].tail = 0)
  BY DEF Shaped, Hung
<1>4. Child(P[q], i) # 0 /\ P[Child(P[q], i)].entries # << >>
  BY <1>3, PageFacts, Filled DEF Shaped
<1> DEFINE n == Len(P[q].entries)
<1>5. i \in 1 .. n \/ (P[q].tail # 0 /\ i = n + 1)
  BY <1>1, NodeFacts DEF Shaped
<1> HIDE DEF n
<1>6. n \in Nat /\ n >= 1
  BY <1>2 DEF n
<1>7. i \in Nat /\ 1 <= i /\ i <= n + 1 /\ (P[q].tail = 0 => i <= n)
  BY <1>5, <1>6
<1> QED
  BY <1>1, <1>2, <1>3, <1>4, <1>7 DEF n

\* The largest and the smallest entry of a page, and its order.
Top(P, q) == Last(P[q].entries).e
Low(P, q) == Head(P[q].entries).e

LEMMA EndsAre ==
    ASSUME NEW P, PagesOK(P), NEW q \in DOMAIN P, P[q].entries # << >>
    PROVE  Low(P, q) = P[q].entries[1].e /\ Top(P, q) = P[q].entries[Len(P[q].entries)].e
BY FilledPage DEF Low, Top

SortedAt(P, q) ==
    Increasing(P[q].entries) /\ (P[q].next # 0 => Less(Top(P, q), Low(P, P[q].next)))

LEMMA SortedPages == ASSUME NEW P PROVE Sorted(P) <=> \A q \in DOMAIN P : SortedAt(P, q)
BY DEF Sorted, SortedAt, Increasing, Top, Low

\* The entries of a page lie between its smallest and its largest.
LEMMA Spread ==
    ASSUME NEW P, PagesOK(P), NEW q \in DOMAIN P, P[q].entries # << >>, Increasing(P[q].entries)
    PROVE  /\ Top(P, q) \in Entry /\ Low(P, q) \in Entry
           /\ Top(P, q) = P[q].entries[Len(P[q].entries)].e /\ Low(P, q) = P[q].entries[1].e
           /\ \A i \in 1 .. Len(P[q].entries) :
                /\ P[q].entries[i].e = Low(P, q) \/ Less(Low(P, q), P[q].entries[i].e)
                /\ P[q].entries[i].e = Top(P, q) \/ Less(P[q].entries[i].e, Top(P, q))
           /\ Low(P, q) = Top(P, q) \/ Less(Low(P, q), Top(P, q))
<1> DEFINE n == Len(P[q].entries)
           s == P[q].entries
<1>1. /\ n \in Nat /\ n >= 1 /\ DOMAIN s = 1 .. n
      /\ Top(P, q) = s[n].e /\ Low(P, q) = s[1].e
      /\ Top(P, q) \in Entry /\ Low(P, q) \in Entry
  BY FilledPage, PageFacts DEF Top, Low
<1>2. \A i, j \in 1 .. n : i < j => Less(s[i].e, s[j].e)
  BY <1>1 DEF Increasing
<1> HIDE DEF n, s
<1>3. \A i \in 1 .. n : (i = 1 \/ 1 < i) /\ (i = n \/ i < n) /\ 1 \in 1 .. n /\ n \in 1 .. n
  BY <1>1
<1>4. \A i \in 1 .. n : (s[i].e = s[1].e \/ Less(s[1].e, s[i].e)) /\ (s[i].e = s[n].e \/ Less(s[i].e, s[n].e))
  BY <1>2, <1>3
<1> QED
  BY <1>1, <1>3, <1>4 DEF n, s

\* The neighbours of a page.
LEMMA LinkFacts ==
    ASSUME NEW P, Shaped(P), NEW q \in DOMAIN P
    PROVE  /\ (P[q].next # 0 => /\ P[q].next \in DOMAIN P /\ P[P[q].next].prev = q
                                /\ P[P[q].next].level = P[q].level /\ q # Root /\ P[q].next # Root)
           /\ (P[q].prev # 0 => /\ P[q].prev \in DOMAIN P /\ P[P[q].prev].next = q
                                /\ P[P[q].prev].level = P[q].level /\ q # Root /\ P[q].prev # Root)
           /\ Root \in DOMAIN P /\ P[Root].prev = 0 /\ P[Root].next = 0
<1>1. Root \in DOMAIN P /\ P[Root].prev = 0 /\ P[Root].next = 0
  BY DEF Shaped, Linked
<1>2. \A x \in DOMAIN P : P[x].next # 0 => P[x].next \in DOMAIN P /\ P[P[x].next].prev = x /\ P[P[x].next].level = P[x].level
  BY DEF Shaped, Linked
<1>3. P[q].prev # 0 => P[q].prev \in DOMAIN P /\ P[P[q].prev].next = q
  BY DEF Shaped, Linked
<1>4. \A x \in DOMAIN P : x # 0
  BY PageFacts DEF Shaped
<1>5. P[q].prev # 0 => P[P[q].prev].level = P[q].level /\ q # Root /\ P[q].prev # Root
  BY <1>1, <1>2, <1>3, <1>4
<1>6. P[q].next # 0 => q # Root /\ P[q].next # Root
  BY <1>1, <1>2, <1>4
<1> QED
  BY <1>1, <1>2, <1>3, <1>5, <1>6

LEMMA RootFacts ==
    ASSUME NEW P, Shaped(P)
    PROVE  Root \in DOMAIN P /\ P[Root].prev = 0 /\ P[Root].next = 0 /\ P[Root].level \in Nat
<1>1. Root \in DOMAIN P /\ P[Root].prev = 0 /\ P[Root].next = 0
  BY DEF Shaped, Linked
<1> QED
  BY <1>1, PageFacts DEF Shaped

\* Children of a node next to each other.
LEMMA NextChild ==
    ASSUME NEW P, Shaped(P), NEW q \in DOMAIN P, NEW i \in ChildNos(P[q]), i + 1 \in ChildNos(P[q])
    PROVE  /\ P[Child(P[q], i)].next = Child(P[q], i + 1)
           /\ P[Child(P[q], i + 1)].prev = Child(P[q], i)
<1>1. P[Child(P[q], i)].next = Child(P[q], i + 1) /\ Child(P[q], i) \in DOMAIN P
  BY ChildFacts DEF Behind
<1>2. Child(P[q], i + 1) # 0
  BY ChildFacts
<1> QED
  BY <1>1, <1>2, LinkFacts

\* The last child of a node and the first of the node behind.
LEMMA LastChild ==
    ASSUME NEW P, Shaped(P), NEW q \in DOMAIN P, NEW i \in ChildNos(P[q]), i + 1 \notin ChildNos(P[q])
    PROVE  /\ (P[q].next = 0 => P[Child(P[q], i)].next = 0)
           /\ (P[q].next # 0 =>
                 /\ i = Len(P[q].entries) /\ P[q].tail = 0
                 /\ P[q].next \in DOMAIN P /\ ~ Leaf(P[P[q].next]) /\ 1 \in ChildNos(P[P[q].next])
                 /\ P[Child(P[q], i)].next = Child(P[P[q].next], 1)
                 /\ P[Child(P[P[q].next], 1)].prev = Child(P[q], i))
<1>1. P[Child(P[q], i)].next = IF P[q].next = 0 THEN 0 ELSE Child(P[P[q].next], 1)
  BY ChildFacts DEF Behind
<1>2. ASSUME P[q].next # 0
      PROVE  /\ i = Len(P[q].entries) /\ P[q].tail = 0
             /\ P[q].next \in DOMAIN P /\ ~ Leaf(P[P[q].next]) /\ 1 \in ChildNos(P[P[q].next])
             /\ P[Child(P[P[q].next], 1)].prev = Child(P[q], i)
  <2>1. P[q].next \in DOMAIN P /\ P[P[q].next].level = P[q].level /\ ~ Leaf(P[q])
    BY <1>2, LinkFacts, ChildFacts
  <2>2. ~ Leaf(P[P[q].next])
    BY <2>1 DEF Leaf
  <2>3. 1 \in ChildNos(P[P[q].next])
    BY <2>1, <2>2, NodeFacts DEF Shaped
  <2>4. P[q].tail = 0
    BY <1>2, <2>1, NodeFacts DEF Shaped
  <2>5. i \in 1 .. Len(P[q].entries) /\ i + 1 \notin 1 .. Len(P[q].entries) /\ Len(P[q].entries) \in Nat
    BY <2>1, <2>4, NodeFacts DEF Shaped
  <2>6. i = Len(P[q].entries)
    BY <2>5
  <2>7. Child(P[P[q].next], 1) # 0 /\ Child(P[q], i) \in DOMAIN P
    BY <2>1, <2>3, ChildFacts
  <2>8. P[Child(P[P[q].next], 1)].prev = Child(P[q], i)
    BY <1>1, <1>2, <2>7, LinkFacts
  <2> QED
    BY <2>1, <2>2, <2>3, <2>4, <2>6, <2>8
<1> QED
  BY <1>1, <1>2

\* The page before the first child of a node is the last child of the node before.
LEMMA FirstChild ==
    ASSUME NEW P, Shaped(P), NEW q \in DOMAIN P, 1 \in ChildNos(P[q])
    PROVE  /\ (P[q].prev = 0 => P[Child(P[q], 1)].prev = 0)
           /\ (P[q].prev # 0 =>
                 /\ P[q].prev \in DOMAIN P /\ ~ Leaf(P[P[q].prev]) /\ P[P[q].prev].tail = 0
                 /\ Len(P[P[q].prev].entries) \in ChildNos(P[P[q].prev])
                 /\ P[Child(P[q], 1)].prev = Child(P[P[q].prev], Len(P[P[q].prev].entries)))
<1> DEFINE c == Child(P[q], 1)
           x == P[c].prev
<1>1. c \in DOMAIN P /\ c # 0 /\ ~ Leaf(P[q])
  BY ChildFacts
<1>2. ASSUME x # 0 PROVE P[q].prev # 0
  <2>1. x \in DOMAIN P \ {Root} /\ P[x].next = c
    BY <1>1, <1>2, LinkFacts
  <2>0. PICK q0 \in DOMAIN P : \E i \in ChildNos(P[q0]) : Child(P[q0], i) = x
    BY <2>1 DEF Shaped, Hung
  <2>2. PICK i0 \in ChildNos(P[q0]) : Child(P[q0], i0) = x
    BY <2>0
  <2>3. i0 \in Nat /\ 1 <= i0
    BY ChildFacts
  <2>4. CASE i0 + 1 \in ChildNos(P[q0])
    <3>1. Child(P[q0], i0 + 1) = c
      BY <2>1, <2>2, <2>4, NextChild
    <3>2. i0 + 1 = 1
      BY <2>4, <3>1 DEF Shaped, Hung
    <3> QED
      BY <2>3, <3>2
  <2>5. CASE i0 + 1 \notin ChildNos(P[q0])
    <3>1. P[q0].next # 0
      BY <1>1, <2>1, <2>2, <2>5, LastChild
    <3>2. P[q0].next \in DOMAIN P /\ 1 \in ChildNos(P[P[q0].next]) /\ Child(P[P[q0].next], 1) = c
      BY <2>1, <2>2, <2>5, <3>1, LastChild
    <3>3. P[q0].next = q
      BY <3>2 DEF Shaped, Hung
    <3>4. P[q].prev = q0
      BY <3>1, <3>3, LinkFacts
    <3> QED
      BY <3>4, PageFacts DEF Shaped
  <2> QED
    BY <2>4, <2>5
<1>3. ASSUME P[q].prev # 0
      PROVE  /\ P[q].prev \in DOMAIN P /\ ~ Leaf(P[P[q].prev]) /\ P[P[q].prev].tail = 0
             /\ Len(P[P[q].prev].entries) \in ChildNos(P[P[q].prev])
             /\ x = Child(P[P[q].prev], Len(P[P[q].prev].entries))
  <2> DEFINE p == P[q].prev
             n == Len(P[p].entries)
  <2>1. p \in DOMAIN P /\ P[p].next = q /\ P[p].level = P[q].level /\ q # 0
    BY <1>3, LinkFacts, PageFacts DEF Shaped
  <2>2. ~ Leaf(P[p])
    BY <1>1, <2>1 DEF Leaf
  <2>3. P[p].tail = 0 /\ n \in Nat /\ n >= 1 /\ \A i : i \in ChildNos(P[p]) <=> i \in 1 .. n
    BY <2>1, <2>2, NodeFacts DEF Shaped
  <2> HIDE DEF n, p
  <2>4. n \in ChildNos(P[p]) /\ n + 1 \notin ChildNos(P[p])
    BY <2>3
  <2>5. P[Child(P[q], 1)].prev = Child(P[p], n)
    BY <2>1, <2>4, LastChild
  <2> QED
    BY <2>1, <2>2, <2>3, <2>4, <2>5 DEF n, p
<1> QED
  BY <1>2, <1>3

\* The root is higher than every other page.
LEMMA RootLevel ==
    ASSUME NEW P, Shaped(P), NEW q \in DOMAIN P \ {Root}
    PROVE  P[q].level < P[Root].level
<1> DEFINE T == {P[x].level : x \in DOMAIN P}
           f == [x \in DOMAIN P |-> P[x].level]
<1>1. IsFiniteSet(DOMAIN P) /\ \A x \in DOMAIN P : P[x].level \in Nat
  BY PageFacts DEF Shaped, PagesOK
<1>2. f \in Surjection(DOMAIN P, T)
  BY DEF Surjection
<1>3. IsFiniteSet(T) /\ T \subseteq Nat /\ T # {}
  BY <1>1, <1>2, FS_Surjection
<1>4. PICK m \in T : \A y \in T : y <= m
  BY <1>3, HasLargest
<1>5. \A x \in DOMAIN P \ {Root} : P[x].level + 1 \in T
  <2> TAKE x \in DOMAIN P \ {Root}
  <2>0. PICK q0 \in DOMAIN P : \E i \in ChildNos(P[q0]) : Child(P[q0], i) = x
    BY DEF Shaped, Hung
  <2>1. PICK i0 \in ChildNos(P[q0]) : Child(P[q0], i0) = x
    BY <2>0
  <2>2. P[x].level + 1 = P[q0].level
    BY <2>1, ChildFacts
  <2> QED
    BY <2>2
<1>6. \A x \in DOMAIN P \ {Root} : P[x].level < m
  <2> TAKE x \in DOMAIN P \ {Root}
  <2>1. P[x].level \in Nat /\ P[x].level + 1 <= m /\ m \in Nat
    BY <1>1, <1>3, <1>4, <1>5
  <2> QED
    BY <2>1
<1>7. \E x \in DOMAIN P : P[x].level = m
  OBVIOUS
<1> HIDE DEF T
<1>8. P[Root].level = m
  BY <1>1, <1>3, <1>4, <1>6, <1>7
<1> QED
  BY <1>6, <1>8

LEMMA TreeParts ==
    ASSUME NEW P, NEW stale, BTree(P, stale)
    PROVE  /\ Shaped(P) /\ PagesOK(P) /\ Linked(P) /\ Hung(P) /\ Sorted(P)
           /\ \A q \in DOMAIN P : SortedAt(P, q)
           /\ \A q \in DOMAIN P \ {Root} : P[q].entries # << >>
BY SortedPages, Filled DEF BTree, Shaped

\* The dividers of a node, and their children.
LEMMA Dividers ==
    ASSUME NEW P, NEW stale, BTree(P, stale), NEW q \in DOMAIN P, ~ Leaf(P[q]), NEW i \in 1 .. Len(P[q].entries)
    PROVE  /\ i \in ChildNos(P[q]) /\ P[q].entries[i].child = Child(P[q], i)
           /\ (Child(P[q], i) # stale => P[q].entries[i].e = Top(P, Child(P[q], i)))
<1>1. i \in ChildNos(P[q]) /\ P[q].entries[i].child = Child(P[q], i) /\ i \in DOMAIN P[q].entries
  BY NodeFacts, PageFacts, TreeParts
<1>2. Leaf(P[q]) \/ P[q].entries[i].child = stale \/ P[q].entries[i].e = Last(P[P[q].entries[i].child].entries).e
  BY <1>1 DEF BTree, Divided
<1> QED
  BY <1>1, <1>2 DEF Top

\* Where a search for e passes: behind what is smaller, and not behind what is
\* larger, of the level.
InRange(P, q, e) ==
    /\ P[q].prev # 0 => Less(Top(P, P[q].prev), e)
    /\ P[q].next # 0 => ~ Less(Top(P, q), e)

LEMMA BeforeInRange ==
    ASSUME NEW P, BTree(P, 0), NEW q \in DOMAIN P, NEW j \in ChildNos(P[q]), NEW e \in Entry,
           P[q].prev # 0 => Less(Top(P, P[q].prev), e),
           \A i \in 1 .. Len(P[q].entries) : i < j => Less(P[q].entries[i].e, e)
    PROVE  P[Child(P[q], j)].prev # 0 => Less(Top(P, P[Child(P[q], j)].prev), e)
<1> SUFFICES ASSUME P[Child(P[q], j)].prev # 0 PROVE Less(Top(P, P[Child(P[q], j)].prev), e)
  OBVIOUS
<1>1. /\ ~ Leaf(P[q]) /\ j \in Nat /\ 1 <= j /\ j <= Len(P[q].entries) + 1
      /\ Len(P[q].entries) \in Nat /\ Len(P[q].entries) >= 1
  BY ChildFacts, TreeParts
<1>2. \A i \in 1 .. Len(P[q].entries) : i \in ChildNos(P[q]) /\ P[q].entries[i].e = Top(P, Child(P[q], i))
  BY <1>1, Dividers, ChildFacts, TreeParts
<1>3. CASE j = 1
  <2> DEFINE p == P[q].prev
             n == Len(P[p].entries)
  <2>1. /\ p # 0 /\ p \in DOMAIN P /\ ~ Leaf(P[p]) /\ n \in ChildNos(P[p]) /\ P[p].tail = 0
        /\ P[Child(P[q], 1)].prev = Child(P[p], n)
    BY <1>3, FirstChild, TreeParts
  <2>2. n \in 1 .. n /\ Top(P, p) = P[p].entries[n].e
    BY <2>1, NodeFacts, FilledPage, Filled, TreeParts DEF Top
  <2>3. Child(P[p], n) # 0
    BY <2>1, ChildFacts, TreeParts
  <2>4. Top(P, Child(P[p], n)) = Top(P, p)
    BY <2>1, <2>2, <2>3, Dividers
  <2> QED
    BY <1>3, <2>1, <2>4
<1>4. CASE j # 1
  <2>1. j - 1 \in 1 .. Len(P[q].entries) /\ j - 1 < j /\ (j - 1) + 1 = j
    BY <1>1, <1>4
  <2>2. P[Child(P[q], j)].prev = Child(P[q], j - 1)
    BY <1>2, <2>1, NextChild, TreeParts
  <2> QED
    BY <1>2, <2>1, <2>2
<1> QED
  BY <1>3, <1>4

\* What Toward chooses.
LEMMA TowardFacts ==
    ASSUME NEW P, BTree(P, 0), NEW q \in DOMAIN P, ~ Leaf(P[q]), NEW e \in Entry
    PROVE  \E j \in ChildNos(P[q]) :
             /\ Toward(P[q], e) = Child(P[q], j)
             /\ \A i \in 1 .. Len(P[q].entries) : i < j => Less(P[q].entries[i].e, e)
             /\ \/ j \in 1 .. Len(P[q].entries) /\ ~ Less(P[q].entries[j].e, e)
                \/ j + 1 \notin ChildNos(P[q]) /\ Less(Top(P, q), e)
<1> DEFINE s == P[q].entries
           n == Len(s)
           at == {i \in DOMAIN s : ~ Less(s[i].e, e)}
<1>1. n \in Nat /\ n >= 1 /\ DOMAIN s = 1 .. n /\ Last(s) = s[n] /\ Top(P, q) = s[n].e
  BY NodeFacts, PageFacts, FilledPage, Filled, TreeParts DEF Top
<1>2. /\ \A i : i \in ChildNos(P[q]) <=> i \in 1 .. n \/ (P[q].tail # 0 /\ i = n + 1)
      /\ \A i \in 1 .. n : Child(P[q], i) = s[i].child
      /\ Child(P[q], n + 1) = P[q].tail
  BY NodeFacts, TreeParts
<1>3. Toward(P[q], e) = IF at # {} THEN s[Min(at)].child ELSE IF P[q].tail # 0 THEN P[q].tail ELSE s[n].child
  BY <1>1 DEF Toward
<1> HIDE DEF s, n
<1>4. CASE at # {}
  <2>1. at \subseteq Nat
    BY <1>1
  <2>2. Min(at) \in at /\ \A i \in at : Min(at) <= i
    BY <1>4, <2>1, MinIsLeast
  <2>3. PICK j \in 1 .. n : j = Min(at) /\ ~ Less(s[j].e, e)
    BY <1>1, <2>2
  <2>4. \A i \in 1 .. n : i < j => Less(s[i].e, e)
    <3> TAKE i \in 1 .. n
    <3>1. i \in at => j <= i
      BY <2>2, <2>3
    <3>2. i \notin at => Less(s[i].e, e)
      BY <1>1
    <3> HIDE DEF at
    <3> QED
      BY <1>1, <3>1, <3>2
  <2>5. j \in ChildNos(P[q]) /\ Toward(P[q], e) = Child(P[q], j)
    BY <1>2, <1>3, <1>4, <2>3
  <2> QED
    BY <2>3, <2>4, <2>5 DEF s, n
<1>5. CASE at = {}
  <2>1. \A i \in 1 .. n : Less(s[i].e, e)
    BY <1>1, <1>5
  <2>2. Less(Top(P, q), e)
    BY <1>1, <2>1
  <2>3. CASE P[q].tail # 0
    <3>1. n + 1 \in ChildNos(P[q]) /\ (n + 1) + 1 \notin ChildNos(P[q])
      BY <1>1, <1>2, <2>3
    <3>2. Toward(P[q], e) = Child(P[q], n + 1)
      BY <1>2, <1>3, <1>5, <2>3
    <3> QED
      BY <2>1, <2>2, <3>1, <3>2 DEF s, n
  <2>4. CASE P[q].tail = 0
    <3>1. n \in ChildNos(P[q]) /\ n + 1 \notin ChildNos(P[q]) /\ n \in 1 .. n
      BY <1>1, <1>2, <2>4
    <3>2. Toward(P[q], e) = Child(P[q], n)
      BY <1>2, <1>3, <1>5, <2>4, <3>1
    <3> QED
      BY <2>1, <2>2, <3>1, <3>2 DEF s, n
  <2> QED
    BY <2>3, <2>4
<1> QED
  BY <1>4, <1>5

\* A search stays in range.
LEMMA TowardInRange ==
    ASSUME NEW P, BTree(P, 0), NEW q \in DOMAIN P, ~ Leaf(P[q]), NEW e \in Entry, InRange(P, q, e)
    PROVE  \E j \in ChildNos(P[q]) : Toward(P[q], e) = Child(P[q], j) /\ InRange(P, Child(P[q], j), e)
<1>1. PICK j \in ChildNos(P[q]) :
             /\ Toward(P[q], e) = Child(P[q], j)
             /\ \A i \in 1 .. Len(P[q].entries) : i < j => Less(P[q].entries[i].e, e)
             /\ \/ j \in 1 .. Len(P[q].entries) /\ ~ Less(P[q].entries[j].e, e)
                \/ j + 1 \notin ChildNos(P[q]) /\ Less(Top(P, q), e)
  BY TowardFacts
<1> DEFINE c == Child(P[q], j)
<1>2. c \in DOMAIN P /\ c # 0
  BY ChildFacts, TreeParts
<1>3. P[c].prev # 0 => Less(Top(P, P[c].prev), e)
  BY <1>1, BeforeInRange DEF InRange
<1>4. ASSUME P[c].next # 0 PROVE ~ Less(Top(P, c), e)
  <2>1. CASE j \in 1 .. Len(P[q].entries) /\ ~ Less(P[q].entries[j].e, e)
    BY <1>2, <2>1, Dividers
  <2>2. CASE j + 1 \notin ChildNos(P[q]) /\ Less(Top(P, q), e)
    <3>1. P[q].next = 0
      BY <2>2 DEF InRange
    <3> QED
      BY <1>4, <2>2, <3>1, LastChild, TreeParts
  <2> QED
    BY <1>1, <2>1, <2>2
<1>5. InRange(P, c, e)
  BY <1>3, <1>4 DEF InRange
<1> QED
  BY <1>1, <1>5
-----------------------------------------------------------------------------
(* The search ends in the leaf whose range an entry is in *)

\* The node over a page in range is in range, and a search goes from it to the page.
LEMMA OverInRange ==
    ASSUME NEW P, BTree(P, 0), NEW q \in DOMAIN P, NEW j \in ChildNos(P[q]), NEW e \in Entry,
           InRange(P, Child(P[q], j), e)
    PROVE  InRange(P, q, e) /\ Toward(P[q], e) = Child(P[q], j)
<1> DEFINE x == Child(P[q], j)
           s == P[q].entries
           n == Len(s)
<1>1. /\ ~ Leaf(P[q]) /\ x \in DOMAIN P /\ x # 0 /\ j \in Nat /\ 1 <= j /\ j <= n + 1
      /\ (P[q].tail = 0 => j <= n)
  BY ChildFacts, TreeParts
<1>2. /\ n \in Nat /\ n >= 1 /\ DOMAIN s = 1 .. n /\ Top(P, q) = s[n].e
      /\ \A i \in 1 .. n : s[i].e \in Entry
      /\ \A i : i \in ChildNos(P[q]) <=> i \in 1 .. n \/ (P[q].tail # 0 /\ i = n + 1)
      /\ (P[q].next # 0 => P[q].tail = 0)
  BY <1>1, NodeFacts, PageFacts, FilledPage, Filled, TreeParts DEF Top
<1>3. Increasing(s) /\ (P[q].next # 0 => Less(Top(P, q), Low(P, P[q].next)))
  BY TreeParts DEF SortedAt
<1>4. \A i \in 1 .. n : Child(P[q], i) # 0 /\ Child(P[q], i) \in DOMAIN P /\ s[i].e = Top(P, Child(P[q], i))
  BY <1>1, <1>2, Dividers, ChildFacts, TreeParts
<1>5. \A k, l \in 1 .. n : k < l => Less(s[k].e, s[l].e)
  BY <1>2, <1>3 DEF Increasing
<1>6. ASSUME j > 1 PROVE j - 1 \in 1 .. n /\ Less(s[j - 1].e, e)
  <2>1. j - 1 \in 1 .. n /\ (j - 1) + 1 = j
    BY <1>1, <1>2, <1>6
  <2>2. P[x].prev = Child(P[q], j - 1)
    BY <1>2, <2>1, NextChild, TreeParts
  <2> QED
    BY <1>4, <2>1, <2>2 DEF InRange
<1> HIDE DEF s, n
<1>7. ASSUME NEW i \in 1 .. n, i < j PROVE Less(s[i].e, e)
  <2>1. j > 1 /\ (i = j - 1 \/ i < j - 1)
    BY <1>1, <1>2, <1>7
  <2>2. i = j - 1 \/ Less(s[i].e, s[j - 1].e)
    BY <1>5, <1>6, <2>1
  <2> QED
    BY <1>2, <1>6, <2>1, <2>2, LessOrder
<1>8. ASSUME P[q].prev # 0 PROVE Less(Top(P, P[q].prev), e)
  <2> DEFINE p == P[q].prev
  <2>0. p \in DOMAIN P /\ P[p].next = q /\ p # Root /\ q # 0 /\ q # Root
    BY <1>8, LinkFacts, PageFacts, TreeParts
  <2>1. Less(Top(P, p), Low(P, q)) /\ Top(P, p) \in Entry
    BY <2>0, TreeParts, Spread DEF SortedAt
  <2>2. CASE j = 1
    <3> DEFINE m == Len(P[p].entries)
    <3>1. /\ ~ Leaf(P[p]) /\ m \in ChildNos(P[p]) /\ P[x].prev = Child(P[p], m)
      BY <1>8, <2>2, FirstChild, TreeParts
    <3>2. m \in 1 .. m /\ Top(P, p) = P[p].entries[m].e
      BY <2>0, <3>1, NodeFacts, FilledPage, Filled, TreeParts DEF Top
    <3>3. Child(P[p], m) # 0
      BY <2>0, <3>1, ChildFacts, TreeParts
    <3>4. Top(P, p) = Top(P, P[x].prev)
      BY <2>0, <3>1, <3>2, <3>3, Dividers
    <3> QED
      BY <3>1, <3>3, <3>4 DEF InRange
  <2>3. CASE j # 1
    <3>1. j - 1 \in 1 .. n /\ Less(s[j - 1].e, e) /\ 1 \in 1 .. n
      BY <1>1, <1>2, <1>6, <2>3
    <3>2. Low(P, q) = s[1].e
      BY <2>0, TreeParts, FilledPage DEF Low, s
    <3>3. s[1].e = s[j - 1].e \/ Less(s[1].e, s[j - 1].e)
      <4>1. 1 = j - 1 \/ 1 < j - 1
        BY <1>1, <2>3
      <4> QED
        BY <1>5, <3>1, <4>1
    <3>4. Less(s[1].e, e)
      BY <1>2, <3>1, <3>3, LessOrder
    <3> QED
      BY <1>2, <2>1, <3>1, <3>2, <3>4, LessOrder
  <2> QED
    BY <2>2, <2>3
<1>9. ASSUME P[x].next # 0 PROVE j \in 1 .. n /\ ~ Less(s[j].e, e)
  <2>1. CASE j = n + 1
    <3>1. P[q].tail # 0 /\ j + 1 \notin ChildNos(P[q]) /\ P[q].next = 0
      BY <1>1, <1>2, <2>1
    <3> QED
      BY <1>9, <3>1, LastChild, TreeParts
  <2>2. CASE j # n + 1
    <3>1. j \in 1 .. n
      BY <1>1, <1>2, <2>2
    <3> QED
      BY <1>4, <1>9, <3>1 DEF InRange
  <2> QED
    BY <2>1, <2>2
<1>10. ASSUME P[q].next # 0 PROVE ~ Less(Top(P, q), e)
  <2>1. P[q].tail = 0 /\ j \in 1 .. n
    BY <1>1, <1>2, <1>10
  <2>2. P[x].next # 0
    <3>1. CASE j + 1 \in ChildNos(P[q])
      BY <3>1, NextChild, ChildFacts, TreeParts
    <3>2. CASE j + 1 \notin ChildNos(P[q])
      <4>1. P[q].next \in DOMAIN P /\ 1 \in ChildNos(P[P[q].next]) /\ P[x].next = Child(P[P[q].next], 1)
        BY <1>10, <3>2, LastChild, TreeParts
      <4> QED
        BY <4>1, ChildFacts, TreeParts
    <3> QED
      BY <3>1, <3>2
  <2>3. n \in 1 .. n /\ (j = n \/ j < n)
    BY <1>2, <2>1
  <2>4. s[j].e = s[n].e \/ Less(s[j].e, s[n].e)
    BY <1>5, <2>1, <2>3
  <2> QED
    BY <1>2, <1>9, <2>1, <2>2, <2>3, <2>4, LessOrder
<1>11. Toward(P[q], e) = x
  <2>1. PICK k \in ChildNos(P[q]) :
               /\ Toward(P[q], e) = Child(P[q], k)
               /\ \A i \in 1 .. n : i < k => Less(s[i].e, e)
               /\ \/ k \in 1 .. n /\ ~ Less(s[k].e, e)
                  \/ k + 1 \notin ChildNos(P[q]) /\ Less(s[n].e, e)
    BY <1>1, <1>2, TowardFacts DEF s, n
  <2>2. k \in Nat /\ 1 <= k /\ k <= n + 1
    BY ChildFacts, TreeParts DEF n, s
  <2>3. CASE P[x].next # 0
    <3>1. j \in 1 .. n /\ ~ Less(s[j].e, e)
      BY <1>9, <2>3
    <3>2. k <= j
      BY <1>1, <2>1, <2>2, <3>1
    <3>3. CASE k \in 1 .. n /\ ~ Less(s[k].e, e)
      <4>1. ~ (k < j)
        BY <1>7, <3>3
      <4>2. k = j
        BY <1>1, <2>2, <3>2, <4>1
      <4> QED
        BY <2>1, <4>2
    <3>4. CASE k + 1 \notin ChildNos(P[q]) /\ Less(s[n].e, e)
      <4>1. n \in 1 .. n /\ (j = n \/ j < n)
        BY <1>2, <3>1
      <4>2. Less(s[j].e, e)
        BY <1>2, <1>5, <3>1, <3>4, <4>1, LessOrder
      <4> QED
        BY <3>1, <4>2
    <3> QED
      BY <2>1, <3>3, <3>4
  <2>4. CASE P[x].next = 0
    <3>1. j + 1 \notin ChildNos(P[q])
      BY <2>4, NextChild, ChildFacts, TreeParts
    <3>2. k <= j
      BY <1>1, <1>2, <2>2, <3>1
    <3>3. CASE k \in 1 .. n /\ ~ Less(s[k].e, e)
      <4>1. ~ (k < j)
        BY <1>7, <3>3
      <4>2. k = j
        BY <1>1, <2>2, <3>2, <4>1
      <4> QED
        BY <2>1, <4>2
    <3>4. CASE k + 1 \notin ChildNos(P[q])
      <4>1. k = j
        BY <1>1, <1>2, <2>2, <3>1, <3>2, <3>4
      <4> QED
        BY <2>1, <4>1
    <3> QED
      BY <2>1, <3>3, <3>4
  <2> QED
    BY <2>3, <2>4
<1> QED
  BY <1>8, <1>10, <1>11 DEF InRange

\* An entry of a page is in its range.
LEMMA EntryInRange ==
    ASSUME NEW P, NEW stale, BTree(P, stale), NEW q \in DOMAIN P, NEW i \in 1 .. Len(P[q].entries)
    PROVE  InRange(P, q, P[q].entries[i].e)
<1> DEFINE e == P[q].entries[i].e
<1>1. Increasing(P[q].entries) /\ (P[q].next # 0 => Less(Top(P, q), Low(P, P[q].next)))
  BY TreeParts DEF SortedAt
<1>2. P[q].entries # << >> /\ e \in Entry
  BY PageFacts, EmptySeq, TreeParts
<1>3. /\ Top(P, q) \in Entry /\ Low(P, q) \in Entry
      /\ e = Low(P, q) \/ Less(Low(P, q), e)
      /\ e = Top(P, q) \/ Less(e, Top(P, q))
  BY <1>1, <1>2, Spread, TreeParts
<1>4. ~ Less(Top(P, q), e)
  BY <1>2, <1>3, LessOrder
<1>5. ASSUME P[q].prev # 0 PROVE Less(Top(P, P[q].prev), e)
  <2> DEFINE p == P[q].prev
  <2>1. p \in DOMAIN P /\ P[p].next = q /\ p # Root /\ q # 0
    BY <1>5, LinkFacts, PageFacts, TreeParts
  <2>2. Less(Top(P, p), Low(P, q)) /\ Top(P, p) \in Entry
    BY <2>1, TreeParts, Spread DEF SortedAt
  <2> QED
    BY <1>2, <1>3, <2>2, LessOrder
<1> QED
  BY <1>4, <1>5 DEF InRange

\* The path of a search, as a function.
LEMMA PathIs ==
    ASSUME NEW P, NEW e, P[Root].level \in Nat
    PROVE  \E f : /\ f = [i \in 1 .. P[Root].level + 1 |-> IF i = 1 THEN Root ELSE Toward(P[f[i - 1]], e)]
                  /\ FindLeaf(P, e) = SubSeq(f, 1, P[Root].level + 1)
<1> DEFINE n == P[Root].level
           path[i \in 1 .. P[Root].level + 1] == IF i = 1 THEN Root ELSE Toward(P[path[i - 1]], e)
           UpTo(h, m) == h = [i \in 1 .. m + 1 |-> IF i = 1 THEN Root ELSE Toward(P[h[i - 1]], e)]
           A == {m \in 0 .. n : \E h : UpTo(h, m)}
           Is(h) == h = [i \in 1 .. P[Root].level + 1 |-> IF i = 1 THEN Root ELSE Toward(P[h[i - 1]], e)]
<1>1. \A m \in 0 .. n : m \in A
  <2>1. 0 \in A
    <3> DEFINE h0 == [i \in 1 .. 0 + 1 |-> Root]
    <3>1. UpTo(h0, 0)
      OBVIOUS
    <3>2. 0 \in 0 .. n
      OBVIOUS
    <3> HIDE DEF UpTo, h0, n
    <3> QED
      BY <3>1, <3>2
  <2>2. ASSUME NEW m \in 1 .. n, m - 1 \in A PROVE m \in A
    <3>1. PICK h : UpTo(h, m - 1)
      BY <2>2
    <3> DEFINE g == [i \in 1 .. m + 1 |-> IF i = m + 1 THEN Toward(P[h[m]], e) ELSE h[i]]
    <3>2. \A i \in 1 .. m : h[i] = IF i = 1 THEN Root ELSE Toward(P[h[i - 1]], e)
      BY <3>1
    <3>3. \A i \in 1 .. m + 1 : g[i] = IF i = 1 THEN Root ELSE Toward(P[g[i - 1]], e)
      <4> TAKE i \in 1 .. m + 1
      <4>1. CASE i = 1
        BY <3>2, <4>1
      <4>2. CASE i = m + 1
        BY <4>2
      <4>3. CASE i # 1 /\ i # m + 1
        <5>1. i \in 1 .. m /\ i - 1 \in 1 .. m
          BY <4>3
        <5>2. g[i] = h[i] /\ g[i - 1] = h[i - 1]
          BY <5>1
        <5> QED
          BY <3>2, <4>3, <5>1, <5>2
      <4> QED
        BY <4>1, <4>2, <4>3
    <3>4. UpTo(g, m)
      <4> HIDE DEF UpTo
      <4>1. g = [i \in 1 .. m + 1 |-> g[i]]
        OBVIOUS
      <4> HIDE DEF g
      <4> QED
        BY <3>3, <4>1 DEF UpTo
    <3> HIDE DEF UpTo, g
    <3> QED
      BY <3>4
  <2> HIDE DEF A
  <2> QED
    BY <2>1, <2>2, Counted
<1>2. \E h : Is(h)
  <2>1. n \in A
    BY <1>1
  <2> QED
    BY <2>1
<1>3. path = CHOOSE h : Is(h)
  OBVIOUS
<1>4. FindLeaf(P, e) = SubSeq(path, 1, P[Root].level + 1)
  BY DEF FindLeaf
<1> HIDE DEF path, Is
<1>5. Is(path)
  BY <1>2, <1>3
<1> QED
  BY <1>4, <1>5 DEF Is

\* A search passes the levels from the root to a leaf.
LEMMA PathFacts ==
    ASSUME NEW P, BTree(P, 0), NEW e \in Entry, NEW path, path = FindLeaf(P, e)
    PROVE  /\ path \in Seq(DOMAIN P) /\ Len(path) = P[Root].level + 1 /\ Len(path) \in Nat /\ Len(path) >= 1
           /\ path[1] = Root
           /\ \A i \in 1 .. Len(path) :
                path[i] \in DOMAIN P /\ P[path[i]].level = Len(path) - i /\ InRange(P, path[i], e)
           /\ \A i \in 1 .. Len(path) - 1 : path[i + 1] = Toward(P[path[i]], e)
<1> DEFINE n == P[Root].level
<1>1. n \in Nat /\ Root \in DOMAIN P /\ P[Root].prev = 0 /\ P[Root].next = 0
  BY RootFacts, TreeParts
<1>2. PICK f : /\ f = [i \in 1 .. n + 1 |-> IF i = 1 THEN Root ELSE Toward(P[f[i - 1]], e)]
               /\ path = SubSeq(f, 1, n + 1)
  BY <1>1, PathIs
<1> HIDE DEF n
<1>3. f[1] = Root /\ \A i \in 1 .. n : f[i + 1] = Toward(P[f[i]], e)
  <2>1. \A i \in 1 .. n + 1 : f[i] = IF i = 1 THEN Root ELSE Toward(P[f[i - 1]], e)
    BY <1>2
  <2>2. 1 \in 1 .. n + 1
    BY <1>1
  <2>3. \A i \in 1 .. n : i + 1 \in 1 .. n + 1 /\ i + 1 # 1 /\ (i + 1) - 1 = i
    BY <1>1
  <2> QED
    BY <2>1, <2>2, <2>3
<1> DEFINE A == {i \in 0 .. n : f[i + 1] \in DOMAIN P /\ P[f[i + 1]].level = n - i /\ InRange(P, f[i + 1], e)}
<1>4. \A i \in 0 .. n : i \in A
  <2>1. 0 \in A
    BY <1>1, <1>3 DEF InRange, n
  <2>2. ASSUME NEW i \in 1 .. n, i - 1 \in A PROVE i \in A
    <3> DEFINE q == f[i]
    <3>1. q \in DOMAIN P /\ P[q].level = n - (i - 1) /\ InRange(P, q, e)
      BY <1>1, <2>2
    <3>2. ~ Leaf(P[q])
      BY <1>1, <3>1 DEF Leaf
    <3>3. f[i + 1] = Toward(P[q], e)
      BY <1>3
    <3> HIDE DEF q
    <3>4. PICK j \in ChildNos(P[q]) : Toward(P[q], e) = Child(P[q], j) /\ InRange(P, Child(P[q], j), e)
      BY <3>1, <3>2, TowardInRange
    <3>5. Child(P[q], j) \in DOMAIN P /\ P[Child(P[q], j)].level + 1 = P[q].level
      BY <3>1, ChildFacts, TreeParts
    <3>6. P[Child(P[q], j)].level \in Nat
      BY <3>5, PageFacts, TreeParts
    <3>7. P[Child(P[q], j)].level = n - i
      BY <1>1, <3>1, <3>5, <3>6
    <3> QED
      BY <3>3, <3>4, <3>5, <3>7
  <2> HIDE DEF A
  <2> QED
    BY <1>1, <2>1, <2>2, Counted
<1>5. \A i \in 1 .. n + 1 : f[i] \in DOMAIN P /\ P[f[i]].level = n + 1 - i /\ InRange(P, f[i], e)
  <2> TAKE i \in 1 .. n + 1
  <2>1. i - 1 \in 0 .. n /\ (i - 1) + 1 = i /\ n - (i - 1) = n + 1 - i
    BY <1>1
  <2>2. i - 1 \in A
    BY <1>4, <2>1
  <2> QED
    BY <2>1, <2>2
<1>6. path \in Seq(DOMAIN P) /\ Len(path) = n + 1 /\ \A i \in 1 .. n + 1 : path[i] = f[i]
  <2>1. /\ SubSeq(f, 1, n + 1) \in Seq(DOMAIN P)
        /\ Len(SubSeq(f, 1, n + 1)) = IF 1 <= n + 1 THEN n + 1 - 1 + 1 ELSE 0
        /\ \A i \in 1 .. n + 1 - 1 + 1 : SubSeq(f, 1, n + 1)[i] = f[1 + i - 1]
    BY <1>1, <1>5, SubSeqProperties
  <2>2. 1 <= n + 1 /\ n + 1 - 1 + 1 = n + 1 /\ \A i \in 1 .. n + 1 : 1 + i - 1 = i
    BY <1>1
  <2> QED
    BY <1>2, <2>1, <2>2
<1>7. /\ Len(path) = P[Root].level + 1 /\ Len(path) \in Nat /\ Len(path) >= 1
  BY <1>1, <1>6 DEF n
<1>8. path[1] = Root
  BY <1>1, <1>3, <1>6
<1>9. \A i \in 1 .. Len(path) : path[i] \in DOMAIN P /\ P[path[i]].level = Len(path) - i /\ InRange(P, path[i], e)
  <2> TAKE i \in 1 .. Len(path)
  <2>1. i \in 1 .. n + 1 /\ path[i] = f[i] /\ Len(path) = n + 1
    BY <1>6
  <2>2. f[i] \in DOMAIN P /\ P[f[i]].level = n + 1 - i /\ InRange(P, f[i], e)
    BY <1>5, <2>1
  <2>3. Len(path) - i = n + 1 - i
    BY <1>1, <1>6
  <2> QED
    BY <2>1, <2>2, <2>3, Zenon
<1>10. \A i \in 1 .. Len(path) - 1 : path[i + 1] = Toward(P[path[i]], e)
  <2>1. \A i \in 1 .. Len(path) - 1 : i \in 1 .. n /\ i \in 1 .. n + 1 /\ i + 1 \in 1 .. n + 1
    BY <1>1, <1>6
  <2> QED
    BY <1>3, <1>6, <2>1
<1> QED
  BY <1>6, <1>7, <1>8, <1>9, <1>10

\* A page of a level is in range of e only if the search for e passes it.
LEMMA RangeOnPath ==
    ASSUME NEW P, BTree(P, 0), NEW e \in Entry, NEW path, path = FindLeaf(P, e),
           NEW q \in DOMAIN P, InRange(P, q, e)
    PROVE  Len(path) - P[q].level \in 1 .. Len(path) /\ q = path[Len(path) - P[q].level]
<1> DEFINE n == P[Root].level
           A == {l \in 0 .. n : \A x \in DOMAIN P : P[x].level = n - l /\ InRange(P, x, e) => x = path[l + 1]}
<1>1. n \in Nat /\ Len(path) = n + 1 /\ path[1] = Root /\ \A i \in 1 .. n : path[i + 1] = Toward(P[path[i]], e)
  <2>1. n \in Nat
    BY RootFacts, TreeParts
  <2>2. Len(path) = n + 1 /\ path[1] = Root /\ \A i \in 1 .. Len(path) - 1 : path[i + 1] = Toward(P[path[i]], e)
    <3>1. Len(path) = n + 1
      BY PathFacts
    <3>2. path[1] = Root
      BY PathFacts
    <3>3. \A i \in 1 .. Len(path) - 1 : path[i + 1] = Toward(P[path[i]], e)
      BY PathFacts
    <3> HIDE DEF n
    <3> QED
      BY <3>1, <3>2, <3>3
  <2>3. Len(path) - 1 = n
    BY <2>1, <2>2
  <2> QED
    BY <2>1, <2>2, <2>3
<1>2. \A x \in DOMAIN P : P[x].level \in Nat /\ P[x].level <= n /\ (x # Root => P[x].level < n)
  <2> TAKE x \in DOMAIN P
  <2>1. P[x].level \in Nat
    BY PageFacts, TreeParts
  <2>2. x # Root => P[x].level < n
    BY RootLevel, TreeParts
  <2> QED
    BY <1>1, <2>1, <2>2
<1>3. 0 \in A
  BY <1>1, <1>2
<1>4. ASSUME NEW l \in 1 .. n, l - 1 \in A PROVE l \in A
  <2> SUFFICES ASSUME NEW x \in DOMAIN P, P[x].level = n - l, InRange(P, x, e) PROVE x = path[l + 1]
    OBVIOUS
  <2>1. x \in DOMAIN P \ {Root}
    BY <1>1
  <2>2. PICK o \in DOMAIN P : \E j \in ChildNos(P[o]) : Child(P[o], j) = x
    BY <2>1, TreeParts DEF Hung
  <2>3. PICK j \in ChildNos(P[o]) : Child(P[o], j) = x
    BY <2>2
  <2>4. P[o].level = n - (l - 1)
    <3>1. P[x].level + 1 = P[o].level
      BY <2>3, ChildFacts, TreeParts
    <3> QED
      BY <1>1, <3>1
  <2>5. InRange(P, o, e) /\ Toward(P[o], e) = x
    BY <2>3, OverInRange
  <2>6. o = path[(l - 1) + 1]
    BY <1>4, <2>4, <2>5
  <2>7. o = path[l]
    BY <1>1, <2>6
  <2> QED
    BY <1>1, <2>5, <2>7
<1>5. \A l \in 0 .. n : l \in A
  <2> HIDE DEF A, n
  <2> QED
    BY <1>1, <1>3, <1>4, Counted
<1>6. n - P[q].level \in 0 .. n /\ P[q].level = n - (n - P[q].level)
  BY <1>1, <1>2
<1>7. q = path[(n - P[q].level) + 1]
  <2>1. n - P[q].level \in A
    BY <1>5, <1>6
  <2> QED
    BY <1>6, <2>1
<1>8. (n - P[q].level) + 1 = Len(path) - P[q].level /\ Len(path) - P[q].level \in 1 .. Len(path)
  BY <1>1, <1>2
<1> QED
  BY <1>7, <1>8

\* The leaf in range of e is where the search ends.
LEMMA RangeLeaf ==
    ASSUME NEW P, BTree(P, 0), NEW e \in Entry, NEW q \in DOMAIN P, Leaf(P[q]), InRange(P, q, e)
    PROVE  q = Last(FindLeaf(P, e))
<1> DEFINE path == FindLeaf(P, e)
<1>1. q = path[Len(path) - P[q].level] /\ P[q].level = 0
  BY RangeOnPath DEF Leaf
<1>2. Len(path) \in Nat
  BY PathFacts
<1> QED
  BY <1>1, <1>2 DEF Last
-----------------------------------------------------------------------------
(* A walk shows what the leaves hold, in its order *)

\* The entries of a page, and of the leaves.
Holds(P, q, e) == \E i \in 1 .. Len(P[q].entries) : P[q].entries[i].e = e

Indexed(P) == {e \in Entry : \E q \in DOMAIN P : Leaf(P[q]) /\ Holds(P, q, e)}

\* e lies before the entries of a page.
Ahead(P, q, e) == \A i \in 1 .. Len(P[q].entries) : Less(e, P[q].entries[i].e)

\* An entry is in the leaf in its range.
LEMMA IndexedLeaf ==
    ASSUME NEW P, BTree(P, 0), NEW e \in Indexed(P), NEW x \in DOMAIN P, Leaf(P[x]), InRange(P, x, e)
    PROVE  Holds(P, x, e)
<1>1. PICK z \in DOMAIN P : Leaf(P[z]) /\ Holds(P, z, e)
  BY DEF Indexed
<1>2. e \in Entry /\ InRange(P, z, e)
  BY <1>1, EntryInRange DEF Holds, Indexed
<1>3. z = x
  BY <1>1, <1>2, RangeLeaf
<1> QED
  BY <1>1, <1>3

\* What is neither before a leaf nor in it lies behind it.
LEMMA BehindLeaf ==
    ASSUME NEW P, BTree(P, 0), NEW e \in Indexed(P), NEW x \in DOMAIN P, Leaf(P[x]),
           ~ Ahead(P, x, e), ~ Holds(P, x, e)
    PROVE  P[x].next # 0 /\ ~ Ahead(P, P[x].next, e)
<1>1. PICK k \in 1 .. Len(P[x].entries) : ~ Less(e, P[x].entries[k].e)
  BY DEF Ahead
<1>2. e \in Entry /\ P[x].entries # << >> /\ P[x].entries[k].e \in Entry
  BY <1>1, PageFacts, EmptySeq, TreeParts DEF Indexed
<1>3. /\ Top(P, x) \in Entry /\ InRange(P, x, P[x].entries[k].e)
  BY <1>1, <1>2, Spread, TreeParts, EntryInRange DEF SortedAt
<1>4. P[x].prev # 0 => Less(Top(P, P[x].prev), e)
  <2> SUFFICES ASSUME P[x].prev # 0 PROVE Less(Top(P, P[x].prev), e)
    OBVIOUS
  <2>1. P[x].prev \in DOMAIN P \ {Root}
    BY LinkFacts, TreeParts
  <2>2. Top(P, P[x].prev) \in Entry
    BY <2>1, Spread, TreeParts DEF SortedAt
  <2>3. Less(Top(P, P[x].prev), P[x].entries[k].e)
    BY <1>3 DEF InRange
  <2> QED
    BY <1>1, <1>2, <2>2, <2>3, LessOrder
<1>5. P[x].next # 0 /\ Less(Top(P, x), e)
  <2>1. ~ InRange(P, x, e)
    BY IndexedLeaf
  <2> QED
    BY <1>4, <2>1 DEF InRange
<1> DEFINE y == P[x].next
<1>6. ASSUME Ahead(P, y, e) PROVE FALSE
  <2>1. y \in DOMAIN P /\ P[y].prev = x /\ P[y].level = P[x].level /\ y # Root
    BY <1>5, LinkFacts, TreeParts
  <2>2. P[y].entries # << >> /\ Increasing(P[y].entries)
    BY <2>1, TreeParts DEF SortedAt
  <2>3. Less(e, Top(P, y)) /\ Top(P, y) \in Entry
    <3>1. Len(P[y].entries) \in 1 .. Len(P[y].entries) /\ Top(P, y) = P[y].entries[Len(P[y].entries)].e
      BY <2>1, <2>2, FilledPage, TreeParts DEF Top
    <3>2. Top(P, y) \in Entry
      BY <2>1, <2>2, Spread, TreeParts
    <3> QED
      BY <1>6, <3>1, <3>2 DEF Ahead
  <2>4. InRange(P, y, e)
    BY <1>2, <1>5, <2>1, <2>3, LessOrder DEF InRange
  <2>5. Holds(P, y, e)
    BY <2>1, <2>4, IndexedLeaf DEF Leaf
  <2> QED
    BY <1>2, <1>6, <2>5, LessOrder DEF Ahead, Holds
<1> QED
  BY <1>5, <1>6

\* Nothing lies before the leaf without a page before it.
LEMMA NothingAhead ==
    ASSUME NEW P, BTree(P, 0), NEW e \in Indexed(P), NEW x \in DOMAIN P, Leaf(P[x]), P[x].prev = 0
    PROVE  ~ Ahead(P, x, e)
<1> SUFFICES ASSUME Ahead(P, x, e) PROVE FALSE
  OBVIOUS
<1>1. e \in Entry
  BY DEF Indexed
<1>2. CASE P[x].entries = << >>
  <2>1. x = Root /\ P[Root].level = 0
    BY <1>2, TreeParts DEF Leaf
  <2>2. PICK z \in DOMAIN P : Leaf(P[z]) /\ Holds(P, z, e)
    BY DEF Indexed
  <2>3. z # Root
    BY <1>2, <2>1, <2>2, EmptySeq DEF Holds
  <2>4. P[z].level < P[Root].level /\ P[z].level \in Nat
    BY <2>3, RootLevel, PageFacts, TreeParts
  <2> QED
    BY <2>1, <2>4
<1>3. CASE P[x].entries # << >>
  <2>1. Len(P[x].entries) \in 1 .. Len(P[x].entries) /\ Top(P, x) = P[x].entries[Len(P[x].entries)].e
    BY <1>3, FilledPage, TreeParts DEF Top
  <2>2. Less(e, Top(P, x)) /\ Top(P, x) \in Entry
    BY <1>3, <2>1, Spread, TreeParts DEF Ahead, SortedAt
  <2>3. InRange(P, x, e)
    BY <1>1, <2>2, LessOrder DEF InRange
  <2>4. Holds(P, x, e)
    BY <2>3, IndexedLeaf
  <2> QED
    BY <1>1, <2>4, LessOrder DEF Ahead, Holds
<1> QED
  BY <1>2, <1>3

\* The way to the first leaf, as a function.
LEMMA LeftIs ==
    ASSUME NEW P, P[Root].level \in Nat
    PROVE  \E f : /\ f = [i \in 0 .. P[Root].level |-> IF i = 0 THEN Root ELSE Head(P[f[i - 1]].entries).child]
                  /\ FirstLeaf(P) = f[P[Root].level]
<1> DEFINE n == P[Root].level
           left[i \in 0 .. P[Root].level] == IF i = 0 THEN Root ELSE Head(P[left[i - 1]].entries).child
           UpTo(h, m) == h = [i \in 0 .. m |-> IF i = 0 THEN Root ELSE Head(P[h[i - 1]].entries).child]
           A == {m \in 0 .. n : \E h : UpTo(h, m)}
<1>1. 0 \in A
  <2> DEFINE h0 == [i \in 0 .. 0 |-> Root]
  <2>1. UpTo(h0, 0) /\ 0 \in 0 .. n
    OBVIOUS
  <2> HIDE DEF UpTo, h0, n
  <2> QED
    BY <2>1
<1>2. ASSUME NEW m \in 1 .. n, m - 1 \in A PROVE m \in A
  <2>0. m \in Nat \ {0}
    OBVIOUS
  <2>1. PICK h : UpTo(h, m - 1)
    BY <1>2
  <2>2. \A i \in 0 .. m - 1 : h[i] = IF i = 0 THEN Root ELSE Head(P[h[i - 1]].entries).child
    BY <2>1
  <2>3. PICK g : /\ Counts(g, m) /\ g[m] = Head(P[h[m - 1]].entries).child
                 /\ \A i \in 0 .. m - 1 : g[i] = h[i]
                 /\ \A i \in 0 .. m : i = m \/ (i \in 0 .. m - 1 /\ (i # 0 => i - 1 \in 0 .. m - 1))
                 /\ m - 1 \in 0 .. m - 1
    BY <2>0, Extended
  <2>4. \A i \in 0 .. m : g[i] = IF i = 0 THEN Root ELSE Head(P[g[i - 1]].entries).child
    <3> TAKE i \in 0 .. m
    <3>1. CASE i = m
      BY <2>0, <2>3, <3>1
    <3>2. CASE i # m
      <4>1. i \in 0 .. m - 1 /\ (i # 0 => i - 1 \in 0 .. m - 1)
        BY <2>3, <3>2
      <4> QED
        BY <2>2, <2>3, <4>1
    <3> QED
      BY <3>1, <3>2
  <2>5. UpTo(g, m)
    BY <2>3, <2>4 DEF Counts
  <2> HIDE DEF UpTo
  <2> QED
    BY <2>5
<1>3. \E h : UpTo(h, n)
  <2>1. \A m \in 0 .. n : m \in A
    <3> HIDE DEF A
    <3> QED
      BY <1>1, <1>2, Counted
  <2> QED
    BY <2>1
<1>4. left = CHOOSE h : UpTo(h, n)
  OBVIOUS
<1>5. FirstLeaf(P) = left[n]
  BY DEF FirstLeaf
<1> HIDE DEF left, UpTo
<1>6. UpTo(left, n)
  BY <1>3, <1>4
<1> QED
  BY <1>5, <1>6 DEF UpTo

LEMMA FirstLeafFacts ==
    ASSUME NEW P, BTree(P, 0)
    PROVE  FirstLeaf(P) \in DOMAIN P /\ Leaf(P[FirstLeaf(P)]) /\ P[FirstLeaf(P)].prev = 0
<1> DEFINE n == P[Root].level
<1>1. n \in Nat /\ Root \in DOMAIN P /\ P[Root].prev = 0
  BY RootFacts, TreeParts
<1>2. PICK f : /\ f = [i \in 0 .. n |-> IF i = 0 THEN Root ELSE Head(P[f[i - 1]].entries).child]
               /\ FirstLeaf(P) = f[n]
  BY <1>1, LeftIs
<1> DEFINE A == {i \in 0 .. n : f[i] \in DOMAIN P /\ P[f[i]].level = n - i /\ P[f[i]].prev = 0}
<1>3. f[0] = Root
  BY <1>1, <1>2
<1>4. \A i \in 1 .. n : f[i] = Head(P[f[i - 1]].entries).child
  <2>1. \A i \in 0 .. n : f[i] = IF i = 0 THEN Root ELSE Head(P[f[i - 1]].entries).child
    BY <1>2
  <2>2. \A i \in 1 .. n : i \in 0 .. n /\ i # 0
    BY <1>1
  <2> QED
    BY <2>1, <2>2
<1>5. 0 \in A
  BY <1>1, <1>3
<1> HIDE DEF n
<1>6. ASSUME NEW i \in 1 .. n, i - 1 \in A PROVE i \in A
  <2> DEFINE q == f[i - 1]
  <2>1. q \in DOMAIN P /\ P[q].level = n - (i - 1) /\ P[q].prev = 0
    BY <1>6
  <2>2. ~ Leaf(P[q]) /\ f[i] = Head(P[q].entries).child
    BY <1>1, <1>4, <2>1 DEF Leaf
  <2> HIDE DEF q
  <2>3. 1 \in ChildNos(P[q]) /\ f[i] = Child(P[q], 1)
    BY <2>1, <2>2, NodeFacts, Filled, FilledPage, TreeParts
  <2>4. f[i] \in DOMAIN P /\ P[f[i]].level + 1 = P[q].level /\ P[f[i]].prev = 0 /\ P[f[i]].level \in Nat
    BY <2>1, <2>3, ChildFacts, FirstChild, PageFacts, TreeParts
  <2>5. P[f[i]].level = n - i
    BY <1>1, <2>1, <2>4
  <2> QED
    BY <2>4, <2>5
<1>7. \A i \in 0 .. n : i \in A
  <2> HIDE DEF A
  <2> QED
    BY <1>1, <1>5, <1>6, Counted
<1>8. n \in A
  BY <1>1, <1>7
<1> QED
  <2>1. f[n] \in DOMAIN P /\ P[f[n]].level = n - n
    BY <1>8
  <2>2. n - n = 0
    BY <1>1
  <2> QED
    BY <1>1, <1>2, <1>8, <2>1, <2>2 DEF Leaf

LEMMA HopsAre ==
    ASSUME NEW P, Cardinality(DOMAIN P) \in Nat
    PROVE  \E f : /\ f = [i \in 0 .. Cardinality(DOMAIN P) |->
                             IF i = 0 THEN [at |-> FirstLeaf(P), seen |-> << >>] ELSE Hopped(P, f[i - 1])]
                  /\ Walk(P) = f[Cardinality(DOMAIN P)].seen
<1> DEFINE n == Cardinality(DOMAIN P)
           first == [at |-> FirstLeaf(P), seen |-> << >>]
           hop[i \in 0 .. n] ==
               IF i = 0 THEN [at |-> FirstLeaf(P), seen |-> << >>] ELSE Hopped(P, hop[i - 1])
           UpTo(h, m) == h = [i \in 0 .. m |-> IF i = 0 THEN first ELSE Hopped(P, h[i - 1])]
           A == {m \in 0 .. n : \E h : UpTo(h, m)}
<1>1. 0 \in A
  <2> DEFINE h0 == [i \in 0 .. 0 |-> first]
  <2>1. UpTo(h0, 0) /\ 0 \in 0 .. n
    OBVIOUS
  <2> HIDE DEF UpTo, h0, n
  <2> QED
    BY <2>1
<1>2. ASSUME NEW m \in 1 .. n, m - 1 \in A PROVE m \in A
  <2>0. m \in Nat \ {0}
    OBVIOUS
  <2>1. PICK h : UpTo(h, m - 1)
    BY <1>2
  <2> HIDE DEF first
  <2>2. \A i \in 0 .. m - 1 : h[i] = IF i = 0 THEN first ELSE Hopped(P, h[i - 1])
    BY <2>1
  <2>3. PICK g : /\ Counts(g, m) /\ g[m] = Hopped(P, h[m - 1])
                 /\ \A i \in 0 .. m - 1 : g[i] = h[i]
                 /\ \A i \in 0 .. m : i = m \/ (i \in 0 .. m - 1 /\ (i # 0 => i - 1 \in 0 .. m - 1))
                 /\ m - 1 \in 0 .. m - 1
    BY <2>0, Extended
  <2>4. \A i \in 0 .. m : g[i] = IF i = 0 THEN first ELSE Hopped(P, g[i - 1])
    <3> TAKE i \in 0 .. m
    <3>1. CASE i = m
      BY <2>0, <2>3, <3>1
    <3>2. CASE i # m
      <4>1. i \in 0 .. m - 1 /\ (i # 0 => i - 1 \in 0 .. m - 1)
        BY <2>3, <3>2
      <4> QED
        BY <2>2, <2>3, <4>1
    <3> QED
      BY <3>1, <3>2
  <2>5. UpTo(g, m)
    BY <2>3, <2>4 DEF Counts
  <2> HIDE DEF UpTo
  <2> QED
    BY <2>5
<1>3. \E h : UpTo(h, n)
  <2>1. \A m \in 0 .. n : m \in A
    <3> HIDE DEF A
    <3> QED
      BY <1>1, <1>2, Counted
  <2> QED
    BY <2>1
<1>4. hop = CHOOSE h : UpTo(h, n)
  OBVIOUS
<1>5. Walk(P) = hop[n].seen
  BY DEF Walk
<1> HIDE DEF hop, UpTo
<1>6. UpTo(hop, n)
  BY <1>3, <1>4
<1> QED
  BY <1>5, <1>6 DEF UpTo, first

\* The leaves from x on.
LeavesFrom(P, x) == {x} \cup {q \in DOMAIN P : Leaf(P[q]) /\ ~ Less(Low(P, q), Low(P, x))}

\* There are fewer of them with every hop.
LEMMA FewerLeaves ==
    ASSUME NEW P, BTree(P, 0), NEW x \in DOMAIN P, Leaf(P[x]), P[x].next # 0
    PROVE  LeavesFrom(P, P[x].next) \subseteq LeavesFrom(P, x) \ {x}
<1> DEFINE y == P[x].next
<1>1. /\ y \in DOMAIN P /\ P[y].prev = x /\ P[y].level = P[x].level /\ y # Root /\ x # Root
  BY LinkFacts, TreeParts
<1>2. /\ P[x].entries # << >> /\ P[y].entries # << >>
      /\ Increasing(P[x].entries) /\ Less(Top(P, x), Low(P, y))
  BY <1>1, TreeParts DEF SortedAt
<1>3. /\ Low(P, x) \in Entry /\ Low(P, y) \in Entry /\ Top(P, x) \in Entry
      /\ Low(P, x) = Top(P, x) \/ Less(Low(P, x), Top(P, x))
  BY <1>1, <1>2, Spread, TreeParts DEF SortedAt
<1>4. Less(Low(P, x), Low(P, y))
  BY <1>2, <1>3, LessOrder
<1>5. y # x /\ Leaf(P[y])
  BY <1>1, <1>3, <1>4, LessOrder DEF Leaf
<1>6. y \in LeavesFrom(P, x)
  BY <1>1, <1>3, <1>4, <1>5, LessOrder DEF LeavesFrom
<1>7. ASSUME NEW q \in DOMAIN P, Leaf(P[q]), ~ Less(Low(P, q), Low(P, y))
      PROVE  q # x /\ q \in LeavesFrom(P, x)
  <2>1. q # x
    BY <1>4, <1>7
  <2>2. q # Root
    <3>1. P[x].level < P[Root].level /\ P[x].level \in Nat
      BY <1>1, RootLevel, PageFacts, TreeParts
    <3> QED
      BY <1>7, <3>1 DEF Leaf
  <2>3. Low(P, q) \in Entry
    BY <2>2, TreeParts, Spread DEF SortedAt
  <2>4. ~ Less(Low(P, q), Low(P, x))
    BY <1>3, <1>4, <1>7, <2>3, LessOrder
  <2> QED
    BY <1>7, <2>1, <2>4 DEF LeavesFrom
<1> QED
  BY <1>5, <1>6, <1>7 DEF LeavesFrom

\* What is before a leaf, with the leaf, is before the next one, or everything.
LEMMA PassedLeaf ==
    ASSUME NEW P, BTree(P, 0), NEW x \in DOMAIN P, Leaf(P[x]), NEW e \in Indexed(P)
    PROVE  (Ahead(P, x, e) \/ Holds(P, x, e)) <=> (P[x].next = 0 \/ Ahead(P, P[x].next, e))
<1>1. P[x].next = 0 \/ Ahead(P, P[x].next, e) => Ahead(P, x, e) \/ Holds(P, x, e)
  BY BehindLeaf
<1>2. ASSUME Ahead(P, x, e) \/ Holds(P, x, e), P[x].next # 0 PROVE Ahead(P, P[x].next, e)
  <2> DEFINE y == P[x].next
  <2>1. y \in DOMAIN P \ {Root} /\ x # Root
    BY <1>2, LinkFacts, TreeParts
  <2>2. /\ P[x].entries # << >> /\ P[y].entries # << >>
        /\ Increasing(P[x].entries) /\ Increasing(P[y].entries) /\ Less(Top(P, x), Low(P, y))
    BY <1>2, <2>1, TreeParts DEF SortedAt
  <2>3. /\ Top(P, x) \in Entry /\ Low(P, y) \in Entry /\ e \in Entry
        /\ \A i \in 1 .. Len(P[x].entries) : P[x].entries[i].e = Top(P, x) \/ Less(P[x].entries[i].e, Top(P, x))
        /\ Len(P[x].entries) \in 1 .. Len(P[x].entries) /\ Top(P, x) = P[x].entries[Len(P[x].entries)].e
    BY <2>1, <2>2, Spread, FilledPage, TreeParts DEF Indexed
  <2>4. e = Top(P, x) \/ Less(e, Top(P, x))
    BY <1>2, <2>3 DEF Ahead, Holds
  <2>5. Less(e, Low(P, y))
    BY <2>2, <2>3, <2>4, LessOrder
  <2>6. ASSUME NEW i \in 1 .. Len(P[y].entries) PROVE Less(e, P[y].entries[i].e)
    <3>1. P[y].entries[i].e = Low(P, y) \/ Less(Low(P, y), P[y].entries[i].e)
      BY <2>1, <2>2, Spread, TreeParts
    <3>2. P[y].entries[i].e \in Entry
      BY <2>1, PageFacts, TreeParts
    <3> QED
      BY <2>3, <2>5, <3>1, <3>2, LessOrder
  <2> QED
    BY <2>6 DEF Ahead
<1> QED
  BY <1>1, <1>2

\* The entries a walk has seen when it has come to a page.
SeenUpTo(P, at, seen) ==
    /\ seen \in Seq(Entry)
    /\ \A k, l \in 1 .. Len(seen) : k < l => Less(seen[k], seen[l])
    /\ at # 0 => at \in DOMAIN P /\ Leaf(P[at])
    /\ \A e : (\E k \in 1 .. Len(seen) : seen[k] = e) <=> e \in Indexed(P) /\ (at = 0 \/ Ahead(P, at, e))

LEMMA HopKeeps ==
    ASSUME NEW P, BTree(P, 0), NEW h, SeenUpTo(P, h.at, h.seen)
    PROVE  /\ SeenUpTo(P, Hopped(P, h).at, Hopped(P, h).seen)
           /\ (h.at = 0 => Hopped(P, h).at = 0)
           /\ (h.at # 0 => Hopped(P, h).at = P[h.at].next)
<1>1. CASE h.at = 0
  BY <1>1 DEF Hopped
<1>2. CASE h.at # 0
  <2> DEFINE x == h.at
             s == P[x].entries
             w == [i \in DOMAIN s |-> s[i].e]
             m == Len(h.seen)
             n == Len(s)
             new == h.seen \o w
  <2>1. Hopped(P, h) = [at |-> P[x].next, seen |-> new]
    BY <1>2 DEF Hopped
  <2>2. x \in DOMAIN P /\ Leaf(P[x]) /\ h.seen \in Seq(Entry) /\ m \in Nat
    BY <1>2, LenProperties DEF SeenUpTo
  <2>3. n \in Nat /\ DOMAIN s = 1 .. n /\ \A i \in 1 .. n : s[i].e \in Entry
    BY <2>2, PageFacts, TreeParts
  <2>4. w \in Seq(Entry) /\ Len(w) = n /\ \A i \in 1 .. n : w[i] = s[i].e
    <3>1. w \in [1 .. n -> Entry]
      BY <2>3
    <3>2. w \in Seq(Entry)
      BY <2>3, <3>1
    <3>3. DOMAIN w = 1 .. n /\ DOMAIN w = 1 .. Len(w) /\ Len(w) \in Nat
      BY <3>1, <3>2, LenProperties
    <3> HIDE DEF w, n
    <3>4. Len(w) = n
      BY <2>3, <3>3
    <3> QED
      BY <2>3, <3>2, <3>4 DEF w
  <2>5. new \in Seq(Entry) /\ Len(new) = m + n
        /\ \A i \in 1 .. m + n : new[i] = IF i <= m THEN h.seen[i] ELSE w[i - m]
    <3>1. new \in Seq(Entry) /\ Len(new) = m + Len(w)
          /\ \A i \in 1 .. m + Len(w) : new[i] = IF i <= m THEN h.seen[i] ELSE w[i - m]
      BY <2>2, <2>4, ConcatProperties
    <3> QED
      BY <2>4, <3>1
  <2>6. \A e : (\E k \in 1 .. m : h.seen[k] = e) <=> e \in Indexed(P) /\ Ahead(P, x, e)
    BY <1>2 DEF SeenUpTo
  <2>7. \A e : (\E i \in 1 .. n : w[i] = e) <=> e \in Indexed(P) /\ Holds(P, x, e)
    BY <2>2, <2>3, <2>4 DEF Holds, Indexed
  <2>8. Increasing(s)
    BY <2>2, TreeParts DEF SortedAt
  <2>9. \A k, l \in 1 .. m : k < l => Less(h.seen[k], h.seen[l])
    BY DEF SeenUpTo
  <2>10. \A k, l \in 1 .. n : k < l => Less(w[k], w[l])
    BY <2>3, <2>4, <2>8 DEF Increasing
  <2>11. \A k \in 1 .. m, l \in 1 .. n : Less(h.seen[k], w[l])
    BY <2>4, <2>6 DEF Ahead
  <2> HIDE DEF w, new, m, n, s, x
  <2>12. \A k, l \in 1 .. Len(new) : k < l => Less(new[k], new[l])
    <3> SUFFICES ASSUME NEW k \in 1 .. m + n, NEW l \in 1 .. m + n, k < l PROVE Less(new[k], new[l])
      BY <2>5
    <3>1. CASE l <= m
      BY <2>2, <2>3, <2>5, <2>9, <3>1
    <3>2. CASE k > m
      <4>1. k - m \in 1 .. n /\ l - m \in 1 .. n /\ k - m < l - m /\ new[k] = w[k - m] /\ new[l] = w[l - m]
        BY <2>2, <2>3, <2>5, <3>2
      <4> QED
        BY <2>10, <4>1
    <3>3. CASE k <= m /\ l > m
      <4>1. k \in 1 .. m /\ l - m \in 1 .. n /\ new[k] = h.seen[k] /\ new[l] = w[l - m]
        BY <2>2, <2>3, <2>5, <3>3
      <4> QED
        BY <2>11, <4>1
    <3> QED
      BY <2>2, <2>3, <3>1, <3>2, <3>3
  <2>13. \A e : (\E k \in 1 .. Len(new) : new[k] = e)
                  <=> (\E k \in 1 .. m : h.seen[k] = e) \/ (\E i \in 1 .. n : w[i] = e)
    <3> TAKE e
    <3>1. ASSUME NEW k \in 1 .. Len(new), new[k] = e
          PROVE  (\E j \in 1 .. m : h.seen[j] = e) \/ (\E i \in 1 .. n : w[i] = e)
      <4>1. CASE k <= m
        BY <2>2, <2>3, <2>5, <3>1, <4>1
      <4>2. CASE k > m
        <5>1. k - m \in 1 .. n /\ new[k] = w[k - m]
          BY <2>2, <2>3, <2>5, <4>2
        <5> QED
          BY <3>1, <5>1
      <4> QED
        BY <2>2, <2>3, <2>5, <4>1, <4>2
    <3>2. ASSUME NEW k \in 1 .. m, h.seen[k] = e PROVE \E j \in 1 .. Len(new) : new[j] = e
      <4>1. k \in 1 .. Len(new) /\ new[k] = h.seen[k]
        BY <2>2, <2>3, <2>5
      <4> QED
        BY <3>2, <4>1
    <3>3. ASSUME NEW i \in 1 .. n, w[i] = e PROVE \E j \in 1 .. Len(new) : new[j] = e
      <4>1. i + m \in 1 .. Len(new) /\ new[i + m] = w[i]
        BY <2>2, <2>3, <2>5
      <4> QED
        BY <3>3, <4>1
    <3> QED
      BY <3>1, <3>2, <3>3
  <2>14. \A e : (\E k \in 1 .. Len(new) : new[k] = e)
                  <=> e \in Indexed(P) /\ (P[x].next = 0 \/ Ahead(P, P[x].next, e))
    BY <2>2, <2>6, <2>7, <2>13, PassedLeaf
  <2>15. P[x].next # 0 => P[x].next \in DOMAIN P /\ Leaf(P[P[x].next])
    BY <2>2, LinkFacts, TreeParts DEF Leaf
  <2>16. SeenUpTo(P, P[x].next, new)
    BY <2>5, <2>12, <2>14, <2>15 DEF SeenUpTo
  <2> QED
    BY <1>2, <2>1, <2>16 DEF x
<1> QED
  BY <1>1, <1>2

\* A walk shows the entries of the leaves, in their order.
LEMMA WalkFacts ==
    ASSUME NEW P, BTree(P, 0)
    PROVE  /\ Walk(P) \in Seq(Entry)
           /\ \A k, l \in 1 .. Len(Walk(P)) : k < l => Less(Walk(P)[k], Walk(P)[l])
           /\ \A e : (\E k \in 1 .. Len(Walk(P)) : Walk(P)[k] = e) <=> e \in Indexed(P)
<1> DEFINE n == Cardinality(DOMAIN P)
           first == [at |-> FirstLeaf(P), seen |-> << >>]
<1>1. IsFiniteSet(DOMAIN P) /\ n \in Nat
  BY FS_CardinalityType, TreeParts DEF PagesOK
<1>2. PICK f : /\ f = [i \in 0 .. n |-> IF i = 0 THEN first ELSE Hopped(P, f[i - 1])]
               /\ Walk(P) = f[n].seen
  BY <1>1, HopsAre
<1> HIDE DEF n
<1>3. f[0] = first
  BY <1>1, <1>2
<1>4. \A i \in 1 .. n : f[i] = Hopped(P, f[i - 1])
  <2>1. \A i \in 0 .. n : f[i] = IF i = 0 THEN first ELSE Hopped(P, f[i - 1])
    BY <1>2
  <2>2. \A i \in 1 .. n : i \in 0 .. n /\ i # 0
    BY <1>1
  <2> QED
    BY <2>1, <2>2
<1> DEFINE Left(x) == Cardinality(LeavesFrom(P, x))
           A == {i \in 0 .. n : /\ SeenUpTo(P, f[i].at, f[i].seen)
                                /\ f[i].at # 0 => Left(f[i].at) <= n - i}
<1>5. \A x \in DOMAIN P : IsFiniteSet(LeavesFrom(P, x)) /\ Left(x) \in Nat /\ Left(x) <= n /\ x \in LeavesFrom(P, x)
  <2> TAKE x \in DOMAIN P
  <2>1. LeavesFrom(P, x) \in SUBSET DOMAIN P /\ x \in LeavesFrom(P, x)
    BY DEF LeavesFrom
  <2> QED
    BY <1>1, <2>1, FS_Subset, FS_CardinalityType DEF n
<1>6. 0 \in A
  <2>1. FirstLeaf(P) \in DOMAIN P /\ Leaf(P[FirstLeaf(P)]) /\ P[FirstLeaf(P)].prev = 0
    BY FirstLeafFacts
  <2>2. \A e \in Indexed(P) : ~ Ahead(P, FirstLeaf(P), e)
    BY <2>1, NothingAhead
  <2>3. FirstLeaf(P) # 0
    BY <2>1, PageFacts, TreeParts
  <2>4. SeenUpTo(P, FirstLeaf(P), << >>)
    BY <2>1, <2>2, <2>3, EmptySeq DEF SeenUpTo
  <2>5. f[0].at = FirstLeaf(P) /\ f[0].seen = << >>
    BY <1>3
  <2>6. Left(FirstLeaf(P)) <= n - 0
    BY <1>1, <1>5, <2>1
  <2>7. SeenUpTo(P, f[0].at, f[0].seen) /\ Left(f[0].at) <= n - 0 /\ 0 \in 0 .. n
    BY <1>1, <2>4, <2>5, <2>6
  <2> HIDE DEF Left
  <2> QED
    BY <2>7
<1>7. ASSUME NEW i \in 1 .. n, i - 1 \in A PROVE i \in A
  <2> DEFINE h == f[i - 1]
  <2>1. SeenUpTo(P, h.at, h.seen) /\ (h.at # 0 => Left(h.at) <= n - (i - 1))
    BY <1>7
  <2>2. f[i] = Hopped(P, h)
    BY <1>4
  <2> HIDE DEF h
  <2>3. /\ SeenUpTo(P, f[i].at, f[i].seen) /\ (h.at = 0 => f[i].at = 0)
        /\ (h.at # 0 => f[i].at = P[h.at].next)
    BY <2>1, <2>2, HopKeeps
  <2>4. ASSUME f[i].at # 0 PROVE Left(f[i].at) <= n - i
    <3> DEFINE x == h.at
               y == f[i].at
    <3>1. x # 0 /\ y = P[x].next /\ x \in DOMAIN P /\ Leaf(P[x]) /\ y \in DOMAIN P
      BY <2>1, <2>3, <2>4 DEF SeenUpTo
    <3>2. LeavesFrom(P, y) \in SUBSET (LeavesFrom(P, x) \ {x})
      BY <2>4, <3>1, FewerLeaves
    <3>3. Left(x) <= n - (i - 1) /\ Left(x) \in Nat /\ Left(y) \in Nat
      BY <1>5, <2>1, <3>1
    <3>4. /\ IsFiniteSet(LeavesFrom(P, x) \ {x})
          /\ Cardinality(LeavesFrom(P, x) \ {x}) = Left(x) - 1
      BY <1>5, <3>1, FS_RemoveElement
    <3>5. Left(y) <= Left(x) - 1
      BY <3>2, <3>4, FS_Subset
    <3> HIDE DEF Left, x, y
    <3>6. Left(y) <= n - i
      BY <1>1, <3>3, <3>5
    <3> QED
      BY <3>6 DEF y
  <2> HIDE DEF Left
  <2> QED
    BY <2>3, <2>4
<1>8. \A i \in 0 .. n : i \in A
  <2> HIDE DEF A
  <2> QED
    BY <1>1, <1>6, <1>7, Counted
<1>9. SeenUpTo(P, f[n].at, f[n].seen) /\ (f[n].at # 0 => Left(f[n].at) <= n - n)
  <2>1. n \in A
    BY <1>1, <1>8
  <2> HIDE DEF Left
  <2> QED
    BY <2>1
<1>10. f[n].at = 0
  <2> SUFFICES ASSUME f[n].at # 0 PROVE FALSE
    OBVIOUS
  <2>1. f[n].at \in DOMAIN P
    BY <1>9 DEF SeenUpTo
  <2>2. Left(f[n].at) = 0
    BY <1>1, <1>5, <1>9, <2>1
  <2> QED
    BY <1>5, <2>1, <2>2, FS_EmptySet
<1> QED
  BY <1>2, <1>9, <1>10 DEF SeenUpTo
-----------------------------------------------------------------------------
(* Pages that change and keep their shape *)

\* A list whose neighbours increase increases.
LEMMA Adjacent ==
    ASSUME NEW n \in Nat, NEW f, \A i \in 1 .. n : f[i].e \in Entry,
           \A i \in 1 .. n - 1 : Less(f[i].e, f[i + 1].e)
    PROVE  \A i, j \in 1 .. n : i < j => Less(f[i].e, f[j].e)
<1> DEFINE A == {m \in 0 .. n : \A i \in 1 .. n : i < m => Less(f[i].e, f[m].e)}
<1>1. 0 \in A
  OBVIOUS
<1>2. ASSUME NEW m \in 1 .. n, m - 1 \in A PROVE m \in A
  <2> SUFFICES ASSUME NEW i \in 1 .. n, i < m PROVE Less(f[i].e, f[m].e)
    OBVIOUS
  <2>1. m - 1 \in 1 .. n - 1 /\ m - 1 \in 1 .. n /\ (m - 1) + 1 = m /\ (i = m - 1 \/ i < m - 1)
    OBVIOUS
  <2>2. Less(f[m - 1].e, f[m].e)
    BY <2>1
  <2>3. i = m - 1 \/ Less(f[i].e, f[m - 1].e)
    BY <1>2, <2>1
  <2> QED
    BY <2>1, <2>2, <2>3, LessOrder
<1>3. \A m \in 0 .. n : m \in A
  <2> HIDE DEF A
  <2> QED
    BY <1>1, <1>2, Counted
<1> QED
  BY <1>3

\* Exact dividers are sorted as their children are.
LEMMA LevelSorted ==
    ASSUME NEW P, Shaped(P), NEW q \in DOMAIN P, ~ Leaf(P[q]),
           \A x \in DOMAIN P : P[x].level + 1 = P[q].level => SortedAt(P, x),
           \A x \in DOMAIN P : P[x].level = P[q].level =>
               \A i \in 1 .. Len(P[x].entries) : P[x].entries[i].e = Top(P, Child(P[x], i))
    PROVE  SortedAt(P, q)
<1> DEFINE s == P[q].entries
           n == Len(s)
<1>1. /\ n \in Nat /\ n >= 1 /\ DOMAIN s = 1 .. n /\ \A i \in 1 .. n : s[i].e \in Entry
      /\ \A i \in 1 .. n : i \in ChildNos(P[q])
      /\ Top(P, q) = s[n].e
  BY NodeFacts, PageFacts, Filled, FilledPage DEF Shaped, Top
<1>2. ASSUME NEW x \in DOMAIN P, NEW i \in ChildNos(P[x]), P[x].level = P[q].level
      PROVE  LET c == Child(P[x], i)
             IN  /\ SortedAt(P, c) /\ c \in DOMAIN P /\ c # 0
                 /\ Top(P, c) \in Entry /\ Low(P, c) \in Entry
                 /\ (Low(P, c) = Top(P, c) \/ Less(Low(P, c), Top(P, c)))
  <2> DEFINE c == Child(P[x], i)
  <2>1. c \in DOMAIN P /\ c # 0 /\ P[c].level + 1 = P[q].level /\ P[c].entries # << >>
    BY <1>2, ChildFacts
  <2>2. SortedAt(P, c)
    BY <2>1
  <2> QED
    BY <2>1, <2>2, Spread DEF SortedAt, Shaped
<1> HIDE DEF n, s
<1>3. ASSUME NEW i \in 1 .. n - 1 PROVE Less(s[i].e, s[i + 1].e)
  <2> DEFINE c == Child(P[q], i)
             x == Child(P[q], i + 1)
  <2>1. i \in 1 .. n /\ i + 1 \in 1 .. n /\ i \in ChildNos(P[q]) /\ i + 1 \in ChildNos(P[q])
    BY <1>1
  <2>2. s[i].e = Top(P, c) /\ s[i + 1].e = Top(P, x)
    BY <2>1 DEF s, n
  <2>3. P[c].next = x /\ x # 0
    BY <2>1, NextChild, <1>2
  <2>4. Less(Top(P, c), Low(P, x))
    BY <2>1, <2>3, <1>2 DEF SortedAt
  <2> QED
    BY <1>2, <2>1, <2>2, <2>4, LessOrder
<1>4. Increasing(s)
  BY <1>1, <1>3, Adjacent DEF Increasing
<1>5. ASSUME P[q].next # 0 PROVE Less(Top(P, q), Low(P, P[q].next))
  <2> DEFINE y == P[q].next
             c == Child(P[q], n)
             x == Child(P[y], 1)
  <2>1. y \in DOMAIN P /\ P[y].level = P[q].level /\ P[q].tail = 0
    BY <1>5, LinkFacts, NodeFacts DEF Shaped
  <2>2. n \in ChildNos(P[q]) /\ n + 1 \notin ChildNos(P[q]) /\ n \in 1 .. n
    BY <1>1, <2>1, NodeFacts DEF Shaped, n, s
  <2>3. ~ Leaf(P[y]) /\ 1 \in ChildNos(P[y]) /\ P[c].next = x
    BY <1>5, <2>2, LastChild
  <2>4. 1 \in 1 .. Len(P[y].entries) /\ Low(P, y) = P[y].entries[1].e
    BY <2>1, <2>3, NodeFacts, Filled, FilledPage DEF Shaped, Low
  <2>5. Low(P, y) = Top(P, x) /\ s[n].e = Top(P, c)
    BY <2>1, <2>2, <2>4 DEF s, n
  <2>6. x # 0 /\ x \in DOMAIN P
    BY <1>2, <2>1, <2>3
  <2>7. Less(Top(P, c), Low(P, x))
    BY <1>2, <2>2, <2>3, <2>6 DEF SortedAt
  <2> QED
    BY <1>1, <1>2, <2>1, <2>2, <2>3, <2>5, <2>7, LessOrder
<1> QED
  BY <1>4, <1>5 DEF SortedAt, s

SameShape(P, Q) ==
    /\ DOMAIN Q = DOMAIN P
    /\ \A q \in DOMAIN P :
        /\ Q[q].level = P[q].level /\ Q[q].prev = P[q].prev /\ Q[q].next = P[q].next /\ Q[q].tail = P[q].tail
        /\ ~ Leaf(P[q]) => /\ Len(Q[q].entries) = Len(P[q].entries)
                           /\ \A i \in 1 .. Len(P[q].entries) : Q[q].entries[i].child = P[q].entries[i].child

LEMMA ShapeChildren ==
    ASSUME NEW P, NEW Q, Shaped(P), SameShape(P, Q), NEW q \in DOMAIN P
    PROVE  /\ ChildNos(Q[q]) = ChildNos(P[q])
           /\ \A i \in ChildNos(P[q]) : Child(Q[q], i) = Child(P[q], i) /\ Behind(Q, q, i) = Behind(P, q, i)
<1>1. \A x \in DOMAIN P :
        /\ Q[x].level = P[x].level /\ Q[x].next = P[x].next /\ Q[x].tail = P[x].tail
        /\ ~ Leaf(P[x]) => /\ Len(Q[x].entries) = Len(P[x].entries)
                           /\ \A i \in 1 .. Len(P[x].entries) : Q[x].entries[i].child = P[x].entries[i].child
  BY DEF SameShape
<1>2. \A x \in DOMAIN P : ChildNos(Q[x]) = ChildNos(P[x])
  BY <1>1 DEF ChildNos, Leaf
<1>3. \A x \in DOMAIN P : \A i \in ChildNos(P[x]) : Child(Q[x], i) = Child(P[x], i)
  <2> TAKE x \in DOMAIN P
  <2> TAKE i \in ChildNos(P[x])
  <2>1. ~ Leaf(P[x]) /\ i \in Nat /\ 1 <= i /\ Len(P[x].entries) \in Nat
    BY ChildFacts
  <2>2. Len(Q[x].entries) = Len(P[x].entries) /\ Q[x].tail = P[x].tail
    BY <1>1, <2>1
  <2>3. CASE i <= Len(P[x].entries)
    <3>1. i \in 1 .. Len(P[x].entries)
      BY <2>1, <2>3
    <3> QED
      BY <1>1, <2>1, <2>2, <2>3, <3>1 DEF Child
  <2>4. CASE ~ (i <= Len(P[x].entries))
    BY <2>2, <2>4 DEF Child
  <2> QED
    BY <2>3, <2>4
<1>4. ASSUME NEW i \in ChildNos(P[q]) PROVE Behind(Q, q, i) = Behind(P, q, i)
  <2>1. Q[q].next = P[q].next
    BY <1>1
  <2>2. CASE i + 1 \in ChildNos(P[q])
    BY <1>2, <1>3, <2>2 DEF Behind
  <2>3. CASE i + 1 \notin ChildNos(P[q]) /\ P[q].next = 0
    BY <1>2, <2>1, <2>3 DEF Behind
  <2>4. CASE i + 1 \notin ChildNos(P[q]) /\ P[q].next # 0
    <3>1. P[q].next \in DOMAIN P /\ 1 \in ChildNos(P[P[q].next])
      BY <2>4, LastChild
    <3>2. Child(Q[P[q].next], 1) = Child(P[P[q].next], 1)
      BY <1>3, <3>1
    <3> QED
      BY <1>2, <2>1, <2>4, <3>2 DEF Behind
  <2> QED
    BY <2>2, <2>3, <2>4
<1> QED
  BY <1>2, <1>3, <1>4

LEMMA ShapeKept ==
    ASSUME NEW P, NEW Q, Shaped(P), SameShape(P, Q), PagesOK(Q)
    PROVE  Shaped(Q)
<1>0. /\ DOMAIN Q = DOMAIN P
      /\ \A q \in DOMAIN P : /\ Q[q].level = P[q].level /\ Q[q].prev = P[q].prev
                             /\ Q[q].next = P[q].next /\ Q[q].tail = P[q].tail
                             /\ (~ Leaf(P[q]) => Len(Q[q].entries) = Len(P[q].entries))
  BY DEF SameShape
<1>1. Linked(Q)
  <2>1. Root \in DOMAIN Q /\ Q[Root].prev = 0 /\ Q[Root].next = 0
    BY <1>0, RootFacts
  <2>2. ASSUME NEW q \in DOMAIN Q
        PROVE  /\ (Q[q].next # 0 => Q[q].next \in DOMAIN Q /\ Q[Q[q].next].prev = q /\ Q[Q[q].next].level = Q[q].level)
               /\ (Q[q].prev # 0 => Q[q].prev \in DOMAIN Q /\ Q[Q[q].prev].next = q)
    BY <1>0, LinkFacts
  <2> QED
    BY <2>1, <2>2 DEF Linked
<1>2. \A q \in DOMAIN P : ChildNos(Q[q]) = ChildNos(P[q])
  BY ShapeChildren
<1>3. \A q \in DOMAIN P : \A i \in ChildNos(P[q]) : Child(Q[q], i) = Child(P[q], i) /\ Behind(Q, q, i) = Behind(P, q, i)
  BY ShapeChildren
<1>4. ASSUME NEW q \in DOMAIN Q, NEW i \in ChildNos(Q[q])
      PROVE  LET c == Child(Q[q], i)
             IN  /\ c \in DOMAIN Q \ {Root}
                 /\ Q[c].level + 1 = Q[q].level
                 /\ Q[c].next = Behind(Q, q, i)
                 /\ i <= Len(Q[q].entries) => Q[c].tail = 0
  <2> DEFINE c == Child(P[q], i)
  <2>1. q \in DOMAIN P /\ i \in ChildNos(P[q]) /\ Child(Q[q], i) = c /\ Behind(Q, q, i) = Behind(P, q, i)
    BY <1>0, <1>2, <1>3
  <2>2. /\ ~ Leaf(P[q]) /\ c \in DOMAIN P /\ c # Root /\ P[c].level + 1 = P[q].level /\ P[c].next = Behind(P, q, i)
        /\ (i <= Len(P[q].entries) => P[c].tail = 0)
    BY <2>1, ChildFacts
  <2>3. Len(Q[q].entries) = Len(P[q].entries)
    BY <1>0, <2>1, <2>2
  <2> HIDE DEF c
  <2> QED
    BY <1>0, <2>1, <2>2, <2>3
<1>5. \A c \in DOMAIN Q \ {Root} : \E q \in DOMAIN Q : \E i \in ChildNos(Q[q]) : Child(Q[q], i) = c
  <2> TAKE c \in DOMAIN Q \ {Root}
  <2>1. PICK q \in DOMAIN P : \E i \in ChildNos(P[q]) : Child(P[q], i) = c
    BY <1>0 DEF Shaped, Hung
  <2> QED
    BY <1>0, <1>2, <1>3, <2>1
<1>6. \A q, x \in DOMAIN Q : \A i \in ChildNos(Q[q]), j \in ChildNos(Q[x]) :
        Child(Q[q], i) = Child(Q[x], j) => q = x /\ i = j
  <2> TAKE q, x \in DOMAIN Q
  <2> TAKE i \in ChildNos(Q[q]), j \in ChildNos(Q[x])
  <2>1. /\ i \in ChildNos(P[q]) /\ j \in ChildNos(P[x])
        /\ Child(Q[q], i) = Child(P[q], i) /\ Child(Q[x], j) = Child(P[x], j)
    BY <1>0, <1>2, <1>3
  <2>2. Child(P[q], i) = Child(P[x], j) => q = x /\ i = j
    BY <1>0, <2>1 DEF Shaped, Hung
  <2> QED
    BY <2>1, <2>2
<1>7. Hung(Q)
  BY <1>4, <1>5, <1>6 DEF Hung
<1> QED
  BY <1>1, <1>7 DEF Shaped

\* The pages with other entries in one of them.
At(P, pg, s) == [P EXCEPT ![pg].entries = s]

LEMMA AtFacts ==
    ASSUME NEW P, PagesOK(P), NEW pg \in DOMAIN P, NEW s \in Seq(ItemSet)
    PROVE  /\ DOMAIN At(P, pg, s) = DOMAIN P
           /\ At(P, pg, s) \in [DOMAIN P -> Page]
           /\ At(P, pg, s)[pg].entries = s
           /\ \A q \in DOMAIN P :
                /\ q # pg => At(P, pg, s)[q] = P[q]
                /\ At(P, pg, s)[q].level = P[q].level /\ At(P, pg, s)[q].prev = P[q].prev
                /\ At(P, pg, s)[q].next = P[q].next /\ At(P, pg, s)[q].tail = P[q].tail
<1>1. P \in [DOMAIN P -> Page] /\ P[pg] \in Page
  BY DEF PagesOK
<1>2. DOMAIN At(P, pg, s) = DOMAIN P /\ \A q \in DOMAIN P : q # pg => At(P, pg, s)[q] = P[q]
  BY DEF At
<1>3. At(P, pg, s)[pg] = [P[pg] EXCEPT !.entries = s]
  BY DEF At
<1>4. s \in Seq([e : Entry, child : Nat])
  BY DEF ItemSet
<1>5. /\ [P[pg] EXCEPT !.entries = s] \in Page
      /\ [P[pg] EXCEPT !.entries = s].entries = s
      /\ [P[pg] EXCEPT !.entries = s].level = P[pg].level
      /\ [P[pg] EXCEPT !.entries = s].prev = P[pg].prev
      /\ [P[pg] EXCEPT !.entries = s].next = P[pg].next
      /\ [P[pg] EXCEPT !.entries = s].tail = P[pg].tail
  BY <1>1, <1>4 DEF Page
<1>6. At(P, pg, s) \in [DOMAIN P -> Page]
  <2>1. \A q \in DOMAIN P : At(P, pg, s)[q] \in Page
    BY <1>1, <1>2, <1>3, <1>5
  <2> QED
    BY <2>1 DEF At
<1> QED
  BY <1>2, <1>3, <1>5, <1>6

LEMMA AtShape ==
    ASSUME NEW P, Shaped(P), NEW pg \in DOMAIN P, NEW s \in Seq(ItemSet), s # << >>,
           ~ Leaf(P[pg]) => /\ Len(s) = Len(P[pg].entries)
                            /\ \A i \in 1 .. Len(s) : s[i].child = P[pg].entries[i].child
    PROVE  Shaped(At(P, pg, s)) /\ SameShape(P, At(P, pg, s))
<1> DEFINE R == At(P, pg, s)
<1>1. /\ DOMAIN R = DOMAIN P /\ R \in [DOMAIN P -> Page] /\ R[pg].entries = s
      /\ \A q \in DOMAIN P :
            /\ q # pg => R[q] = P[q]
            /\ R[q].level = P[q].level /\ R[q].prev = P[q].prev
            /\ R[q].next = P[q].next /\ R[q].tail = P[q].tail
  BY AtFacts DEF Shaped
<1> HIDE DEF R
<1>2. PagesOK(R)
  <2>1. DOMAIN P \subseteq Nat \ {0} /\ IsFiniteSet(DOMAIN P)
    BY DEF Shaped, PagesOK
  <2>2. \A q \in DOMAIN P : R[q].entries = << >> => q = Root /\ R[q] = EmptyLeaf
    BY <1>1 DEF Shaped, PagesOK
  <2>3. \A q \in DOMAIN P : R[q].tail # 0 => ~ Leaf(R[q]) /\ R[q].next = 0
    BY <1>1 DEF Shaped, PagesOK, Leaf
  <2> QED
    BY <1>1, <2>1, <2>2, <2>3 DEF PagesOK
<1>3. SameShape(P, R)
  BY <1>1 DEF SameShape
<1> QED
  BY <1>2, <1>3, ShapeKept DEF R

LEMMA NoLoop ==
    ASSUME NEW P, NEW stale, BTree(P, stale), NEW q \in DOMAIN P
    PROVE  P[q].next # q /\ P[q].prev # q
<1>1. ASSUME P[q].next = q PROVE FALSE
  <2>1. q # Root /\ P[q].next # 0
    BY <1>1, LinkFacts, PageFacts, TreeParts
  <2>2. /\ P[q].entries # << >> /\ Increasing(P[q].entries) /\ Less(Top(P, q), Low(P, q))
    BY <1>1, <2>1, TreeParts DEF SortedAt
  <2>3. /\ Top(P, q) \in Entry /\ Low(P, q) \in Entry
        /\ (Low(P, q) = Top(P, q) \/ Less(Low(P, q), Top(P, q)))
    BY <2>2, Spread, TreeParts
  <2> QED
    BY <2>2, <2>3, LessOrder
<1>2. P[q].prev = q => P[q].next = q
  BY LinkFacts, PageFacts, TreeParts
<1> QED
  BY <1>1, <1>2

\* The entries of a page are replaced: of a leaf by others in their place, of a
\* node by exact dividers of its children.  Then the divider of the page is stale.
LEMMA Rewritten ==
    ASSUME NEW P, NEW stale, BTree(P, stale), NEW pg \in DOMAIN P, NEW s \in Seq(ItemSet), s # << >>,
           Leaf(P[pg]) =>
               /\ Increasing(s)
               /\ P[pg].next # 0 => Less(Last(s).e, Low(P, P[pg].next))
               /\ P[pg].prev # 0 => Less(Top(P, P[pg].prev), Head(s).e),
           ~ Leaf(P[pg]) =>
               /\ Len(s) = Len(P[pg].entries)
               /\ \A i \in 1 .. Len(s) : s[i].child = P[pg].entries[i].child /\ s[i].e = Top(P, s[i].child),
           \A q \in DOMAIN P \ {pg} : ~ Leaf(P[q]) =>
               \A i \in 1 .. Len(P[q].entries) : P[q].entries[i].child # stale
    PROVE  BTree(At(P, pg, s), pg)
<1> DEFINE R == At(P, pg, s)
<1>1. Shaped(P) /\ \A q \in DOMAIN P : SortedAt(P, q)
  BY TreeParts
<1>2. Shaped(R) /\ SameShape(P, R)
  BY <1>1, AtShape
<1>3. /\ DOMAIN R = DOMAIN P /\ R[pg].entries = s
      /\ \A q \in DOMAIN P :
            /\ q # pg => R[q] = P[q]
            /\ R[q].level = P[q].level /\ R[q].prev = P[q].prev
            /\ R[q].next = P[q].next /\ R[q].tail = P[q].tail
  BY <1>1, AtFacts DEF Shaped
<1> HIDE DEF R
<1>4. ASSUME NEW q \in DOMAIN P, ~ Leaf(P[q]), NEW i \in 1 .. Len(R[q].entries)
      PROVE  /\ R[q].entries[i].child = Child(R[q], i)
             /\ R[q].entries[i].child \in DOMAIN P /\ P[R[q].entries[i].child].level + 1 = P[q].level
             /\ (R[q].entries[i].child # pg => R[q].entries[i].e = Top(R, R[q].entries[i].child))
  <2> DEFINE c == R[q].entries[i].child
  <2>1. ~ Leaf(R[q])
    BY <1>3, <1>4 DEF Leaf
  <2>2. i \in ChildNos(R[q]) /\ c = Child(R[q], i)
    BY <1>2, <1>3, <1>4, <2>1, NodeFacts DEF Shaped
  <2>3. c \in DOMAIN P /\ R[c].level + 1 = R[q].level
    BY <1>2, <1>3, <2>2, ChildFacts
  <2>4. ASSUME c # pg PROVE R[q].entries[i].e = Top(R, c)
    <3>1. Top(R, c) = Top(P, c)
      BY <1>3, <2>3, <2>4 DEF Top
    <3>2. CASE q = pg
      BY <1>3, <1>4, <3>1, <3>2
    <3>3. CASE q # pg
      <4>1. R[q] = P[q]
        BY <1>3, <3>3
      <4>2. c # stale /\ i \in 1 .. Len(P[q].entries) /\ c = Child(P[q], i)
        BY <1>4, <2>2, <3>3, <4>1
      <4> QED
        BY <1>4, <3>1, <4>1, <4>2, Dividers
    <3> QED
      BY <3>2, <3>3
  <2> QED
    BY <1>3, <2>2, <2>3, <2>4
<1>5. Divided(R, pg)
  <2> SUFFICES ASSUME NEW q \in DOMAIN R, NEW i \in DOMAIN R[q].entries, ~ Leaf(R[q]), R[q].entries[i].child # pg
               PROVE  R[q].entries[i].e = Last(R[R[q].entries[i].child].entries).e
    BY DEF Divided
  <2>1. q \in DOMAIN P /\ ~ Leaf(P[q]) /\ i \in 1 .. Len(R[q].entries)
    BY <1>2, <1>3, PageFacts DEF Leaf, Shaped
  <2> QED
    BY <1>4, <2>1 DEF Top
<1>6. ASSUME NEW q \in DOMAIN P, q # pg, P[q].next # pg PROVE SortedAt(R, q)
  <2>1. R[q] = P[q] /\ (P[q].next # 0 => P[q].next \in DOMAIN P /\ R[P[q].next] = P[P[q].next])
    BY <1>1, <1>3, <1>6, LinkFacts
  <2> QED
    BY <1>1, <2>1 DEF SortedAt, Top, Low
<1>7. CASE Leaf(P[pg])
  <2>1. SortedAt(R, pg)
    <3>1. P[pg].next # 0 => P[pg].next \in DOMAIN P /\ R[P[pg].next] = P[P[pg].next]
      BY <1>1, <1>3, NoLoop, LinkFacts
    <3> QED
      BY <1>3, <1>7, <3>1 DEF SortedAt, Top, Low
  <2>2. ASSUME NEW q \in DOMAIN P, q # pg, P[q].next = pg PROVE SortedAt(R, q)
    <3>1. P[pg].prev = q /\ q # 0 /\ pg # 0
      BY <1>1, <2>2, LinkFacts, PageFacts DEF Shaped
    <3>2. R[q] = P[q] /\ Less(Top(P, q), Head(s).e)
      BY <1>3, <1>7, <2>2, <3>1
    <3> QED
      BY <1>1, <1>3, <2>2, <3>2 DEF SortedAt, Top, Low
  <2>3. Sorted(R)
    BY <1>3, <1>6, <2>1, <2>2, SortedPages
  <2> QED
    BY <1>2, <1>5, <2>3 DEF BTree, Shaped, R
<1>8. CASE ~ Leaf(P[pg])
  <2>1. ASSUME NEW q \in DOMAIN P, P[q].level # P[pg].level PROVE SortedAt(R, q)
    <3>1. q # pg /\ P[q].next # pg
      <4>1. pg # 0
        BY <1>1, PageFacts DEF Shaped
      <4> QED
        BY <1>1, <2>1, <4>1, LinkFacts
    <3> QED
      BY <1>6, <3>1
  <2>2. ASSUME NEW q \in DOMAIN P, P[q].level = P[pg].level PROVE SortedAt(R, q)
    <3>1. q \in DOMAIN R /\ ~ Leaf(R[q])
      BY <1>3, <1>8, <2>2 DEF Leaf
    <3>2. ASSUME NEW x \in DOMAIN R, R[x].level + 1 = R[q].level PROVE SortedAt(R, x)
      <4>1. P[x].level \in Nat /\ x \in DOMAIN P
        BY <1>1, <1>3, PageFacts DEF Shaped
      <4>2. P[x].level # P[pg].level
        BY <1>3, <2>2, <3>2, <4>1
      <4> QED
        BY <2>1, <4>1, <4>2
    <3>3. ASSUME NEW x \in DOMAIN R, R[x].level = R[q].level, NEW i \in 1 .. Len(R[x].entries)
          PROVE  R[x].entries[i].e = Top(R, Child(R[x], i))
      <4>1. x \in DOMAIN P /\ ~ Leaf(P[x]) /\ P[x].level = P[pg].level /\ P[x].level \in Nat
        BY <1>1, <1>3, <1>8, <2>2, <3>3, PageFacts DEF Leaf, Shaped
      <4>2. R[x].entries[i].child # pg
        <5>1. P[R[x].entries[i].child].level + 1 = P[x].level
          BY <1>4, <4>1
        <5> QED
          BY <4>1, <5>1
      <4> QED
        BY <1>4, <4>1, <4>2
    <3> QED
      BY <1>2, <3>1, <3>2, <3>3, LevelSorted
  <2>3. Sorted(R)
    BY <1>3, <2>1, <2>2, SortedPages
  <2> QED
    BY <1>2, <1>5, <2>3 DEF BTree, Shaped, R
<1> QED
  BY <1>7, <1>8

\* The largest entry below a page without a tail is its own.
LEMMA SubtreeMaxIs ==
    ASSUME NEW P, NEW pg, P[pg].level \in Nat, P[pg].tail = 0
    PROVE  SubtreeMax(P, pg) = IF P[pg].entries = << >> THEN None ELSE Last(P[pg].entries).e
<1> DEFINE n == P[pg].level
           down[i \in 0 .. n] == IF i = 0 THEN pg ELSE TailOf(P, down[i - 1])
           Is(h) == h = [i \in 0 .. n |-> IF i = 0 THEN pg ELSE TailOf(P, h[i - 1])]
           h0 == [i \in 0 .. n |-> pg]
           A == {i \in 0 .. n : down[i] = pg}
<1>1. Is(h0)
  <2>1. TailOf(P, pg) = pg
    BY DEF TailOf
  <2>2. \A i \in 0 .. n : i # 0 => i - 1 \in 0 .. n
    OBVIOUS
  <2> QED
    BY <2>1, <2>2
<1>2. down = CHOOSE h : Is(h)
  OBVIOUS
<1>3. SubtreeMax(P, pg) = IF P[down[n]].entries = << >> THEN None ELSE Last(P[down[n]].entries).e
  BY DEF SubtreeMax
<1> HIDE DEF down, h0, Is
<1>4. Is(down)
  BY <1>1, <1>2
<1> HIDE DEF n
<1>5. n \in Nat
  BY DEF n
<1>6. \A i \in 0 .. n : down[i] = IF i = 0 THEN pg ELSE TailOf(P, down[i - 1])
  BY <1>4 DEF Is
<1>7. 0 \in A
  BY <1>5, <1>6
<1>8. ASSUME NEW i \in 1 .. n, i - 1 \in A PROVE i \in A
  <2>1. i \in 0 .. n /\ i # 0 /\ down[i - 1] = pg
    BY <1>5, <1>8
  <2> QED
    BY <1>6, <2>1 DEF TailOf
<1>9. \A i \in 0 .. n : i \in A
  <2> HIDE DEF A
  <2> QED
    BY <1>5, <1>7, <1>8, Counted
<1>10. down[n] = pg
  BY <1>5, <1>9
<1> QED
  BY <1>3, <1>10

LEMMA EntryIsSome == \A a \in Entry : a # None
BY DEF Entry, None

Typed(P, gone) == P \in [DOMAIN P -> Page] /\ gone \subseteq DOMAIN P /\ 0 \notin DOMAIN P

\* Pages unlinked keep what they hold.
LEMMA UnlinkedFacts ==
    ASSUME NEW P, NEW gone, Typed(P, gone)
    PROVE  /\ DOMAIN Unlinked(P, gone) = DOMAIN P \ gone
           /\ \A q \in DOMAIN P \ gone :
                LET p == Unlinked(P, gone)[q]
                IN  /\ p.level = P[q].level /\ p.tail = P[q].tail /\ p.entries = P[q].entries
                    /\ p.next = (IF P[q].next \in gone THEN P[P[q].next].next ELSE P[q].next)
                    /\ p.prev = (IF P[q].prev \in gone THEN P[P[q].prev].prev ELSE P[q].prev)
                    /\ p \in Page
<1>1. DOMAIN Unlinked(P, gone) = DOMAIN P \ gone
  BY DEF Unlinked
<1>2. ASSUME NEW q \in DOMAIN P \ gone
      PROVE LET p == Unlinked(P, gone)[q]
            IN  /\ p.level = P[q].level /\ p.tail = P[q].tail /\ p.entries = P[q].entries
                /\ p.next = (IF P[q].next \in gone THEN P[P[q].next].next ELSE P[q].next)
                /\ p.prev = (IF P[q].prev \in gone THEN P[P[q].prev].prev ELSE P[q].prev)
                /\ p \in Page
  <2> DEFINE a == IF P[q].next \in gone THEN P[P[q].next].next ELSE P[q].next
             b == IF P[q].prev \in gone THEN P[P[q].prev].prev ELSE P[q].prev
  <2>1. Unlinked(P, gone)[q] = [P[q] EXCEPT !.next = a, !.prev = b]
    BY DEF Unlinked
  <2>2. P[q] \in Page /\ \A x \in gone : P[x] \in Page
    BY DEF Typed
  <2>3. a \in Nat /\ b \in Nat
    BY <2>2 DEF Page
  <2> HIDE DEF a, b
  <2>4. /\ [P[q] EXCEPT !.next = a, !.prev = b].level = P[q].level
        /\ [P[q] EXCEPT !.next = a, !.prev = b].tail = P[q].tail
        /\ [P[q] EXCEPT !.next = a, !.prev = b].entries = P[q].entries
        /\ [P[q] EXCEPT !.next = a, !.prev = b].next = a
        /\ [P[q] EXCEPT !.next = a, !.prev = b].prev = b
        /\ [P[q] EXCEPT !.next = a, !.prev = b] \in Page
    BY <2>2, <2>3 DEF Page
  <2> QED
    BY <2>1, <2>4 DEF a, b
<1> QED
  BY <1>1, <1>2

LEMMA SamePage ==
    ASSUME NEW p \in Page, NEW r \in Page, p.level = r.level, p.prev = r.prev, p.next = r.next,
           p.tail = r.tail, p.entries = r.entries
    PROVE  p = r
BY DEF Page

LEMMA UnlinkedNone ==
    ASSUME NEW P, NEW none, \A x : x \notin none, Typed(P, none)
    PROVE  Unlinked(P, none) = P
<1> DEFINE U == Unlinked(P, none)
<1>1. DOMAIN U = DOMAIN P \ none /\ \A q \in DOMAIN P \ none :
           /\ U[q].level = P[q].level /\ U[q].tail = P[q].tail /\ U[q].entries = P[q].entries
           /\ U[q].next = (IF P[q].next \in none THEN P[P[q].next].next ELSE P[q].next)
           /\ U[q].prev = (IF P[q].prev \in none THEN P[P[q].prev].prev ELSE P[q].prev)
           /\ U[q] \in Page
  BY UnlinkedFacts
<1>2. ASSUME NEW q \in DOMAIN P PROVE U[q] = P[q]
  <2>1. P[q] \in Page /\ q \in DOMAIN P \ none
    BY DEF Typed
  <2> HIDE DEF U
  <2>2. /\ U[q] \in Page /\ U[q].level = P[q].level /\ U[q].tail = P[q].tail /\ U[q].entries = P[q].entries
        /\ U[q].next = P[q].next /\ U[q].prev = P[q].prev
    BY <1>1, <2>1
  <2> QED
    BY <2>1, <2>2, SamePage
<1>3. U = [q \in DOMAIN U |-> U[q]]
  BY <1>1 DEF Unlinked
<1>4. P = [q \in DOMAIN P |-> P[q]]
  BY DEF Typed
<1> HIDE DEF U
<1>5. U = P
  BY <1>1, <1>2, <1>3, <1>4
<1> QED
  BY <1>5 DEF U

LEMMA TypedAt ==
    ASSUME NEW P, NEW gone, Typed(P, gone), NEW pg \in DOMAIN P, NEW s \in Seq(ItemSet)
    PROVE  /\ DOMAIN At(P, pg, s) = DOMAIN P
           /\ Typed(At(P, pg, s), gone)
           /\ At(P, pg, s)[pg].entries = s
           /\ \A q \in DOMAIN P :
                /\ q # pg => At(P, pg, s)[q] = P[q]
                /\ At(P, pg, s)[q].level = P[q].level /\ At(P, pg, s)[q].prev = P[q].prev
                /\ At(P, pg, s)[q].next = P[q].next /\ At(P, pg, s)[q].tail = P[q].tail
<1>1. P[pg] \in Page
  BY DEF Typed
<1>2. DOMAIN At(P, pg, s) = DOMAIN P /\ \A q \in DOMAIN P : q # pg => At(P, pg, s)[q] = P[q]
  BY DEF At
<1>3. At(P, pg, s)[pg] = [P[pg] EXCEPT !.entries = s]
  BY DEF At
<1>4. s \in Seq([e : Entry, child : Nat])
  BY DEF ItemSet
<1>5. /\ [P[pg] EXCEPT !.entries = s] \in Page
      /\ [P[pg] EXCEPT !.entries = s].entries = s
      /\ [P[pg] EXCEPT !.entries = s].level = P[pg].level
      /\ [P[pg] EXCEPT !.entries = s].prev = P[pg].prev
      /\ [P[pg] EXCEPT !.entries = s].next = P[pg].next
      /\ [P[pg] EXCEPT !.entries = s].tail = P[pg].tail
  BY <1>1, <1>4 DEF Page
<1>6. At(P, pg, s) \in [DOMAIN P -> Page]
  <2>1. \A q \in DOMAIN P : At(P, pg, s)[q] \in Page
    BY <1>2, <1>3, <1>5 DEF Typed
  <2> QED
    BY <2>1 DEF At
<1> QED
  BY <1>2, <1>3, <1>5, <1>6 DEF Typed

\* A page may be rewritten before or after others are unlinked.
LEMMA UnlinkedAt ==
    ASSUME NEW P, NEW gone, Typed(P, gone), NEW pg \in DOMAIN P \ gone, NEW s \in Seq(ItemSet)
    PROVE  /\ Unlinked(At(P, pg, s), gone) = At(Unlinked(P, gone), pg, s)
           /\ Typed(Unlinked(P, gone), {})
<1> DEFINE Q == At(P, pg, s)
           V == Unlinked(P, gone)
           L == Unlinked(Q, gone)
           R == At(V, pg, s)
<1>1. /\ DOMAIN Q = DOMAIN P /\ Typed(Q, gone) /\ Q[pg].entries = s
      /\ \A q \in DOMAIN P :
            /\ q # pg => Q[q] = P[q]
            /\ Q[q].level = P[q].level /\ Q[q].prev = P[q].prev /\ Q[q].next = P[q].next /\ Q[q].tail = P[q].tail
  BY TypedAt
<1>2. DOMAIN V = DOMAIN P \ gone /\ \A q \in DOMAIN P \ gone :
           /\ V[q].level = P[q].level /\ V[q].tail = P[q].tail /\ V[q].entries = P[q].entries
           /\ V[q].next = (IF P[q].next \in gone THEN P[P[q].next].next ELSE P[q].next)
           /\ V[q].prev = (IF P[q].prev \in gone THEN P[P[q].prev].prev ELSE P[q].prev)
           /\ V[q] \in Page
  BY UnlinkedFacts
<1>3. Typed(V, {})
  <2>1. V = [q \in DOMAIN V |-> V[q]]
    BY <1>2 DEF Unlinked
  <2> HIDE DEF V
  <2>2. V \in [DOMAIN V -> Page]
    BY <1>2, <2>1
  <2> QED
    BY <1>2, <2>2 DEF Typed
<1>4. /\ DOMAIN R = DOMAIN P \ gone /\ R[pg].entries = s /\ Typed(R, {})
      /\ \A q \in DOMAIN P \ gone :
            /\ q # pg => R[q] = V[q]
            /\ R[q].level = V[q].level /\ R[q].prev = V[q].prev /\ R[q].next = V[q].next /\ R[q].tail = V[q].tail
  <2> DEFINE none == {}
  <2>1. pg \in DOMAIN V /\ Typed(V, none)
    BY <1>2, <1>3
  <2> HIDE DEF V, none
  <2>2. /\ DOMAIN R = DOMAIN V /\ R[pg].entries = s /\ Typed(R, none)
        /\ \A q \in DOMAIN V :
            /\ q # pg => R[q] = V[q]
            /\ R[q].level = V[q].level /\ R[q].prev = V[q].prev /\ R[q].next = V[q].next /\ R[q].tail = V[q].tail
    BY <2>1, TypedAt
  <2> HIDE DEF R
  <2> QED
    BY <1>2, <2>2 DEF none
<1>5. DOMAIN L = DOMAIN P \ gone /\ \A q \in DOMAIN P \ gone :
           /\ L[q].level = Q[q].level /\ L[q].tail = Q[q].tail /\ L[q].entries = Q[q].entries
           /\ L[q].next = (IF Q[q].next \in gone THEN Q[Q[q].next].next ELSE Q[q].next)
           /\ L[q].prev = (IF Q[q].prev \in gone THEN Q[Q[q].prev].prev ELSE Q[q].prev)
           /\ L[q] \in Page
  <2>1. Typed(Q, gone) /\ DOMAIN Q = DOMAIN P
    BY <1>1
  <2> HIDE DEF Q
  <2>2. DOMAIN L = DOMAIN Q \ gone /\ \A q \in DOMAIN Q \ gone :
           /\ L[q].level = Q[q].level /\ L[q].tail = Q[q].tail /\ L[q].entries = Q[q].entries
           /\ L[q].next = (IF Q[q].next \in gone THEN Q[Q[q].next].next ELSE Q[q].next)
           /\ L[q].prev = (IF Q[q].prev \in gone THEN Q[Q[q].prev].prev ELSE Q[q].prev)
           /\ L[q] \in Page
    BY <2>1, UnlinkedFacts
  <2> HIDE DEF L
  <2> QED
    BY <2>1, <2>2
<1>6. ASSUME NEW q \in DOMAIN P \ gone PROVE L[q] = R[q]
  <2>1. R[q] \in Page /\ L[q] \in Page
    BY <1>4, <1>5 DEF Typed
  <2>2. L[q].next = V[q].next /\ L[q].prev = V[q].prev
    BY <1>1, <1>2, <1>5 DEF Typed
  <2>3. L[q].level = R[q].level /\ L[q].tail = R[q].tail /\ L[q].next = R[q].next /\ L[q].prev = R[q].prev
    BY <1>1, <1>2, <1>4, <1>5, <2>2
  <2>4. L[q].entries = R[q].entries
    BY <1>1, <1>2, <1>4, <1>5
  <2> HIDE DEF L, R
  <2> QED
    BY <2>1, <2>3, <2>4, SamePage
<1>7. L = [q \in DOMAIN P \ gone |-> L[q]]
  BY <1>5 DEF Unlinked
<1>8. R = [q \in DOMAIN P \ gone |-> R[q]]
  BY <1>4 DEF At
<1> HIDE DEF L, R
<1>9. L = R
  BY <1>6, <1>7, <1>8
<1> QED
  BY <1>3, <1>9 DEF L, R

\* A divider nobody has, or one that is exact, may count as stale.
LEMMA NoDivider ==
    ASSUME NEW P, NEW stale, BTree(P, stale), NEW other,
           \A q \in DOMAIN P : ~ Leaf(P[q]) => \A j \in 1 .. Len(P[q].entries) :
               P[q].entries[j].child = stale => P[q].entries[j].e = Top(P, stale)
    PROVE  BTree(P, other)
<1>1. Divided(P, other)
  <2> SUFFICES ASSUME NEW q \in DOMAIN P, NEW i \in DOMAIN P[q].entries, ~ Leaf(P[q])
               PROVE  P[q].entries[i].e = Last(P[P[q].entries[i].child].entries).e
    BY DEF Divided
  <2>1. i \in 1 .. Len(P[q].entries)
    BY PageFacts DEF BTree
  <2>2. CASE P[q].entries[i].child = stale
    BY <2>1, <2>2 DEF Top
  <2>3. CASE P[q].entries[i].child # stale
    BY <2>1, <2>3, Dividers DEF Top
  <2> QED
    BY <2>2, <2>3
<1> QED
  BY <1>1 DEF BTree

LEMMA SlotIs ==
    ASSUME NEW P, Shaped(P), NEW q \in DOMAIN P, NEW x \in DOMAIN P,
           NEW i \in ChildNos(P[q]), NEW j \in ChildNos(P[x]), Child(P[q], i) = Child(P[x], j)
    PROVE  q = x /\ i = j
BY DEF Shaped, Hung

\* The i-th page of a path and those above it are in place.
Open(P, gone, path, i) ==
    /\ Typed(P, gone) /\ Len(path) \in Nat /\ i \in 1 .. Len(path) /\ path[1] = Root
    /\ \A k \in 1 .. i : path[k] \in DOMAIN P \ gone /\ P[path[k]].level + k = P[Root].level + 1
    /\ \A k \in 1 .. i - 1 : \E j \in ChildNos(P[path[k]]) : Child(P[path[k]], j) = path[k + 1]

\* The state before each call of a run, and at its end.
Pending(P, gone, path, i, s, X) ==
    LET T == At(Unlinked(P, gone), path[i], s)
    IN  /\ Open(P, gone, path, i)
        /\ s \in Seq(ItemSet) /\ Len(s) <= PageSize + 1 /\ (gone = {} \/ Len(s) <= PageSize)
        /\ BTree(T, path[i]) /\ Indexed(T) = X
        /\ \A q \in DOMAIN P \ gone : q # path[i] => Len(P[q].entries) <= PageSize
        /\ i > 1 => /\ P[path[i]].entries # << >>
                    /\ \A j \in 1 .. Len(P[path[i - 1]].entries) :
                         P[path[i - 1]].entries[j].child = path[i] =>
                             P[path[i - 1]].entries[j].e = Top(P, path[i])

Passing(P, gone, path, i, max, X) ==
    LET V == Unlinked(P, gone)
    IN  /\ Open(P, gone, path, i)
        /\ BTree(V, path[i]) /\ Fits(V) /\ Indexed(V) = X
        /\ P[path[i]].tail = 0 => max = Top(P, path[i])

Done(P, gone, X) ==
    LET V == Unlinked(P, gone)
    IN  Typed(P, gone) /\ BTree(V, 0) /\ Fits(V) /\ Indexed(V) = X

\* The pages of a path stay in place while others, or a page's entries, change.
LEMMA OpenKept ==
    ASSUME NEW P, NEW Q, NEW gone, NEW path, NEW i, Open(P, gone, path, i), NEW k \in 1 .. i,
           Typed(Q, gone), DOMAIN P \subseteq DOMAIN Q,
           \A x \in 1 .. k : Q[path[x]].level = P[path[x]].level,
           \A x \in 1 .. k - 1 : Q[path[x]].tail = P[path[x]].tail /\ Q[path[x]].entries = P[path[x]].entries
    PROVE  Open(Q, gone, path, k)
<1>1. /\ Len(path) \in Nat /\ i \in 1 .. Len(path) /\ k \in Nat /\ 1 <= k /\ k <= i /\ k \in 1 .. Len(path) /\ path[1] = Root
      /\ 1 \in 1 .. k /\ i \in Nat /\ path[1] = Root
  BY DEF Open
<1>2. ASSUME NEW x \in 1 .. k
      PROVE  path[x] \in DOMAIN Q \ gone /\ Q[path[x]].level + x = Q[Root].level + 1
  <2>1. x \in 1 .. i
    BY <1>1
  <2>2. Q[Root].level = P[Root].level
    BY <1>1
  <2> QED
    BY <2>1, <2>2 DEF Open
<1>3. ASSUME NEW x \in 1 .. k - 1
      PROVE  \E j \in ChildNos(Q[path[x]]) : Child(Q[path[x]], j) = path[x + 1]
  <2>1. x \in 1 .. i - 1 /\ x \in 1 .. k
    BY <1>1
  <2>2. PICK j \in ChildNos(P[path[x]]) : Child(P[path[x]], j) = path[x + 1]
    BY <2>1 DEF Open
  <2>3. ChildNos(Q[path[x]]) = ChildNos(P[path[x]]) /\ Child(Q[path[x]], j) = Child(P[path[x]], j)
    BY <2>1 DEF ChildNos, Child, Leaf
  <2> QED
    BY <2>2, <2>3
<1> QED
  BY <1>1, <1>2, <1>3 DEF Open

\* What is known of two pages of a path.
LEMMA OpenFacts ==
    ASSUME NEW P, NEW gone, NEW path, NEW i, Open(P, gone, path, i)
    PROVE  /\ Typed(P, gone) /\ i \in Nat /\ i >= 1 /\ Len(path) \in Nat /\ i <= Len(path) /\ path[1] = Root
           /\ \A k \in 1 .. i : path[k] \in DOMAIN P \ gone /\ P[path[k]] \in Page
           /\ \A k \in 1 .. i : \A l \in 1 .. i : k # l => P[path[k]].level # P[path[l]].level /\ path[k] # path[l]
           /\ \A k \in 1 .. i - 1 : ~ Leaf(P[path[k]])
           /\ i > 1 => /\ i - 1 \in 1 .. i /\ i - 1 \in 1 .. i - 1 /\ i - 1 \in 1 .. Len(path)
                       /\ i - 1 + 1 = i
<1>1. /\ i \in Nat /\ i >= 1 /\ Len(path) \in Nat /\ i <= Len(path) /\ path[1] = Root /\ Typed(P, gone)
      /\ i \in 1 .. i /\ 1 \in 1 .. i
  BY DEF Open
<1>2. \A k \in 1 .. i : path[k] \in DOMAIN P \ gone /\ P[path[k]] \in Page /\ P[path[k]].level \in Nat
  <2> TAKE k \in 1 .. i
  <2>1. path[k] \in DOMAIN P \ gone
    BY DEF Open
  <2>2. P[path[k]] \in Page
    BY <1>1, <2>1 DEF Typed
  <2> QED
    BY <2>1, <2>2 DEF Page
<1>3. \A k \in 1 .. i : P[path[k]].level + k = P[path[1]].level + 1
  BY <1>1 DEF Open
<1>4. \A k \in 1 .. i : \A l \in 1 .. i : k # l => P[path[k]].level # P[path[l]].level
  <2> TAKE k \in 1 .. i
  <2> TAKE l \in 1 .. i
  <2>1. P[path[k]].level \in Nat /\ P[path[l]].level \in Nat /\ P[path[1]].level \in Nat
    BY <1>1, <1>2
  <2>2. P[path[k]].level + k = P[path[1]].level + 1 /\ P[path[l]].level + l = P[path[1]].level + 1
    BY <1>3
  <2> QED
    BY <2>1, <2>2
<1>5. ASSUME NEW k \in 1 .. i - 1 PROVE ~ Leaf(P[path[k]])
  <2>1. PICK j \in ChildNos(P[path[k]]) : TRUE
    BY DEF Open
  <2> QED
    BY <2>1 DEF ChildNos
<1> QED
  BY <1>1, <1>2, <1>4, <1>5
-----------------------------------------------------------------------------
(* A list that fits into its page *)

\* T holds what P does, without the pages that are gone.
Keeps(P, gone, T) ==
    /\ DOMAIN T = DOMAIN P \ gone
    /\ \A q \in DOMAIN P \ gone :
        T[q].level = P[q].level /\ T[q].tail = P[q].tail /\ T[q].entries = P[q].entries

LEMMA UnlinkedKeeps ==
    ASSUME NEW P, NEW gone, Typed(P, gone)
    PROVE  Keeps(P, gone, Unlinked(P, gone))
<1> DEFINE U == Unlinked(P, gone)
<1>1. DOMAIN U = DOMAIN P \ gone /\ \A q \in DOMAIN P \ gone :
           /\ U[q].level = P[q].level /\ U[q].tail = P[q].tail /\ U[q].entries = P[q].entries
           /\ U[q].next = (IF P[q].next \in gone THEN P[P[q].next].next ELSE P[q].next)
           /\ U[q].prev = (IF P[q].prev \in gone THEN P[P[q].prev].prev ELSE P[q].prev)
           /\ U[q] \in Page
  BY UnlinkedFacts
<1> HIDE DEF U
<1>2. Keeps(P, gone, U)
  BY <1>1 DEF Keeps
<1> QED
  BY <1>2 DEF U

\* The page above the i-th of a path is the one of its parent.
LEMMA ParentIs ==
    ASSUME NEW P, NEW gone, NEW path, NEW i, Open(P, gone, path, i), i > 1, NEW T, T = Unlinked(P, gone), Shaped(T)
    PROVE  /\ path[i] \in DOMAIN T /\ path[i - 1] \in DOMAIN T /\ path[i] # Root /\ ~ Leaf(T[path[i - 1]])
           /\ \E j \in ChildNos(T[path[i - 1]]) : Child(T[path[i - 1]], j) = path[i]
           /\ \A q \in DOMAIN T : \A j \in ChildNos(T[q]) : Child(T[q], j) = path[i] => q = path[i - 1]
           /\ \A q \in DOMAIN T : ~ Leaf(T[q]) => \A j \in 1 .. Len(T[q].entries) :
                T[q].entries[j].child = path[i] =>
                    q = path[i - 1] /\ j \in ChildNos(T[q]) /\ Child(T[q], j) = path[i]
<1>1. /\ path[i] \in DOMAIN P \ gone /\ path[i - 1] \in DOMAIN P \ gone /\ path[i] # Root /\ Typed(P, gone)
      /\ i - 1 \in 1 .. i - 1 /\ i - 1 + 1 = i
  <2>1. i \in 1 .. i /\ i - 1 \in 1 .. i /\ 1 \in 1 .. i /\ i # 1 /\ path[1] = Root /\ i - 1 \in 1 .. i - 1 /\ i - 1 + 1 = i
    BY OpenFacts
  <2> QED
    BY <2>1, OpenFacts
<1>2. DOMAIN T = DOMAIN P \ gone /\ \A q \in DOMAIN P \ gone :
        T[q].level = P[q].level /\ T[q].tail = P[q].tail /\ T[q].entries = P[q].entries
  <2>1. Keeps(P, gone, T)
    BY <1>1, UnlinkedKeeps
  <2> QED
    BY <2>1 DEF Keeps
<1>3. PICK j \in ChildNos(P[path[i - 1]]) : Child(P[path[i - 1]], j) = path[i]
  BY <1>1 DEF Open
<1>4. j \in ChildNos(T[path[i - 1]]) /\ Child(T[path[i - 1]], j) = path[i]
  BY <1>1, <1>2, <1>3 DEF ChildNos, Child, Leaf
<1>5. \A q \in DOMAIN T : \A k \in ChildNos(T[q]) : Child(T[q], k) = path[i] => q = path[i - 1]
  BY <1>1, <1>2, <1>4, SlotIs
<1>6. \A q \in DOMAIN T : ~ Leaf(T[q]) => \A k \in 1 .. Len(T[q].entries) :
                T[q].entries[k].child = path[i] =>
                    q = path[i - 1] /\ k \in ChildNos(T[q]) /\ Child(T[q], k) = path[i]
  <2> TAKE q \in DOMAIN T
  <2> HAVE ~ Leaf(T[q])
  <2> TAKE k \in 1 .. Len(T[q].entries)
  <2>1. k \in ChildNos(T[q]) /\ Child(T[q], k) = T[q].entries[k].child
    BY NodeFacts DEF Shaped
  <2> QED
    BY <1>5, <2>1
<1>7. ~ Leaf(T[path[i - 1]])
  BY <1>4 DEF ChildNos
<1> QED
  BY <1>1, <1>2, <1>4, <1>5, <1>6, <1>7

\* What a step answers whose calls cost w at most.
Answered(r, gone, path, X, w) ==
    /\ r.ok /\ r.gone = {}
    /\ \/ r.calls = << >> /\ Done(r.pages, gone, X)
       \/ \E k, s : r.calls = <<ToInsert(k, s)>> /\ Pending(r.pages, gone, path, k, s, X) /\ 2 * k <= w
       \/ \E k, max : r.calls = <<ToPropagate(k, max)>> /\ Passing(r.pages, gone, path, k, max, X) /\ 2 * k - 1 <= w

LEMMA WroteIs ==
    ASSUME NEW P, NEW calls
    PROVE  /\ Wrote(P, calls).ok /\ Wrote(P, calls).gone = {}
           /\ Wrote(P, calls).calls = calls /\ Wrote(P, calls).pages = P
BY DEF Wrote

LEMMA RootNoChild ==
    ASSUME NEW P, BTree(P, Root), NEW other
    PROVE  BTree(P, other)
<1>1. Shaped(P) /\ PagesOK(P)
  BY TreeParts
<1>2. ASSUME NEW q \in DOMAIN P, ~ Leaf(P[q]), NEW j \in 1 .. Len(P[q].entries) PROVE P[q].entries[j].child # Root
  BY <1>1, <1>2, NodeFacts, ChildFacts
<1> HIDE DEF Root
<1> QED
  BY <1>2, NoDivider

LEMMA InsertFits ==
    ASSUME NEW P, NEW gone, NEW path, NEW i, NEW s, NEW X, Pending(P, gone, path, i, s, X), Len(s) <= PageSize
    PROVE  Answered(After(P, path, ToInsert(i, s)), gone, path, X, 2 * i - 1)
<1> DEFINE pg == path[i]
           Q == At(P, pg, s)
           V == Unlinked(P, gone)
           T == At(V, pg, s)
           old == SubtreeMax(P, pg)
           new == SubtreeMax(Q, pg)
           calls == IF i > 1 /\ old # None /\ new # old THEN <<ToPropagate(i, new)>> ELSE << >>
<1>0. Open(P, gone, path, i) /\ s \in Seq(ItemSet) /\ BTree(T, pg) /\ Indexed(T) = X
  BY DEF Pending
<1>1. After(P, path, ToInsert(i, s)) = Wrote(Q, calls)
  <2>1. Len(s) \in Nat /\ PageSize \in Nat
    BY <1>0, IndexConstants
  <2>2. ~ (Len(s) > PageSize)
    BY <2>1
  <2>3. After(P, path, ToInsert(i, s)) = InsertIntoPage(P, path, i, s)
    BY DEF After, ToInsert
  <2> QED
    BY <2>2, <2>3 DEF InsertIntoPage, At
<1>2. /\ i \in Nat /\ i >= 1 /\ i \in 1 .. i /\ 1 \in 1 .. i /\ pg \in DOMAIN P \ gone /\ P[pg] \in Page
      /\ Typed(P, gone) /\ path[1] = Root
  <2>1. i \in 1 .. i /\ 1 \in 1 .. i
    BY <1>0, OpenFacts
  <2> QED
    BY <1>0, <2>1, OpenFacts
<1>3. /\ DOMAIN Q = DOMAIN P /\ Typed(Q, gone) /\ Q[pg].entries = s
      /\ \A q \in DOMAIN P :
            /\ q # pg => Q[q] = P[q]
            /\ Q[q].level = P[q].level /\ Q[q].tail = P[q].tail
  BY <1>0, <1>2, TypedAt
<1>4. Unlinked(Q, gone) = T
  BY <1>0, <1>2, UnlinkedAt
<1>5. Open(Q, gone, path, i)
  <2>1. \A x \in 1 .. i : Q[path[x]].level = P[path[x]].level
    BY <1>0, <1>3, OpenFacts
  <2>2. \A x \in 1 .. i - 1 : Q[path[x]] = P[path[x]]
    <3> TAKE x \in 1 .. i - 1
    <3>1. x \in 1 .. i /\ x # i
      BY <1>2
    <3> QED
      BY <1>0, <1>2, <1>3, <3>1, OpenFacts
  <2> HIDE DEF Q
  <2> QED
    BY <1>0, <1>2, <1>3, <2>1, <2>2, OpenKept
<1> HIDE DEF T
<1>6. /\ DOMAIN T = DOMAIN P \ gone
      /\ \A q \in DOMAIN T : T[q].entries = Q[q].entries /\ T[q].tail = Q[q].tail /\ T[q].level = Q[q].level
  <2> HIDE DEF Q
  <2>1. Keeps(Q, gone, T)
    BY <1>3, <1>4, UnlinkedKeeps
  <2> QED
    BY <1>3, <2>1 DEF Keeps
<1>7. Fits(T)
  <2> SUFFICES ASSUME NEW q \in DOMAIN T PROVE Len(T[q].entries) <= PageSize
    BY DEF Fits
  <2>1. CASE q = pg
    BY <1>3, <1>6, <2>1
  <2>2. CASE q # pg
    BY <1>3, <1>6, <2>2 DEF Pending
  <2> QED
    BY <2>1, <2>2
<1>8. BTree(T, 0) => Done(Q, gone, X)
  BY <1>0, <1>3, <1>4, <1>7 DEF Done
<1>9. Shaped(T) /\ PagesOK(T) /\ \A q \in DOMAIN T \ {Root} : T[q].entries # << >>
  BY <1>0, TreeParts
<1>10. CASE i = 1
  <2>1. pg = Root
    BY <1>2, <1>10
  <2>2. BTree(T, 0)
    BY <1>0, <2>1, RootNoChild
  <2>3. calls = << >>
    BY <1>10
  <2> HIDE DEF calls, Q, T
  <2> QED
    BY <1>1, <1>8, <2>2, <2>3, WroteIs DEF Answered
<1>11. CASE i > 1
  <2>1. /\ pg \in DOMAIN T /\ pg # Root
        /\ \E j \in ChildNos(T[path[i - 1]]) : Child(T[path[i - 1]], j) = pg
        /\ \A q \in DOMAIN T : ~ Leaf(T[q]) => \A j \in 1 .. Len(T[q].entries) :
                T[q].entries[j].child = pg => q = path[i - 1] /\ j \in ChildNos(T[q]) /\ Child(T[q], j) = pg
    <3> HIDE DEF Q, pg
    <3> QED
      BY <1>4, <1>5, <1>9, <1>11, ParentIs DEF pg
  <2>2. s # << >>
    BY <1>3, <1>6, <1>9, <2>1
  <2>3. P[pg].tail = 0 => /\ old = (IF P[pg].entries = << >> THEN None ELSE Top(P, pg))
                          /\ new = Top(Q, pg)
    <3>1. P[pg].level \in Nat /\ Q[pg].level \in Nat /\ Q[pg].tail = P[pg].tail
      BY <1>2, <1>3 DEF Page
    <3> HIDE DEF Q, pg
    <3> QED
      BY <1>3, <2>2, <3>1, SubtreeMaxIs DEF Top
  <2>4. P[pg].entries # << >> /\ Top(P, pg) \in Entry
    <3>1. P[pg].entries # << >>
      BY <1>11 DEF Pending
    <3>2. P[pg].entries \in Seq(ItemSet)
      BY <1>2 DEF Page, ItemSet
    <3> QED
      BY <3>1, <3>2, LastHead DEF Top
  <2>5. CASE calls # << >>
    <3>1. calls = <<ToPropagate(i, new)>>
      BY <2>5
    <3>2. Q[pg].tail = 0 => new = Top(Q, pg)
      BY <1>2, <1>3, <2>3
    <3>3. Passing(Q, gone, path, i, new, X)
      <4> HIDE DEF Q, new
      <4> QED
        BY <1>0, <1>4, <1>5, <1>7, <3>2 DEF Passing
    <3>4. 2 * i - 1 <= 2 * i - 1
      BY <1>2
    <3> HIDE DEF calls, Q, T, new
    <3> QED
      BY <1>1, <3>1, <3>3, <3>4, WroteIs DEF Answered
  <2>6. CASE calls = << >>
    <3>1. ~ (old # None /\ new # old)
      BY <1>11, <2>6
    <3>2. ASSUME NEW q \in DOMAIN T, ~ Leaf(T[q]), NEW j \in 1 .. Len(T[q].entries), T[q].entries[j].child = pg
          PROVE  T[q].entries[j].e = Top(T, pg)
      <4>1. q = path[i - 1] /\ j \in ChildNos(T[q]) /\ Child(T[q], j) = pg
        BY <2>1, <3>2
      <4>2. T[pg].tail = 0
        BY <1>9, <3>2, <4>1, ChildFacts
      <4>3. P[pg].tail = 0 /\ old = Top(P, pg) /\ new = Top(Q, pg) /\ Top(Q, pg) = Top(T, pg)
        BY <1>2, <1>3, <1>6, <2>1, <2>3, <2>4, <4>2 DEF Top
      <4>4. Top(P, pg) = Top(T, pg)
        BY <2>4, <3>1, <4>3, EntryIsSome
      <4>5. i - 1 \in 1 .. i /\ i - 1 # i
        BY <1>2, <1>11
      <4>6. T[q].entries = P[path[i - 1]].entries
        BY <1>0, <1>2, <1>3, <1>6, <4>1, <4>5, OpenFacts
      <4>7. T[q].entries[j].e = Top(P, pg)
        BY <1>11, <3>2, <4>6 DEF Pending
      <4> QED
        BY <4>4, <4>7
    <3> HIDE DEF calls, Q, T, new, old, pg
    <3>3. BTree(T, 0)
      BY <1>0, <3>2, NoDivider
    <3> QED
      BY <1>1, <1>8, <2>6, <3>3, WroteIs DEF Answered
  <2> QED
    BY <2>5, <2>6
<1> QED
  BY <1>2, <1>10, <1>11
-----------------------------------------------------------------------------
(* The largest entry, told to the parent *)

LEMMA SameSeq ==
    ASSUME NEW S, NEW s \in Seq(S), NEW t \in Seq(S), Len(s) = Len(t), \A k \in 1 .. Len(s) : s[k] = t[k]
    PROVE  s = t
OBVIOUS

LEMMA NodeIndexed ==
    ASSUME NEW V, PagesOK(V), NEW pg \in DOMAIN V, ~ Leaf(V[pg]), NEW t \in Seq(ItemSet)
    PROVE  Indexed(At(V, pg, t)) = Indexed(V)
<1> DEFINE R == At(V, pg, t)
<1>1. DOMAIN R = DOMAIN V /\ \A q \in DOMAIN V : (q # pg => R[q] = V[q]) /\ R[q].level = V[q].level
  BY AtFacts
<1> HIDE DEF R
<1>2. ASSUME NEW q \in DOMAIN V, NEW e PROVE (Leaf(R[q]) /\ Holds(R, q, e)) <=> (Leaf(V[q]) /\ Holds(V, q, e))
  BY <1>1 DEF Leaf, Holds
<1>3. Indexed(R) = Indexed(V)
  BY <1>1, <1>2 DEF Indexed
<1> QED
  BY <1>3 DEF R

\* The divider of a child is replaced: taken out, and inserted where it was.
LEMMA DividerReplaced ==
    ASSUME NEW V, NEW pg, BTree(V, pg), NEW u \in DOMAIN V, ~ Leaf(V[u]), NEW j \in 1 .. Len(V[u].entries),
           V[u].entries[j].child = pg, NEW new, new = Item(Top(V, pg), pg)
    PROVE  LET D == Inserted(RemoveAt(V[u].entries, j), new)
           IN  /\ D \in Seq(ItemSet) /\ Len(D) = Len(V[u].entries)
               /\ BTree(At(V, u, D), u)
               /\ Indexed(At(V, u, D)) = Indexed(V)
<1> DEFINE d == V[u].entries
           n == Len(d)
           D == [k \in 1 .. n |-> IF k = j THEN new ELSE d[k]]
<1>1. Shaped(V) /\ PagesOK(V) /\ \A q \in DOMAIN V \ {Root} : V[q].entries # << >>
  BY TreeParts
<1>2. n \in Nat /\ n >= 1 /\ j \in 1 .. n /\ d \in Seq(ItemSet)
  BY <1>1, NodeFacts, PageFacts
<1>3. j \in ChildNos(V[u]) /\ Child(V[u], j) = pg /\ pg \in DOMAIN V /\ V[pg].entries # << >>
  BY <1>1, NodeFacts, ChildFacts
<1>4. new \in ItemSet /\ new.child = pg /\ new.e = Top(V, pg)
  <2>1. Top(V, pg) \in Entry /\ pg \in Nat
    BY <1>1, <1>3, FilledPage, PageFacts DEF Top
  <2> QED
    BY <2>1 DEF Item, ItemSet
<1>5. \A k \in 1 .. n : d[k].child = Child(V[u], k) /\ (k # j => d[k].child # pg /\ d[k].e = Top(V, d[k].child))
  <2> TAKE k \in 1 .. n
  <2>1. k \in ChildNos(V[u]) /\ d[k].child = Child(V[u], k)
    BY <1>1, NodeFacts
  <2>2. k # j => Child(V[u], k) # pg
    BY <1>1, <1>3, <2>1, SlotIs
  <2> QED
    BY <2>1, <2>2, Dividers
<1> HIDE DEF n
<1>6. D \in Seq(ItemSet) /\ Len(D) = n /\ \A k \in 1 .. n : D[k] = IF k = j THEN new ELSE d[k]
  <2>1. \A k \in 1 .. n : d[k] \in ItemSet
    BY <1>2 DEF n
  <2> HIDE DEF d
  <2> QED
    BY <1>2, <1>4, <2>1
<1> HIDE DEF D
<1>7. BTree(At(V, u, D), u)
  <2>1. D # << >>
    BY <1>2, <1>6
  <2>2. \A k \in 1 .. Len(D) : D[k].child = d[k].child /\ D[k].e = Top(V, D[k].child)
    BY <1>4, <1>5, <1>6
  <2>3. \A q \in DOMAIN V \ {u} : ~ Leaf(V[q]) => \A k \in 1 .. Len(V[q].entries) : V[q].entries[k].child # pg
    <3> TAKE q \in DOMAIN V \ {u}
    <3> HAVE ~ Leaf(V[q])
    <3> TAKE k \in 1 .. Len(V[q].entries)
    <3>1. k \in ChildNos(V[q]) /\ Child(V[q], k) = V[q].entries[k].child
      BY <1>1, NodeFacts
    <3> QED
      BY <1>1, <1>3, <3>1, SlotIs
  <2> QED
    BY <1>6, <2>1, <2>2, <2>3, Rewritten DEF n
<1>8. Increasing(D)
  <2>1. SortedAt(At(V, u, D), u) /\ At(V, u, D)[u].entries = D
    BY <1>1, <1>6, <1>7, AtFacts, TreeParts
  <2> QED
    BY <2>1 DEF SortedAt
<1>9. RemoveAt(D, j) = RemoveAt(d, j)
  <2>1. /\ RemoveAt(D, j) \in Seq(ItemSet) /\ Len(RemoveAt(D, j)) = n - 1
        /\ \A k \in 1 .. n - 1 : RemoveAt(D, j)[k] = IF k < j THEN D[k] ELSE D[k + 1]
    <3>1. D \in Seq(ItemSet) /\ j \in DOMAIN D
      BY <1>2, <1>6
    <3>2. /\ RemoveAt(D, j) \in Seq(ItemSet) /\ Len(RemoveAt(D, j)) = Len(D) - 1
          /\ \A k \in 1 .. Len(D) - 1 : RemoveAt(D, j)[k] = IF k < j THEN D[k] ELSE D[k + 1]
      BY <3>1, RemoveAtAt
    <3> QED
      BY <1>6, <3>2
  <2>2. /\ RemoveAt(d, j) \in Seq(ItemSet) /\ Len(RemoveAt(d, j)) = n - 1
        /\ \A k \in 1 .. n - 1 : RemoveAt(d, j)[k] = IF k < j THEN d[k] ELSE d[k + 1]
    <3> HIDE DEF d
    <3> QED
      BY <1>2, RemoveAtAt DEF n
  <2>3. \A k \in 1 .. n - 1 : RemoveAt(D, j)[k] = RemoveAt(d, j)[k]
    <3> TAKE k \in 1 .. n - 1
    <3>1. k \in 1 .. n /\ k + 1 \in 1 .. n /\ (k < j => k # j) /\ (~ (k < j) => k + 1 # j)
      BY <1>2
    <3> QED
      BY <1>6, <2>1, <2>2, <3>1
  <2> HIDE DEF d
  <2> QED
    BY <2>1, <2>2, <2>3, SameSeq
<1>10. Inserted(RemoveAt(d, j), new) = D
  <2>1. Inserted(RemoveAt(D, j), D[j]) = D
    BY <1>2, <1>6, <1>8, InsertedBack
  <2> QED
    BY <1>2, <1>6, <1>9, <2>1
<1>11. Indexed(At(V, u, D)) = Indexed(V)
  BY <1>1, <1>6, NodeIndexed
<1> QED
  BY <1>6, <1>7, <1>10, <1>11 DEF n

LEMMA PropagateStep ==
    ASSUME NEW P, NEW gone, NEW path, NEW i, NEW max, NEW X, Passing(P, gone, path, i, max, X)
    PROVE  Answered(After(P, path, ToPropagate(i, max)), gone, path, X, 2 * i - 2)
<1> DEFINE pg == path[i]
           u == path[i - 1]
           V == Unlinked(P, gone)
           d == P[u].entries
           at == DividersOf(d, pg)
           new == Item(max, pg)
<1>0. Open(P, gone, path, i) /\ BTree(V, pg) /\ Fits(V) /\ Indexed(V) = X /\ (P[pg].tail = 0 => max = Top(P, pg))
  BY DEF Passing
<1>1. i \in Nat /\ i >= 1 /\ Typed(P, gone) /\ path[1] = Root
  BY <1>0, OpenFacts
<1>2. After(P, path, ToPropagate(i, max)) = PropagateMaxChange(P, path, i, max)
  BY DEF After, ToPropagate
<1> HIDE DEF V
<1>3. BTree(V, 0) => Answered(Wrote(P, << >>), gone, path, X, 2 * i - 2)
  BY <1>0, <1>1, WroteIs DEF Answered, Done, V
<1>4. CASE i = 1
  <2>1. PropagateMaxChange(P, path, i, max) = Wrote(P, << >>)
    BY <1>4 DEF PropagateMaxChange
  <2>2. BTree(V, 0)
    BY <1>0, <1>1, <1>4, RootNoChild
  <2> QED
    BY <1>2, <1>3, <2>1, <2>2
<1>5. CASE i > 1
  <2>1. Shaped(V) /\ PagesOK(V) /\ \A q \in DOMAIN V \ {Root} : V[q].entries # << >>
    BY <1>0, TreeParts
  <2>2. /\ pg \in DOMAIN V /\ u \in DOMAIN V /\ pg # Root /\ ~ Leaf(V[u])
        /\ \A q \in DOMAIN V : ~ Leaf(V[q]) => \A k \in 1 .. Len(V[q].entries) :
                V[q].entries[k].child = pg => q = u /\ k \in ChildNos(V[q]) /\ Child(V[q], k) = pg
        /\ \E j \in ChildNos(V[u]) : Child(V[u], j) = pg
    BY <1>0, <1>5, <2>1, ParentIs DEF V
  <2>3. PICK j \in ChildNos(V[u]) : Child(V[u], j) = pg
    BY <2>2
  <2>4. /\ DOMAIN V = DOMAIN P \ gone
        /\ \A q \in DOMAIN V : V[q].entries = P[q].entries /\ V[q].tail = P[q].tail /\ V[q].level = P[q].level
    <3>1. Keeps(P, gone, V)
      BY <1>1, UnlinkedKeeps DEF V
    <3> QED
      BY <3>1 DEF Keeps
  <2>5. /\ Len(d) \in Nat /\ j \in Nat /\ 1 <= j /\ j <= Len(d) + 1 /\ d = V[u].entries
        /\ (j <= Len(d) => d[j].child = pg /\ V[pg].tail = 0)
        /\ (j = Len(d) + 1 => V[u].tail = pg /\ P[u].tail = pg)
        /\ pg # 0
    <3>1. d = V[u].entries /\ Len(d) \in Nat
      BY <2>1, <2>2, <2>4, NodeFacts
    <3> HIDE DEF d
    <3>2. j \in Nat /\ 1 <= j /\ j <= Len(d) + 1
      BY <2>1, <2>2, <2>3, <3>1, ChildFacts
    <3>3. j <= Len(d) => d[j].child = pg /\ V[pg].tail = 0
      BY <2>1, <2>2, <2>3, <3>1, <3>2, ChildFacts DEF Child
    <3>4. j = Len(d) + 1 => V[u].tail = pg
      BY <2>1, <2>2, <2>3, <3>1, NodeFacts
    <3>5. pg # 0
      BY <2>1, <2>2, PageFacts
    <3> QED
      BY <2>2, <2>4, <3>1, <3>2, <3>3, <3>4, <3>5
  <2>6. \A k \in DOMAIN d : d[k].child = pg => k = j
    <3> TAKE k \in DOMAIN d
    <3>1. k \in 1 .. Len(V[u].entries)
      BY <2>1, <2>2, <2>5, PageFacts
    <3> QED
      BY <2>1, <2>2, <2>3, <2>5, <3>1, SlotIs
  <2>7. Open(P, gone, path, i - 1) /\ i - 1 \in 1 .. i
    <3>1. i - 1 \in 1 .. i
      BY <1>1, <1>5
    <3> QED
      BY <1>0, <1>1, <3>1, OpenKept
  <2>8. CASE j <= Len(d)
    <3>1. j \in 1 .. Len(d) /\ j \in DOMAIN d
      BY <2>1, <2>2, <2>5, <2>8, PageFacts
    <3>2. at = {j}
      BY <2>5, <2>6, <2>8, <3>1 DEF DividersOf
    <3>3. Min(at) = j
      BY <2>5, <3>2, MinIsLeast
    <3>4. max = Top(V, pg)
      BY <1>0, <2>2, <2>4, <2>5, <2>8 DEF Top
    <3>5. CASE d[j] = new
      <4>1. PropagateMaxChange(P, path, i, max) = Wrote(P, << >>)
        BY <1>5, <3>2, <3>3, <3>5 DEF PropagateMaxChange
      <4>2. \A q \in DOMAIN V : ~ Leaf(V[q]) => \A k \in 1 .. Len(V[q].entries) :
               V[q].entries[k].child = pg => V[q].entries[k].e = Top(V, pg)
        <5> TAKE q \in DOMAIN V
        <5> HAVE ~ Leaf(V[q])
        <5> TAKE k \in 1 .. Len(V[q].entries)
        <5> HAVE V[q].entries[k].child = pg
        <5>1. q = u /\ k \in ChildNos(V[q]) /\ Child(V[q], k) = pg
          BY <2>2
        <5>2. k = j
          <6>1. k \in DOMAIN d /\ d[k].child = pg
            BY <2>1, <2>2, <2>5, <5>1, PageFacts
          <6> HIDE DEF u, pg, d, at
          <6> QED
            BY <2>6, <6>1
        <5>3. V[q].entries[k] = new
          BY <2>5, <3>5, <5>1, <5>2
        <5> QED
          BY <3>4, <5>3 DEF Item
      <4>3. BTree(V, 0)
        <5> HIDE DEF pg
        <5> QED
          BY <1>0, <4>2, NoDivider DEF pg
      <4> QED
        BY <1>2, <1>3, <4>1, <4>3
    <3>6. CASE d[j] # new
      <4> DEFINE D == Inserted(RemoveAt(d, j), new)
      <4>1. PropagateMaxChange(P, path, i, max) = Wrote(P, <<ToInsert(i - 1, D)>>)
        BY <1>5, <3>2, <3>3, <3>6 DEF PropagateMaxChange
      <4>2. /\ D \in Seq(ItemSet) /\ Len(D) = Len(d)
            /\ BTree(At(V, u, D), u)
            /\ Indexed(At(V, u, D)) = Indexed(V)
        <5>1. j \in 1 .. Len(V[u].entries) /\ V[u].entries[j].child = pg
          BY <2>5, <2>8, <3>1
        <5>2. new = Item(Top(V, pg), pg)
          BY <3>4
        <5> HIDE DEF pg, u, new, d
        <5> QED
          BY <1>0, <2>2, <2>5, <5>1, <5>2, DividerReplaced DEF pg
      <4> HIDE DEF D
      <4>3. Len(d) <= PageSize /\ PageSize \in Nat
        BY <1>0, <2>2, <2>5, IndexConstants DEF Fits
      <4>4. \A q \in DOMAIN P \ gone : Len(P[q].entries) <= PageSize
        BY <1>0, <2>4 DEF Fits
      <4>5. Len(D) <= PageSize /\ Len(D) <= PageSize + 1
        BY <2>5, <4>2, <4>3
      <4>6. i - 1 > 1 => /\ P[u].entries # << >>
                         /\ \A k \in 1 .. Len(P[path[i - 1 - 1]].entries) :
                              P[path[i - 1 - 1]].entries[k].child = u =>
                                  P[path[i - 1 - 1]].entries[k].e = Top(P, u)
        <5> HAVE i - 1 > 1
        <5>1. path[i - 1 - 1] \in DOMAIN V /\ ~ Leaf(V[path[i - 1 - 1]]) /\ u # Root
          <6>1. i - 1 \in Nat
            BY <1>1, <1>5
          <6> QED
            BY <2>1, <2>7, <6>1, ParentIs DEF V
        <5>2. P[u].entries # << >>
          BY <2>1, <2>2, <2>4, <5>1
        <5>3. u # pg
          <6>1. i \in 1 .. i /\ i - 1 \in 1 .. i /\ i # i - 1
            BY <1>1, <1>5
          <6> QED
            BY <1>0, <6>1, OpenFacts
        <5>4. \A k \in 1 .. Len(V[path[i - 1 - 1]].entries) :
                V[path[i - 1 - 1]].entries[k].child = u => V[path[i - 1 - 1]].entries[k].e = Top(V, u)
          BY <1>0, <5>1, <5>3, Dividers
        <5> QED
          BY <2>2, <2>4, <5>1, <5>2, <5>4 DEF Top
      <4>7. Pending(P, gone, path, i - 1, D, X)
        BY <1>0, <2>7, <4>2, <4>4, <4>5, <4>6 DEF Pending, V
      <4>8. 2 * (i - 1) <= 2 * i - 2
        BY <1>1
      <4> QED
        BY <1>2, <4>1, <4>7, <4>8, WroteIs DEF Answered
    <3> QED
      BY <3>5, <3>6
  <2>9. CASE j = Len(d) + 1
    <3>1. at = {}
      <4>1. ~ (j \in DOMAIN d)
        BY <2>1, <2>2, <2>5, <2>9, PageFacts
      <4> QED
        BY <2>6, <4>1 DEF DividersOf
    <3>2. PropagateMaxChange(P, path, i, max) = Wrote(P, <<ToPropagate(i - 1, max)>>)
      BY <1>5, <2>5, <2>9, <3>1 DEF PropagateMaxChange
    <3>3. \A q \in DOMAIN V : ~ Leaf(V[q]) => \A k \in 1 .. Len(V[q].entries) : V[q].entries[k].child # pg
      <4> TAKE q \in DOMAIN V
      <4> HAVE ~ Leaf(V[q])
      <4> TAKE k \in 1 .. Len(V[q].entries)
      <4>1. ASSUME V[q].entries[k].child = pg PROVE FALSE
        <5>1. q = u
          BY <2>2, <4>1
        <5>2. k = j
          BY <2>1, <2>2, <2>3, <4>1, <5>1, SlotIs
        <5> QED
          BY <2>5, <2>9, <5>1, <5>2
      <4> QED
        BY <4>1
    <3>4. BTree(V, u)
      <4> HIDE DEF pg, u
      <4> QED
        BY <1>0, <3>3, NoDivider DEF pg
    <3>5. Passing(P, gone, path, i - 1, max, X)
      BY <1>0, <2>5, <2>7, <2>9, <3>4 DEF Passing, V
    <3>6. 2 * (i - 1) - 1 <= 2 * i - 2
      BY <1>1
    <3> QED
      BY <1>2, <3>2, <3>5, <3>6, WroteIs DEF Answered
  <2> QED
    BY <2>5, <2>8, <2>9
<1> QED
  BY <1>1, <1>4, <1>5
-----------------------------------------------------------------------------
(* A page in two halves *)

\* B with the page pg, the j-th child of u, in two: its lower half, of mid
\* entries, is the new page before it.
Split(B, T, pg, new, u, j, mid) ==
    /\ u \in DOMAIN B /\ j \in ChildNos(B[u]) /\ Child(B[u], j) = pg
    /\ new \in Nat \ {0} /\ new \notin DOMAIN B
    /\ mid \in Nat /\ 1 <= mid /\ mid < Len(B[pg].entries)
    /\ DOMAIN T = DOMAIN B \cup {new} /\ T \in [DOMAIN T -> Page]
    /\ T[new].level = B[pg].level /\ T[new].prev = B[pg].prev /\ T[new].next = pg /\ T[new].tail = 0
    /\ Len(T[new].entries) = mid /\ \A k \in 1 .. mid : T[new].entries[k] = B[pg].entries[k]
    /\ Len(T[pg].entries) = Len(B[pg].entries) - mid
    /\ \A k \in 1 .. Len(B[pg].entries) - mid : T[pg].entries[k] = B[pg].entries[mid + k]
    /\ Len(T[u].entries) = Len(B[u].entries) + 1
    /\ \A k \in 1 .. Len(B[u].entries) + 1 :
        T[u].entries[k].child = IF k < j THEN B[u].entries[k].child
                                ELSE IF k = j THEN new ELSE B[u].entries[k - 1].child
    /\ \A q \in DOMAIN B :
        /\ T[q].level = B[q].level /\ T[q].tail = B[q].tail
        /\ T[q].prev = (IF q = pg THEN new ELSE B[q].prev)
        /\ T[q].next = (IF B[q].next = pg THEN new ELSE B[q].next)
        /\ q \notin {pg, u} => T[q].entries = B[q].entries

\* Where a child of the split tree was.
WasPage(q, pg, new) == IF q = new THEN pg ELSE q
WasNo(q, i, pg, u, j, mid) == IF q = pg THEN i + mid ELSE IF q = u /\ i > j THEN i - 1 ELSE i

LEMMA SplitPages ==
    ASSUME NEW B, NEW T, NEW pg, NEW new, NEW u, NEW j, NEW mid, Shaped(B), Split(B, T, pg, new, u, j, mid)
    PROVE  /\ PagesOK(T)
           /\ pg \in DOMAIN B /\ pg # Root /\ pg # 0 /\ pg # u /\ u # new /\ pg # new /\ Root # new
           /\ B[pg].level + 1 = B[u].level /\ B[u].level \in Nat /\ B[pg].level \in Nat
           /\ ~ Leaf(B[u]) /\ ~ Leaf(T[u])
           /\ Len(B[u].entries) \in Nat /\ Len(B[pg].entries) \in Nat /\ j \in Nat /\ 1 <= j /\ j <= Len(B[u].entries) + 1
           /\ (j <= Len(B[u].entries) => B[u].entries[j].child = pg)
           /\ (j = Len(B[u].entries) + 1 => B[u].tail = pg)
<1>1. PagesOK(B) /\ u \in DOMAIN B /\ j \in ChildNos(B[u]) /\ Child(B[u], j) = pg
  BY DEF Shaped, Split
<1>2. /\ pg \in DOMAIN B /\ pg # Root /\ pg # 0 /\ B[pg].level + 1 = B[u].level /\ ~ Leaf(B[u])
      /\ Len(B[u].entries) \in Nat /\ Len(B[u].entries) >= 1 /\ j \in Nat /\ 1 <= j /\ j <= Len(B[u].entries) + 1
  BY <1>1, ChildFacts
<1>3. B[u].level \in Nat /\ B[pg].level \in Nat /\ Len(B[pg].entries) \in Nat
  BY <1>1, <1>2, PageFacts
<1>4. pg # u /\ u # new /\ pg # new /\ Root # new
  <2>1. Root \in DOMAIN B
    BY RootFacts
  <2> QED
    BY <1>1, <1>2, <1>3, <2>1 DEF Split
<1>5. ~ Leaf(T[u])
  BY <1>1, <1>2 DEF Split, Leaf
<1>6. (j <= Len(B[u].entries) => B[u].entries[j].child = pg) /\ (j = Len(B[u].entries) + 1 => B[u].tail = pg)
  <2>1. j <= Len(B[u].entries) => B[u].entries[j].child = pg
    BY <1>1 DEF Child
  <2>2. j = Len(B[u].entries) + 1 => B[u].tail = pg
    BY <1>1, <1>2, NodeFacts
  <2> QED
    BY <2>1, <2>2
<1>7. PagesOK(T)
  <2>1. DOMAIN T \subseteq Nat \ {0} /\ IsFiniteSet(DOMAIN T)
    <3>1. DOMAIN T = DOMAIN B \cup {new} /\ new \in Nat \ {0} /\ DOMAIN B \subseteq Nat \ {0} /\ IsFiniteSet(DOMAIN B)
      BY <1>1 DEF Split, PagesOK
    <3> QED
      BY <3>1, FS_AddElement
  <2>2. T \in [DOMAIN T -> Page]
    BY DEF Split
  <2>3. ASSUME NEW q \in DOMAIN T, T[q].entries = << >> PROVE q = Root /\ T[q] = EmptyLeaf
    <3>1. q \notin {new, pg, u}
      BY <1>2, <1>3, <2>3 DEF Split
    <3>2. q \in DOMAIN B /\ T[q].entries = B[q].entries
      BY <3>1 DEF Split
    <3>3. q = Root /\ B[q] = EmptyLeaf
      BY <1>1, <2>3, <3>2 DEF PagesOK
    <3>4. B[q].level = 0 /\ B[q].prev = 0 /\ B[q].next = 0 /\ B[q].tail = 0
      BY <3>3 DEF EmptyLeaf
    <3>5. T[q].level = B[q].level /\ T[q].tail = B[q].tail /\ T[q].prev = B[q].prev /\ T[q].next = B[q].next
      BY <1>2, <3>1, <3>2, <3>4 DEF Split
    <3>6. T[q] \in Page /\ B[q] \in Page
      BY <1>1, <2>2, <3>2 DEF PagesOK
    <3>7. T[q] = B[q]
      BY <3>2, <3>5, <3>6, SamePage
    <3> QED
      BY <3>3, <3>7
  <2>4. ASSUME NEW q \in DOMAIN T, T[q].tail # 0 PROVE ~ Leaf(T[q]) /\ T[q].next = 0
    <3>1. q # new /\ q \in DOMAIN B
      BY <2>4 DEF Split
    <3>2. B[q].tail # 0 /\ T[q].level = B[q].level
      BY <2>4, <3>1 DEF Split
    <3>3. B[q].next = 0 /\ ~ Leaf(B[q])
      BY <1>1, <3>1, <3>2 DEF PagesOK
    <3>4. T[q].next = 0
      BY <1>2, <3>1, <3>3 DEF Split
    <3> QED
      BY <3>2, <3>3, <3>4 DEF Leaf
  <2> QED
    BY <2>1, <2>2, <2>3, <2>4 DEF PagesOK
<1> QED
  BY <1>1, <1>2, <1>3, <1>4, <1>5, <1>6, <1>7

LEMMA SplitLinked ==
    ASSUME NEW B, NEW T, NEW pg, NEW new, NEW u, NEW j, NEW mid, NEW stale, BTree(B, stale),
           Split(B, T, pg, new, u, j, mid)
    PROVE  Linked(T)
<1>1. Shaped(B) /\ PagesOK(B)
  BY TreeParts
<1>2. pg \in DOMAIN B /\ pg # Root /\ pg # 0 /\ pg # new /\ Root # new /\ new # 0 /\ new \notin DOMAIN B
  <2>1. new # 0 /\ new \notin DOMAIN B
    BY DEF Split
  <2> QED
    BY <1>1, <2>1, SplitPages
<1>3. /\ DOMAIN T = DOMAIN B \cup {new}
      /\ T[new].level = B[pg].level /\ T[new].prev = B[pg].prev /\ T[new].next = pg
      /\ \A q \in DOMAIN B :
        /\ T[q].level = B[q].level
        /\ T[q].prev = (IF q = pg THEN new ELSE B[q].prev)
        /\ T[q].next = (IF B[q].next = pg THEN new ELSE B[q].next)
  BY DEF Split
<1>4. Root \in DOMAIN T /\ T[Root].prev = 0 /\ T[Root].next = 0
  BY <1>1, <1>2, <1>3, RootFacts
<1>5. B[pg].next # pg /\ B[pg].prev # pg
  BY <1>2, NoLoop
<1>6. ASSUME NEW q \in DOMAIN T, T[q].next # 0
      PROVE  T[q].next \in DOMAIN T /\ T[T[q].next].prev = q /\ T[T[q].next].level = T[q].level
  <2>1. CASE q = new
    BY <1>2, <1>3, <2>1
  <2>2. CASE q # new /\ B[q].next = pg
    <3>1. q \in DOMAIN B /\ B[pg].prev = q /\ B[pg].level = B[q].level
      BY <1>1, <1>2, <1>3, <2>2, LinkFacts
    <3> QED
      BY <1>3, <2>2, <3>1
  <2>3. CASE q # new /\ B[q].next # pg
    <3>1. q \in DOMAIN B /\ T[q].next = B[q].next
      BY <1>3, <2>3
    <3>2. B[q].next \in DOMAIN B /\ B[B[q].next].prev = q /\ B[B[q].next].level = B[q].level
      BY <1>1, <1>6, <3>1, LinkFacts
    <3> QED
      BY <1>3, <2>3, <3>1, <3>2
  <2> QED
    BY <2>1, <2>2, <2>3
<1>7. ASSUME NEW q \in DOMAIN T, T[q].prev # 0
      PROVE  T[q].prev \in DOMAIN T /\ T[T[q].prev].next = q
  <2>1. CASE q = new
    <3>1. B[pg].prev # 0
      BY <1>3, <1>7, <2>1
    <3>2. B[pg].prev \in DOMAIN B /\ B[B[pg].prev].next = pg
      BY <1>1, <1>2, <3>1, LinkFacts
    <3> QED
      BY <1>3, <2>1, <3>2
  <2>2. CASE q = pg
    BY <1>2, <1>3, <2>2
  <2>3. CASE q # new /\ q # pg
    <3>1. q \in DOMAIN B /\ T[q].prev = B[q].prev
      BY <1>3, <2>3
    <3>2. B[q].prev \in DOMAIN B /\ B[B[q].prev].next = q
      BY <1>1, <1>7, <3>1, LinkFacts
    <3> QED
      BY <1>3, <2>3, <3>1, <3>2
  <2> QED
    BY <2>1, <2>2, <2>3
<1> QED
  BY <1>4, <1>6, <1>7 DEF Linked

LEMMA NodeNos ==
    ASSUME NEW P, PagesOK(P), NEW q \in DOMAIN P, NEW i \in ChildNos(P[q])
    PROVE  ~ Leaf(P[q]) /\ i \in Nat /\ 1 <= i /\ Len(P[q].entries) \in Nat
           /\ (i <= Len(P[q].entries) \/ (P[q].tail # 0 /\ i = Len(P[q].entries) + 1))
<1>1. ~ Leaf(P[q])
  BY DEF ChildNos
<1>2. Len(P[q].entries) \in Nat /\ (i \in 1 .. Len(P[q].entries) \/ (P[q].tail # 0 /\ i = Len(P[q].entries) + 1))
  BY <1>1, NodeFacts
<1> QED
  BY <1>1, <1>2

\* The children of the halves.
LEMMA HalfChildren ==
    ASSUME NEW B, NEW T, NEW pg, NEW new, NEW u, NEW j, NEW mid, Shaped(B), Split(B, T, pg, new, u, j, mid)
    PROVE  /\ \A i \in ChildNos(T[new]) :
                i \in 1 .. mid /\ i \in ChildNos(B[pg]) /\ Child(T[new], i) = Child(B[pg], i)
           /\ \A i \in ChildNos(T[pg]) : i + mid \in ChildNos(B[pg]) /\ Child(T[pg], i) = Child(B[pg], i + mid)
           /\ \A i \in ChildNos(B[pg]) :
                /\ i <= mid => i \in ChildNos(T[new])
                /\ i > mid => i - mid \in ChildNos(T[pg])
<1>1. /\ PagesOK(B) /\ PagesOK(T) /\ pg \in DOMAIN B /\ pg # new /\ new # pg /\ Len(B[pg].entries) \in Nat
      /\ mid \in Nat /\ 1 <= mid /\ mid < Len(B[pg].entries) /\ new \in DOMAIN T /\ pg \in DOMAIN T
  <2>1. PagesOK(T) /\ pg \in DOMAIN B /\ pg # new /\ Len(B[pg].entries) \in Nat
    BY SplitPages
  <2>2. PagesOK(B)
    BY DEF Shaped
  <2>3. mid \in Nat /\ 1 <= mid /\ mid < Len(B[pg].entries) /\ DOMAIN T = DOMAIN B \cup {new}
    BY DEF Split
  <2> QED
    BY <2>1, <2>2, <2>3
<1>2. /\ T[new].level = B[pg].level /\ T[new].tail = 0 /\ T[pg].level = B[pg].level /\ T[pg].tail = B[pg].tail
      /\ Len(T[new].entries) = mid /\ \A k \in 1 .. mid : T[new].entries[k] = B[pg].entries[k]
      /\ Len(T[pg].entries) = Len(B[pg].entries) - mid
      /\ \A k \in 1 .. Len(B[pg].entries) - mid : T[pg].entries[k] = B[pg].entries[mid + k]
  BY <1>1 DEF Split
<1>3. ASSUME NEW i \in ChildNos(T[new])
      PROVE  i \in 1 .. mid /\ i \in ChildNos(B[pg]) /\ Child(T[new], i) = Child(B[pg], i)
  <2>1. ~ Leaf(T[new]) /\ i \in 1 .. mid
    <3>1. ~ Leaf(T[new]) /\ i \in Nat /\ 1 <= i /\ i <= Len(T[new].entries)
      BY <1>1, <1>2, NodeNos
    <3> QED
      BY <1>1, <1>2, <3>1
  <2>2. ~ Leaf(B[pg]) /\ i \in 1 .. Len(B[pg].entries) /\ i \in 1 .. Len(T[new].entries)
    BY <1>1, <1>2, <2>1 DEF Leaf
  <2>3. Child(T[new], i) = T[new].entries[i].child /\ Child(B[pg], i) = B[pg].entries[i].child /\ i \in ChildNos(B[pg])
    BY <1>1, <2>1, <2>2, NodeFacts
  <2> QED
    BY <1>2, <2>1, <2>3
<1>4. ASSUME NEW i \in ChildNos(T[pg])
      PROVE  i + mid \in ChildNos(B[pg]) /\ Child(T[pg], i) = Child(B[pg], i + mid)
  <2>1. /\ ~ Leaf(T[pg]) /\ i \in Nat /\ 1 <= i
        /\ (i <= Len(T[pg].entries) \/ (T[pg].tail # 0 /\ i = Len(T[pg].entries) + 1))
    BY <1>1, NodeNos
  <2>2. ~ Leaf(B[pg])
    BY <1>2, <2>1 DEF Leaf
  <2>3. CASE i <= Len(T[pg].entries)
    <3>1. i \in 1 .. Len(B[pg].entries) - mid /\ i + mid \in 1 .. Len(B[pg].entries) /\ i \in 1 .. Len(T[pg].entries)
          /\ mid + i = i + mid
      BY <1>1, <1>2, <2>1, <2>3
    <3>2. /\ Child(T[pg], i) = T[pg].entries[i].child
          /\ Child(B[pg], i + mid) = B[pg].entries[i + mid].child /\ i + mid \in ChildNos(B[pg])
      BY <1>1, <2>1, <2>2, <3>1, NodeFacts
    <3>3. T[pg].entries[i] = B[pg].entries[i + mid]
      BY <1>2, <3>1
    <3> QED
      BY <3>2, <3>3
  <2>4. CASE T[pg].tail # 0 /\ i = Len(T[pg].entries) + 1
    <3>1. i + mid = Len(B[pg].entries) + 1
      BY <1>1, <1>2, <2>1, <2>4
    <3>2. Child(T[pg], i) = T[pg].tail /\ Child(B[pg], i + mid) = B[pg].tail /\ i + mid \in ChildNos(B[pg])
      BY <1>1, <1>2, <2>1, <2>2, <2>4, <3>1, NodeFacts
    <3> QED
      BY <1>2, <3>2
  <2> QED
    BY <2>1, <2>3, <2>4
<1>5. ASSUME NEW i \in ChildNos(B[pg]) PROVE (i <= mid => i \in ChildNos(T[new])) /\ (i > mid => i - mid \in ChildNos(T[pg]))
  <2>1. /\ ~ Leaf(B[pg]) /\ i \in Nat /\ 1 <= i
        /\ (i <= Len(B[pg].entries) \/ (B[pg].tail # 0 /\ i = Len(B[pg].entries) + 1))
    BY <1>1, NodeNos
  <2>2. ~ Leaf(T[new]) /\ ~ Leaf(T[pg])
    BY <1>2, <2>1 DEF Leaf
  <2>3. ASSUME i <= mid PROVE i \in ChildNos(T[new])
    <3>1. i \in 1 .. Len(T[new].entries)
      BY <1>1, <1>2, <2>1, <2>3
    <3> QED
      BY <1>1, <2>2, <3>1, NodeFacts
  <2>4. ASSUME i > mid PROVE i - mid \in ChildNos(T[pg])
    <3>1. i - mid \in 1 .. Len(T[pg].entries) \/ (T[pg].tail # 0 /\ i - mid = Len(T[pg].entries) + 1)
      BY <1>1, <1>2, <2>1, <2>4
    <3> QED
      BY <1>1, <2>2, <3>1, NodeFacts
  <2> QED
    BY <2>3, <2>4
<1> QED
  BY <1>3, <1>4, <1>5

\* The children of the parent, and of the other nodes.
LEMMA ParentChildren ==
    ASSUME NEW B, NEW T, NEW pg, NEW new, NEW u, NEW j, NEW mid, Shaped(B), Split(B, T, pg, new, u, j, mid)
    PROVE  /\ j \in ChildNos(T[u]) /\ Child(T[u], j) = new
           /\ \A i \in ChildNos(T[u]) :
                /\ i < j => i \in ChildNos(B[u]) /\ Child(T[u], i) = Child(B[u], i)
                /\ i > j => i - 1 \in ChildNos(B[u]) /\ Child(T[u], i) = Child(B[u], i - 1)
           /\ \A i \in ChildNos(B[u]) : (i < j => i \in ChildNos(T[u])) /\ (i >= j => i + 1 \in ChildNos(T[u]))
           /\ \A q \in DOMAIN B \ {pg, u} :
                /\ ChildNos(T[q]) = ChildNos(B[q])
                /\ \A i \in ChildNos(T[q]) : Child(T[q], i) = Child(B[q], i)
<1>1. /\ PagesOK(B) /\ PagesOK(T) /\ u \in DOMAIN B /\ u # pg /\ ~ Leaf(B[u]) /\ ~ Leaf(T[u]) /\ Len(B[u].entries) \in Nat
      /\ j \in Nat /\ 1 <= j /\ j <= Len(B[u].entries) + 1 /\ u \in DOMAIN T
  <2>1. /\ PagesOK(T) /\ u # pg /\ ~ Leaf(B[u]) /\ ~ Leaf(T[u]) /\ Len(B[u].entries) \in Nat
        /\ j \in Nat /\ 1 <= j /\ j <= Len(B[u].entries) + 1
    BY SplitPages
  <2>2. PagesOK(B)
    BY DEF Shaped
  <2>3. u \in DOMAIN B /\ DOMAIN T = DOMAIN B \cup {new}
    BY DEF Split
  <2> QED
    BY <2>1, <2>2, <2>3
<1>2. /\ T[u].tail = B[u].tail
      /\ Len(T[u].entries) = Len(B[u].entries) + 1
      /\ \A k \in 1 .. Len(B[u].entries) + 1 :
        T[u].entries[k].child = IF k < j THEN B[u].entries[k].child
                                ELSE IF k = j THEN new ELSE B[u].entries[k - 1].child
  BY <1>1 DEF Split
<1>3. j \in ChildNos(T[u]) /\ Child(T[u], j) = new
  <2>1. j \in 1 .. Len(B[u].entries) + 1 /\ j \in 1 .. Len(T[u].entries)
    BY <1>1, <1>2
  <2>2. j \in ChildNos(T[u]) /\ Child(T[u], j) = T[u].entries[j].child
    BY <1>1, <2>1, NodeFacts
  <2> QED
    BY <1>1, <1>2, <2>1, <2>2
<1>4. ASSUME NEW i \in ChildNos(T[u])
      PROVE  /\ (i < j => i \in ChildNos(B[u]) /\ Child(T[u], i) = Child(B[u], i))
             /\ (i > j => i - 1 \in ChildNos(B[u]) /\ Child(T[u], i) = Child(B[u], i - 1))
  <2>1. /\ i \in Nat /\ 1 <= i /\ (i <= Len(T[u].entries) \/ (T[u].tail # 0 /\ i = Len(T[u].entries) + 1))
    BY <1>1, NodeNos
  <2>2. CASE i <= Len(T[u].entries) /\ i < j
    <3>1. i \in 1 .. Len(B[u].entries) + 1 /\ i \in 1 .. Len(B[u].entries) /\ i \in 1 .. Len(T[u].entries)
      BY <1>1, <1>2, <2>1, <2>2
    <3>2. Child(T[u], i) = T[u].entries[i].child /\ Child(B[u], i) = B[u].entries[i].child /\ i \in ChildNos(B[u])
      BY <1>1, <3>1, NodeFacts
    <3>3. T[u].entries[i].child = B[u].entries[i].child
      BY <1>2, <2>2, <3>1
    <3> QED
      BY <1>1, <2>1, <2>2, <3>2, <3>3
  <2>3. CASE i <= Len(T[u].entries) /\ i > j
    <3>1. i \in 1 .. Len(B[u].entries) + 1 /\ i - 1 \in 1 .. Len(B[u].entries) /\ i \in 1 .. Len(T[u].entries)
          /\ ~ (i < j) /\ i # j
      BY <1>1, <1>2, <2>1, <2>3
    <3>2. Child(T[u], i) = T[u].entries[i].child /\ Child(B[u], i - 1) = B[u].entries[i - 1].child /\ i - 1 \in ChildNos(B[u])
      BY <1>1, <3>1, NodeFacts
    <3>3. T[u].entries[i].child = B[u].entries[i - 1].child
      BY <1>2, <2>3, <3>1
    <3> QED
      BY <1>1, <2>1, <2>3, <3>1, <3>2, <3>3
  <2>4. CASE T[u].tail # 0 /\ i = Len(T[u].entries) + 1
    <3>1. i - 1 = Len(B[u].entries) + 1 /\ ~ (i < j)
      BY <1>1, <1>2, <2>1, <2>4
    <3>2. Child(T[u], i) = T[u].tail /\ Child(B[u], i - 1) = B[u].tail /\ i - 1 \in ChildNos(B[u])
      BY <1>1, <1>2, <2>4, <3>1, NodeFacts
    <3> QED
      BY <1>2, <3>1, <3>2
  <2>5. CASE i = j
    BY <1>1, <2>5
  <2> QED
    BY <1>1, <2>1, <2>2, <2>3, <2>4, <2>5
<1>5. ASSUME NEW i \in ChildNos(B[u])
      PROVE  (i < j => i \in ChildNos(T[u])) /\ (i >= j => i + 1 \in ChildNos(T[u]))
  <2>1. i \in Nat /\ 1 <= i /\ (i <= Len(B[u].entries) \/ (B[u].tail # 0 /\ i = Len(B[u].entries) + 1))
    BY <1>1, NodeNos
  <2>2. ASSUME i < j PROVE i \in ChildNos(T[u])
    <3>1. i \in 1 .. Len(T[u].entries)
      BY <1>1, <1>2, <2>1, <2>2
    <3> QED
      BY <1>1, <3>1, NodeFacts
  <2>3. ASSUME i >= j PROVE i + 1 \in ChildNos(T[u])
    <3>1. i + 1 \in 1 .. Len(T[u].entries) \/ (T[u].tail # 0 /\ i + 1 = Len(T[u].entries) + 1)
      BY <1>1, <1>2, <2>1, <2>3
    <3> QED
      BY <1>1, <3>1, NodeFacts
  <2> QED
    BY <2>2, <2>3
<1>6. ASSUME NEW q \in DOMAIN B \ {pg, u}
      PROVE  ChildNos(T[q]) = ChildNos(B[q]) /\ \A i \in ChildNos(T[q]) : Child(T[q], i) = Child(B[q], i)
  <2>1. T[q].level = B[q].level /\ T[q].tail = B[q].tail /\ T[q].entries = B[q].entries
    BY DEF Split
  <2> QED
    BY <2>1 DEF ChildNos, Child, Leaf
<1> QED
  BY <1>3, <1>4, <1>5, <1>6

\* Every child of the split tree but the new page was one of the old tree.
LEMMA SplitSlot ==
    ASSUME NEW B, NEW T, NEW pg, NEW new, NEW u, NEW j, NEW mid, Shaped(B), Split(B, T, pg, new, u, j, mid),
           NEW q \in DOMAIN T, NEW i \in ChildNos(T[q]), ~ (q = u /\ i = j)
    PROVE  /\ WasPage(q, pg, new) \in DOMAIN B
           /\ WasNo(q, i, pg, u, j, mid) \in ChildNos(B[WasPage(q, pg, new)])
           /\ Child(T[q], i) = Child(B[WasPage(q, pg, new)], WasNo(q, i, pg, u, j, mid))
           /\ B[WasPage(q, pg, new)].level = T[q].level
           /\ (i <= Len(T[q].entries) =>
                 WasNo(q, i, pg, u, j, mid) <= Len(B[WasPage(q, pg, new)].entries))
<1> DEFINE x == WasPage(q, pg, new)
           k == WasNo(q, i, pg, u, j, mid)
<1>1. /\ PagesOK(T) /\ pg \in DOMAIN B /\ pg # new /\ u # pg /\ u # new /\ Len(B[pg].entries) \in Nat
      /\ Len(B[u].entries) \in Nat /\ j \in Nat /\ 1 <= j
  BY SplitPages
<1>2. /\ u \in DOMAIN B /\ DOMAIN T = DOMAIN B \cup {new} /\ new \notin DOMAIN B /\ mid \in Nat /\ 1 <= mid
      /\ mid < Len(B[pg].entries)
      /\ T[new].level = B[pg].level
      /\ Len(T[new].entries) = mid /\ Len(T[pg].entries) = Len(B[pg].entries) - mid
      /\ Len(T[u].entries) = Len(B[u].entries) + 1
      /\ \A y \in DOMAIN B : T[y].level = B[y].level /\ (y \notin {pg, u} => T[y].entries = B[y].entries)
  BY DEF Split
<1>3. i \in Nat /\ 1 <= i
  BY <1>1, NodeNos
<1>4. CASE q = new
  <2>1. x = pg /\ k = i
    BY <1>1, <1>4 DEF WasPage, WasNo
  <2>2. i \in 1 .. mid /\ i \in ChildNos(B[pg]) /\ Child(T[new], i) = Child(B[pg], i)
    BY <1>4, HalfChildren
  <2> HIDE DEF x, k
  <2>3. x \in DOMAIN B /\ k \in ChildNos(B[x]) /\ Child(T[q], i) = Child(B[x], k) /\ B[x].level = T[q].level
    BY <1>1, <1>2, <1>4, <2>1, <2>2
  <2>4. k <= Len(B[x].entries)
    BY <1>1, <1>2, <2>1, <2>2
  <2> QED
    BY <2>3, <2>4 DEF x, k
<1>5. CASE q = pg
  <2>1. x = pg /\ k = i + mid
    BY <1>1, <1>5 DEF WasPage, WasNo
  <2>2. i + mid \in ChildNos(B[pg]) /\ Child(T[pg], i) = Child(B[pg], i + mid)
    BY <1>5, HalfChildren
  <2> HIDE DEF x, k
  <2>3. x \in DOMAIN B /\ k \in ChildNos(B[x]) /\ Child(T[q], i) = Child(B[x], k) /\ B[x].level = T[q].level
    BY <1>1, <1>2, <1>5, <2>1, <2>2
  <2>4. i <= Len(T[q].entries) => k <= Len(B[x].entries)
    BY <1>1, <1>2, <1>3, <1>5, <2>1
  <2> QED
    BY <2>3, <2>4 DEF x, k
<1>6. CASE q = u
  <2>1. i < j \/ i > j
    BY <1>1, <1>3, <1>6
  <2>2. x = u /\ (i < j => k = i) /\ (i > j => k = i - 1)
    BY <1>1, <1>3, <1>6 DEF WasPage, WasNo
  <2>3. /\ i < j => i \in ChildNos(B[u]) /\ Child(T[u], i) = Child(B[u], i)
        /\ i > j => i - 1 \in ChildNos(B[u]) /\ Child(T[u], i) = Child(B[u], i - 1)
    BY <1>6, ParentChildren
  <2>5. j <= Len(B[u].entries) + 1
    BY SplitPages
  <2> HIDE DEF x, k
  <2>4. x \in DOMAIN B /\ k \in ChildNos(B[x]) /\ Child(T[q], i) = Child(B[x], k) /\ B[x].level = T[q].level
    BY <1>2, <1>6, <2>1, <2>2, <2>3
  <2>6. i <= Len(T[q].entries) => k <= Len(B[x].entries)
    BY <1>1, <1>2, <1>3, <1>6, <2>1, <2>2, <2>5
  <2> QED
    BY <2>4, <2>6 DEF x, k
<1>7. CASE q \notin {new, pg, u}
  <2>1. x = q /\ k = i /\ q \in DOMAIN B \ {pg, u}
    BY <1>2, <1>7 DEF WasPage, WasNo
  <2>2. i \in ChildNos(B[q]) /\ Child(T[q], i) = Child(B[q], i)
    BY <2>1, ParentChildren
  <2> HIDE DEF x, k
  <2>3. x \in DOMAIN B /\ k \in ChildNos(B[x]) /\ Child(T[q], i) = Child(B[x], k) /\ B[x].level = T[q].level
    BY <1>2, <2>1, <2>2
  <2>4. i <= Len(T[q].entries) => k <= Len(B[x].entries)
    BY <1>2, <2>1
  <2> QED
    BY <2>3, <2>4 DEF x, k
<1> QED
  BY <1>4, <1>5, <1>6, <1>7

\* And the other way round.
LEMMA SplitSlotBack ==
    ASSUME NEW B, NEW T, NEW pg, NEW new, NEW u, NEW j, NEW mid, Shaped(B), Split(B, T, pg, new, u, j, mid),
           NEW x \in DOMAIN B, NEW k \in ChildNos(B[x])
    PROVE  \E q \in DOMAIN T : \E i \in ChildNos(T[q]) : Child(T[q], i) = Child(B[x], k)
<1>1. PagesOK(B) /\ pg \in DOMAIN B /\ j \in Nat /\ pg \in DOMAIN T /\ new \in DOMAIN T /\ u \in DOMAIN T /\ x \in DOMAIN T
      /\ mid \in Nat
  <2>1. pg \in DOMAIN B /\ j \in Nat
    BY SplitPages
  <2>2. DOMAIN T = DOMAIN B \cup {new} /\ u \in DOMAIN B /\ mid \in Nat
    BY DEF Split
  <2> QED
    BY <2>1, <2>2 DEF Shaped
<1>2. k \in Nat
  BY <1>1, NodeNos
<1>3. CASE x = pg
  <2>1. /\ k <= mid => k \in ChildNos(T[new])
        /\ k > mid => k - mid \in ChildNos(T[pg])
    BY <1>3, HalfChildren
  <2>2. k <= mid => Child(T[new], k) = Child(B[pg], k)
    BY <2>1, HalfChildren
  <2>3. k > mid => Child(T[pg], k - mid) = Child(B[pg], k)
    <3> HAVE k > mid
    <3>1. Child(T[pg], k - mid) = Child(B[pg], k - mid + mid)
      BY <2>1, HalfChildren
    <3>2. k - mid + mid = k
      BY <1>1, <1>2
    <3> QED
      BY <3>1, <3>2
  <2>4. k <= mid \/ k > mid
    BY <1>1, <1>2
  <2> QED
    BY <1>1, <1>3, <2>1, <2>2, <2>3, <2>4
<1>4. CASE x = u
  <2>1. (k < j => k \in ChildNos(T[u])) /\ (k >= j => k + 1 \in ChildNos(T[u]))
    BY <1>4, ParentChildren
  <2>2. k < j => Child(T[u], k) = Child(B[u], k)
    BY <2>1, ParentChildren
  <2>3. k >= j => Child(T[u], k + 1) = Child(B[u], k)
    <3> HAVE k >= j
    <3> DEFINE h == k + 1
    <3>1. h > j /\ h - 1 = k /\ h \in ChildNos(T[u])
      BY <1>1, <1>2, <2>1
    <3> HIDE DEF h
    <3>2. Child(T[u], h) = Child(B[u], h - 1)
      BY <3>1, ParentChildren
    <3> QED
      BY <3>1, <3>2 DEF h
  <2>4. k < j \/ k >= j
    BY <1>1, <1>2
  <2> QED
    BY <1>1, <1>4, <2>1, <2>2, <2>3, <2>4
<1>5. CASE x \notin {pg, u}
  <2>1. k \in ChildNos(T[x]) /\ Child(T[x], k) = Child(B[x], k)
    BY <1>5, ParentChildren
  <2> QED
    BY <1>1, <2>1
<1> QED
  BY <1>3, <1>4, <1>5

\* No child is lost or has two places.
LEMMA SplitOnce ==
    ASSUME NEW B, NEW T, NEW pg, NEW new, NEW u, NEW j, NEW mid, Shaped(B), Split(B, T, pg, new, u, j, mid)
    PROVE  /\ \A c \in DOMAIN T \ {Root} : \E q \in DOMAIN T : \E i \in ChildNos(T[q]) : Child(T[q], i) = c
           /\ \A q, x \in DOMAIN T : \A i \in ChildNos(T[q]), k \in ChildNos(T[x]) :
                Child(T[q], i) = Child(T[x], k) => q = x /\ i = k
<1>1. /\ PagesOK(T) /\ pg \in DOMAIN B /\ pg # new /\ u # pg /\ u # new /\ j \in Nat
  BY SplitPages
<1>2. /\ u \in DOMAIN B /\ DOMAIN T = DOMAIN B \cup {new} /\ new \notin DOMAIN B /\ mid \in Nat
  BY DEF Split
<1>3. j \in ChildNos(T[u]) /\ Child(T[u], j) = new
  BY ParentChildren
<1>4. ASSUME NEW c \in DOMAIN T \ {Root}
      PROVE  \E q \in DOMAIN T : \E i \in ChildNos(T[q]) : Child(T[q], i) = c
  <2>1. CASE c = new
    BY <1>2, <1>3, <2>1
  <2>2. CASE c # new
    <3>1. c \in DOMAIN B \ {Root}
      BY <1>2, <2>2
    <3>2. PICK x \in DOMAIN B : \E k \in ChildNos(B[x]) : Child(B[x], k) = c
      BY <3>1 DEF Shaped, Hung
    <3> QED
      BY <3>2, SplitSlotBack
  <2> QED
    BY <2>1, <2>2
<1>5. ASSUME NEW q \in DOMAIN T, NEW i \in ChildNos(T[q]), ~ (q = u /\ i = j) PROVE Child(T[q], i) # new
  <2>1. Child(T[q], i) \in DOMAIN B
    <3>1. /\ WasPage(q, pg, new) \in DOMAIN B
          /\ WasNo(q, i, pg, u, j, mid) \in ChildNos(B[WasPage(q, pg, new)])
          /\ Child(T[q], i) = Child(B[WasPage(q, pg, new)], WasNo(q, i, pg, u, j, mid))
      BY <1>5, SplitSlot
    <3> QED
      BY <3>1, ChildFacts
  <2> QED
    BY <1>2, <2>1
<1>6. ASSUME NEW q \in DOMAIN T, NEW x \in DOMAIN T, NEW i \in ChildNos(T[q]), NEW k \in ChildNos(T[x]),
             Child(T[q], i) = Child(T[x], k)
      PROVE  q = x /\ i = k
  <2>1. CASE q = u /\ i = j
    BY <1>3, <1>5, <1>6, <2>1
  <2>2. CASE x = u /\ k = j
    BY <1>3, <1>5, <1>6, <2>2
  <2>3. CASE ~ (q = u /\ i = j) /\ ~ (x = u /\ k = j)
    <3> DEFINE a == WasPage(q, pg, new)
               b == WasPage(x, pg, new)
               m == WasNo(q, i, pg, u, j, mid)
               n == WasNo(x, k, pg, u, j, mid)
    <3>1. a \in DOMAIN B /\ m \in ChildNos(B[a]) /\ Child(T[q], i) = Child(B[a], m)
      BY <2>3, SplitSlot
    <3>2. b \in DOMAIN B /\ n \in ChildNos(B[b]) /\ Child(T[x], k) = Child(B[b], n)
      BY <2>3, SplitSlot
    <3>3. a = b /\ m = n
      <4> HIDE DEF a, b, m, n
      <4>1. Child(B[a], m) = Child(B[b], n)
        BY <1>6, <3>1, <3>2
      <4>2. a \in DOMAIN B /\ b \in DOMAIN B /\ m \in ChildNos(B[a]) /\ n \in ChildNos(B[b])
        BY <3>1, <3>2
      <4> QED
        BY <4>1, <4>2 DEF Shaped, Hung
    <3>4. i \in Nat /\ k \in Nat /\ 1 <= i /\ 1 <= k
      BY <1>1, NodeNos
    <3>5. (q = new => i <= mid) /\ (x = new => k <= mid)
      <4>1. q = new => i \in 1 .. mid
        BY HalfChildren
      <4>2. x = new => k \in 1 .. mid
        BY HalfChildren
      <4> QED
        BY <1>2, <3>4, <4>1, <4>2
    <3>6. (q = new <=> (a = pg /\ q # pg)) /\ (x = new <=> (b = pg /\ x # pg))
      BY <1>1 DEF WasPage
    <3>7. q = x
      <4>1. CASE q \in {new, pg} \/ x \in {new, pg}
        <5>1. q \in {new, pg} /\ x \in {new, pg}
          BY <1>1, <3>3, <4>1 DEF WasPage
        <5>2. CASE q = new /\ x = pg
          BY <1>1, <1>2, <3>3, <3>4, <3>5, <5>2 DEF WasNo
        <5>3. CASE q = pg /\ x = new
          BY <1>1, <1>2, <3>3, <3>4, <3>5, <5>3 DEF WasNo
        <5> QED
          BY <5>1, <5>2, <5>3
      <4>2. CASE q \notin {new, pg} /\ x \notin {new, pg}
        BY <3>3, <4>2 DEF WasPage
      <4> QED
        BY <4>1, <4>2
    <3>8. i = k
      BY <1>1, <1>2, <2>3, <3>3, <3>4, <3>7 DEF WasNo
    <3> QED
      BY <3>7, <3>8
  <2> QED
    BY <2>1, <2>2, <2>3
<1> QED
  BY <1>4, <1>6

\* The first child of a page of the split tree.
LEMMA SplitFirst ==
    ASSUME NEW B, NEW T, NEW pg, NEW new, NEW u, NEW j, NEW mid, Shaped(B), Split(B, T, pg, new, u, j, mid),
           NEW y \in DOMAIN B, ~ Leaf(B[y])
    PROVE  /\ y = pg => /\ Child(T[new], 1) = Child(B[pg], 1) /\ 1 \in ChildNos(B[pg])
                        /\ mid + 1 \in ChildNos(B[pg]) /\ Child(T[pg], 1) = Child(B[pg], mid + 1)
           /\ y = u /\ j = 1 => Child(T[y], 1) = new
           /\ y # pg /\ ~ (y = u /\ j = 1) => Child(T[y], 1) = Child(B[y], 1)
<1>1. /\ PagesOK(B) /\ j \in Nat /\ 1 <= j
  BY SplitPages DEF Shaped
<1>2. /\ mid \in Nat /\ 1 <= mid /\ mid < Len(B[pg].entries)
  BY DEF Split
<1>3. Len(B[y].entries) \in Nat /\ Len(B[y].entries) >= 1 /\ 1 \in ChildNos(B[y])
  <2>1. Len(B[y].entries) \in Nat /\ Len(B[y].entries) >= 1
    BY <1>1, NodeFacts
  <2>2. 1 \in 1 .. Len(B[y].entries)
    BY <2>1
  <2> QED
    BY <1>1, <2>1, <2>2, NodeFacts
<1>4. ASSUME y = pg
      PROVE  /\ Child(T[new], 1) = Child(B[pg], 1) /\ 1 \in ChildNos(B[pg])
             /\ mid + 1 \in ChildNos(B[pg]) /\ Child(T[pg], 1) = Child(B[pg], mid + 1)
  <2>1. mid + 1 \in ChildNos(B[pg])
    <3>1. mid + 1 \in 1 .. Len(B[y].entries)
      BY <1>2, <1>3, <1>4
    <3> QED
      BY <1>1, <1>4, <3>1, NodeFacts
  <2>2. 1 \in ChildNos(T[new])
    BY <1>2, <1>3, <1>4, HalfChildren
  <2>3. 1 \in ChildNos(T[pg])
    <3> DEFINE h == mid + 1
    <3>1. h > mid /\ h - mid = 1 /\ h \in ChildNos(B[pg])
      BY <1>2, <2>1
    <3> HIDE DEF h
    <3>2. h - mid \in ChildNos(T[pg])
      BY <3>1, HalfChildren
    <3> QED
      BY <3>1, <3>2
  <2>4. Child(T[pg], 1) = Child(B[pg], 1 + mid) /\ 1 + mid = mid + 1
    BY <1>2, <2>3, HalfChildren
  <2>5. Child(T[new], 1) = Child(B[pg], 1)
    BY <2>2, HalfChildren
  <2> QED
    BY <1>3, <1>4, <2>1, <2>4, <2>5
<1>5. y = u /\ j = 1 => Child(T[y], 1) = new
  BY ParentChildren
<1>6. ASSUME y # pg, ~ (y = u /\ j = 1) PROVE Child(T[y], 1) = Child(B[y], 1)
  <2>1. CASE y = u
    <3>1. 1 < j
      BY <1>1, <1>6, <2>1
    <3>2. 1 \in ChildNos(T[u])
      BY <1>3, <2>1, <3>1, ParentChildren
    <3> QED
      BY <2>1, <3>1, <3>2, ParentChildren
  <2>2. CASE y # u
    BY <1>3, <1>6, <2>2, ParentChildren
  <2> QED
    BY <2>1, <2>2
<1> QED
  BY <1>4, <1>5, <1>6

\* The page after a child is the next child.
LEMMA SplitBehind ==
    ASSUME NEW B, NEW T, NEW pg, NEW new, NEW u, NEW j, NEW mid, NEW stale, BTree(B, stale),
           Split(B, T, pg, new, u, j, mid), NEW q \in DOMAIN T, NEW i \in ChildNos(T[q])
    PROVE  T[Child(T[q], i)].next = Behind(T, q, i)
<1>1. Shaped(B) /\ PagesOK(B)
  BY TreeParts
<1>2. /\ PagesOK(T) /\ pg \in DOMAIN B /\ pg # Root /\ pg # 0 /\ pg # u /\ u # new /\ pg # new
      /\ B[pg].level + 1 = B[u].level /\ B[u].level \in Nat /\ B[pg].level \in Nat
      /\ ~ Leaf(B[u]) /\ ~ Leaf(T[u]) /\ j \in Nat /\ 1 <= j
  BY <1>1, SplitPages
<1>3. /\ u \in DOMAIN B /\ j \in ChildNos(B[u]) /\ Child(B[u], j) = pg /\ new # 0 /\ new \notin DOMAIN B
      /\ DOMAIN T = DOMAIN B \cup {new} /\ mid \in Nat
      /\ T[new].next = pg /\ T[new].level = B[pg].level
      /\ \A x \in DOMAIN B :
            T[x].level = B[x].level /\ T[x].next = (IF B[x].next = pg THEN new ELSE B[x].next)
  BY DEF Split
<1>4. i \in Nat /\ 1 <= i /\ ~ Leaf(T[q])
  BY <1>2, NodeNos
<1> DEFINE c == Child(T[q], i)
           x == WasPage(q, pg, new)
           k == WasNo(q, i, pg, u, j, mid)
\* The new page leads to the page.
<1>5. CASE q = u /\ i = j
  <2>1. c = new
    BY <1>5, ParentChildren, <1>1
  <2>2. j + 1 \in ChildNos(T[u])
    <3>1. j >= j
      BY <1>2
    <3> QED
      BY <1>1, <1>3, <3>1, ParentChildren
  <2>3. Child(T[u], j + 1) = pg
    <3> DEFINE h == j + 1
    <3>1. h > j /\ h - 1 = j /\ h \in ChildNos(T[u])
      BY <1>2, <2>2
    <3> HIDE DEF h
    <3>2. Child(T[u], h) = Child(B[u], h - 1)
      BY <1>1, <3>1, ParentChildren
    <3> QED
      BY <1>3, <3>1, <3>2 DEF h
  <2> QED
    BY <1>3, <1>5, <2>1, <2>2, <2>3 DEF Behind
\* Another child leads where it did, or to the new page.
<1>6. CASE ~ (q = u /\ i = j)
  <2>1. x \in DOMAIN B /\ k \in ChildNos(B[x]) /\ c = Child(B[x], k) /\ B[x].level = T[q].level
    BY <1>1, <1>6, SplitSlot
  <2>2. c \in DOMAIN B /\ ~ Leaf(B[x]) /\ B[c].level + 1 = B[x].level /\ c # 0 /\ k \in Nat
    <3> HIDE DEF c, x, k
    <3> QED
      BY <1>1, <2>1, ChildFacts
  <2>3. \A h \in ChildNos(B[x]) : Child(B[x], h) = pg => x = u /\ h = j
    <3> HIDE DEF c, x, k
    <3> QED
      BY <1>1, <1>3, <2>1, SlotIs
  <2>4. k + 1 \in ChildNos(B[x]) => B[c].next = Child(B[x], k + 1)
    <3> HIDE DEF x, k
    <3> QED
      BY <1>1, <2>1, NextChild
  <2>5. k + 1 \notin ChildNos(B[x]) =>
           /\ B[x].next = 0 => B[c].next = 0
           /\ B[x].next # 0 => /\ B[x].next \in DOMAIN B /\ ~ Leaf(B[B[x].next]) /\ 1 \in ChildNos(B[B[x].next])
                               /\ B[c].next = Child(B[B[x].next], 1)
    <3> HIDE DEF x, k, c
    <3> QED
      BY <1>1, <2>1, LastChild
  <2>6. T[c].next = IF B[c].next = pg THEN new ELSE B[c].next
    BY <1>3, <2>2
  <2>7. B[x].next # 0 => B[B[x].next].level = B[x].level /\ B[x].next # x
    BY <1>1, <2>1, LinkFacts, NoLoop
  <2>8. \A y \in DOMAIN B : 1 \in ChildNos(B[y]) => (Child(B[y], 1) = pg <=> y = u /\ j = 1)
    BY <1>1, <1>3, SlotIs
  <2>9. CASE q = new
    <3>1. x = pg /\ k = i /\ ~ Leaf(B[pg])
      BY <1>2, <1>3, <1>4, <2>9 DEF WasPage, WasNo, Leaf
    <3>2. i \in 1 .. mid
      BY <1>1, <2>9, HalfChildren
    <3>3. B[c].next # pg /\ T[c].next = B[c].next
      <4>1. B[c].level + 1 = B[pg].level
        BY <2>2, <3>1
      <4>2. B[c].next = pg => B[pg].level = B[c].level
        BY <1>1, <1>2, <2>2, LinkFacts
      <4>3. B[c].level \in Nat
        BY <1>1, <2>2, PageFacts
      <4> QED
        BY <2>6, <4>1, <4>2, <4>3
    <3>4. CASE i < mid
      <4>1. i + 1 \in ChildNos(B[pg]) /\ i + 1 <= mid
        <5>1. Len(B[pg].entries) \in Nat /\ mid < Len(B[pg].entries)
          <6>1. Len(B[pg].entries) \in Nat
            BY <1>1, SplitPages
          <6>2. mid < Len(B[pg].entries)
            BY DEF Split
          <6> QED
            BY <6>1, <6>2
        <5>2. i + 1 \in 1 .. Len(B[pg].entries)
          BY <1>3, <3>2, <3>4, <5>1
        <5> QED
          BY <1>1, <1>2, <1>3, <3>1, <3>2, <3>4, <5>2, NodeFacts
      <4>2. i + 1 \in ChildNos(T[new])
        BY <1>1, <4>1, HalfChildren
      <4>3. Child(T[new], i + 1) = Child(B[pg], i + 1)
        BY <1>1, <4>2, HalfChildren
      <4> QED
        BY <2>4, <2>9, <3>1, <3>3, <4>1, <4>2, <4>3 DEF Behind
    <3>5. CASE i = mid
      <4>1. i + 1 \notin ChildNos(T[new])
        <5>1. i + 1 \in ChildNos(T[new]) => i + 1 \in 1 .. mid
          BY <1>1, HalfChildren
        <5>2. ~ (i + 1 \in 1 .. mid)
          BY <1>3, <3>5
        <5> QED
          BY <5>1, <5>2
      <4>2. Behind(T, new, i) = Child(T[pg], 1)
        BY <1>2, <1>3, <4>1 DEF Behind
      <4>3. Child(T[pg], 1) = Child(B[pg], mid + 1) /\ mid + 1 \in ChildNos(B[pg])
        BY <1>1, <1>2, <3>1, SplitFirst
      <4> QED
        BY <2>4, <2>9, <3>1, <3>3, <3>5, <4>2, <4>3
    <3> QED
      BY <1>3, <3>2, <3>4, <3>5
  <2>10. CASE q = pg
    <3>1. x = pg /\ k = i + mid /\ ~ Leaf(B[pg])
      BY <1>2, <1>3, <1>4, <2>10 DEF WasPage, WasNo, Leaf
    <3>3. B[c].next # pg /\ T[c].next = B[c].next
      <4>1. B[c].level + 1 = B[pg].level
        BY <2>2, <3>1
      <4>2. B[c].next = pg => B[pg].level = B[c].level
        BY <1>1, <1>2, <2>2, LinkFacts
      <4>3. B[c].level \in Nat
        BY <1>1, <2>2, PageFacts
      <4> QED
        BY <2>6, <4>1, <4>2, <4>3
    <3>4. i + 1 \in ChildNos(T[pg]) <=> k + 1 \in ChildNos(B[pg])
      <4> DEFINE g == i + 1
                 h == k + 1
      <4>1. g + mid = h /\ h > mid /\ h - mid = g
        BY <1>3, <1>4, <3>1
      <4> HIDE DEF g, h
      <4>2. g \in ChildNos(T[pg]) => g + mid \in ChildNos(B[pg])
        BY <1>1, HalfChildren
      <4>3. h \in ChildNos(B[pg]) => h - mid \in ChildNos(T[pg])
        BY <1>1, <4>1, HalfChildren
      <4> QED
        BY <4>1, <4>2, <4>3 DEF g, h
    <3>5. CASE k + 1 \in ChildNos(B[pg])
      <4>1. Child(T[pg], i + 1) = Child(B[pg], i + 1 + mid) /\ i + 1 + mid = k + 1
        BY <1>1, <1>3, <1>4, <3>1, <3>4, <3>5, HalfChildren
      <4>2. Behind(T, pg, i) = Child(T[pg], i + 1)
        BY <3>4, <3>5 DEF Behind
      <4> HIDE DEF k, c, x
      <4> QED
        BY <2>4, <2>10, <3>1, <3>3, <3>5, <4>1, <4>2 DEF c
    <3>6. CASE k + 1 \notin ChildNos(B[pg])
      <4>1. B[pg].next # pg /\ T[pg].next = B[pg].next
        BY <1>2, <1>3, NoLoop
      <4>2. CASE B[pg].next = 0
        <5>1. Behind(T, pg, i) = 0
          BY <3>4, <3>6, <4>1, <4>2 DEF Behind
        <5>2. B[c].next = 0
          BY <2>5, <3>1, <3>6, <4>2
        <5> QED
          BY <2>10, <3>3, <5>1, <5>2
      <4>3. CASE B[pg].next # 0
        <5> DEFINE y == B[pg].next
        <5>1. /\ y \in DOMAIN B /\ ~ Leaf(B[y]) /\ B[c].next = Child(B[y], 1)
              /\ y # pg /\ B[y].level = B[pg].level
          BY <2>5, <2>7, <3>1, <3>6, <4>1, <4>3
        <5>2. y # u
          BY <1>2, <5>1
        <5>3. Child(T[y], 1) = Child(B[y], 1)
          <6> HIDE DEF y
          <6> QED
            BY <1>1, <5>1, <5>2, SplitFirst
        <5>4. Behind(T, pg, i) = Child(T[y], 1)
          BY <3>4, <3>6, <4>1, <4>3 DEF Behind
        <5> QED
          BY <2>10, <3>3, <5>1, <5>3, <5>4
      <4> QED
        BY <4>2, <4>3
    <3> QED
      BY <3>5, <3>6
  <2>11. CASE q = u
    <3>1. x = u /\ (i < j => k = i) /\ (i > j => k = i - 1) /\ (i < j \/ i > j)
      BY <1>2, <1>4, <1>6, <2>11 DEF WasPage, WasNo
    <3> HIDE DEF x, k, c
    <3>2. CASE i < j
      <4>1. k = i /\ i + 1 <= j
        BY <1>2, <1>4, <3>1, <3>2
      <4>2. CASE i + 1 = j
        <5>1. B[c].next = pg
          BY <1>3, <2>4, <3>1, <4>1, <4>2
        <5>2. Behind(T, u, i) = new
          BY <1>1, <4>2, ParentChildren DEF Behind
        <5> QED
          BY <2>6, <2>11, <5>1, <5>2 DEF c
      <4>3. CASE i + 1 < j
        <5>1. i + 1 \in ChildNos(B[u]) /\ i + 1 # j
          <6>1. j <= Len(B[u].entries) + 1 /\ Len(B[u].entries) \in Nat
            BY <1>1, SplitPages
          <6>2. i + 1 \in 1 .. Len(B[u].entries)
            BY <1>2, <1>4, <4>3, <6>1
          <6> QED
            BY <1>1, <1>2, <1>3, <1>4, <4>3, <6>2, NodeFacts
        <5>2. i + 1 \in ChildNos(T[u])
          BY <1>1, <4>3, <5>1, ParentChildren
        <5>3. Child(T[u], i + 1) = Child(B[u], i + 1)
          BY <1>1, <4>3, <5>2, ParentChildren
        <5>4. B[c].next = Child(B[u], i + 1) /\ Child(B[u], i + 1) # pg
          BY <2>3, <2>4, <3>1, <4>1, <5>1
        <5> QED
          BY <2>6, <2>11, <5>2, <5>3, <5>4 DEF Behind, c
      <4> QED
        BY <1>2, <1>4, <4>1, <4>2, <4>3
    <3>3. CASE i > j
      <4>1. k = i - 1 /\ k + 1 = i /\ k >= j /\ k + 1 # j /\ i + 1 > j /\ i >= j
        BY <1>2, <1>4, <3>1, <3>3
      <4>2. i + 1 \in ChildNos(T[u]) <=> i \in ChildNos(B[u])
        <5> DEFINE g == i + 1
        <5>1. g > j /\ g - 1 = i
          BY <1>4, <4>1
        <5> HIDE DEF g
        <5>2. g \in ChildNos(T[u]) => g - 1 \in ChildNos(B[u])
          BY <1>1, <5>1, ParentChildren
        <5>3. i \in ChildNos(B[u]) => i + 1 \in ChildNos(T[u])
          BY <1>1, <4>1, ParentChildren
        <5> QED
          BY <5>1, <5>2, <5>3 DEF g
      <4>3. CASE i \in ChildNos(B[u])
        <5>1. Child(T[u], i + 1) = Child(B[u], i)
          <6> DEFINE g == i + 1
          <6>1. g > j /\ g - 1 = i /\ g \in ChildNos(T[u])
            BY <1>4, <4>1, <4>2, <4>3
          <6> HIDE DEF g
          <6>2. Child(T[u], g) = Child(B[u], g - 1)
            BY <1>1, <6>1, ParentChildren
          <6> QED
            BY <6>1, <6>2 DEF g
        <5>2. B[c].next = Child(B[u], i) /\ Child(B[u], i) # pg
          BY <2>3, <2>4, <3>1, <4>1, <4>3
        <5> QED
          BY <2>6, <2>11, <4>2, <4>3, <5>1, <5>2 DEF Behind, c
      <4>4. CASE i \notin ChildNos(B[u])
        <5>1. T[u].next = B[u].next
          <6>1. B[u].next = pg => B[pg].level = B[u].level
            BY <1>1, <1>2, <1>3, LinkFacts
          <6> QED
            BY <1>2, <1>3, <6>1
        <5>2. CASE B[u].next = 0
          <6>1. Behind(T, u, i) = 0
            BY <4>2, <4>4, <5>1, <5>2 DEF Behind
          <6>2. B[c].next = 0
            BY <2>5, <3>1, <4>1, <4>4, <5>2
          <6> QED
            BY <1>2, <2>6, <2>11, <6>1, <6>2 DEF c
        <5>3. CASE B[u].next # 0
          <6> DEFINE y == B[u].next
          <6>1. /\ y \in DOMAIN B /\ ~ Leaf(B[y]) /\ 1 \in ChildNos(B[y]) /\ B[c].next = Child(B[y], 1)
                /\ y # u /\ B[y].level = B[u].level
            BY <2>5, <2>7, <3>1, <4>1, <4>4, <5>3
          <6>2. y # pg
            BY <1>2, <6>1
          <6>3. Child(T[y], 1) = Child(B[y], 1)
            <7> HIDE DEF y
            <7> QED
              BY <1>1, <6>1, <6>2, SplitFirst
          <6>4. Behind(T, u, i) = Child(T[y], 1)
            BY <4>2, <4>4, <5>1, <5>3 DEF Behind
          <6>5. Child(B[y], 1) # pg
            BY <2>8, <6>1
          <6> QED
            BY <2>6, <2>11, <6>1, <6>3, <6>4, <6>5 DEF c
        <5> QED
          BY <5>2, <5>3
      <4> QED
        BY <4>3, <4>4
    <3> QED
      BY <3>1, <3>2, <3>3
  <2>12. CASE q \notin {new, pg, u}
    <3>1. x = q /\ k = i /\ q \in DOMAIN B \ {pg, u}
      BY <1>3, <2>12 DEF WasPage, WasNo
    <3>2. ChildNos(T[q]) = ChildNos(B[q]) /\ \A h \in ChildNos(T[q]) : Child(T[q], h) = Child(B[q], h)
      BY <1>1, <3>1, ParentChildren
    <3> HIDE DEF x, k, c
    <3>3. CASE i + 1 \in ChildNos(B[q])
      <4>1. Behind(T, q, i) = Child(B[q], i + 1)
        BY <3>2, <3>3 DEF Behind
      <4>2. B[c].next = Child(B[q], i + 1) /\ Child(B[q], i + 1) # pg
        BY <2>3, <2>4, <2>12, <3>1, <3>3
      <4> QED
        BY <2>6, <4>1, <4>2 DEF c
    <3>4. CASE i + 1 \notin ChildNos(B[q])
      <4>1. i + 1 \notin ChildNos(T[q])
        BY <3>2, <3>4
      <4>2. CASE B[q].next = 0
        <5>1. T[q].next = 0
          BY <1>2, <1>3, <3>1, <4>2
        <5>2. Behind(T, q, i) = 0
          BY <4>1, <5>1 DEF Behind
        <5>3. B[c].next = 0
          BY <2>5, <3>1, <3>4, <4>2
        <5> QED
          BY <1>2, <2>6, <5>2, <5>3 DEF c
      <4>3. CASE B[q].next # 0
        <5> DEFINE y == B[q].next
        <5>1. y \in DOMAIN B /\ ~ Leaf(B[y]) /\ 1 \in ChildNos(B[y]) /\ B[c].next = Child(B[y], 1) /\ y # 0
          BY <2>5, <3>1, <3>4, <4>3
        <5>2. T[q].next = IF y = pg THEN new ELSE y
          BY <1>3, <3>1
        <5> HIDE DEF y
        <5>3. CASE y = pg
          <6>1. Behind(T, q, i) = Child(T[new], 1)
            BY <1>3, <4>1, <5>2, <5>3 DEF Behind
          <6>2. Child(T[new], 1) = Child(B[pg], 1)
            BY <1>1, <5>1, <5>3, SplitFirst
          <6>3. Child(B[pg], 1) # pg
            BY <1>2, <2>8, <5>1, <5>3
          <6> QED
            BY <2>6, <5>1, <5>3, <6>1, <6>2, <6>3 DEF c
        <5>4. CASE y # pg
          <6>1. Behind(T, q, i) = Child(T[y], 1)
            BY <4>1, <5>1, <5>2, <5>4 DEF Behind
          <6>2. y = u /\ j = 1 => Child(T[y], 1) = new
            BY <1>1, <5>1, SplitFirst
          <6>3. ~ (y = u /\ j = 1) => Child(T[y], 1) = Child(B[y], 1)
            BY <1>1, <5>1, <5>4, SplitFirst
          <6>4. Child(B[y], 1) = pg <=> y = u /\ j = 1
            BY <2>8, <5>1
          <6> QED
            BY <2>6, <5>1, <6>1, <6>2, <6>3, <6>4 DEF c
        <5> QED
          BY <5>3, <5>4
      <4> QED
        BY <4>2, <4>3
    <3> QED
      BY <3>3, <3>4
  <2> QED
    BY <2>9, <2>10, <2>11, <2>12
<1> QED
  BY <1>5, <1>6

LEMMA SplitHung ==
    ASSUME NEW B, NEW T, NEW pg, NEW new, NEW u, NEW j, NEW mid, NEW stale, BTree(B, stale),
           Split(B, T, pg, new, u, j, mid)
    PROVE  Hung(T) /\ Shaped(T)
<1>1. Shaped(B) /\ PagesOK(B)
  BY TreeParts
<1>2. /\ PagesOK(T) /\ Linked(T) /\ pg \in DOMAIN B /\ Root # new /\ B[pg].level + 1 = B[u].level
  <2>1. Linked(T)
    BY SplitLinked
  <2> QED
    BY <1>1, <2>1, SplitPages
<1>3. /\ u \in DOMAIN B /\ DOMAIN T = DOMAIN B \cup {new} /\ new \notin DOMAIN B
      /\ T[new].level = B[pg].level /\ T[new].tail = 0
      /\ \A q \in DOMAIN B : T[q].level = B[q].level /\ T[q].tail = B[q].tail
  BY DEF Split
<1>4. ASSUME NEW q \in DOMAIN T, NEW i \in ChildNos(T[q])
      PROVE  LET c == Child(T[q], i)
             IN  /\ c \in DOMAIN T \ {Root}
                 /\ T[c].level + 1 = T[q].level
                 /\ T[c].next = Behind(T, q, i)
                 /\ i <= Len(T[q].entries) => T[c].tail = 0
  <2> DEFINE c == Child(T[q], i)
  <2>1. T[c].next = Behind(T, q, i)
    BY SplitBehind
  <2>2. CASE q = u /\ i = j
    <3>1. c = new
      BY <1>1, <2>2, ParentChildren
    <3> QED
      BY <1>2, <1>3, <2>1, <2>2, <3>1
  <2>3. CASE ~ (q = u /\ i = j)
    <3> DEFINE x == WasPage(q, pg, new)
               k == WasNo(q, i, pg, u, j, mid)
    <3>1. /\ x \in DOMAIN B /\ k \in ChildNos(B[x]) /\ c = Child(B[x], k) /\ B[x].level = T[q].level
          /\ (i <= Len(T[q].entries) => k <= Len(B[x].entries))
      BY <1>1, <2>3, SplitSlot
    <3> HIDE DEF x, k, c
    <3>2. c \in DOMAIN B /\ c # Root /\ B[c].level + 1 = B[x].level /\ (k <= Len(B[x].entries) => B[c].tail = 0)
      BY <1>1, <3>1, ChildFacts
    <3>3. c \in DOMAIN T \ {Root} /\ T[c].level + 1 = T[q].level /\ (i <= Len(T[q].entries) => T[c].tail = 0)
      BY <1>3, <3>1, <3>2
    <3> QED
      BY <2>1, <3>3 DEF c
  <2> QED
    BY <2>2, <2>3
<1>5. /\ \A c \in DOMAIN T \ {Root} : \E q \in DOMAIN T : \E i \in ChildNos(T[q]) : Child(T[q], i) = c
      /\ \A q, x \in DOMAIN T : \A i \in ChildNos(T[q]), k \in ChildNos(T[x]) :
            Child(T[q], i) = Child(T[x], k) => q = x /\ i = k
  BY <1>1, SplitOnce
<1>6. Hung(T)
  BY <1>4, <1>5 DEF Hung
<1> QED
  BY <1>2, <1>6 DEF Shaped

\* The entries of the halves.
LEMMA SplitEntries ==
    ASSUME NEW B, NEW T, NEW pg, NEW new, NEW u, NEW j, NEW mid, BTree(B, pg), Split(B, T, pg, new, u, j, mid)
    PROVE  /\ Low(T, new) = Low(B, pg) /\ Top(T, pg) = Top(B, pg)
           /\ Top(T, new) = B[pg].entries[mid].e
           /\ Less(Top(T, new), Low(T, pg)) /\ Increasing(T[new].entries) /\ Increasing(T[pg].entries)
<1>1. Shaped(B) /\ PagesOK(B) /\ \A q \in DOMAIN B : SortedAt(B, q)
  BY TreeParts
<1>2. PagesOK(T) /\ pg \in DOMAIN B /\ Len(B[pg].entries) \in Nat /\ pg # Root /\ Root # new
  BY <1>1, SplitPages
<1>3. /\ DOMAIN T = DOMAIN B \cup {new} /\ mid \in Nat /\ 1 <= mid /\ mid < Len(B[pg].entries)
      /\ Len(T[new].entries) = mid /\ (\A k \in 1 .. mid : T[new].entries[k] = B[pg].entries[k])
      /\ Len(T[pg].entries) = Len(B[pg].entries) - mid
      /\ \A k \in 1 .. Len(B[pg].entries) - mid : T[pg].entries[k] = B[pg].entries[mid + k]
  BY DEF Split
<1> DEFINE s == B[pg].entries
           n == Len(s)
           low == T[new].entries
           high == T[pg].entries
<1>4. DOMAIN s = 1 .. n /\ DOMAIN low = 1 .. mid /\ DOMAIN high = 1 .. n - mid
  <2>1. pg \in DOMAIN T /\ new \in DOMAIN T
    BY <1>2, <1>3
  <2>2. DOMAIN s = 1 .. Len(s) /\ DOMAIN low = 1 .. Len(low) /\ DOMAIN high = 1 .. Len(high)
    BY <1>1, <1>2, <2>1, PageFacts
  <2> QED
    BY <1>3, <2>2
<1>5. Increasing(s)
  BY <1>1, <1>2 DEF SortedAt
<1>6. low # << >> /\ high # << >> /\ s # << >>
  BY <1>2, <1>3
<1>7. low[1] = s[1] /\ low[mid] = s[mid] /\ high[1] = s[mid + 1] /\ high[n - mid] = s[n]
  <2>1. 1 \in 1 .. mid /\ mid \in 1 .. mid /\ 1 \in 1 .. n - mid /\ n - mid \in 1 .. n - mid /\ mid + (n - mid) = n
    BY <1>2, <1>3
  <2>2. high[n - mid] = s[mid + (n - mid)]
    BY <1>3, <2>1
  <2> QED
    BY <1>3, <2>1, <2>2
<1>8. /\ Low(T, new) = low[1].e /\ Top(T, new) = low[mid].e /\ Low(T, pg) = high[1].e /\ Top(T, pg) = high[n - mid].e
      /\ Low(B, pg) = s[1].e /\ Top(B, pg) = s[n].e
  <2>1. pg \in DOMAIN T /\ new \in DOMAIN T
    BY <1>2, <1>3
  <2>2. Low(T, new) = low[1].e /\ Top(T, new) = low[Len(low)].e
    BY <1>2, <1>6, <2>1, EndsAre
  <2>3. Low(T, pg) = high[1].e /\ Top(T, pg) = high[Len(high)].e
    BY <1>2, <1>6, <2>1, EndsAre
  <2>4. Low(B, pg) = s[1].e /\ Top(B, pg) = s[n].e
    BY <1>1, <1>2, <1>6, EndsAre
  <2> QED
    BY <1>3, <2>2, <2>3, <2>4
<1>9. Less(s[mid].e, s[mid + 1].e)
  <2>1. mid \in 1 .. n /\ mid + 1 \in 1 .. n /\ mid < mid + 1
    BY <1>2, <1>3
  <2> QED
    BY <1>4, <1>5, <2>1 DEF Increasing
<1>10. Increasing(low)
  <2> SUFFICES ASSUME NEW k \in 1 .. mid, NEW l \in 1 .. mid, k < l PROVE Less(low[k].e, low[l].e)
    BY <1>4 DEF Increasing
  <2>1. k \in 1 .. n /\ l \in 1 .. n
    BY <1>2, <1>3
  <2> QED
    BY <1>3, <1>4, <1>5, <2>1 DEF Increasing
<1>11. Increasing(high)
  <2> SUFFICES ASSUME NEW k \in 1 .. n - mid, NEW l \in 1 .. n - mid, k < l PROVE Less(high[k].e, high[l].e)
    BY <1>4 DEF Increasing
  <2>1. mid + k \in 1 .. n /\ mid + l \in 1 .. n /\ mid + k < mid + l
    BY <1>2, <1>3
  <2>2. high[k] = s[mid + k] /\ high[l] = s[mid + l]
    BY <1>3
  <2> QED
    BY <1>4, <1>5, <2>1, <2>2 DEF Increasing
<1> QED
  BY <1>7, <1>8, <1>9, <1>10, <1>11

\* With exact dividers in the parent, the halves hang in a B-tree.
LEMMA SplitTree ==
    ASSUME NEW B, NEW T, NEW pg, NEW new, NEW u, NEW j, NEW mid, BTree(B, pg), Split(B, T, pg, new, u, j, mid),
           \A k \in 1 .. Len(T[u].entries) : T[u].entries[k].e = Top(T, T[u].entries[k].child)
    PROVE  BTree(T, u) /\ Indexed(T) = Indexed(B)
<1>1. Shaped(B) /\ PagesOK(B) /\ \A q \in DOMAIN B : SortedAt(B, q)
  BY TreeParts
<1>2. /\ PagesOK(T) /\ pg \in DOMAIN B /\ pg # Root /\ pg # 0 /\ pg # u /\ u # new /\ pg # new
      /\ B[pg].level + 1 = B[u].level /\ B[u].level \in Nat /\ B[pg].level \in Nat
      /\ ~ Leaf(B[u]) /\ ~ Leaf(T[u])
  BY <1>1, SplitPages
<1>3. /\ u \in DOMAIN B /\ j \in ChildNos(B[u]) /\ Child(B[u], j) = pg /\ new # 0 /\ new \notin DOMAIN B
      /\ DOMAIN T = DOMAIN B \cup {new}
      /\ T[new].next = pg /\ T[new].level = B[pg].level
      /\ \A x \in DOMAIN B :
            /\ T[x].level = B[x].level /\ T[x].next = (IF B[x].next = pg THEN new ELSE B[x].next)
            /\ x \notin {pg, u} => T[x].entries = B[x].entries
  BY DEF Split
<1>4. Shaped(T)
  BY SplitHung
<1>5. /\ Low(T, new) = Low(B, pg) /\ Top(T, pg) = Top(B, pg)
      /\ Less(Top(T, new), Low(T, pg)) /\ Increasing(T[new].entries) /\ Increasing(T[pg].entries)
  BY SplitEntries
<1>6. \A c \in DOMAIN B : c # u => Top(T, c) = Top(B, c)
  BY <1>3, <1>5 DEF Top
<1>7. ASSUME NEW q \in DOMAIN T, q # u, NEW i \in 1 .. Len(T[q].entries), ~ Leaf(T[q]), T[q].entries[i].child # u
      PROVE  T[q].entries[i].e = Top(T, T[q].entries[i].child)
  <2> DEFINE x == WasPage(q, pg, new)
             k == WasNo(q, i, pg, u, j, mid)
  <2>1. i \in ChildNos(T[q]) /\ T[q].entries[i].child = Child(T[q], i) /\ i \in Nat /\ i <= Len(T[q].entries)
    <3>1. Len(T[q].entries) \in Nat
      BY <1>2, <1>7, NodeFacts
    <3> QED
      BY <1>2, <1>7, <3>1, NodeFacts
  <2>2. /\ x \in DOMAIN B /\ k \in ChildNos(B[x]) /\ Child(T[q], i) = Child(B[x], k) /\ k <= Len(B[x].entries)
    BY <1>1, <1>7, <2>1, SplitSlot
  <2>3. T[q].entries[i] = B[x].entries[k]
    <3>1. Len(B[pg].entries) \in Nat /\ mid \in Nat
      <4>1. Len(B[pg].entries) \in Nat
        BY <1>1, SplitPages
      <4>2. mid \in Nat
        BY DEF Split
      <4> QED
        BY <4>1, <4>2
    <3>2. CASE q = new
      <4>1. x = pg /\ k = i /\ Len(T[new].entries) = mid
        BY <1>2, <3>2 DEF WasPage, WasNo, Split
      <4>2. i \in 1 .. mid
        BY <1>7, <3>2, <4>1
      <4> HIDE DEF x, k
      <4> QED
        BY <3>2, <4>1, <4>2 DEF Split
    <3>3. CASE q = pg
      <4>1. x = pg /\ k = i + mid /\ Len(T[pg].entries) = Len(B[pg].entries) - mid
        BY <1>2, <3>3 DEF WasPage, WasNo, Split
      <4>2. i \in 1 .. Len(B[pg].entries) - mid /\ i + mid = mid + i
        BY <1>7, <3>1, <3>3, <4>1
      <4> HIDE DEF x, k
      <4> QED
        BY <3>3, <4>1, <4>2 DEF Split
    <3>4. CASE q \notin {new, pg}
      <4>1. x = q /\ k = i
        BY <1>7, <3>4 DEF WasPage, WasNo
      <4>2. q \in DOMAIN B /\ T[q].entries = B[q].entries
        BY <1>3, <1>7, <3>4
      <4> HIDE DEF x, k
      <4> QED
        BY <4>1, <4>2
    <3> QED
      BY <3>2, <3>3, <3>4
  <2>4. ~ (x = u /\ k = j)
    <3>1. x # u
      BY <1>2, <1>7 DEF WasPage
    <3> QED
      BY <3>1
  <2> HIDE DEF x, k
  <2>5. k \in 1 .. Len(B[x].entries) /\ ~ Leaf(B[x]) /\ B[x].entries[k].child = Child(B[x], k)
    <3>1. ~ Leaf(B[x]) /\ k \in Nat /\ 1 <= k /\ Len(B[x].entries) \in Nat
      BY <1>1, <2>2, NodeNos
    <3>2. k \in 1 .. Len(B[x].entries)
      BY <2>2, <3>1
    <3> QED
      BY <1>1, <2>2, <3>1, <3>2, NodeFacts
  <2>6. Child(B[x], k) # pg /\ Child(B[x], k) \in DOMAIN B
    <3>1. Child(B[x], k) # pg
      BY <1>1, <1>3, <2>2, <2>4, SlotIs
    <3> QED
      BY <1>1, <2>2, <3>1, ChildFacts
  <2>7. B[x].entries[k].e = Top(B, Child(B[x], k))
    BY <2>2, <2>5, <2>6, Dividers
  <2> QED
    BY <1>6, <1>7, <2>1, <2>2, <2>3, <2>6, <2>7
<1>8. Divided(T, u)
  <2> SUFFICES ASSUME NEW q \in DOMAIN T, NEW i \in DOMAIN T[q].entries, ~ Leaf(T[q]), T[q].entries[i].child # u
               PROVE  T[q].entries[i].e = Last(T[T[q].entries[i].child].entries).e
    BY DEF Divided
  <2>1. i \in 1 .. Len(T[q].entries)
    BY <1>2, PageFacts
  <2> QED
    BY <1>7, <2>1 DEF Top
<1>9. ASSUME NEW q \in DOMAIN T, T[q].level # T[u].level PROVE SortedAt(T, q)
  <2>1. CASE q = new
    BY <1>2, <1>3, <1>5, <2>1 DEF SortedAt
  <2>2. CASE q # new
    <3>1. q \in DOMAIN B /\ q # u /\ SortedAt(B, q)
      BY <1>1, <1>3, <1>9, <2>2
    <3>2. Increasing(T[q].entries)
      <4>1. CASE q = pg
        BY <1>5, <4>1
      <4>2. CASE q # pg
        BY <1>3, <3>1, <4>2 DEF SortedAt
      <4> QED
        BY <4>1, <4>2
    <3>3. ASSUME T[q].next # 0 PROVE Less(Top(T, q), Low(T, T[q].next))
      <4>1. Top(T, q) = Top(B, q)
        BY <1>6, <3>1
      <4>2. CASE B[q].next = pg
        <5>1. T[q].next = new /\ Less(Top(B, q), Low(B, pg))
          BY <1>2, <1>3, <3>1, <4>2 DEF SortedAt
        <5> QED
          BY <1>5, <4>1, <5>1
      <4>3. CASE B[q].next # pg
        <5>1. T[q].next = B[q].next /\ B[q].next # 0
          BY <1>3, <3>1, <3>3, <4>3
        <5>2. B[q].next \in DOMAIN B /\ B[B[q].next].level = B[q].level
          BY <1>1, <3>1, <5>1, LinkFacts
        <5>3. B[q].next # u
          BY <1>3, <1>9, <3>1, <5>2
        <5>4. Low(T, B[q].next) = Low(B, B[q].next)
          BY <1>3, <4>3, <5>2, <5>3 DEF Low
        <5> QED
          BY <3>1, <4>1, <5>1, <5>4 DEF SortedAt
      <4> QED
        BY <4>2, <4>3
    <3> QED
      BY <3>2, <3>3 DEF SortedAt
  <2> QED
    BY <2>1, <2>2
<1>10. ASSUME NEW q \in DOMAIN T, T[q].level = T[u].level PROVE SortedAt(T, q)
  <2>1. ~ Leaf(T[q]) /\ T[u].level \in Nat /\ u \in DOMAIN T
    BY <1>2, <1>3, <1>10 DEF Leaf
  <2>2. ASSUME NEW x \in DOMAIN T, T[x].level + 1 = T[q].level PROVE SortedAt(T, x)
    <3>1. T[x].level \in Nat
      BY <1>2, PageFacts
    <3>2. T[x].level # T[u].level
      BY <1>10, <2>1, <2>2, <3>1
    <3> QED
      BY <1>9, <3>2
  <2>3. ASSUME NEW x \in DOMAIN T, T[x].level = T[q].level, NEW i \in 1 .. Len(T[x].entries)
        PROVE  T[x].entries[i].e = Top(T, Child(T[x], i))
    <3>1. ~ Leaf(T[x])
      BY <2>1, <2>3 DEF Leaf
    <3>2. i \in ChildNos(T[x]) /\ T[x].entries[i].child = Child(T[x], i)
      BY <1>2, <3>1, NodeFacts
    <3>3. T[Child(T[x], i)].level + 1 = T[x].level /\ Child(T[x], i) \in DOMAIN T
      BY <1>4, <3>2, ChildFacts
    <3>4. Child(T[x], i) # u
      <4>1. T[x].level = T[u].level
        BY <1>10, <2>3
      <4> QED
        BY <2>1, <3>3, <4>1
    <3> QED
      BY <1>7, <3>1, <3>2, <3>4
  <2> QED
    BY <1>4, <2>1, <2>2, <2>3, LevelSorted
<1>11. Sorted(T)
  BY <1>9, <1>10, SortedPages
<1>12. BTree(T, u)
  BY <1>4, <1>8, <1>11 DEF BTree, Shaped
<1>13. Indexed(T) = Indexed(B)
  <2>1. ASSUME NEW e, NEW q \in DOMAIN B, Leaf(B[q]), Holds(B, q, e)
        PROVE  \E x \in DOMAIN T : Leaf(T[x]) /\ Holds(T, x, e)
    <3>1. CASE q # pg
      <4>1. q # u
        BY <1>2, <2>1
      <4>2. T[q].entries = B[q].entries /\ T[q].level = B[q].level /\ q \in DOMAIN T
        BY <1>3, <3>1, <4>1
      <4> QED
        BY <2>1, <4>2 DEF Leaf, Holds
    <3>2. CASE q = pg
      <4>1. PICK k \in 1 .. Len(B[pg].entries) : B[pg].entries[k].e = e
        BY <2>1, <3>2 DEF Holds
      <4>2. /\ mid \in Nat /\ Len(T[new].entries) = mid
            /\ (\A l \in 1 .. mid : T[new].entries[l] = B[pg].entries[l])
            /\ Len(T[pg].entries) = Len(B[pg].entries) - mid
            /\ \A l \in 1 .. Len(B[pg].entries) - mid : T[pg].entries[l] = B[pg].entries[mid + l]
        BY DEF Split
      <4>3. Len(B[pg].entries) \in Nat
        BY <1>1, SplitPages
      <4>4. Leaf(T[new]) /\ Leaf(T[pg]) /\ pg \in DOMAIN T /\ new \in DOMAIN T
        BY <1>2, <1>3, <2>1, <3>2 DEF Leaf
      <4>5. CASE k <= mid
        <5>1. k \in 1 .. mid
          BY <4>2, <4>3, <4>5
        <5>2. Holds(T, new, e)
          BY <4>1, <4>2, <5>1 DEF Holds
        <5> QED
          BY <4>4, <5>2
      <4>6. CASE k > mid
        <5>1. k - mid \in 1 .. Len(B[pg].entries) - mid /\ mid + (k - mid) = k
          BY <4>2, <4>3, <4>6
        <5>2. T[pg].entries[k - mid] = B[pg].entries[mid + (k - mid)]
          BY <4>2, <5>1
        <5>3. Holds(T, pg, e)
          BY <4>1, <4>2, <5>1, <5>2 DEF Holds
        <5> QED
          BY <4>4, <5>3
      <4> QED
        BY <4>2, <4>3, <4>5, <4>6
    <3> QED
      BY <3>1, <3>2
  <2>2. ASSUME NEW e, NEW x \in DOMAIN T, Leaf(T[x]), Holds(T, x, e)
        PROVE  \E q \in DOMAIN B : Leaf(B[q]) /\ Holds(B, q, e)
    <3>1. PICK l \in 1 .. Len(T[x].entries) : T[x].entries[l].e = e
      BY <2>2 DEF Holds
    <3>2. /\ mid \in Nat /\ 1 <= mid /\ mid < Len(B[pg].entries) /\ Len(T[new].entries) = mid
          /\ (\A k \in 1 .. mid : T[new].entries[k] = B[pg].entries[k])
          /\ Len(T[pg].entries) = Len(B[pg].entries) - mid
          /\ \A k \in 1 .. Len(B[pg].entries) - mid : T[pg].entries[k] = B[pg].entries[mid + k]
      BY DEF Split
    <3>3. Len(B[pg].entries) \in Nat
      BY <1>1, SplitPages
    <3>4. CASE x = new
      <4>1. l \in 1 .. mid /\ l \in 1 .. Len(B[pg].entries)
        BY <3>1, <3>2, <3>3, <3>4
      <4>2. Leaf(B[pg]) /\ Holds(B, pg, e)
        BY <1>3, <2>2, <3>1, <3>2, <3>4, <4>1 DEF Leaf, Holds
      <4> QED
        BY <1>2, <4>2
    <3>5. CASE x = pg
      <4>1. l \in 1 .. Len(B[pg].entries) - mid /\ mid + l \in 1 .. Len(B[pg].entries)
        BY <3>1, <3>2, <3>3, <3>5
      <4>2. Leaf(B[pg]) /\ Holds(B, pg, e)
        BY <1>2, <1>3, <2>2, <3>1, <3>2, <3>5, <4>1 DEF Leaf, Holds
      <4> QED
        BY <1>2, <4>2
    <3>6. CASE x \notin {new, pg}
      <4>1. x # u
        BY <1>2, <2>2
      <4>2. x \in DOMAIN B /\ T[x].entries = B[x].entries /\ T[x].level = B[x].level
        BY <1>3, <3>6, <4>1
      <4> QED
        BY <2>2, <4>2 DEF Leaf, Holds
    <3> QED
      BY <3>4, <3>5, <3>6
  <2> QED
    BY <2>1, <2>2 DEF Indexed
<1> QED
  BY <1>12, <1>13

\* Among one number more than there are used ones, one is free.
LEMMA NewPageIs ==
    ASSUME NEW used, IsFiniteSet(used)
    PROVE  NewPage(used) \in Nat \ {0} /\ NewPage(used) \notin used
<1> DEFINE n == Cardinality(used)
<1>1. n \in Nat
  BY FS_CardinalityType
<1>2. \E q \in 1 .. n + 1 : q \notin used
  <2> SUFFICES ASSUME 1 .. n + 1 \subseteq used PROVE FALSE
    OBVIOUS
  <2>1. Cardinality(1 .. n + 1) <= n
    BY FS_Subset
  <2>2. Cardinality(1 .. n + 1) = n + 1
    <3> HIDE DEF n
    <3>1. 1 \in Int /\ n + 1 \in Int /\ 1 <= n + 1 /\ n + 1 - 1 + 1 = n + 1
      BY <1>1
    <3> QED
      BY <3>1, FS_Interval
  <2> HIDE DEF n
  <2> QED
    BY <1>1, <2>1, <2>2
<1> HIDE DEF n
<1>3. NewPage(used) \in 1 .. n + 1 /\ NewPage(used) \notin used
  BY <1>2 DEF NewPage, n
<1> QED
  BY <1>1, <1>3

HalfOf(s) == (Len(s) + 1) \div 2

\* The halves of a list that is one entry too long.
Halved(s, mid) ==
    /\ mid \in Nat /\ 1 <= mid /\ mid < Len(s) /\ mid <= PageSize /\ Len(s) - mid <= PageSize
    /\ SubSeq(s, 1, mid) \in Seq(ItemSet) /\ SubSeq(s, mid + 1, Len(s)) \in Seq(ItemSet)
    /\ Len(SubSeq(s, 1, mid)) = mid /\ Len(SubSeq(s, mid + 1, Len(s))) = Len(s) - mid
    /\ \A k \in 1 .. mid : SubSeq(s, 1, mid)[k] = s[k]
    /\ \A k \in 1 .. Len(s) - mid : SubSeq(s, mid + 1, Len(s))[k] = s[mid + k]

LEMMA Halves ==
    ASSUME NEW s \in Seq(ItemSet), Len(s) > PageSize, Len(s) <= PageSize + 1
    PROVE  Halved(s, HalfOf(s))
<1> DEFINE n == Len(s)
           mid == HalfOf(s)
<1>1. n \in Nat /\ PageSize \in Nat /\ PageSize >= 2 /\ n = PageSize + 1
  BY IndexConstants
<1>2. s \in [1 .. n -> ItemSet]
  OBVIOUS
<1>3. mid = (n + 1) \div 2
  BY DEF HalfOf
<1> HIDE DEF n, mid
<1>4. mid \in Nat /\ 1 <= mid /\ mid < n /\ mid <= PageSize /\ n - mid <= PageSize
  BY <1>1, <1>3
<1>5. /\ SubSeq(s, 1, mid) \in Seq(ItemSet) /\ Len(SubSeq(s, 1, mid)) = mid
      /\ \A k \in 1 .. mid : SubSeq(s, 1, mid)[k] = s[k]
  <2>1. \A k \in 1 .. mid : k \in 1 .. n /\ 1 + k - 1 = k
    BY <1>1, <1>4
  <2> QED
    BY <1>1, <1>2, <1>4, <2>1 DEF n
<1>6. /\ SubSeq(s, mid + 1, n) \in Seq(ItemSet) /\ Len(SubSeq(s, mid + 1, n)) = n - mid
      /\ \A k \in 1 .. n - mid : SubSeq(s, mid + 1, n)[k] = s[mid + k]
  <2>1. \A k \in 1 .. n - mid : mid + k \in 1 .. n /\ mid + 1 + k - 1 = mid + k
    BY <1>1, <1>4
  <2> QED
    BY <1>1, <1>2, <1>4, <2>1 DEF n
<1> QED
  BY <1>4, <1>5, <1>6 DEF n, mid, Halved

\* The pages splitPage has written, but for the parent.
Parted(P, pg, s, new, mid) ==
    LET old == P[pg]
        low == [old EXCEPT !.next = pg, !.tail = 0, !.entries = SubSeq(s, 1, mid)]
        high == [old EXCEPT !.prev = new, !.entries = SubSeq(s, mid + 1, Len(s))]
    IN  [q \in DOMAIN P \cup {new} |->
            IF q = new THEN low ELSE IF q = pg THEN high ELSE Peers(P, old, new)[q]]

PartedIs(Q, P, pg, s, new, mid) ==
    /\ DOMAIN Q = DOMAIN P \cup {new} /\ Typed(Q, {})
    /\ Q[new].level = P[pg].level /\ Q[new].prev = P[pg].prev /\ Q[new].next = pg /\ Q[new].tail = 0
    /\ Q[new].entries = SubSeq(s, 1, mid)
    /\ Q[pg].level = P[pg].level /\ Q[pg].prev = new /\ Q[pg].next = P[pg].next /\ Q[pg].tail = P[pg].tail
    /\ Q[pg].entries = SubSeq(s, mid + 1, Len(s))
    /\ \A q \in DOMAIN P : q # pg =>
         /\ Q[q].level = P[q].level /\ Q[q].prev = P[q].prev /\ Q[q].tail = P[q].tail
         /\ Q[q].entries = P[q].entries
         /\ Q[q].next = (IF q = P[pg].prev THEN new ELSE P[q].next)

LEMMA PartedFacts ==
    ASSUME NEW P, NEW none, Typed(P, none), NEW pg \in DOMAIN P, pg \in Nat, NEW s \in Seq(ItemSet),
           NEW mid, Halved(s, mid), NEW new \in Nat \ {0}, new \notin DOMAIN P
    PROVE  PartedIs(Parted(P, pg, s, new, mid), P, pg, s, new, mid)
<1> DEFINE low == [P[pg] EXCEPT !.next = pg, !.tail = 0, !.entries = SubSeq(s, 1, mid)]
           high == [P[pg] EXCEPT !.prev = new, !.entries = SubSeq(s, mid + 1, Len(s))]
           Q == Parted(P, pg, s, new, mid)
<1>0. SubSeq(s, 1, mid) \in Seq(ItemSet) /\ SubSeq(s, mid + 1, Len(s)) \in Seq(ItemSet)
  BY DEF Halved
<1>1. \A q \in DOMAIN P : P[q] \in Page
  BY DEF Typed
<1>2. low \in Page /\ high \in Page
  <2>1. P[pg] \in Page /\ new \in Nat /\ pg \in Nat
    BY <1>1
  <2>2. SubSeq(s, 1, mid) \in Seq([e : Entry, child : Nat]) /\ SubSeq(s, mid + 1, Len(s)) \in Seq([e : Entry, child : Nat])
    BY <1>0 DEF ItemSet
  <2> QED
    BY <2>1, <2>2 DEF Page
<1>3. /\ low.level = P[pg].level /\ low.prev = P[pg].prev /\ low.next = pg /\ low.tail = 0
      /\ low.entries = SubSeq(s, 1, mid)
      /\ high.level = P[pg].level /\ high.prev = new /\ high.next = P[pg].next /\ high.tail = P[pg].tail
      /\ high.entries = SubSeq(s, mid + 1, Len(s))
  BY <1>1 DEF Page
<1> DEFINE other(q) == IF q = P[pg].prev THEN [P[q] EXCEPT !.next = new] ELSE P[q]
<1>4. Q = [q \in DOMAIN P \cup {new} |-> IF q = new THEN low ELSE IF q = pg THEN high ELSE other(q)]
  BY DEF Parted, Peers
<1>5. \A q \in DOMAIN P :
        /\ other(q) \in Page /\ other(q).level = P[q].level /\ other(q).prev = P[q].prev /\ other(q).tail = P[q].tail
        /\ other(q).entries = P[q].entries
        /\ other(q).next = (IF q = P[pg].prev THEN new ELSE P[q].next)
  <2> TAKE q \in DOMAIN P
  <2>1. P[q] \in Page
    BY <1>1
  <2>2. CASE q = P[pg].prev
    <3> DEFINE r == [P[q] EXCEPT !.next = new]
    <3>1. other(q) = r
      BY <2>2
    <3>2. r \in Page /\ r.level = P[q].level /\ r.prev = P[q].prev /\ r.tail = P[q].tail /\ r.entries = P[q].entries
          /\ r.next = new
      BY <2>1 DEF Page
    <3> QED
      BY <2>2, <3>1, <3>2
  <2>3. CASE q # P[pg].prev
    BY <2>1, <2>3
  <2> QED
    BY <2>2, <2>3
<1> HIDE DEF low, high, other
<1>6. /\ DOMAIN Q = DOMAIN P \cup {new} /\ Q[new] = low /\ Q[pg] = high
      /\ \A q \in DOMAIN P : q # pg => Q[q] = other(q)
  BY <1>4
<1>7. Typed(Q, {})
  <2>1. \A q \in DOMAIN Q : Q[q] \in Page
    <3> TAKE q \in DOMAIN Q
    <3>1. q = new \/ q = pg \/ (q \in DOMAIN P /\ q # pg)
      BY <1>6
    <3> QED
      BY <1>2, <1>5, <1>6, <3>1
  <2>2. Q = [q \in DOMAIN Q |-> Q[q]]
    BY <1>4
  <2>3. 0 \notin DOMAIN Q
    BY <1>6 DEF Typed
  <2> HIDE DEF Q
  <2>4. Q \in [DOMAIN Q -> Page]
    BY <2>1, <2>2
  <2> QED
    BY <2>3, <2>4 DEF Typed
<1> HIDE DEF Q
<1>8. PartedIs(Q, P, pg, s, new, mid)
  BY <1>3, <1>5, <1>6, <1>7 DEF PartedIs
<1> QED
  BY <1>8 DEF Q

\* They are those of a split.
LEMMA PartedSplit ==
    ASSUME NEW P, NEW none, Typed(P, none), NEW pg \in DOMAIN P, NEW s \in Seq(ItemSet),
           NEW mid, Halved(s, mid),
           NEW new \in Nat \ {0}, new \notin DOMAIN P, BTree(At(P, pg, s), pg),
           NEW u \in DOMAIN P, NEW j \in ChildNos(At(P, pg, s)[u]), Child(At(P, pg, s)[u], j) = pg,
           NEW D \in Seq(ItemSet), Len(D) = Len(P[u].entries) + 1,
           \A k \in 1 .. Len(P[u].entries) + 1 :
              D[k].child = IF k < j THEN P[u].entries[k].child ELSE IF k = j THEN new ELSE P[u].entries[k - 1].child
    PROVE  Split(At(P, pg, s), At(Parted(P, pg, s, new, mid), u, D), pg, new, u, j, mid)
<1> DEFINE B == At(P, pg, s)
           Q == Parted(P, pg, s, new, mid)
           T == At(Q, u, D)
<1>1. /\ DOMAIN B = DOMAIN P /\ B[pg].entries = s
      /\ \A q \in DOMAIN P :
            /\ q # pg => B[q] = P[q]
            /\ B[q].level = P[q].level /\ B[q].prev = P[q].prev /\ B[q].next = P[q].next /\ B[q].tail = P[q].tail
  BY TypedAt
<1>0. BTree(B, pg) /\ u \in DOMAIN P /\ j \in ChildNos(B[u]) /\ Child(B[u], j) = pg
  OBVIOUS
<1> HIDE DEF B
<1>2. Shaped(B) /\ PagesOK(B) /\ pg \in Nat /\ pg # 0
  BY <1>0, <1>1, TreeParts, PageFacts
<1>3. u # pg /\ u # new /\ B[pg].level + 1 = B[u].level
  <2>1. pg \in DOMAIN B /\ B[pg].level + 1 = B[u].level /\ B[pg].level \in Nat
    BY <1>0, <1>1, <1>2, ChildFacts, PageFacts
  <2>2. pg # u
    BY <2>1
  <2> QED
    BY <2>1, <2>2
<1>4. /\ DOMAIN Q = DOMAIN P \cup {new} /\ Typed(Q, {})
      /\ Q[new].level = P[pg].level /\ Q[new].prev = P[pg].prev /\ Q[new].next = pg /\ Q[new].tail = 0
      /\ Q[new].entries = SubSeq(s, 1, mid)
      /\ Q[pg].level = P[pg].level /\ Q[pg].prev = new /\ Q[pg].next = P[pg].next /\ Q[pg].tail = P[pg].tail
      /\ Q[pg].entries = SubSeq(s, mid + 1, Len(s))
      /\ \A q \in DOMAIN P : q # pg =>
           /\ Q[q].level = P[q].level /\ Q[q].prev = P[q].prev /\ Q[q].tail = P[q].tail
           /\ Q[q].entries = P[q].entries
           /\ Q[q].next = (IF q = P[pg].prev THEN new ELSE P[q].next)
  <2>1. PartedIs(Q, P, pg, s, new, mid)
    BY <1>2, PartedFacts
  <2> HIDE DEF Q
  <2> QED
    BY <2>1 DEF PartedIs
<1> HIDE DEF Q
<1>5. /\ DOMAIN T = DOMAIN Q /\ Typed(T, {}) /\ T[u].entries = D
      /\ \A q \in DOMAIN Q :
            /\ q # u => T[q] = Q[q]
            /\ T[q].level = Q[q].level /\ T[q].prev = Q[q].prev /\ T[q].next = Q[q].next /\ T[q].tail = Q[q].tail
  <2> DEFINE empty == {}
  <2>1. Typed(Q, empty) /\ u \in DOMAIN Q
    BY <1>4
  <2> HIDE DEF empty
  <2>2. /\ DOMAIN T = DOMAIN Q /\ Typed(T, empty) /\ T[u].entries = D
        /\ \A q \in DOMAIN Q :
            /\ q # u => T[q] = Q[q]
            /\ T[q].level = Q[q].level /\ T[q].prev = Q[q].prev /\ T[q].next = Q[q].next /\ T[q].tail = Q[q].tail
    BY <2>1, TypedAt
  <2> QED
    BY <2>2 DEF empty
<1> HIDE DEF T
<1>6. /\ mid \in Nat /\ 1 <= mid /\ mid < Len(s)
      /\ Len(SubSeq(s, 1, mid)) = mid /\ Len(SubSeq(s, mid + 1, Len(s))) = Len(s) - mid
      /\ \A k \in 1 .. mid : SubSeq(s, 1, mid)[k] = s[k]
      /\ \A k \in 1 .. Len(s) - mid : SubSeq(s, mid + 1, Len(s))[k] = s[mid + k]
  BY DEF Halved
<1>7. /\ T[new].level = B[pg].level /\ T[new].prev = B[pg].prev /\ T[new].next = pg /\ T[new].tail = 0
      /\ Len(T[new].entries) = mid /\ \A k \in 1 .. mid : T[new].entries[k] = B[pg].entries[k]
  BY <1>1, <1>3, <1>4, <1>5, <1>6
<1>8. /\ Len(T[pg].entries) = Len(B[pg].entries) - mid
      /\ \A k \in 1 .. Len(B[pg].entries) - mid : T[pg].entries[k] = B[pg].entries[mid + k]
  <2>1. B[pg].entries = s
    BY <1>1
  <2>2. T[pg].entries = SubSeq(s, mid + 1, Len(s))
    BY <1>3, <1>4, <1>5
  <2> QED
    BY <1>6, <2>1, <2>2
<1>9. ASSUME NEW q \in DOMAIN B
      PROVE  /\ T[q].level = B[q].level /\ T[q].tail = B[q].tail
             /\ T[q].prev = (IF q = pg THEN new ELSE B[q].prev)
             /\ T[q].next = (IF B[q].next = pg THEN new ELSE B[q].next)
             /\ q \notin {pg, u} => T[q].entries = B[q].entries
  <2>1. q \in DOMAIN P /\ q \in DOMAIN Q /\ pg \in DOMAIN B /\ q # 0
    BY <1>1, <1>2, <1>4, PageFacts
  <2>2. B[q].next = pg <=> q = B[pg].prev
    BY <1>2, <2>1, LinkFacts
  <2>3. CASE q = pg
    <3>1. B[pg].next # pg
      BY <1>0, <1>1, NoLoop
    <3> QED
      BY <1>1, <1>4, <1>5, <2>1, <2>3, <3>1
  <2>4. CASE q # pg
    BY <1>1, <1>4, <1>5, <2>1, <2>2, <2>4
  <2> QED
    BY <2>3, <2>4
<1>10. DOMAIN T = DOMAIN B \cup {new} /\ T \in [DOMAIN T -> Page]
  BY <1>1, <1>4, <1>5 DEF Typed
<1>11. /\ Len(T[u].entries) = Len(B[u].entries) + 1
       /\ \A k \in 1 .. Len(B[u].entries) + 1 :
            T[u].entries[k].child = IF k < j THEN B[u].entries[k].child
                                    ELSE IF k = j THEN new ELSE B[u].entries[k - 1].child
  BY <1>1, <1>3, <1>5
<1>12. Split(B, T, pg, new, u, j, mid)
  BY <1>0, <1>1, <1>6, <1>7, <1>8, <1>9, <1>10, <1>11 DEF Split
<1> QED
  BY <1>12 DEF T, Q, B

\* The children of d, with their largest entries.
Exact(kept, P, d) ==
    /\ kept \in Seq(ItemSet) /\ Len(kept) = Len(d)
    /\ \A k \in 1 .. Len(kept) : kept[k].child = d[k].child /\ kept[k].e = Top(P, kept[k].child)

\* The parent of a split page, and its dividers.
Resplit(T, D, u, B, d) ==
    D \in Seq(ItemSet) /\ Len(D) = Len(d) + 1 /\ BTree(T, u) /\ Indexed(T) = Indexed(B)

\* The new divider goes before that of the upper half.
LEMMA SplitDividers ==
    ASSUME NEW P, NEW none, Typed(P, none), NEW pg \in DOMAIN P, NEW s \in Seq(ItemSet),
           NEW mid, Halved(s, mid),
           NEW new \in Nat \ {0}, new \notin DOMAIN P, BTree(At(P, pg, s), pg),
           NEW u \in DOMAIN P, NEW j \in ChildNos(At(P, pg, s)[u]), Child(At(P, pg, s)[u], j) = pg,
           NEW kept, Exact(kept, At(P, pg, s), P[u].entries)
    PROVE  Resplit(At(Parted(P, pg, s, new, mid), u, Inserted(kept, Item(s[mid].e, new))),
                   Inserted(kept, Item(s[mid].e, new)), u, At(P, pg, s), P[u].entries)
<1> DEFINE B == At(P, pg, s)
           x == Item(s[mid].e, new)
           n == Len(P[u].entries)
           D == [k \in 1 .. n + 1 |-> IF k < j THEN kept[k] ELSE IF k = j THEN x ELSE kept[k - 1]]
           Q == Parted(P, pg, s, new, mid)
           T == At(Q, u, D)
<1>a. Exact(kept, B, P[u].entries)
  OBVIOUS
<1>b. kept \in Seq(ItemSet) /\ Len(kept) = n
  BY <1>a DEF Exact
<1>1. /\ DOMAIN B = DOMAIN P /\ B[pg].entries = s
      /\ \A q \in DOMAIN P :
            /\ q # pg => B[q] = P[q]
            /\ B[q].level = P[q].level /\ B[q].prev = P[q].prev /\ B[q].next = P[q].next /\ B[q].tail = P[q].tail
  BY TypedAt
<1>2. BTree(B, pg) /\ u \in DOMAIN B /\ pg \in DOMAIN B /\ j \in ChildNos(B[u]) /\ Child(B[u], j) = pg
  BY <1>1
<1> HIDE DEF B
<1>3. Shaped(B) /\ PagesOK(B)
  BY <1>2, TreeParts
<1>4. /\ B[pg].level + 1 = B[u].level /\ B[pg].level \in Nat /\ u # pg /\ ~ Leaf(B[u])
      /\ n \in Nat /\ j \in Nat /\ 1 <= j /\ j <= n + 1 /\ B[u].entries = P[u].entries
      /\ Len(B[u].entries) = n
  <2>1. B[pg].level + 1 = B[u].level /\ ~ Leaf(B[u]) /\ Len(B[u].entries) \in Nat /\ j \in Nat /\ 1 <= j
        /\ j <= Len(B[u].entries) + 1
    BY <1>2, <1>3, ChildFacts
  <2>2. B[pg].level \in Nat
    BY <1>2, <1>3, PageFacts
  <2>3. u # pg
    BY <2>1, <2>2
  <2>4. B[u].entries = P[u].entries
    BY <1>1, <2>3
  <2> QED
    BY <2>1, <2>2, <2>3, <2>4
<1>5. \A k \in 1 .. n : kept[k] \in ItemSet
  BY <1>b
<1>6. x \in ItemSet /\ x.child = new /\ x.e = s[mid].e
  <2>1. mid \in 1 .. Len(s)
    <3>1. Len(s) \in Nat /\ mid \in Nat /\ 1 <= mid /\ mid < Len(s)
      BY DEF Halved
    <3> QED
      BY <3>1
  <2>2. s[mid] \in ItemSet
    BY <2>1
  <2> QED
    BY <2>2 DEF Item, ItemSet
<1>0. \A k \in 1 .. Len(kept) : kept[k].child = P[u].entries[k].child /\ kept[k].e = Top(B, kept[k].child)
  BY <1>a DEF Exact
<1> HIDE DEF n, x
<1>7. /\ D \in Seq(ItemSet) /\ Len(D) = n + 1
      /\ \A k \in 1 .. n + 1 : D[k] = IF k < j THEN kept[k] ELSE IF k = j THEN x ELSE kept[k - 1]
  <2>1. \A k \in 1 .. n + 1 : /\ k < j => k \in 1 .. n
                              /\ k > j => k - 1 \in 1 .. n
    BY <1>4
  <2>2. \A k \in 1 .. n + 1 : (IF k < j THEN kept[k] ELSE IF k = j THEN x ELSE kept[k - 1]) \in ItemSet
    BY <1>4, <1>5, <1>6, <2>1
  <2>3. n + 1 \in Nat
    BY <1>4
  <2> QED
    BY <2>2, <2>3
<1> HIDE DEF D
<1>8. Split(B, T, pg, new, u, j, mid)
  <2>1. \A k \in 1 .. n + 1 :
           D[k].child = IF k < j THEN P[u].entries[k].child ELSE IF k = j THEN new ELSE P[u].entries[k - 1].child
    <3> TAKE k \in 1 .. n + 1
    <3>1. /\ k < j => k \in 1 .. n
          /\ k > j => k - 1 \in 1 .. n
      BY <1>4
    <3>2. CASE k < j
      BY <1>0, <1>7, <1>b, <3>1, <3>2 DEF n
    <3>3. CASE k = j
      BY <1>4, <1>6, <1>7, <3>3
    <3>4. CASE k > j
      <4>1. D[k] = kept[k - 1]
        BY <1>4, <1>7, <3>4
      <4>2. ~ (k < j) /\ k # j
        BY <1>4, <3>4
      <4> QED
        BY <1>0, <1>b, <3>1, <3>4, <4>1, <4>2 DEF n
    <3> QED
      BY <1>4, <3>2, <3>3, <3>4
  <2>2. Len(D) = Len(P[u].entries) + 1
    BY <1>7 DEF n
  <2>3. \A k \in 1 .. Len(P[u].entries) + 1 :
           D[k].child = IF k < j THEN P[u].entries[k].child ELSE IF k = j THEN new ELSE P[u].entries[k - 1].child
    BY <2>1 DEF n
  <2>4. BTree(At(P, pg, s), pg) /\ j \in ChildNos(At(P, pg, s)[u]) /\ Child(At(P, pg, s)[u], j) = pg
    BY <1>2 DEF B
  <2>5. D \in Seq(ItemSet)
    BY <1>7
  <2> QED
    BY <2>2, <2>3, <2>4, <2>5, PartedSplit DEF B
<1>9. T[u].entries = D /\ \A q \in DOMAIN B : q \notin {pg, u} => T[q].entries = B[q].entries
  <2>1. Typed(Q, {}) /\ u \in DOMAIN Q
    <3>1. PartedIs(Q, P, pg, s, new, mid)
      <4>1. pg \in Nat
        BY <1>2, <1>3, PageFacts
      <4> QED
        BY <4>1, PartedFacts
    <3> HIDE DEF Q
    <3> QED
      BY <3>1 DEF PartedIs
  <2> HIDE DEF Q
  <2>2. T[u].entries = D
    BY <1>7, <2>1, TypedAt
  <2>3. \A q \in DOMAIN B : q \notin {pg, u} => T[q].entries = B[q].entries
    BY <1>8 DEF Split
  <2> QED
    BY <2>2, <2>3
<1> HIDE DEF T
<1>10. Top(T, pg) = Top(B, pg) /\ Top(T, new) = s[mid].e
  <2>1. Top(T, pg) = Top(B, pg) /\ Top(T, new) = B[pg].entries[mid].e
    BY <1>2, <1>8, SplitEntries
  <2> QED
    BY <1>1, <2>1
<1>11. \A k \in 1 .. n : kept[k].e = Top(T, kept[k].child)
  <2> TAKE k \in 1 .. n
  <2>1. k \in ChildNos(B[u]) /\ kept[k].child = Child(B[u], k) /\ kept[k].e = Top(B, kept[k].child)
    <3>1. k \in ChildNos(B[u]) /\ Child(B[u], k) = B[u].entries[k].child
      BY <1>2, <1>3, <1>4, NodeFacts
    <3> QED
      BY <1>0, <1>4, <1>b, <3>1 DEF n
  <2>2. Child(B[u], k) \in DOMAIN B /\ B[Child(B[u], k)].level + 1 = B[u].level
    BY <1>2, <1>3, <2>1, ChildFacts
  <2>3. Child(B[u], k) # u
    BY <1>4, <2>2
  <2>4. CASE kept[k].child = pg
    BY <1>10, <2>1, <2>4
  <2>5. CASE kept[k].child # pg
    BY <1>9, <2>1, <2>2, <2>3, <2>5 DEF Top
  <2> QED
    BY <2>4, <2>5
<1>12. \A k \in 1 .. n + 1 : D[k].e = Top(T, D[k].child)
  <2> TAKE k \in 1 .. n + 1
  <2>1. /\ k < j => k \in 1 .. n
        /\ k > j => k - 1 \in 1 .. n
    BY <1>4
  <2>2. CASE k < j
    BY <1>7, <1>11, <2>1, <2>2
  <2>3. CASE k = j
    BY <1>4, <1>6, <1>7, <1>10, <2>3
  <2>4. CASE k > j
    <3>1. D[k] = kept[k - 1]
      BY <1>4, <1>7, <2>4
    <3> QED
      BY <1>11, <2>1, <2>4, <3>1
  <2> QED
    BY <1>4, <2>2, <2>3, <2>4
<1>13. BTree(T, u) /\ Indexed(T) = Indexed(B)
  BY <1>2, <1>7, <1>8, <1>9, <1>12, SplitTree
<1>14. Increasing(D)
  <2>1. u \in DOMAIN T
    BY <1>2, <1>8 DEF Split
  <2>2. SortedAt(T, u)
    BY <1>13, <2>1, TreeParts
  <2> QED
    BY <1>9, <2>2 DEF SortedAt
<1>15. RemoveAt(D, j) = kept
  <2>1. /\ RemoveAt(D, j) \in Seq(ItemSet) /\ Len(RemoveAt(D, j)) = n
        /\ \A k \in 1 .. n : RemoveAt(D, j)[k] = IF k < j THEN D[k] ELSE D[k + 1]
    <3>1. D \in Seq(ItemSet) /\ j \in DOMAIN D
      BY <1>4, <1>7
    <3>2. /\ RemoveAt(D, j) \in Seq(ItemSet) /\ Len(RemoveAt(D, j)) = Len(D) - 1
          /\ \A k \in 1 .. Len(D) - 1 : RemoveAt(D, j)[k] = IF k < j THEN D[k] ELSE D[k + 1]
      BY <3>1, RemoveAtAt
    <3>3. Len(D) - 1 = n
      BY <1>4, <1>7
    <3> QED
      BY <3>2, <3>3
  <2>2. \A k \in 1 .. n : RemoveAt(D, j)[k] = kept[k]
    <3> TAKE k \in 1 .. n
    <3>1. k \in 1 .. n + 1 /\ k + 1 \in 1 .. n + 1 /\ k + 1 - 1 = k /\ (~ (k < j) => ~ (k + 1 < j) /\ k + 1 # j)
      BY <1>4
    <3>2. CASE k < j
      BY <1>7, <2>1, <3>1, <3>2
    <3>3. CASE ~ (k < j)
      <4>1. D[k + 1] = kept[k + 1 - 1]
        BY <1>7, <3>1, <3>3
      <4> QED
        BY <2>1, <3>1, <3>3, <4>1
    <3> QED
      BY <3>2, <3>3
  <2>3. Len(kept) = n /\ kept \in Seq(ItemSet)
    BY <1>b
  <2> QED
    BY <2>1, <2>2, <2>3, SameSeq
<1>16. Inserted(kept, x) = D
  <2>1. j \in 1 .. Len(D) /\ D[j] = x
    BY <1>4, <1>7
  <2>2. Inserted(RemoveAt(D, j), D[j]) = D
    BY <1>7, <1>14, <2>1, InsertedBack
  <2> QED
    BY <1>15, <2>1, <2>2
<1> QED
  BY <1>7, <1>13, <1>16 DEF x, n, T, Q, B, Resplit

\* The parent's dividers, with the new largest entry of the upper half.
KeptOf(P, Q, u, pg) ==
    LET max == SubtreeMax(Q, pg)
        d == P[u].entries
    IN  IF SubtreeMax(P, pg) \in {None, max} THEN d
        ELSE [j \in DOMAIN d |-> IF d[j].child = pg THEN Item(max, pg) ELSE d[j]]

LEMMA KeptIs ==
    ASSUME NEW P, NEW none, Typed(P, none), NEW pg \in DOMAIN P, NEW s \in Seq(ItemSet), BTree(At(P, pg, s), pg),
           NEW u \in DOMAIN P, NEW j \in ChildNos(At(P, pg, s)[u]), Child(At(P, pg, s)[u], j) = pg,
           P[pg].entries # << >>,
           \A k \in 1 .. Len(P[u].entries) : P[u].entries[k].child = pg => P[u].entries[k].e = Top(P, pg),
           NEW Q, Q[pg].level = P[pg].level, Q[pg].tail = P[pg].tail, Q[pg].entries # << >>,
           Last(Q[pg].entries).e = Last(s).e
    PROVE  Exact(KeptOf(P, Q, u, pg), At(P, pg, s), P[u].entries)
<1> DEFINE B == At(P, pg, s)
           d == P[u].entries
           n == Len(d)
           kept == KeptOf(P, Q, u, pg)
<1>1. /\ DOMAIN B = DOMAIN P /\ B[pg].entries = s
      /\ \A q \in DOMAIN P :
            /\ q # pg => B[q] = P[q]
            /\ B[q].level = P[q].level /\ B[q].prev = P[q].prev /\ B[q].next = P[q].next /\ B[q].tail = P[q].tail
  BY TypedAt
<1>2. BTree(B, pg) /\ u \in DOMAIN B /\ pg \in DOMAIN B /\ j \in ChildNos(B[u]) /\ Child(B[u], j) = pg
  BY <1>1
<1> HIDE DEF B
<1>3. Shaped(B) /\ PagesOK(B)
  BY <1>2, TreeParts
<1>4. /\ B[pg].level + 1 = B[u].level /\ B[pg].level \in Nat /\ u # pg /\ ~ Leaf(B[u]) /\ B[u].entries = d
      /\ d \in Seq(ItemSet) /\ n \in Nat /\ DOMAIN d = 1 .. n /\ pg \in Nat
  <2>1. B[pg].level + 1 = B[u].level /\ ~ Leaf(B[u])
    BY <1>2, <1>3, ChildFacts
  <2>2. B[pg].level \in Nat /\ pg \in Nat
    BY <1>2, <1>3, PageFacts
  <2>3. u # pg
    BY <2>1, <2>2
  <2>4. B[u].entries = d
    BY <1>1, <2>3
  <2>5. d \in Seq(ItemSet) /\ Len(d) \in Nat /\ DOMAIN d = 1 .. Len(d)
    BY <1>2, <1>3, <2>4, PageFacts
  <2> QED
    BY <2>1, <2>2, <2>3, <2>4, <2>5
<1>5. pg # Root /\ s # << >>
  <2>1. pg # Root /\ B[pg].entries # << >>
    BY <1>2, <1>3, ChildFacts
  <2> QED
    BY <1>1, <2>1
<1>6. Top(B, pg) = Last(s).e /\ Top(B, pg) \in Entry
  BY <1>1, <1>5, LastHead DEF Top
<1>0. \A k \in 1 .. n : d[k].child = pg => d[k].e = Top(P, pg)
  OBVIOUS
<1> HIDE DEF d
<1>7. ASSUME NEW k \in 1 .. n PROVE d[k] \in ItemSet /\ d[k].child = Child(B[u], k) /\ k \in ChildNos(B[u])
                                   /\ (d[k].child # pg => d[k].e = Top(B, d[k].child))
  <2>1. k \in 1 .. Len(B[u].entries) /\ u \in DOMAIN B /\ ~ Leaf(B[u])
    BY <1>2, <1>4
  <2>2. k \in ChildNos(B[u]) /\ B[u].entries[k].child = Child(B[u], k)
        /\ (Child(B[u], k) # pg => B[u].entries[k].e = Top(B, Child(B[u], k)))
    BY <1>2, <2>1, Dividers
  <2>3. d[k] \in ItemSet
    BY <1>4
  <2> QED
    BY <1>4, <2>2, <2>3
<1>8. ASSUME NEW k \in 1 .. n, d[k].child = pg
      PROVE  SubtreeMax(P, pg) = Top(P, pg) /\ SubtreeMax(Q, pg) = Top(B, pg) /\ SubtreeMax(P, pg) # None
             /\ d[k].e = Top(P, pg)
  <2>1. B[pg].tail = 0
    <3>1. k \in ChildNos(B[u]) /\ Child(B[u], k) = pg /\ k <= Len(B[u].entries)
      <4>1. k <= n
        BY <1>4
      <4> QED
        BY <1>4, <1>7, <1>8, <4>1
    <3> QED
      BY <1>2, <1>3, <3>1, ChildFacts
  <2>2. P[pg].tail = 0 /\ P[pg].level \in Nat
    BY <1>1, <1>4, <2>1
  <2>3. SubtreeMax(P, pg) = Top(P, pg)
    BY <2>2, SubtreeMaxIs DEF Top
  <2>4. SubtreeMax(Q, pg) = Top(B, pg)
    BY <1>6, <2>2, SubtreeMaxIs
  <2>5. d[k].e = Top(P, pg)
    BY <1>0, <1>8
  <2>6. d[k].e \in Entry
    <3>1. d[k] \in ItemSet
      BY <1>7
    <3> QED
      BY <3>1 DEF ItemSet
  <2> QED
    BY <2>3, <2>4, <2>5, <2>6, EntryIsSome
<1>9. kept = IF SubtreeMax(P, pg) \in {None, SubtreeMax(Q, pg)} THEN d
             ELSE [k \in DOMAIN d |-> IF d[k].child = pg THEN Item(SubtreeMax(Q, pg), pg) ELSE d[k]]
  BY DEF KeptOf, d
<1> HIDE DEF kept
<1>10. ASSUME NEW k \in 1 .. n
       PROVE  kept[k] \in ItemSet /\ kept[k].child = d[k].child /\ kept[k].e = Top(B, d[k].child)
  <2>1. CASE d[k].child # pg
    <3>1. kept[k] = d[k]
      BY <1>4, <1>9, <2>1
    <3> QED
      BY <1>7, <2>1, <3>1
  <2>2. CASE d[k].child = pg
    <3>1. SubtreeMax(P, pg) = Top(P, pg) /\ SubtreeMax(Q, pg) = Top(B, pg) /\ SubtreeMax(P, pg) # None
          /\ d[k].e = Top(P, pg)
      BY <1>8, <2>2
    <3>2. CASE Top(P, pg) = Top(B, pg)
      <4>1. kept = d
        BY <1>9, <3>1, <3>2
      <4> QED
        BY <1>7, <2>2, <3>1, <3>2, <4>1
    <3>3. CASE Top(P, pg) # Top(B, pg)
      <4>1. kept[k] = Item(Top(B, pg), pg)
        BY <1>4, <1>9, <2>2, <3>1, <3>3
      <4> QED
        BY <1>4, <1>6, <2>2, <4>1 DEF Item, ItemSet
    <3> QED
      BY <3>2, <3>3
  <2> QED
    BY <2>1, <2>2
<1>11. kept \in Seq(ItemSet) /\ Len(kept) = n
  <2>1. kept \in [1 .. n -> ItemSet]
    <3>1. CASE kept = d
      BY <1>4, <3>1
    <3>2. CASE kept = [k \in DOMAIN d |-> IF d[k].child = pg THEN Item(SubtreeMax(Q, pg), pg) ELSE d[k]]
      <4> DEFINE f == [k \in 1 .. n |-> kept[k]]
      <4>1. kept = f
        BY <1>4, <3>2
      <4>2. f \in [1 .. n -> ItemSet]
        BY <1>10
      <4> QED
        BY <4>1, <4>2
    <3> QED
      BY <1>9, <3>1, <3>2
  <2> HIDE DEF n
  <2> QED
    BY <1>4, <2>1
<1> QED
  BY <1>10, <1>11 DEF B, d, kept, Exact

LEMMA SplitIs ==
    ASSUME NEW P, NEW path, NEW i, i > 1, i \in Nat, NEW s, Len(s) > PageSize
    PROVE  LET Q == Parted(P, path[i], s, NewPage(DOMAIN P), HalfOf(s))
           IN  After(P, path, ToInsert(i, s)) =
                   Wrote(Q, <<ToInsert(i - 1, Inserted(KeptOf(P, Q, path[i - 1], path[i]),
                                                       Item(s[HalfOf(s)].e, NewPage(DOMAIN P))))>>)
<1>1. After(P, path, ToInsert(i, s)) = InsertIntoPage(P, path, i, s)
  BY DEF After, ToInsert
<1>2. InsertIntoPage(P, path, i, s) = SplitPage(P, path, i, s)
  BY DEF InsertIntoPage
<1> QED
  BY <1>1, <1>2 DEF SplitPage, Parted, KeptOf, HalfOf

\* A page that is not the root is split, and its parent is next.
LEMMA SplitStep ==
    ASSUME NEW P, NEW gone, NEW path, NEW i, NEW s, NEW X, Pending(P, gone, path, i, s, X), Len(s) > PageSize, i > 1
    PROVE  Answered(After(P, path, ToInsert(i, s)), gone, path, X, 2 * i - 1)
<1> DEFINE pg == path[i]
           u == path[i - 1]
           B == At(P, pg, s)
           new == NewPage(DOMAIN P)
           mid == HalfOf(s)
           Q == Parted(P, pg, s, new, mid)
           kept == KeptOf(P, Q, u, pg)
           D == Inserted(kept, Item(s[mid].e, new))
           T == At(Q, u, D)
<1>1. Open(P, gone, path, i) /\ s \in Seq(ItemSet) /\ Len(s) <= PageSize + 1 /\ Len(s) \in Nat /\ PageSize \in Nat
  BY IndexConstants DEF Pending
<1>2. gone = {}
  <2>1. gone = {} \/ Len(s) <= PageSize
    BY DEF Pending
  <2> QED
    BY <1>1, <2>1
<1>3. \A x : x \notin gone
  BY <1>2
<1>4. /\ i \in Nat /\ i - 1 \in 1 .. i /\ i - 1 \in Nat /\ i \in 1 .. i /\ i - 1 # i /\ Typed(P, gone)
      /\ pg \in DOMAIN P /\ u \in DOMAIN P /\ u # pg /\ ~ Leaf(P[u])
  <2>1. i \in Nat /\ i >= 1 /\ i - 1 \in 1 .. i /\ i - 1 \in 1 .. i - 1 /\ Typed(P, gone)
    BY <1>1, OpenFacts
  <2>2. i \in 1 .. i /\ i - 1 # i /\ i - 1 \in Nat
    BY <2>1
  <2> QED
    BY <1>1, <2>1, <2>2, OpenFacts
<1>5. Unlinked(P, gone) = P
  BY <1>3, <1>4, UnlinkedNone
<1>6. BTree(B, pg) /\ Indexed(B) = X
  BY <1>5 DEF Pending
<1>7. Halved(s, mid)
  BY <1>1, Halves
<1> HIDE DEF mid
<1>8. new \in Nat \ {0} /\ new \notin DOMAIN P
  <2>1. DOMAIN B = DOMAIN P
    BY <1>1, <1>4, TypedAt
  <2>2. IsFiniteSet(DOMAIN B)
    BY <1>6 DEF BTree, PagesOK
  <2>3. IsFiniteSet(DOMAIN P)
    BY <2>1, <2>2
  <2> QED
    BY <2>3, NewPageIs
<1> HIDE DEF new
<1>9. Shaped(B) /\ PagesOK(B) /\ \A q \in DOMAIN B \ {Root} : B[q].entries # << >>
  BY <1>6, TreeParts
<1>10. /\ DOMAIN B = DOMAIN P /\ B[pg].entries = s
       /\ \A q \in DOMAIN P :
            /\ q # pg => B[q] = P[q]
            /\ B[q].level = P[q].level /\ B[q].prev = P[q].prev /\ B[q].next = P[q].next /\ B[q].tail = P[q].tail
  BY <1>1, <1>4, TypedAt
<1>11. pg \in Nat
  BY <1>4, <1>9, <1>10, PageFacts
<1>12. PartedIs(Q, P, pg, s, new, mid)
  BY <1>1, <1>4, <1>7, <1>8, <1>11, PartedFacts
<1>13. \E j \in ChildNos(B[u]) : Child(B[u], j) = pg
  <2>1. B[u] = P[u]
    BY <1>4, <1>10
  <2>2. i - 1 \in 1 .. i - 1 /\ i - 1 + 1 = i
    BY <1>4
  <2>3. \E j \in ChildNos(P[path[i - 1]]) : Child(P[path[i - 1]], j) = path[i - 1 + 1]
    BY <1>1, <2>2 DEF Open
  <2> QED
    BY <2>1, <2>2, <2>3
<1>14. PICK j \in ChildNos(B[u]) : Child(B[u], j) = pg
  BY <1>13
<1>15. /\ P[pg].entries # << >>
       /\ \A k \in 1 .. Len(P[u].entries) : P[u].entries[k].child = pg => P[u].entries[k].e = Top(P, pg)
  BY DEF Pending
<1>16. /\ Q[pg].level = P[pg].level /\ Q[pg].tail = P[pg].tail /\ Q[pg].entries # << >>
       /\ Last(Q[pg].entries).e = Last(s).e
  <2> DEFINE high == SubSeq(s, mid + 1, Len(s))
  <2>1. Q[pg].level = P[pg].level /\ Q[pg].tail = P[pg].tail /\ Q[pg].entries = high
    BY <1>12 DEF PartedIs
  <2>2. /\ high \in Seq(ItemSet) /\ Len(high) = Len(s) - mid /\ mid \in Nat /\ mid < Len(s)
        /\ \A k \in 1 .. Len(s) - mid : high[k] = s[mid + k]
    BY <1>7 DEF Halved
  <2> HIDE DEF high
  <2>3. Len(s) - mid \in 1 .. Len(s) - mid /\ mid + (Len(s) - mid) = Len(s) /\ Len(s) >= 1
    BY <1>1, <2>2
  <2>4. high[Len(s) - mid] = s[mid + (Len(s) - mid)]
    BY <2>2, <2>3
  <2>5. high # << >>
    BY <1>1, <2>2, <2>3
  <2>6. Last(high) = high[Len(high)] /\ Last(s) = s[Len(s)]
    BY DEF Last
  <2> QED
    BY <2>1, <2>2, <2>3, <2>4, <2>5, <2>6
<1> HIDE DEF Q
<1>17. Exact(kept, B, P[u].entries)
  <2> HIDE DEF pg, u
  <2> QED
    BY <1>1, <1>4, <1>6, <1>14, <1>15, <1>16, KeptIs
<1> HIDE DEF kept
<1>18. D \in Seq(ItemSet) /\ Len(D) = Len(P[u].entries) + 1 /\ BTree(T, u) /\ Indexed(T) = Indexed(B)
  <2> HIDE DEF pg, u
  <2>1. Resplit(T, D, u, B, P[u].entries)
    BY <1>1, <1>4, <1>6, <1>7, <1>8, <1>14, <1>17, SplitDividers DEF Q
  <2> QED
    BY <2>1 DEF Resplit
<1> HIDE DEF D
<1>19. /\ DOMAIN Q = DOMAIN P \cup {new} /\ Typed(Q, gone)
       /\ \A q \in DOMAIN P : q # pg => Q[q].entries = P[q].entries
       /\ \A q \in DOMAIN P : Q[q].level = P[q].level /\ Q[q].tail = P[q].tail
       /\ Q[new].entries = SubSeq(s, 1, mid) /\ Q[pg].entries = SubSeq(s, mid + 1, Len(s))
  <2>1. DOMAIN Q = DOMAIN P \cup {new} /\ Typed(Q, {})
    BY <1>12 DEF PartedIs
  <2>2. Typed(Q, gone)
    BY <1>3, <2>1 DEF Typed
  <2> QED
    BY <1>12, <2>1, <2>2 DEF PartedIs
<1>20. Unlinked(Q, gone) = Q
  BY <1>3, <1>19, UnlinkedNone
<1>21. Open(Q, gone, path, i - 1)
  <2>1. \A x \in 1 .. i - 1 : x \in 1 .. i /\ x # i
    BY <1>4
  <2>2. \A x \in 1 .. i - 1 : path[x] \in DOMAIN P /\ path[x] # pg
    BY <1>1, <1>4, <2>1, OpenFacts
  <2>3. \A x \in 1 .. i - 1 - 1 : x \in 1 .. i - 1
    BY <1>4
  <2> HIDE DEF pg, u
  <2> QED
    BY <1>1, <1>4, <1>19, <2>2, <2>3, OpenKept
<1>22. \A q \in DOMAIN Q \ gone : q # u => Len(Q[q].entries) <= PageSize
  <2> TAKE q \in DOMAIN Q \ gone
  <2> HAVE q # u
  <2>1. CASE q = new
    BY <1>7, <1>19, <2>1 DEF Halved
  <2>2. CASE q = pg
    BY <1>7, <1>19, <2>2 DEF Halved
  <2>3. CASE q # new /\ q # pg
    <3>1. q \in DOMAIN P \ gone /\ Q[q].entries = P[q].entries
      BY <1>19, <2>3
    <3> QED
      BY <2>3, <3>1 DEF Pending
  <2> QED
    BY <2>1, <2>2, <2>3
<1>23. Len(D) <= PageSize + 1
  <2>1. Len(P[u].entries) <= PageSize
    BY <1>3, <1>4 DEF Pending
  <2>2. Len(P[u].entries) \in Nat
    <3>1. B[u].entries = P[u].entries
      BY <1>4, <1>10
    <3> QED
      BY <1>4, <1>9, <1>10, <3>1, PageFacts
  <2> QED
    BY <1>1, <1>18, <2>1, <2>2
<1>24. i - 1 > 1 => /\ Q[u].entries # << >>
                    /\ \A k \in 1 .. Len(Q[path[i - 1 - 1]].entries) :
                         Q[path[i - 1 - 1]].entries[k].child = u =>
                             Q[path[i - 1 - 1]].entries[k].e = Top(Q, u)
  <2> HAVE i - 1 > 1
  <2> DEFINE v == path[i - 1 - 1]
  <2>1. i - 1 - 1 \in 1 .. i /\ i - 1 - 1 # i /\ i - 1 - 1 # i - 1 /\ i - 1 - 1 \in 1 .. i - 1 /\ 1 \in 1 .. i /\ i - 1 # 1
    BY <1>4
  <2>2. v \in DOMAIN P /\ v # pg /\ v # u /\ ~ Leaf(P[v]) /\ u # path[1] /\ path[1] = Root
    BY <1>1, <1>4, <2>1, OpenFacts
  <2>3. B[v] = P[v] /\ B[u] = P[u] /\ Q[v].entries = P[v].entries /\ Q[u].entries = P[u].entries
    BY <1>4, <1>10, <1>19, <2>2
  <2>4. Q[u].entries # << >>
    BY <1>4, <1>9, <1>10, <2>2, <2>3
  <2>5. \A k \in 1 .. Len(B[v].entries) : B[v].entries[k].child = u => B[v].entries[k].e = Top(B, u)
    <3>1. v \in DOMAIN B /\ ~ Leaf(B[v])
      BY <1>10, <2>2, <2>3
    <3> HIDE DEF v, u, pg, B
    <3> QED
      BY <1>4, <1>6, <3>1, Dividers
  <2> QED
    BY <2>3, <2>4, <2>5 DEF Top
<1>25. Pending(Q, gone, path, i - 1, D, X)
  BY <1>2, <1>6, <1>18, <1>20, <1>21, <1>22, <1>23, <1>24 DEF Pending
<1>26. After(P, path, ToInsert(i, s)) = Wrote(Q, <<ToInsert(i - 1, D)>>)
  BY <1>4, SplitIs DEF Q, D, kept, new, mid
<1>27. 2 * (i - 1) <= 2 * i - 1
  BY <1>4
<1> HIDE DEF pg, u, B, T
<1> QED
  BY <1>25, <1>26, <1>27, WroteIs DEF Answered
-----------------------------------------------------------------------------
(* A root in two halves *)

\* B with its root in two: the lower half m and the upper n hang on a new root.
RootSplit(B, T, m, n, mid) ==
    /\ {m, n} \subseteq Nat \ {0} /\ m # n /\ m \notin DOMAIN B /\ n \notin DOMAIN B
    /\ mid \in Nat /\ 1 <= mid /\ mid < Len(B[Root].entries)
    /\ DOMAIN T = DOMAIN B \cup {m, n} /\ T \in [DOMAIN T -> Page]
    /\ T[m].level = B[Root].level /\ T[m].prev = 0 /\ T[m].next = n /\ T[m].tail = 0
    /\ Len(T[m].entries) = mid /\ \A k \in 1 .. mid : T[m].entries[k] = B[Root].entries[k]
    /\ T[n].level = B[Root].level /\ T[n].prev = m /\ T[n].next = 0 /\ T[n].tail = B[Root].tail
    /\ Len(T[n].entries) = Len(B[Root].entries) - mid
    /\ \A k \in 1 .. Len(B[Root].entries) - mid : T[n].entries[k] = B[Root].entries[mid + k]
    /\ T[Root].level = B[Root].level + 1 /\ T[Root].prev = 0 /\ T[Root].next = 0 /\ T[Root].tail = n
    /\ Len(T[Root].entries) = 1 /\ T[Root].entries[1].child = m /\ T[Root].entries[1].e = B[Root].entries[mid].e
    /\ \A q \in DOMAIN B \ {Root} : T[q] = B[q]

LEMMA RootSplitPages ==
    ASSUME NEW B, NEW T, NEW m, NEW n, NEW mid, Shaped(B), RootSplit(B, T, m, n, mid)
    PROVE  /\ PagesOK(T) /\ Linked(T)
           /\ Root \in DOMAIN B /\ m # Root /\ n # Root /\ ~ Leaf(T[Root])
           /\ B[Root].level \in Nat /\ Len(B[Root].entries) \in Nat /\ B[Root].next = 0
           /\ m \in DOMAIN T /\ n \in DOMAIN T /\ Root \in DOMAIN T
<1>1. PagesOK(B) /\ Root \in DOMAIN B /\ B[Root].prev = 0 /\ B[Root].next = 0 /\ B[Root].level \in Nat
  BY RootFacts DEF Shaped
<1>2. m # Root /\ n # Root /\ m \in DOMAIN T /\ n \in DOMAIN T /\ Root \in DOMAIN T
  BY <1>1 DEF RootSplit
<1>3. Len(B[Root].entries) \in Nat
  BY <1>1, PageFacts
<1>4. ~ Leaf(T[Root])
  <2>1. T[Root].level = B[Root].level + 1
    BY DEF RootSplit
  <2> QED
    BY <1>1, <2>1 DEF Leaf
<1>5. PagesOK(T)
  <2>1. DOMAIN T \subseteq Nat \ {0} /\ IsFiniteSet(DOMAIN T)
    <3>1. DOMAIN T = (DOMAIN B \cup {m}) \cup {n} /\ {m, n} \subseteq Nat \ {0} /\ DOMAIN B \subseteq Nat \ {0} /\ IsFiniteSet(DOMAIN B)
      BY <1>1 DEF RootSplit, PagesOK
    <3>2. IsFiniteSet(DOMAIN B \cup {m})
      BY <3>1, FS_AddElement
    <3>3. IsFiniteSet((DOMAIN B \cup {m}) \cup {n})
      BY <3>2, FS_AddElement
    <3> QED
      BY <3>1, <3>3
  <2>2. T \in [DOMAIN T -> Page]
    BY DEF RootSplit
  <2>3. ASSUME NEW q \in DOMAIN T, T[q].entries = << >> PROVE q = Root /\ T[q] = EmptyLeaf
    <3>1. q \notin {m, n, Root}
      BY <1>3, <2>3 DEF RootSplit
    <3>2. q \in DOMAIN B /\ q # Root /\ T[q] = B[q]
      BY <3>1 DEF RootSplit
    <3>3. q = Root
      BY <1>1, <2>3, <3>2 DEF PagesOK
    <3> QED
      BY <3>2, <3>3
  <2>4. ASSUME NEW q \in DOMAIN T, T[q].tail # 0 PROVE ~ Leaf(T[q]) /\ T[q].next = 0
    <3>1. CASE q = m
      BY <2>4, <3>1 DEF RootSplit
    <3>2. CASE q = n
      <4>1. B[Root].tail # 0 /\ T[n].next = 0 /\ T[n].level = B[Root].level
        BY <2>4, <3>2 DEF RootSplit
      <4>2. ~ Leaf(B[Root])
        BY <1>1, <4>1 DEF PagesOK
      <4> QED
        BY <3>2, <4>1, <4>2 DEF Leaf
    <3>3. CASE q = Root
      BY <1>4, <3>3 DEF RootSplit
    <3>4. CASE q \notin {m, n, Root}
      <4>1. q \in DOMAIN B /\ q # Root /\ T[q] = B[q]
        BY <3>4 DEF RootSplit
      <4> QED
        BY <1>1, <2>4, <4>1 DEF PagesOK
    <3> QED
      BY <3>1, <3>2, <3>3, <3>4
  <2> QED
    BY <2>1, <2>2, <2>3, <2>4 DEF PagesOK
<1>6. Linked(T)
  <2>1. Root \in DOMAIN T /\ T[Root].prev = 0 /\ T[Root].next = 0
    BY <1>2 DEF RootSplit
  <2>2. ASSUME NEW q \in DOMAIN T
        PROVE  /\ T[q].next # 0 => T[q].next \in DOMAIN T /\ T[T[q].next].prev = q /\ T[T[q].next].level = T[q].level
               /\ T[q].prev # 0 => T[q].prev \in DOMAIN T /\ T[T[q].prev].next = q
    <3>1. CASE q = m
      BY <1>2, <3>1 DEF RootSplit
    <3>2. CASE q = n
      BY <1>2, <3>2 DEF RootSplit
    <3>3. CASE q = Root
      BY <2>1, <3>3
    <3>4. CASE q \notin {m, n, Root}
      <4>1. q \in DOMAIN B /\ q # Root /\ T[q] = B[q]
        BY <3>4 DEF RootSplit
      <4>2. /\ (B[q].next # 0 => /\ B[q].next \in DOMAIN B /\ B[B[q].next].prev = q
                                 /\ B[B[q].next].level = B[q].level /\ B[q].next # Root)
            /\ (B[q].prev # 0 => /\ B[q].prev \in DOMAIN B /\ B[B[q].prev].next = q /\ B[q].prev # Root)
        BY <4>1, LinkFacts
      <4>3. \A x \in DOMAIN B : x # Root => T[x] = B[x] /\ x \in DOMAIN T
        BY DEF RootSplit
      <4> QED
        BY <4>1, <4>2, <4>3
    <3> QED
      BY <3>1, <3>2, <3>3, <3>4
  <2> QED
    BY <2>1, <2>2 DEF Linked
<1> QED
  BY <1>1, <1>2, <1>3, <1>4, <1>5, <1>6

\* Where a child of the new tree was, but for the halves.
RootWas(q, m, n) == IF q \in {m, n} THEN Root ELSE q
RootNo(q, i, n, mid) == IF q = n THEN i + mid ELSE i

LEMMA RootChildren ==
    ASSUME NEW B, NEW T, NEW m, NEW n, NEW mid, Shaped(B), RootSplit(B, T, m, n, mid)
    PROVE  /\ \A i : i \in ChildNos(T[Root]) <=> i \in {1, 2}
           /\ Child(T[Root], 1) = m /\ Child(T[Root], 2) = n
           /\ \A i \in ChildNos(T[m]) :
                i \in 1 .. mid /\ i \in ChildNos(B[Root]) /\ Child(T[m], i) = Child(B[Root], i)
           /\ \A i \in ChildNos(T[n]) :
                i + mid \in ChildNos(B[Root]) /\ Child(T[n], i) = Child(B[Root], i + mid) /\ i \in Nat /\ 1 <= i
           /\ \A i \in ChildNos(B[Root]) :
                /\ i <= mid => i \in ChildNos(T[m]) /\ Child(T[m], i) = Child(B[Root], i)
                /\ i > mid => i - mid \in ChildNos(T[n]) /\ Child(T[n], i - mid) = Child(B[Root], i)
           /\ ~ Leaf(B[Root]) => 1 \in ChildNos(T[n]) /\ mid + 1 \in ChildNos(B[Root])
                                 /\ Child(T[n], 1) = Child(B[Root], mid + 1)
<1> DEFINE s == B[Root].entries
           l == Len(s)
<1>1. /\ PagesOK(T) /\ PagesOK(B) /\ Root \in DOMAIN B /\ m # Root /\ n # Root /\ ~ Leaf(T[Root]) /\ l \in Nat
      /\ m \in DOMAIN T /\ n \in DOMAIN T /\ Root \in DOMAIN T
  BY RootSplitPages DEF Shaped
<1>2. /\ mid \in Nat /\ 1 <= mid /\ mid < l
      /\ T[m].level = B[Root].level /\ T[m].tail = 0
      /\ Len(T[m].entries) = mid /\ \A k \in 1 .. mid : T[m].entries[k] = s[k]
      /\ T[n].level = B[Root].level /\ T[n].tail = B[Root].tail
      /\ Len(T[n].entries) = l - mid
      /\ \A k \in 1 .. l - mid : T[n].entries[k] = s[mid + k]
      /\ T[Root].tail = n /\ n # 0
      /\ Len(T[Root].entries) = 1 /\ T[Root].entries[1].child = m
  BY DEF RootSplit
<1>3. /\ \A i : i \in ChildNos(T[Root]) <=> i \in {1, 2}
      /\ Child(T[Root], 1) = m /\ Child(T[Root], 2) = n
  <2>1. /\ \A i : i \in ChildNos(T[Root]) <=> i \in 1 .. Len(T[Root].entries) \/ (T[Root].tail # 0 /\ i = Len(T[Root].entries) + 1)
        /\ \A i \in 1 .. Len(T[Root].entries) : i \in ChildNos(T[Root]) /\ Child(T[Root], i) = T[Root].entries[i].child
        /\ Child(T[Root], Len(T[Root].entries) + 1) = T[Root].tail
    BY <1>1, NodeFacts
  <2>2. 1 \in 1 .. 1 /\ 1 + 1 = 2 /\ \A i : i \in 1 .. 1 <=> i = 1
    OBVIOUS
  <2> QED
    BY <1>2, <2>1, <2>2
<1> HIDE DEF l
<1>4. ASSUME NEW i \in ChildNos(T[m])
      PROVE  i \in 1 .. mid /\ i \in ChildNos(B[Root]) /\ Child(T[m], i) = Child(B[Root], i)
  <2>1. ~ Leaf(T[m]) /\ i \in 1 .. mid
    <3>1. ~ Leaf(T[m]) /\ i \in Nat /\ 1 <= i /\ i <= Len(T[m].entries)
      BY <1>1, <1>2, NodeNos
    <3> QED
      BY <1>2, <3>1
  <2>2. ~ Leaf(B[Root])
    BY <1>2, <2>1 DEF Leaf
  <2>3. i \in 1 .. l
    BY <1>1, <1>2, <2>1
  <2>4. i \in ChildNos(B[Root]) /\ Child(B[Root], i) = s[i].child
    BY <1>1, <2>2, <2>3, NodeFacts DEF l
  <2>5. Child(T[m], i) = T[m].entries[i].child
    BY <1>1, <1>2, <2>1, NodeFacts
  <2> QED
    BY <1>2, <2>1, <2>4, <2>5
<1>5. ASSUME NEW i \in ChildNos(B[Root]), i <= mid
      PROVE  i \in ChildNos(T[m]) /\ Child(T[m], i) = Child(B[Root], i)
  <2>1. ~ Leaf(B[Root]) /\ i \in Nat /\ 1 <= i
    BY <1>1, NodeNos
  <2>2. i \in 1 .. mid /\ ~ Leaf(T[m])
    BY <1>2, <1>5, <2>1 DEF Leaf
  <2>3. i \in ChildNos(T[m])
    BY <1>1, <1>2, <2>2, NodeFacts
  <2> QED
    BY <1>4, <2>3
<1>6. ASSUME NEW i \in ChildNos(T[n])
      PROVE  i + mid \in ChildNos(B[Root]) /\ Child(T[n], i) = Child(B[Root], i + mid) /\ i \in Nat /\ 1 <= i
  <2>1. ~ Leaf(T[n]) /\ i \in Nat /\ 1 <= i /\ (i <= l - mid \/ (T[n].tail # 0 /\ i = l - mid + 1))
    BY <1>1, <1>2, NodeNos
  <2>2. ~ Leaf(B[Root])
    BY <1>2, <2>1 DEF Leaf
  <2>3. CASE i <= l - mid
    <3>1. i \in 1 .. l - mid /\ i + mid \in 1 .. l /\ i + mid = mid + i
      BY <1>1, <1>2, <2>1, <2>3
    <3>2. i + mid \in ChildNos(B[Root]) /\ Child(B[Root], i + mid) = s[i + mid].child
      BY <1>1, <2>2, <3>1, NodeFacts DEF l
    <3>3. Child(T[n], i) = T[n].entries[i].child
      BY <1>1, <1>2, <2>1, <3>1, NodeFacts
    <3> QED
      BY <1>2, <2>1, <3>1, <3>2, <3>3
  <2>4. CASE T[n].tail # 0 /\ i = l - mid + 1
    <3>1. i + mid = l + 1
      BY <1>1, <1>2, <2>4
    <3>2. l + 1 \in ChildNos(B[Root]) /\ Child(B[Root], l + 1) = B[Root].tail
      BY <1>1, <1>2, <2>2, <2>4, NodeFacts DEF l
    <3>3. Child(T[n], i) = T[n].tail
      BY <1>1, <1>2, <2>1, <2>4, NodeFacts
    <3> QED
      BY <1>2, <2>1, <3>1, <3>2, <3>3
  <2> QED
    BY <2>1, <2>3, <2>4
<1>7. ASSUME NEW i \in ChildNos(B[Root]), i > mid
      PROVE  i - mid \in ChildNos(T[n]) /\ Child(T[n], i - mid) = Child(B[Root], i)
  <2>1. ~ Leaf(B[Root]) /\ i \in Nat /\ 1 <= i /\ (i <= l \/ (B[Root].tail # 0 /\ i = l + 1))
    BY <1>1, NodeNos DEF l
  <2>2. ~ Leaf(T[n])
    BY <1>2, <2>1 DEF Leaf
  <2>3. i - mid \in ChildNos(T[n])
    <3>1. CASE i <= l
      <4>1. i - mid \in 1 .. l - mid
        BY <1>1, <1>2, <1>7, <2>1, <3>1
      <4> QED
        BY <1>1, <1>2, <2>2, <4>1, NodeFacts
    <3>2. CASE B[Root].tail # 0 /\ i = l + 1
      <4>1. i - mid = l - mid + 1
        BY <1>1, <1>2, <3>2
      <4> QED
        BY <1>1, <1>2, <2>2, <3>2, <4>1, NodeFacts
    <3> QED
      BY <2>1, <3>1, <3>2
  <2>4. i - mid + mid = i
    BY <1>2, <2>1
  <2> DEFINE h == i - mid
  <2>5. h \in ChildNos(T[n]) /\ h + mid = i
    BY <2>3, <2>4
  <2> HIDE DEF h
  <2>6. Child(T[n], h) = Child(B[Root], h + mid)
    BY <1>6, <2>5
  <2> QED
    BY <2>5, <2>6 DEF h
<1>8. ASSUME ~ Leaf(B[Root])
      PROVE  1 \in ChildNos(T[n]) /\ mid + 1 \in ChildNos(B[Root]) /\ Child(T[n], 1) = Child(B[Root], mid + 1)
  <2>1. ~ Leaf(T[n]) /\ 1 \in 1 .. l - mid
    BY <1>1, <1>2, <1>8 DEF Leaf
  <2>2. 1 \in ChildNos(T[n])
    BY <1>1, <1>2, <2>1, NodeFacts
  <2>3. 1 + mid = mid + 1
    BY <1>2
  <2>4. 1 + mid \in ChildNos(B[Root]) /\ Child(T[n], 1) = Child(B[Root], 1 + mid)
    BY <1>6, <2>2
  <2> QED
    BY <2>2, <2>3, <2>4
<1> QED
  BY <1>3, <1>4, <1>5, <1>6, <1>7, <1>8

LEMMA RootSlot ==
    ASSUME NEW B, NEW T, NEW m, NEW n, NEW mid, Shaped(B), RootSplit(B, T, m, n, mid),
           NEW q \in DOMAIN T \ {Root}, NEW i \in ChildNos(T[q])
    PROVE  LET x == RootWas(q, m, n)
               k == RootNo(q, i, n, mid)
           IN  /\ x \in DOMAIN B /\ k \in ChildNos(B[x]) /\ Child(T[q], i) = Child(B[x], k) /\ B[x].level = T[q].level
               /\ Child(T[q], i) \in DOMAIN B \ {Root} /\ T[Child(T[q], i)] = B[Child(T[q], i)]
               /\ (i <= Len(T[q].entries) => k <= Len(B[x].entries))
               /\ (q = m => k <= mid) /\ (q = n => k > mid)
<1>1. /\ Root \in DOMAIN B /\ Len(B[Root].entries) \in Nat /\ m \in DOMAIN T /\ n \in DOMAIN T /\ m # Root /\ n # Root
      /\ PagesOK(T)
  BY RootSplitPages
<1>2. /\ mid \in Nat /\ mid < Len(B[Root].entries) /\ m # n /\ m \notin DOMAIN B /\ n \notin DOMAIN B
      /\ T[m].level = B[Root].level /\ T[n].level = B[Root].level /\ DOMAIN T = DOMAIN B \cup {m, n}
      /\ Len(T[m].entries) = mid /\ Len(T[n].entries) = Len(B[Root].entries) - mid
      /\ \A x \in DOMAIN B \ {Root} : T[x] = B[x]
  BY DEF RootSplit
<1>3. ASSUME NEW x \in DOMAIN B, NEW k \in ChildNos(B[x]), Child(T[q], i) = Child(B[x], k)
      PROVE  Child(T[q], i) \in DOMAIN B \ {Root} /\ T[Child(T[q], i)] = B[Child(T[q], i)]
  <2>1. Child(B[x], k) \in DOMAIN B /\ Child(B[x], k) # Root
    BY ChildFacts
  <2> QED
    BY <1>2, <1>3, <2>1
<1>4. CASE q = m
  <2>1. i \in 1 .. mid /\ i \in ChildNos(B[Root]) /\ Child(T[m], i) = Child(B[Root], i)
    BY <1>4, RootChildren
  <2>2. RootWas(q, m, n) = Root /\ RootNo(q, i, n, mid) = i
    BY <1>2, <1>4 DEF RootWas, RootNo
  <2>3. i <= mid /\ i <= Len(B[Root].entries)
    BY <1>1, <1>2, <2>1
  <2> QED
    BY <1>1, <1>2, <1>3, <1>4, <2>1, <2>2, <2>3
<1>5. CASE q = n
  <2>1. i + mid \in ChildNos(B[Root]) /\ Child(T[n], i) = Child(B[Root], i + mid) /\ i \in Nat /\ 1 <= i
    BY <1>5, RootChildren
  <2>2. RootWas(q, m, n) = Root /\ RootNo(q, i, n, mid) = i + mid
    BY <1>5 DEF RootWas, RootNo
  <2>3. i + mid > mid /\ (i <= Len(T[n].entries) => i + mid <= Len(B[Root].entries))
    BY <1>1, <1>2, <2>1
  <2>4. Child(T[q], i) \in DOMAIN B \ {Root} /\ T[Child(T[q], i)] = B[Child(T[q], i)]
    <3> DEFINE h == i + mid
    <3>1. h \in ChildNos(B[Root]) /\ Child(T[q], i) = Child(B[Root], h)
      BY <1>5, <2>1
    <3> HIDE DEF h
    <3> QED
      BY <1>1, <1>3, <3>1
  <2> QED
    BY <1>1, <1>2, <1>5, <2>1, <2>2, <2>3, <2>4
<1>6. CASE q \notin {m, n}
  <2>1. RootWas(q, m, n) = q /\ RootNo(q, i, n, mid) = i /\ q \in DOMAIN B /\ T[q] = B[q]
    BY <1>2, <1>6 DEF RootWas, RootNo
  <2> QED
    BY <1>3, <1>6, <2>1
<1> QED
  BY <1>4, <1>5, <1>6

LEMMA RootHalves ==
    ASSUME NEW B, NEW T, NEW m, NEW n, NEW mid, Shaped(B), RootSplit(B, T, m, n, mid)
    PROVE  ChildNos(T[Root]) = {1, 2} /\ Child(T[Root], 1) = m /\ Child(T[Root], 2) = n
<1>1. /\ \A i : i \in ChildNos(T[Root]) <=> i \in {1, 2}
      /\ Child(T[Root], 1) = m /\ Child(T[Root], 2) = n
  BY RootChildren
<1> QED
  BY <1>1

LEMMA RootOnce ==
    ASSUME NEW B, NEW T, NEW m, NEW n, NEW mid, Shaped(B), RootSplit(B, T, m, n, mid)
    PROVE  /\ \A c \in DOMAIN T \ {Root} : \E q \in DOMAIN T : \E i \in ChildNos(T[q]) : Child(T[q], i) = c
           /\ \A q, x \in DOMAIN T : \A i \in ChildNos(T[q]), k \in ChildNos(T[x]) :
                Child(T[q], i) = Child(T[x], k) => q = x /\ i = k
<1>1. /\ Root \in DOMAIN B /\ Root \in DOMAIN T /\ m \in DOMAIN T /\ n \in DOMAIN T /\ m # Root /\ n # Root /\ PagesOK(B)
  BY RootSplitPages DEF Shaped
<1>2. /\ m # n /\ m \notin DOMAIN B /\ n \notin DOMAIN B /\ DOMAIN T = DOMAIN B \cup {m, n} /\ mid \in Nat
      /\ \A x \in DOMAIN B \ {Root} : T[x] = B[x]
  BY DEF RootSplit
<1>3. ChildNos(T[Root]) = {1, 2} /\ Child(T[Root], 1) = m /\ Child(T[Root], 2) = n
  BY RootHalves
<1>4. ASSUME NEW c \in DOMAIN T \ {Root}
      PROVE  \E q \in DOMAIN T : \E i \in ChildNos(T[q]) : Child(T[q], i) = c
  <2>1. CASE c \in {m, n}
    BY <1>1, <1>3, <2>1
  <2>2. CASE c \notin {m, n}
    <3>1. c \in DOMAIN B \ {Root}
      BY <1>2, <2>2
    <3>2. PICK x \in DOMAIN B : \E k \in ChildNos(B[x]) : Child(B[x], k) = c
      BY <3>1 DEF Shaped, Hung
    <3>3. PICK k \in ChildNos(B[x]) : Child(B[x], k) = c
      BY <3>2
    <3>4. CASE x # Root
      <4>1. T[x] = B[x] /\ x \in DOMAIN T
        BY <1>2, <3>4
      <4> QED
        BY <3>3, <4>1
    <3>5. CASE x = Root
      <4>1. k \in Nat
        BY <1>1, NodeNos
      <4>2. CASE k <= mid
        <5>1. k \in ChildNos(T[m]) /\ Child(T[m], k) = c
          BY <3>3, <3>5, <4>2, RootChildren
        <5> QED
          BY <1>1, <5>1
      <4>3. CASE k > mid
        <5>1. k - mid \in ChildNos(T[n]) /\ Child(T[n], k - mid) = c
          BY <3>3, <3>5, <4>3, RootChildren
        <5> QED
          BY <1>1, <5>1
      <4> QED
        BY <1>2, <4>1, <4>2, <4>3
    <3> QED
      BY <3>4, <3>5
  <2> QED
    BY <2>1, <2>2
<1>5. ASSUME NEW q \in DOMAIN T, NEW x \in DOMAIN T, NEW i \in ChildNos(T[q]), NEW k \in ChildNos(T[x]),
             Child(T[q], i) = Child(T[x], k)
      PROVE  q = x /\ i = k
  <2>1. CASE q = Root /\ x = Root
    <3>1. i \in {1, 2} /\ k \in {1, 2}
      BY <1>3, <2>1
    <3> QED
      BY <1>2, <1>3, <1>5, <2>1, <3>1
  <2>2. CASE q = Root /\ x # Root
    <3>1. Child(T[x], k) \in DOMAIN B
      BY <2>2, RootSlot
    <3>2. Child(T[q], i) \in {m, n}
      BY <1>3, <2>2
    <3> QED
      BY <1>2, <1>5, <3>1, <3>2
  <2>3. CASE q # Root /\ x = Root
    <3>1. Child(T[q], i) \in DOMAIN B
      BY <2>3, RootSlot
    <3>2. Child(T[x], k) \in {m, n}
      BY <1>3, <2>3
    <3> QED
      BY <1>2, <1>5, <3>1, <3>2
  <2>4. CASE q # Root /\ x # Root
    <3> DEFINE qq == RootWas(q, m, n)
               ii == RootNo(q, i, n, mid)
               xx == RootWas(x, m, n)
               kk == RootNo(x, k, n, mid)
    <3>1. qq \in DOMAIN B /\ ii \in ChildNos(B[qq]) /\ Child(T[q], i) = Child(B[qq], ii)
          /\ (q = m => ii <= mid) /\ (q = n => ii > mid)
      BY <2>4, RootSlot
    <3>2. xx \in DOMAIN B /\ kk \in ChildNos(B[xx]) /\ Child(T[x], k) = Child(B[xx], kk)
          /\ (x = m => kk <= mid) /\ (x = n => kk > mid)
      BY <2>4, RootSlot
    <3> HIDE DEF qq, ii, xx, kk
    <3>3. qq = xx /\ ii = kk
      <4>1. Child(B[qq], ii) = Child(B[xx], kk)
        BY <1>5, <3>1, <3>2
      <4> QED
        BY <3>1, <3>2, <4>1, SlotIs
    <3>4. ii \in Nat /\ kk \in Nat
      BY <1>1, <3>1, <3>2, NodeNos
    <3>5. q = x
      <4>1. (q \in {m, n} <=> qq = Root) /\ (x \in {m, n} <=> xx = Root) /\ (q \notin {m, n} => qq = q) /\ (x \notin {m, n} => xx = x)
        BY <2>4 DEF RootWas, qq, xx
      <4>2. ~ (q = m /\ x = n) /\ ~ (q = n /\ x = m)
        BY <1>2, <3>1, <3>2, <3>3, <3>4
      <4> QED
        BY <3>3, <4>1, <4>2
    <3>6. i \in Nat /\ k \in Nat
      <4>1. PagesOK(T)
        BY RootSplitPages
      <4> QED
        BY <4>1, NodeNos
    <3>7. i = k
      BY <1>2, <3>3, <3>5, <3>6 DEF RootNo, ii, kk
    <3> QED
      BY <3>5, <3>7
  <2> QED
    BY <2>1, <2>2, <2>3, <2>4
<1> QED
  BY <1>4, <1>5

LEMMA RootBehind ==
    ASSUME NEW B, NEW T, NEW m, NEW n, NEW mid, Shaped(B), RootSplit(B, T, m, n, mid),
           NEW q \in DOMAIN T, NEW i \in ChildNos(T[q])
    PROVE  T[Child(T[q], i)].next = Behind(T, q, i)
<1>1. /\ Root \in DOMAIN B /\ Root \in DOMAIN T /\ m \in DOMAIN T /\ n \in DOMAIN T /\ m # Root /\ n # Root /\ PagesOK(B)
      /\ B[Root].next = 0 /\ PagesOK(T)
  BY RootSplitPages DEF Shaped
<1>2. /\ m # n /\ m \notin DOMAIN B /\ n \notin DOMAIN B /\ DOMAIN T = DOMAIN B \cup {m, n} /\ mid \in Nat
      /\ (\A x \in DOMAIN B \ {Root} : T[x] = B[x]) /\ n # 0
      /\ T[m].next = n /\ T[n].next = 0 /\ T[Root].next = 0
  BY DEF RootSplit
<1>3. ChildNos(T[Root]) = {1, 2} /\ Child(T[Root], 1) = m /\ Child(T[Root], 2) = n
  BY RootHalves
<1>4. CASE q = Root
  <2>1. 1 + 1 = 2 /\ 2 + 1 \notin {1, 2}
    OBVIOUS
  <2>2. CASE i = 1
    <3>1. Behind(T, Root, 1) = n
      BY <1>3, <2>1 DEF Behind
    <3> QED
      BY <1>2, <1>3, <1>4, <2>2, <3>1
  <2>3. CASE i = 2
    <3>1. Behind(T, Root, 2) = 0
      BY <1>2, <1>3, <2>1 DEF Behind
    <3> QED
      BY <1>2, <1>3, <1>4, <2>3, <3>1
  <2> QED
    BY <1>3, <1>4, <2>2, <2>3
<1>5. CASE q = m
  <2>1. i \in 1 .. mid /\ i \in ChildNos(B[Root]) /\ Child(T[m], i) = Child(B[Root], i)
    BY <1>5, RootChildren
  <2>2. B[Child(B[Root], i)].next = Behind(B, Root, i) /\ T[Child(T[m], i)] = B[Child(B[Root], i)] /\ ~ Leaf(B[Root])
    <3>1. T[Child(T[m], i)] = B[Child(T[m], i)]
      BY <1>1, <1>5, RootSlot
    <3> QED
      BY <1>1, <2>1, <3>1, ChildFacts
  <2>3. CASE i + 1 <= mid
    <3> DEFINE h == i + 1
    <3>1. h \in 1 .. mid /\ h <= mid
      BY <1>2, <2>1, <2>3
    <3>2. Len(B[Root].entries) \in Nat /\ mid < Len(B[Root].entries)
      BY RootSplitPages DEF RootSplit
    <3>3. h \in 1 .. Len(B[Root].entries)
      BY <1>2, <3>1, <3>2
    <3> HIDE DEF h
    <3>4. h \in ChildNos(B[Root])
      BY <1>1, <2>2, <3>3, NodeFacts
    <3>5. h \in ChildNos(T[m]) /\ Child(T[m], h) = Child(B[Root], h)
      BY <3>1, <3>4, RootChildren
    <3>6. Behind(T, m, i) = Child(T[m], h) /\ Behind(B, Root, i) = Child(B[Root], h)
      BY <3>4, <3>5 DEF Behind, h
    <3> QED
      BY <1>5, <2>1, <2>2, <3>5, <3>6
  <2>4. CASE ~ (i + 1 <= mid)
    <3>1. i = mid
      BY <1>2, <2>1, <2>4
    <3>2. 1 \in ChildNos(T[n]) /\ mid + 1 \in ChildNos(B[Root]) /\ Child(T[n], 1) = Child(B[Root], mid + 1)
      BY <2>2, RootChildren
    <3>3. i + 1 \notin ChildNos(T[m])
      <4> DEFINE h == i + 1
      <4>1. h \notin 1 .. mid
        BY <1>2, <2>1, <2>4
      <4> HIDE DEF h
      <4>2. h \notin ChildNos(T[m])
        BY <4>1, RootChildren
      <4> QED
        BY <4>2 DEF h
    <3>4. Behind(T, m, i) = Child(T[n], 1)
      BY <1>2, <3>3 DEF Behind
    <3>5. Behind(B, Root, i) = Child(B[Root], mid + 1)
      BY <3>1, <3>2 DEF Behind
    <3> QED
      BY <1>5, <2>1, <2>2, <3>2, <3>4, <3>5
  <2> QED
    BY <2>3, <2>4
<1>6. CASE q = n
  <2> DEFINE k == i + mid
  <2>1. k \in ChildNos(B[Root]) /\ Child(T[n], i) = Child(B[Root], k) /\ i \in Nat /\ 1 <= i
    BY <1>6, RootChildren
  <2>2. k \in Nat /\ k + 1 > mid /\ k + 1 - mid = i + 1 /\ i + 1 + mid = k + 1
    BY <1>2, <2>1
  <2> HIDE DEF k
  <2>3. B[Child(B[Root], k)].next = Behind(B, Root, k) /\ T[Child(T[n], i)] = B[Child(B[Root], k)]
    <3>1. T[Child(T[n], i)] = B[Child(T[n], i)]
      BY <1>1, <1>6, RootSlot
    <3> QED
      BY <1>1, <2>1, <3>1, ChildFacts
  <2>4. CASE k + 1 \in ChildNos(B[Root])
    <3> DEFINE h == k + 1
    <3>1. h \in ChildNos(B[Root]) /\ h > mid /\ h - mid = i + 1
      <4>1. h \in ChildNos(B[Root])
        BY <2>4
      <4>2. h > mid /\ h - mid = i + 1
        BY <1>2, <2>1, <2>2
      <4> QED
        BY <4>1, <4>2
    <3> HIDE DEF h
    <3>2. h - mid \in ChildNos(T[n]) /\ Child(T[n], h - mid) = Child(B[Root], h)
      BY <3>1, RootChildren
    <3>3. i + 1 \in ChildNos(T[n]) /\ Child(T[n], i + 1) = Child(B[Root], h)
      BY <3>1, <3>2
    <3>4. Behind(T, n, i) = Child(T[n], i + 1)
      BY <3>3 DEF Behind
    <3>5. Behind(B, Root, k) = Child(B[Root], h)
      BY <2>4 DEF Behind, h
    <3> QED
      BY <1>6, <2>1, <2>3, <3>3, <3>4, <3>5
  <2>5. CASE k + 1 \notin ChildNos(B[Root])
    <3>1. i + 1 \notin ChildNos(T[n])
      <4> DEFINE h == i + 1
      <4>1. h \in ChildNos(T[n]) => h + mid \in ChildNos(B[Root])
        <5> HIDE DEF h
        <5> QED
          BY RootChildren
      <4>2. h + mid = k + 1
        BY <2>2
      <4> QED
        BY <2>5, <4>1, <4>2
    <3>2. Behind(T, n, i) = 0 /\ Behind(B, Root, k) = 0
      BY <1>1, <1>2, <2>5, <3>1 DEF Behind
    <3> QED
      BY <1>6, <2>1, <2>3, <3>2
  <2> QED
    BY <2>4, <2>5
<1>7. CASE q \notin {m, n, Root}
  <2>1. q \in DOMAIN B /\ T[q] = B[q]
    BY <1>2, <1>7
  <2>2. B[Child(B[q], i)].next = Behind(B, q, i)
    BY <2>1, ChildFacts
  <2>3. T[Child(T[q], i)] = B[Child(T[q], i)]
    BY <1>7, RootSlot
  <2>4. Behind(T, q, i) = Behind(B, q, i)
    <3>1. B[q].next # 0 => B[q].next \in DOMAIN B /\ B[q].next # Root
      BY <2>1, LinkFacts
    <3>2. B[q].next # 0 => T[B[q].next] = B[B[q].next]
      BY <1>2, <3>1
    <3> QED
      BY <2>1, <3>2 DEF Behind
  <2> QED
    BY <2>1, <2>2, <2>3, <2>4
<1> QED
  BY <1>4, <1>5, <1>6, <1>7

LEMMA RootHung ==
    ASSUME NEW B, NEW T, NEW m, NEW n, NEW mid, Shaped(B), RootSplit(B, T, m, n, mid)
    PROVE  Hung(T) /\ Shaped(T)
<1>1. PagesOK(T) /\ Linked(T) /\ PagesOK(B) /\ m # Root /\ n # Root /\ B[Root].level \in Nat
  BY RootSplitPages DEF Shaped
<1>2. /\ T[m].level = B[Root].level /\ T[m].tail = 0 /\ T[n].level = B[Root].level
      /\ T[Root].level = B[Root].level + 1 /\ Len(T[Root].entries) = 1 /\ DOMAIN T = DOMAIN B \cup {m, n}
  BY DEF RootSplit
<1>3. ChildNos(T[Root]) = {1, 2} /\ Child(T[Root], 1) = m /\ Child(T[Root], 2) = n
  BY RootHalves
<1>4. ASSUME NEW q \in DOMAIN T, NEW i \in ChildNos(T[q])
      PROVE  LET c == Child(T[q], i)
             IN  /\ c \in DOMAIN T \ {Root}
                 /\ T[c].level + 1 = T[q].level
                 /\ T[c].next = Behind(T, q, i)
                 /\ i <= Len(T[q].entries) => T[c].tail = 0
  <2>1. T[Child(T[q], i)].next = Behind(T, q, i)
    BY RootBehind
  <2>2. CASE q = Root
    <3>1. CASE i = 1
      BY <1>1, <1>2, <1>3, <2>1, <2>2, <3>1
    <3>2. CASE i = 2
      <4>1. ~ (i <= Len(T[q].entries))
        <5>1. Len(T[q].entries) = 1 /\ ~ (2 <= 1)
          BY <1>2, <2>2
        <5> QED
          BY <3>2, <5>1
      <4> QED
        BY <1>1, <1>2, <1>3, <2>1, <2>2, <3>2, <4>1
    <3> QED
      BY <1>3, <2>2, <3>1, <3>2
  <2>3. CASE q # Root
    <3> DEFINE x == RootWas(q, m, n)
               k == RootNo(q, i, n, mid)
               c == Child(T[q], i)
    <3>1. /\ x \in DOMAIN B /\ k \in ChildNos(B[x]) /\ c = Child(B[x], k) /\ B[x].level = T[q].level
          /\ c \in DOMAIN B \ {Root} /\ T[c] = B[c]
          /\ (i <= Len(T[q].entries) => k <= Len(B[x].entries))
      BY <2>3, RootSlot
    <3> HIDE DEF x, k, c
    <3>2. B[c].level + 1 = B[x].level /\ (k <= Len(B[x].entries) => B[c].tail = 0)
      BY <3>1, ChildFacts
    <3>3. c \in DOMAIN T \ {Root} /\ T[c].level + 1 = T[q].level /\ (i <= Len(T[q].entries) => T[c].tail = 0)
      BY <1>2, <3>1, <3>2
    <3> QED
      BY <2>1, <3>3 DEF c
  <2> QED
    BY <2>2, <2>3
<1>5. /\ \A c \in DOMAIN T \ {Root} : \E q \in DOMAIN T : \E i \in ChildNos(T[q]) : Child(T[q], i) = c
      /\ \A q, x \in DOMAIN T : \A i \in ChildNos(T[q]), k \in ChildNos(T[x]) :
            Child(T[q], i) = Child(T[x], k) => q = x /\ i = k
  BY RootOnce
<1>6. Hung(T)
  BY <1>4, <1>5 DEF Hung
<1> QED
  BY <1>1, <1>6 DEF Shaped

LEMMA RootEntries ==
    ASSUME NEW B, NEW T, NEW m, NEW n, NEW mid, BTree(B, Root), RootSplit(B, T, m, n, mid)
    PROVE  /\ Increasing(T[m].entries) /\ Increasing(T[n].entries) /\ Less(Top(T, m), Low(T, n))
           /\ Top(T, m) = B[Root].entries[mid].e
<1>1. Shaped(B) /\ PagesOK(B) /\ \A q \in DOMAIN B : SortedAt(B, q)
  BY TreeParts
<1>2. PagesOK(T) /\ Root \in DOMAIN B /\ Len(B[Root].entries) \in Nat /\ m \in DOMAIN T /\ n \in DOMAIN T
  BY <1>1, RootSplitPages
<1>3. /\ mid \in Nat /\ 1 <= mid /\ mid < Len(B[Root].entries)
      /\ Len(T[m].entries) = mid /\ (\A k \in 1 .. mid : T[m].entries[k] = B[Root].entries[k])
      /\ Len(T[n].entries) = Len(B[Root].entries) - mid
      /\ \A k \in 1 .. Len(B[Root].entries) - mid : T[n].entries[k] = B[Root].entries[mid + k]
  BY DEF RootSplit
<1> DEFINE s == B[Root].entries
           l == Len(s)
           low == T[m].entries
           high == T[n].entries
<1>4. DOMAIN s = 1 .. l /\ DOMAIN low = 1 .. mid /\ DOMAIN high = 1 .. l - mid
  <2>1. DOMAIN s = 1 .. Len(s) /\ DOMAIN low = 1 .. Len(low) /\ DOMAIN high = 1 .. Len(high)
    BY <1>1, <1>2, PageFacts
  <2> QED
    BY <1>3, <2>1
<1>5. Increasing(s)
  BY <1>1, <1>2 DEF SortedAt
<1>6. low # << >> /\ high # << >>
  BY <1>2, <1>3
<1>7. low[mid] = s[mid] /\ high[1] = s[mid + 1]
  <2>1. mid \in 1 .. mid /\ 1 \in 1 .. l - mid
    BY <1>2, <1>3
  <2> QED
    BY <1>3, <2>1
<1>8. Top(T, m) = low[mid].e /\ Low(T, n) = high[1].e
  BY <1>2, <1>3, <1>6, FilledPage DEF Low, Top
<1>9. Less(s[mid].e, s[mid + 1].e)
  <2>1. mid \in 1 .. l /\ mid + 1 \in 1 .. l /\ mid < mid + 1
    BY <1>2, <1>3
  <2> QED
    BY <1>4, <1>5, <2>1 DEF Increasing
<1>10. Increasing(low)
  <2> SUFFICES ASSUME NEW k \in 1 .. mid, NEW i \in 1 .. mid, k < i PROVE Less(low[k].e, low[i].e)
    BY <1>4 DEF Increasing
  <2>1. k \in 1 .. l /\ i \in 1 .. l
    BY <1>2, <1>3
  <2> QED
    BY <1>3, <1>4, <1>5, <2>1 DEF Increasing
<1>11. Increasing(high)
  <2> SUFFICES ASSUME NEW k \in 1 .. l - mid, NEW i \in 1 .. l - mid, k < i PROVE Less(high[k].e, high[i].e)
    BY <1>4 DEF Increasing
  <2>1. mid + k \in 1 .. l /\ mid + i \in 1 .. l /\ mid + k < mid + i
    BY <1>2, <1>3
  <2>2. high[k] = s[mid + k] /\ high[i] = s[mid + i]
    BY <1>3
  <2> QED
    BY <1>4, <1>5, <2>1, <2>2 DEF Increasing
<1> QED
  BY <1>7, <1>8, <1>9, <1>10, <1>11

LEMMA RootIndexed ==
    ASSUME NEW B, NEW T, NEW m, NEW n, NEW mid, Shaped(B), RootSplit(B, T, m, n, mid)
    PROVE  Indexed(T) = Indexed(B)
<1>1. /\ m \in DOMAIN T /\ n \in DOMAIN T /\ Root \in DOMAIN B /\ ~ Leaf(T[Root]) /\ Len(B[Root].entries) \in Nat
  BY RootSplitPages
<1>2. /\ mid \in Nat /\ 1 <= mid /\ mid < Len(B[Root].entries) /\ DOMAIN T = DOMAIN B \cup {m, n}
      /\ T[m].level = B[Root].level /\ T[n].level = B[Root].level
      /\ Len(T[m].entries) = mid /\ (\A k \in 1 .. mid : T[m].entries[k] = B[Root].entries[k])
      /\ Len(T[n].entries) = Len(B[Root].entries) - mid
      /\ (\A k \in 1 .. Len(B[Root].entries) - mid : T[n].entries[k] = B[Root].entries[mid + k])
      /\ \A q \in DOMAIN B \ {Root} : T[q] = B[q]
  BY DEF RootSplit
<1>3. ASSUME NEW e, NEW q \in DOMAIN B, Leaf(B[q]), Holds(B, q, e)
      PROVE  \E x \in DOMAIN T : Leaf(T[x]) /\ Holds(T, x, e)
  <2>1. CASE q # Root
    <3>1. T[q] = B[q] /\ q \in DOMAIN T
      BY <1>2, <2>1
    <3> QED
      BY <1>3, <3>1 DEF Holds
  <2>2. CASE q = Root
    <3>1. PICK k \in 1 .. Len(B[Root].entries) : B[Root].entries[k].e = e
      BY <1>3, <2>2 DEF Holds
    <3>2. Leaf(T[m]) /\ Leaf(T[n])
      BY <1>2, <1>3, <2>2 DEF Leaf
    <3>3. CASE k <= mid
      <4>1. k \in 1 .. mid
        BY <1>1, <1>2, <3>3
      <4>2. Holds(T, m, e)
        BY <1>2, <3>1, <4>1 DEF Holds
      <4> QED
        BY <1>1, <3>2, <4>2
    <3>4. CASE k > mid
      <4>1. k - mid \in 1 .. Len(B[Root].entries) - mid /\ mid + (k - mid) = k
        BY <1>1, <1>2, <3>4
      <4>2. T[n].entries[k - mid] = B[Root].entries[mid + (k - mid)]
        BY <1>2, <4>1
      <4>3. Holds(T, n, e)
        BY <1>2, <3>1, <4>1, <4>2 DEF Holds
      <4> QED
        BY <1>1, <3>2, <4>3
    <3> QED
      BY <1>1, <1>2, <3>3, <3>4
  <2> QED
    BY <2>1, <2>2
<1>4. ASSUME NEW e, NEW x \in DOMAIN T, Leaf(T[x]), Holds(T, x, e)
      PROVE  \E q \in DOMAIN B : Leaf(B[q]) /\ Holds(B, q, e)
  <2>1. PICK k \in 1 .. Len(T[x].entries) : T[x].entries[k].e = e
    BY <1>4 DEF Holds
  <2>2. CASE x = m
    <3>1. k \in 1 .. mid /\ k \in 1 .. Len(B[Root].entries)
      BY <1>1, <1>2, <2>1, <2>2
    <3>2. Leaf(B[Root]) /\ Holds(B, Root, e)
      BY <1>2, <1>4, <2>1, <2>2, <3>1 DEF Leaf, Holds
    <3> QED
      BY <1>1, <3>2
  <2>3. CASE x = n
    <3>1. k \in 1 .. Len(B[Root].entries) - mid /\ mid + k \in 1 .. Len(B[Root].entries)
      BY <1>1, <1>2, <2>1, <2>3
    <3>2. Leaf(B[Root]) /\ Holds(B, Root, e)
      BY <1>2, <1>4, <2>1, <2>3, <3>1 DEF Leaf, Holds
    <3> QED
      BY <1>1, <3>2
  <2>4. CASE x \notin {m, n}
    <3>1. x \in DOMAIN B /\ x # Root /\ T[x] = B[x]
      BY <1>1, <1>2, <1>4, <2>4
    <3> QED
      BY <1>4, <3>1 DEF Holds
  <2> QED
    BY <2>2, <2>3, <2>4
<1> QED
  BY <1>3, <1>4 DEF Indexed

LEMMA RootTree ==
    ASSUME NEW B, NEW T, NEW m, NEW n, NEW mid, BTree(B, Root), RootSplit(B, T, m, n, mid)
    PROVE  BTree(T, 0) /\ Indexed(T) = Indexed(B)
<1>1. Shaped(B) /\ PagesOK(B) /\ \A q \in DOMAIN B : SortedAt(B, q)
  BY TreeParts
<1>2. /\ PagesOK(T) /\ Root \in DOMAIN B /\ m # Root /\ n # Root /\ ~ Leaf(T[Root]) /\ Len(B[Root].entries) \in Nat
      /\ m \in DOMAIN T /\ n \in DOMAIN T /\ Root \in DOMAIN T
  BY <1>1, RootSplitPages
<1>3. /\ mid \in Nat /\ 1 <= mid /\ mid < Len(B[Root].entries) /\ DOMAIN T = DOMAIN B \cup {m, n} /\ m # n
      /\ m \notin DOMAIN B /\ n \notin DOMAIN B
      /\ T[m].level = B[Root].level /\ T[n].level = B[Root].level /\ T[m].next = n /\ T[n].next = 0 /\ T[Root].next = 0
      /\ Len(T[m].entries) = mid /\ (\A k \in 1 .. mid : T[m].entries[k] = B[Root].entries[k])
      /\ Len(T[n].entries) = Len(B[Root].entries) - mid
      /\ (\A k \in 1 .. Len(B[Root].entries) - mid : T[n].entries[k] = B[Root].entries[mid + k])
      /\ Len(T[Root].entries) = 1 /\ T[Root].entries[1].child = m /\ T[Root].entries[1].e = B[Root].entries[mid].e
      /\ \A q \in DOMAIN B \ {Root} : T[q] = B[q]
  BY DEF RootSplit
<1>4. Shaped(T)
  BY <1>1, RootHung
<1>5. /\ Increasing(T[m].entries) /\ Increasing(T[n].entries) /\ Less(Top(T, m), Low(T, n))
      /\ Top(T, m) = B[Root].entries[mid].e
  BY RootEntries
<1>6. ASSUME NEW q \in DOMAIN T PROVE SortedAt(T, q)
  <2>1. CASE q = m
    BY <1>3, <1>5, <2>1 DEF SortedAt
  <2>2. CASE q = n
    BY <1>3, <1>5, <2>2 DEF SortedAt
  <2>3. CASE q = Root
    <3>1. DOMAIN T[Root].entries = 1 .. 1
      BY <1>2, <1>3, PageFacts
    <3>2. Increasing(T[Root].entries)
      BY <3>1 DEF Increasing
    <3> QED
      BY <1>3, <2>3, <3>2 DEF SortedAt
  <2>4. CASE q \notin {m, n, Root}
    <3>1. q \in DOMAIN B /\ q # Root /\ T[q] = B[q] /\ SortedAt(B, q)
      BY <1>1, <1>3, <2>4
    <3>2. B[q].next # 0 => B[q].next \in DOMAIN B \ {Root}
      BY <1>1, <3>1, LinkFacts
    <3>3. B[q].next # 0 => T[B[q].next] = B[B[q].next]
      BY <1>3, <3>2
    <3> QED
      BY <3>1, <3>3 DEF SortedAt, Top, Low
  <2> QED
    BY <2>1, <2>2, <2>3, <2>4
<1>7. ASSUME NEW q \in DOMAIN T, NEW i \in 1 .. Len(T[q].entries), ~ Leaf(T[q])
      PROVE  T[q].entries[i].e = Top(T, T[q].entries[i].child)
  <2>1. CASE q = Root
    <3>1. i = 1
      <4>1. i \in 1 .. 1
        BY <1>3, <1>7, <2>1
      <4> QED
        BY <4>1
    <3> QED
      BY <1>3, <1>5, <2>1, <3>1
  <2>2. CASE q # Root
    <3> DEFINE x == RootWas(q, m, n)
               k == RootNo(q, i, n, mid)
    <3>1. i \in ChildNos(T[q]) /\ T[q].entries[i].child = Child(T[q], i) /\ i \in Nat /\ i <= Len(T[q].entries)
      <4>1. Len(T[q].entries) \in Nat
        BY <1>2, <1>7, NodeFacts
      <4> QED
        BY <1>2, <1>7, <4>1, NodeFacts
    <3>2. /\ x \in DOMAIN B /\ k \in ChildNos(B[x]) /\ Child(T[q], i) = Child(B[x], k) /\ k <= Len(B[x].entries)
          /\ Child(T[q], i) \in DOMAIN B \ {Root} /\ T[Child(T[q], i)] = B[Child(T[q], i)]
      BY <1>1, <2>2, <3>1, RootSlot
    <3>3. T[q].entries[i] = B[x].entries[k]
      <4>1. CASE q = m
        <5>1. x = Root /\ k = i
          BY <1>3, <4>1 DEF RootWas, RootNo
        <5>2. i \in 1 .. mid
          BY <1>3, <1>7, <4>1
        <5> HIDE DEF x, k
        <5> QED
          BY <1>3, <4>1, <5>1, <5>2
      <4>2. CASE q = n
        <5>1. x = Root /\ k = i + mid
          BY <4>2 DEF RootWas, RootNo
        <5>2. i \in 1 .. Len(B[Root].entries) - mid /\ i + mid = mid + i
          BY <1>3, <1>7, <3>1, <4>2
        <5> HIDE DEF x, k
        <5> QED
          BY <1>3, <4>2, <5>1, <5>2
      <4>3. CASE q \notin {m, n}
        <5>1. x = q /\ k = i
          BY <4>3 DEF RootWas, RootNo
        <5>2. T[q] = B[q]
          BY <1>3, <2>2, <4>3
        <5> HIDE DEF x, k
        <5> QED
          BY <5>1, <5>2
      <4> QED
        BY <4>1, <4>2, <4>3
    <3> HIDE DEF x, k
    <3>4. k \in 1 .. Len(B[x].entries) /\ ~ Leaf(B[x])
      <4>1. ~ Leaf(B[x]) /\ k \in Nat /\ 1 <= k /\ Len(B[x].entries) \in Nat
        BY <1>1, <3>2, NodeNos
      <4> QED
        BY <3>2, <4>1
    <3>5. B[x].entries[k].e = Top(B, Child(B[x], k)) /\ B[x].entries[k].child = Child(B[x], k)
      <4>1. Child(B[x], k) # Root
        BY <3>2
      <4> HIDE DEF Root
      <4> QED
        BY <3>2, <3>4, <4>1, Dividers
    <3> QED
      BY <3>1, <3>2, <3>3, <3>5 DEF Top
  <2> QED
    BY <2>1, <2>2
<1>8. Divided(T, 0)
  <2> SUFFICES ASSUME NEW q \in DOMAIN T, NEW i \in DOMAIN T[q].entries, ~ Leaf(T[q])
               PROVE  T[q].entries[i].e = Last(T[T[q].entries[i].child].entries).e
    BY DEF Divided
  <2>1. i \in 1 .. Len(T[q].entries)
    BY <1>2, PageFacts
  <2> QED
    BY <1>7, <2>1 DEF Top
<1>9. Sorted(T)
  BY <1>6, SortedPages
<1>10. BTree(T, 0)
  BY <1>4, <1>8, <1>9 DEF BTree, Shaped
<1>11. Indexed(T) = Indexed(B)
  BY <1>1, RootIndexed
<1> QED
  BY <1>10, <1>11

\* The pages splitPage has written for the root.
Rooted(P, s, m, n, mid) ==
    LET old == P[Root]
        low == [level |-> old.level, prev |-> 0, next |-> n, tail |-> 0, entries |-> SubSeq(s, 1, mid)]
        high == [level |-> old.level, prev |-> m, next |-> 0, tail |-> TailKept(old),
                 entries |-> SubSeq(s, mid + 1, Len(s))]
        node == [EmptyLeaf EXCEPT !.level = old.level + 1, !.tail = n,
                                  !.entries = <<Item(s[mid].e, m)>>]
    IN  [q \in DOMAIN P \cup {m, n} |->
            IF q = m THEN low ELSE IF q = n THEN high ELSE IF q = Root THEN node ELSE P[q]]

LEMMA NodeIs ==
    ASSUME NEW a \in Nat, NEW b \in Nat, NEW c \in Seq(ItemSet)
    PROVE  [EmptyLeaf EXCEPT !.level = a, !.tail = b, !.entries = c] =
               [level |-> a, prev |-> 0, next |-> 0, tail |-> b, entries |-> c]
<1> DEFINE leaf == EmptyLeaf
           r == [leaf EXCEPT !.level = a, !.tail = b, !.entries = c]
           t == [level |-> a, prev |-> 0, next |-> 0, tail |-> b, entries |-> c]
<1>1. leaf \in Page /\ leaf.prev = 0 /\ leaf.next = 0
  <2>1. << >> \in Seq([e : Entry, child : Nat])
    OBVIOUS
  <2> QED
    BY <2>1 DEF EmptyLeaf, Page
<1>2. c \in Seq([e : Entry, child : Nat])
  BY DEF ItemSet
<1> HIDE DEF leaf
<1>3. r \in Page /\ r.level = a /\ r.prev = 0 /\ r.next = 0 /\ r.tail = b /\ r.entries = c
  BY <1>1, <1>2 DEF Page
<1>4. t \in Page /\ t.level = a /\ t.prev = 0 /\ t.next = 0 /\ t.tail = b /\ t.entries = c
  BY <1>2 DEF Page
<1> HIDE DEF r, t
<1>5. r = t
  BY <1>3, <1>4, SamePage
<1> QED
  BY <1>5 DEF r, t, leaf

LEMMA RootedSplit ==
    ASSUME NEW P, NEW none, Typed(P, none), Root \in DOMAIN P, NEW s \in Seq(ItemSet), NEW mid, Halved(s, mid),
           NEW m \in Nat \ {0}, NEW n \in Nat \ {0}, m # n, m \notin DOMAIN P, n \notin DOMAIN P
    PROVE  /\ RootSplit(At(P, Root, s), Rooted(P, s, m, n, mid), m, n, mid)
           /\ Rooted(P, s, m, n, mid)[m].entries = SubSeq(s, 1, mid)
           /\ Rooted(P, s, m, n, mid)[n].entries = SubSeq(s, mid + 1, Len(s))
<1> DEFINE low == [level |-> P[Root].level, prev |-> 0, next |-> n, tail |-> 0, entries |-> SubSeq(s, 1, mid)]
           high == [level |-> P[Root].level, prev |-> m, next |-> 0, tail |-> P[Root].tail,
                    entries |-> SubSeq(s, mid + 1, Len(s))]
           top == <<Item(s[mid].e, m)>>
           node == [level |-> P[Root].level + 1, prev |-> 0, next |-> 0, tail |-> n, entries |-> top]
           B == At(P, Root, s)
           T == Rooted(P, s, m, n, mid)
<1>1. /\ mid \in Nat /\ 1 <= mid /\ mid < Len(s) /\ Len(s) \in Nat
      /\ SubSeq(s, 1, mid) \in Seq(ItemSet) /\ SubSeq(s, mid + 1, Len(s)) \in Seq(ItemSet)
      /\ Len(SubSeq(s, 1, mid)) = mid /\ Len(SubSeq(s, mid + 1, Len(s))) = Len(s) - mid
      /\ (\A k \in 1 .. mid : SubSeq(s, 1, mid)[k] = s[k])
      /\ \A k \in 1 .. Len(s) - mid : SubSeq(s, mid + 1, Len(s))[k] = s[mid + k]
  BY SMTT(60) DEF Halved
<1>2. P[Root] \in Page /\ P[Root].level \in Nat /\ P[Root].tail \in Nat
  <2>1. P[Root] \in Page
    BY DEF Typed
  <2> QED
    BY <2>1 DEF Page
<1>3. top \in Seq(ItemSet) /\ Len(top) = 1 /\ top[1].child = m /\ top[1].e = s[mid].e
  <2>1. mid \in 1 .. Len(s)
    BY <1>1
  <2>2. s[mid] \in ItemSet
    BY <2>1
  <2>3. Item(s[mid].e, m) \in ItemSet /\ Item(s[mid].e, m).child = m /\ Item(s[mid].e, m).e = s[mid].e
    BY <2>2 DEF Item, ItemSet
  <2> QED
    BY <2>3
<1>4. T = [q \in DOMAIN P \cup {m, n} |->
              IF q = m THEN low ELSE IF q = n THEN high ELSE IF q = Root THEN node ELSE P[q]]
  <2>1. node = [EmptyLeaf EXCEPT !.level = P[Root].level + 1, !.tail = n, !.entries = top]
    <3>1. P[Root].level + 1 \in Nat
      BY <1>2
    <3> HIDE DEF top
    <3> QED
      BY <1>3, <3>1, NodeIs
  <2> QED
    BY <2>1 DEF Rooted, TailKept
<1>5. low \in Page /\ high \in Page /\ node \in Page
  <2>1. SubSeq(s, 1, mid) \in Seq([e : Entry, child : Nat]) /\ SubSeq(s, mid + 1, Len(s)) \in Seq([e : Entry, child : Nat])
        /\ top \in Seq([e : Entry, child : Nat])
    BY <1>1, <1>3 DEF ItemSet
  <2> HIDE DEF top
  <2> QED
    BY <1>2, <2>1 DEF Page
<1>6. /\ low.level = P[Root].level /\ low.prev = 0 /\ low.next = n /\ low.tail = 0 /\ low.entries = SubSeq(s, 1, mid)
      /\ high.level = P[Root].level /\ high.prev = m /\ high.next = 0 /\ high.tail = P[Root].tail
      /\ high.entries = SubSeq(s, mid + 1, Len(s))
      /\ node.level = P[Root].level + 1 /\ node.prev = 0 /\ node.next = 0 /\ node.tail = n /\ node.entries = top
  OBVIOUS
<1> HIDE DEF low, high, node, top, T
<1>7. m # Root /\ n # Root
  OBVIOUS
<1>8. /\ DOMAIN T = DOMAIN P \cup {m, n} /\ T[m] = low /\ T[n] = high /\ T[Root] = node
      /\ \A q \in DOMAIN P \ {Root} : T[q] = P[q]
  BY <1>4, <1>7
<1>9. T \in [DOMAIN T -> Page]
  <2>1. \A q \in DOMAIN T : T[q] \in Page
    <3> TAKE q \in DOMAIN T
    <3>1. q = m \/ q = n \/ q = Root \/ q \in DOMAIN P \ {Root}
      BY <1>8
    <3>2. \A x \in DOMAIN P : P[x] \in Page
      BY DEF Typed
    <3> QED
      BY <1>5, <1>8, <3>1, <3>2
  <2>2. T = [q \in DOMAIN T |-> T[q]]
    BY <1>4
  <2> QED
    BY <2>1, <2>2
<1>10. /\ DOMAIN B = DOMAIN P /\ B[Root].entries = s /\ B[Root].level = P[Root].level /\ B[Root].tail = P[Root].tail
       /\ \A q \in DOMAIN P \ {Root} : B[q] = P[q]
  BY TypedAt
<1> HIDE DEF B
<1>11. RootSplit(B, T, m, n, mid)
  <2>1. {m, n} \subseteq Nat \ {0} /\ m # n /\ m \notin DOMAIN B /\ n \notin DOMAIN B
    BY <1>10
  <2>2. mid \in Nat /\ 1 <= mid /\ mid < Len(B[Root].entries) /\ DOMAIN T = DOMAIN B \cup {m, n}
    BY <1>1, <1>8, <1>10
  <2>3. /\ T[m].level = B[Root].level /\ T[m].prev = 0 /\ T[m].next = n /\ T[m].tail = 0
        /\ Len(T[m].entries) = mid /\ \A k \in 1 .. mid : T[m].entries[k] = B[Root].entries[k]
    BY <1>1, <1>6, <1>8, <1>10
  <2>4. /\ T[n].level = B[Root].level /\ T[n].prev = m /\ T[n].next = 0 /\ T[n].tail = B[Root].tail
        /\ Len(T[n].entries) = Len(B[Root].entries) - mid
        /\ \A k \in 1 .. Len(B[Root].entries) - mid : T[n].entries[k] = B[Root].entries[mid + k]
    BY <1>1, <1>6, <1>8, <1>10
  <2>5. /\ T[Root].level = B[Root].level + 1 /\ T[Root].prev = 0 /\ T[Root].next = 0 /\ T[Root].tail = n
        /\ Len(T[Root].entries) = 1 /\ T[Root].entries[1].child = m /\ T[Root].entries[1].e = B[Root].entries[mid].e
    BY <1>3, <1>6, <1>8, <1>10
  <2>6. \A q \in DOMAIN B \ {Root} : T[q] = B[q]
    BY <1>8, <1>10
  <2> QED
    BY <1>9, <2>1, <2>2, <2>3, <2>4, <2>5, <2>6 DEF RootSplit
<1>12. T[m].entries = SubSeq(s, 1, mid) /\ T[n].entries = SubSeq(s, mid + 1, Len(s))
  BY <1>6, <1>8
<1> QED
  BY <1>11, <1>12 DEF B, T

LEMMA RootIs ==
    ASSUME NEW P, NEW path, path[1] = Root, NEW s, Len(s) > PageSize
    PROVE  After(P, path, ToInsert(1, s)) =
               Wrote(Rooted(P, s, NewPage(DOMAIN P), NewPage(DOMAIN P \cup {NewPage(DOMAIN P)}), HalfOf(s)), << >>)
<1>1. After(P, path, ToInsert(1, s)) = InsertIntoPage(P, path, 1, s)
  BY DEF After, ToInsert
<1>2. InsertIntoPage(P, path, 1, s) = SplitRoot(P, s)
  BY DEF InsertIntoPage
<1> QED
  BY <1>1, <1>2 DEF SplitRoot, Rooted, HalfOf

LEMMA RootSplitStep ==
    ASSUME NEW P, NEW gone, NEW path, NEW s, NEW X, Pending(P, gone, path, 1, s, X), Len(s) > PageSize
    PROVE  Answered(After(P, path, ToInsert(1, s)), gone, path, X, 1)
<1> DEFINE B == At(P, Root, s)
           m == NewPage(DOMAIN P)
           n == NewPage(DOMAIN P \cup {m})
           mid == HalfOf(s)
           T == Rooted(P, s, m, n, mid)
<1>1. Open(P, gone, path, 1) /\ s \in Seq(ItemSet) /\ Len(s) <= PageSize + 1 /\ Len(s) \in Nat /\ PageSize \in Nat
  BY IndexConstants DEF Pending
<1>2. gone = {}
  <2>1. gone = {} \/ Len(s) <= PageSize
    BY DEF Pending
  <2> QED
    BY <1>1, <2>1
<1>3. \A x : x \notin gone
  BY <1>2
<1>4. Typed(P, gone) /\ path[1] = Root /\ Root \in DOMAIN P
  <2>1. 1 \in 1 .. 1
    OBVIOUS
  <2> QED
    BY <1>1, <2>1, OpenFacts
<1>5. Unlinked(P, gone) = P
  BY <1>3, <1>4, UnlinkedNone
<1>6. BTree(B, Root) /\ Indexed(B) = X
  BY <1>4, <1>5 DEF Pending
<1>7. Halved(s, mid)
  BY <1>1, Halves
<1>8. After(P, path, ToInsert(1, s)) = Wrote(T, << >>)
  BY <1>4, RootIs
<1> HIDE DEF mid
<1>9. m \in Nat \ {0} /\ m \notin DOMAIN P /\ n \in Nat \ {0} /\ n \notin DOMAIN P /\ m # n
  <2>1. DOMAIN B = DOMAIN P
    BY <1>1, <1>4, TypedAt
  <2>2. IsFiniteSet(DOMAIN B)
    BY <1>6 DEF BTree, PagesOK
  <2>3. IsFiniteSet(DOMAIN P)
    BY <2>1, <2>2
  <2>4. m \in Nat \ {0} /\ m \notin DOMAIN P
    BY <2>3, NewPageIs
  <2> HIDE DEF m
  <2>5. IsFiniteSet(DOMAIN P \cup {m})
    BY <2>3, FS_AddElement
  <2>6. n \in Nat \ {0} /\ n \notin DOMAIN P \cup {m}
    BY <2>5, NewPageIs
  <2> QED
    BY <2>4, <2>6
<1> HIDE DEF m, n
<1>10. /\ RootSplit(B, T, m, n, mid)
       /\ T[m].entries = SubSeq(s, 1, mid) /\ T[n].entries = SubSeq(s, mid + 1, Len(s))
  BY <1>1, <1>4, <1>7, <1>9, RootedSplit
<1> HIDE DEF T
<1>11. BTree(T, 0) /\ Indexed(T) = X
  <2> HIDE DEF B, Root
  <2> QED
    BY <1>6, <1>10, RootTree
<1>12. DOMAIN B = DOMAIN P /\ \A q \in DOMAIN P \ {Root} : B[q] = P[q]
  BY <1>1, <1>4, TypedAt
<1>13. Fits(T)
  <2> SUFFICES ASSUME NEW q \in DOMAIN T PROVE Len(T[q].entries) <= PageSize
    BY DEF Fits
  <2>1. CASE q = m
    BY <1>7, <1>10, <2>1 DEF Halved
  <2>2. CASE q = n
    BY <1>7, <1>10, <2>2 DEF Halved
  <2>3. CASE q = Root
    <3>1. Len(T[Root].entries) = 1
      BY <1>10 DEF RootSplit
    <3>2. PageSize >= 2
      BY IndexConstants
    <3> QED
      BY <1>1, <2>3, <3>1, <3>2
  <2>4. CASE q \notin {m, n, Root}
    <3>1. q \in DOMAIN P \ {Root} /\ T[q] = P[q]
      BY <1>10, <1>12, <2>4 DEF RootSplit
    <3>2. q \in DOMAIN P \ gone /\ q # path[1]
      BY <1>3, <1>4, <3>1
    <3> QED
      BY <3>1, <3>2 DEF Pending
  <2> QED
    BY <2>1, <2>2, <2>3, <2>4
<1>14. Typed(T, gone)
  <2>1. T \in [DOMAIN T -> Page]
    BY <1>10 DEF RootSplit
  <2>2. 0 \notin DOMAIN T
    BY <1>11 DEF BTree, PagesOK
  <2> QED
    BY <1>3, <2>1, <2>2 DEF Typed
<1>15. Unlinked(T, gone) = T
  BY <1>3, <1>14, UnlinkedNone
<1>16. Done(T, gone, X)
  BY <1>11, <1>13, <1>14, <1>15 DEF Done
<1> QED
  BY <1>8, <1>16, WroteIs DEF Answered
-----------------------------------------------------------------------------
(* A page that is taken out of its parent *)

\* B without the chain g of pages that has been emptied: it hung on u, as the
\* j-th child.
Removal(B, T, g, u, j) ==
    /\ g \subseteq DOMAIN B /\ u \in DOMAIN B \ g /\ j \in ChildNos(B[u]) /\ Child(B[u], j) \in g
    /\ \A x \in g : /\ Len(B[x].entries) = 1 /\ B[x].tail = 0 /\ B[x].level < B[u].level
                    /\ \A k \in ChildNos(B[x]) : Child(B[x], k) \in g
    /\ \A x, y \in g : B[x].level = B[y].level => x = y
    /\ \A q \in DOMAIN B \ g : \A k \in ChildNos(B[q]) : Child(B[q], k) \in g => q = u /\ k = j
    /\ DOMAIN T = DOMAIN B \ g /\ T \in [DOMAIN T -> Page]
    /\ T[u].entries # << >>
    /\ Len(T[u].entries) = (IF j <= Len(B[u].entries) THEN Len(B[u].entries) - 1 ELSE Len(B[u].entries))
    /\ \A k \in 1 .. Len(T[u].entries) :
         T[u].entries[k] = IF k < j THEN B[u].entries[k] ELSE B[u].entries[k + 1]
    /\ T[u].tail = (IF j <= Len(B[u].entries) THEN B[u].tail ELSE 0)
    /\ \A q \in DOMAIN B \ g :
         /\ T[q].level = B[q].level
         /\ q # u => T[q].tail = B[q].tail /\ T[q].entries = B[q].entries
         /\ T[q].next = (IF B[q].next \in g THEN B[B[q].next].next ELSE B[q].next)
         /\ T[q].prev = (IF B[q].prev \in g THEN B[B[q].prev].prev ELSE B[q].prev)

\* Where a child was.
RemNo(q, k, u, j) == IF q = u /\ k >= j THEN k + 1 ELSE k

LEMMA RemovalFacts ==
    ASSUME NEW B, NEW T, NEW g, NEW u, NEW j, BTree(B, 0), Removal(B, T, g, u, j)
    PROVE  /\ PagesOK(B) /\ Root \in DOMAIN B /\ Root \in DOMAIN T /\ 0 \notin g /\ u \in DOMAIN T
           /\ ~ Leaf(B[u]) /\ ~ Leaf(T[u]) /\ B[u].level \in Nat
           /\ Len(B[u].entries) \in Nat /\ Len(B[u].entries) >= 1 /\ j \in Nat /\ 1 <= j
           /\ (j <= Len(B[u].entries) \/ (B[u].tail # 0 /\ j = Len(B[u].entries) + 1))
           /\ \A q \in DOMAIN B : B[q].level = B[u].level => q \notin g
           /\ \A x \in g : B[x].next \notin g /\ B[x].prev \notin g
<1>0. Shaped(B) /\ PagesOK(B)
  BY TreeParts
<1>1. /\ u \in DOMAIN B /\ u \notin g /\ g \subseteq DOMAIN B /\ j \in ChildNos(B[u])
      /\ (\A x \in g : B[x].level < B[u].level) /\ DOMAIN T = DOMAIN B \ g /\ T[u].level = B[u].level
      /\ \A x, y \in g : B[x].level = B[y].level => x = y
  BY DEF Removal
<1>2. /\ ~ Leaf(B[u]) /\ j \in Nat /\ 1 <= j /\ Len(B[u].entries) \in Nat
      /\ (j <= Len(B[u].entries) \/ (B[u].tail # 0 /\ j = Len(B[u].entries) + 1))
  BY <1>0, <1>1, NodeNos
<1>3. Len(B[u].entries) >= 1 /\ B[u].level \in Nat
  BY <1>0, <1>1, <1>2, NodeFacts, PageFacts
<1>4. Root \in DOMAIN B /\ 0 \notin g
  BY <1>0, <1>1, RootFacts, PageFacts
<1>5. Root \notin g
  <2>1. u = Root \/ B[u].level < B[Root].level
    BY <1>0, <1>1, RootLevel
  <2>2. B[Root].level \in Nat
    BY <1>0, RootFacts
  <2> HIDE DEF Root
  <2> QED
    BY <1>1, <1>3, <2>1, <2>2
<1>6. \A q \in DOMAIN B : B[q].level = B[u].level => q \notin g
  BY <1>1, <1>3
<1>7. ASSUME NEW x \in g PROVE B[x].next \notin g /\ B[x].prev \notin g
  <2>1. x \in DOMAIN B
    BY <1>1
  <2>2. /\ (B[x].next # 0 => B[B[x].next].level = B[x].level /\ B[B[x].next].prev = x /\ B[x].next \in DOMAIN B)
        /\ (B[x].prev # 0 => B[B[x].prev].level = B[x].level /\ B[B[x].prev].next = x /\ B[x].prev \in DOMAIN B)
    BY <1>0, <2>1, LinkFacts
  <2>3. B[x].next # x /\ B[x].prev # x
    BY <2>1, NoLoop
  <2>4. B[x].next \notin g /\ B[x].prev \notin g
    BY <1>1, <1>4, <2>2, <2>3
  <2> QED
    BY <2>4
<1> QED
  BY <1>0, <1>1, <1>2, <1>3, <1>4, <1>5, <1>6, <1>7 DEF Leaf

LEMMA RemovalPages ==
    ASSUME NEW B, NEW T, NEW g, NEW u, NEW j, BTree(B, 0), Removal(B, T, g, u, j)
    PROVE  PagesOK(T) /\ Linked(T)
<1>0. Shaped(B) /\ PagesOK(B)
  BY TreeParts
<1>1. /\ Root \in DOMAIN B /\ Root \in DOMAIN T /\ 0 \notin g /\ u \in DOMAIN T /\ ~ Leaf(B[u]) /\ ~ Leaf(T[u])
      /\ \A x \in g : B[x].next \notin g /\ B[x].prev \notin g
  BY RemovalFacts
<1>2. /\ DOMAIN T = DOMAIN B \ g /\ g \subseteq DOMAIN B /\ T \in [DOMAIN T -> Page] /\ T[u].entries # << >>
      /\ (T[u].tail # 0 => B[u].tail # 0)
      /\ \A q \in DOMAIN B \ g :
            /\ T[q].level = B[q].level
            /\ q # u => T[q].tail = B[q].tail /\ T[q].entries = B[q].entries
            /\ T[q].next = (IF B[q].next \in g THEN B[B[q].next].next ELSE B[q].next)
            /\ T[q].prev = (IF B[q].prev \in g THEN B[B[q].prev].prev ELSE B[q].prev)
  BY DEF Removal
<1>3. DOMAIN T \subseteq Nat \ {0} /\ IsFiniteSet(DOMAIN T)
  <2>1. DOMAIN B \subseteq Nat \ {0} /\ IsFiniteSet(DOMAIN B)
    BY <1>0 DEF PagesOK
  <2> QED
    BY <1>2, <2>1, FS_Subset
<1>4. ASSUME NEW q \in DOMAIN T, T[q].entries = << >> PROVE q = Root /\ T[q] = EmptyLeaf
  <2>1. q # u /\ q \in DOMAIN B \ g
    BY <1>2, <1>4
  <2>2. q = Root /\ B[q] = EmptyLeaf
    BY <1>0, <1>2, <1>4, <2>1 DEF PagesOK
  <2>3. B[q].level = 0 /\ B[q].prev = 0 /\ B[q].next = 0 /\ B[q].tail = 0
    BY <2>2 DEF EmptyLeaf
  <2>4. T[q] \in Page /\ B[q] \in Page
    BY <1>0, <1>2, <2>1 DEF PagesOK
  <2>5. T[q] = B[q]
    <3>1. T[q].level = B[q].level /\ T[q].prev = B[q].prev /\ T[q].next = B[q].next /\ T[q].tail = B[q].tail
          /\ T[q].entries = B[q].entries
      BY <1>1, <1>2, <2>1, <2>3
    <3> QED
      BY <2>4, <3>1, SamePage
  <2> QED
    BY <2>2, <2>5
<1>5. ASSUME NEW q \in DOMAIN T, T[q].tail # 0 PROVE ~ Leaf(T[q]) /\ T[q].next = 0
  <2>1. q \in DOMAIN B \ g /\ B[q].tail # 0
    BY <1>2, <1>5
  <2>2. ~ Leaf(B[q]) /\ B[q].next = 0
    BY <1>0, <2>1 DEF PagesOK
  <2> QED
    BY <1>1, <1>2, <2>1, <2>2 DEF Leaf
<1>6. PagesOK(T)
  BY <1>2, <1>3, <1>4, <1>5 DEF PagesOK
<1>7. ASSUME NEW q \in DOMAIN T
      PROVE  /\ T[q].next # 0 => T[q].next \in DOMAIN T /\ T[T[q].next].prev = q /\ T[T[q].next].level = T[q].level
             /\ T[q].prev # 0 => T[q].prev \in DOMAIN T /\ T[T[q].prev].next = q
  <2>0. q \in DOMAIN B /\ q \notin g
    BY <1>2
  <2>1. ASSUME T[q].next # 0
        PROVE  T[q].next \in DOMAIN T /\ T[T[q].next].prev = q /\ T[T[q].next].level = T[q].level
    <3>1. CASE B[q].next \in g
      <4> DEFINE y == B[q].next
                 z == B[y].next
      <4>1. y \in DOMAIN B /\ y \in g /\ y # 0
        BY <1>1, <1>2, <3>1
      <4>2. B[y].prev = q /\ B[y].level = B[q].level
        BY <1>0, <2>0, <4>1, LinkFacts
      <4>3. T[q].next = z /\ z # 0 /\ z \notin g
        BY <1>1, <1>2, <2>0, <2>1, <3>1
      <4>4. z \in DOMAIN B /\ B[z].prev = y /\ B[z].level = B[y].level
        <5> HIDE DEF y
        <5> QED
          BY <1>0, <4>1, <4>3, LinkFacts
      <4> HIDE DEF y, z
      <4> QED
        BY <1>2, <2>0, <4>1, <4>2, <4>3, <4>4
    <3>2. CASE B[q].next \notin g
      <4>1. T[q].next = B[q].next /\ B[q].next # 0
        BY <1>2, <2>0, <2>1, <3>2
      <4>2. B[q].next \in DOMAIN B /\ B[B[q].next].prev = q /\ B[B[q].next].level = B[q].level
        BY <1>0, <2>0, <4>1, LinkFacts
      <4> QED
        BY <1>2, <2>0, <3>2, <4>1, <4>2
    <3> QED
      BY <3>1, <3>2
  <2>2. ASSUME T[q].prev # 0
        PROVE  T[q].prev \in DOMAIN T /\ T[T[q].prev].next = q
    <3>1. CASE B[q].prev \in g
      <4> DEFINE y == B[q].prev
                 z == B[y].prev
      <4>1. y \in DOMAIN B /\ y \in g /\ y # 0
        BY <1>1, <1>2, <3>1
      <4>2. B[y].next = q
        BY <1>0, <2>0, <4>1, LinkFacts
      <4>3. T[q].prev = z /\ z # 0 /\ z \notin g
        BY <1>1, <1>2, <2>0, <2>2, <3>1
      <4>4. z \in DOMAIN B /\ B[z].next = y
        <5> HIDE DEF y
        <5> QED
          BY <1>0, <4>1, <4>3, LinkFacts
      <4> HIDE DEF y, z
      <4> QED
        BY <1>2, <2>0, <4>1, <4>2, <4>3, <4>4
    <3>2. CASE B[q].prev \notin g
      <4>1. T[q].prev = B[q].prev /\ B[q].prev # 0
        BY <1>2, <2>0, <2>2, <3>2
      <4>2. B[q].prev \in DOMAIN B /\ B[B[q].prev].next = q
        BY <1>0, <2>0, <4>1, LinkFacts
      <4> QED
        BY <1>2, <2>0, <3>2, <4>1, <4>2
    <3> QED
      BY <3>1, <3>2
  <2> QED
    BY <2>1, <2>2
<1>8. T[Root].prev = 0 /\ T[Root].next = 0
  <2>1. B[Root].prev = 0 /\ B[Root].next = 0
    BY <1>0, RootFacts
  <2> QED
    BY <1>1, <1>2, <2>1
<1>9. Linked(T)
  BY <1>1, <1>7, <1>8 DEF Linked
<1> QED
  BY <1>6, <1>9

LEMMA RemovalNos ==
    ASSUME NEW B, NEW T, NEW g, NEW u, NEW j, BTree(B, 0), Removal(B, T, g, u, j), NEW q \in DOMAIN T, NEW k \in Nat, k >= 1
    PROVE  /\ k \in ChildNos(T[q]) <=> RemNo(q, k, u, j) \in ChildNos(B[q])
           /\ k \in ChildNos(T[q]) => /\ Child(T[q], k) = Child(B[q], RemNo(q, k, u, j))
                                      /\ (k <= Len(T[q].entries) => RemNo(q, k, u, j) <= Len(B[q].entries))
<1>0. Shaped(B) /\ PagesOK(B) /\ PagesOK(T)
  BY TreeParts, RemovalPages
<1>1. DOMAIN T = DOMAIN B \ g
  BY DEF Removal
<1>2. CASE q # u
  <2>1. T[q].level = B[q].level /\ T[q].tail = B[q].tail /\ T[q].entries = B[q].entries
    BY <1>1, <1>2 DEF Removal
  <2>2. RemNo(q, k, u, j) = k
    BY <1>2 DEF RemNo
  <2> QED
    BY <2>1, <2>2 DEF ChildNos, Child, Leaf
<1>3. CASE q = u
  <2> DEFINE d == B[u].entries
             n == Len(d)
             t == T[u].entries
             m == Len(t)
             r == RemNo(u, k, u, j)
  <2>1. /\ u \in DOMAIN T /\ ~ Leaf(B[u]) /\ ~ Leaf(T[u]) /\ n \in Nat /\ n >= 1 /\ j \in Nat /\ 1 <= j
        /\ (j <= n \/ (B[u].tail # 0 /\ j = n + 1)) /\ u \in DOMAIN B
    BY <1>1, RemovalFacts
  <2>2. /\ m = (IF j <= n THEN n - 1 ELSE n)
        /\ \A i \in 1 .. m : t[i] = IF i < j THEN d[i] ELSE d[i + 1]
        /\ T[u].tail = (IF j <= n THEN B[u].tail ELSE 0)
    BY DEF Removal
  <2>3. /\ \A i : i \in ChildNos(T[u]) <=> i \in 1 .. m \/ (T[u].tail # 0 /\ i = m + 1)
        /\ \A i \in 1 .. m : Child(T[u], i) = t[i].child
        /\ Child(T[u], m + 1) = T[u].tail
    BY <1>0, <2>1, NodeFacts
  <2>4. /\ \A i : i \in ChildNos(B[u]) <=> i \in 1 .. n \/ (B[u].tail # 0 /\ i = n + 1)
        /\ \A i \in 1 .. n : Child(B[u], i) = d[i].child
        /\ Child(B[u], n + 1) = B[u].tail
    BY <1>0, <2>1, NodeFacts
  <2>5. r = (IF k >= j THEN k + 1 ELSE k)
    BY DEF RemNo
  <2> HIDE DEF n, m, r, t, d
  <2>6. k \in ChildNos(T[u]) <=> r \in ChildNos(B[u])
    <3>1. k \in ChildNos(T[u]) <=> k \in 1 .. m \/ (T[u].tail # 0 /\ k = m + 1)
      BY <2>3
    <3>2. r \in ChildNos(B[u]) <=> r \in 1 .. n \/ (B[u].tail # 0 /\ r = n + 1)
      BY <2>4
    <3>3. CASE j <= n
      <4>1. m = n - 1 /\ T[u].tail = B[u].tail
        BY <2>2, <3>3
      <4>2. k \in 1 .. m <=> r \in 1 .. n
        BY <2>1, <2>5, <3>3, <4>1
      <4>3. k = m + 1 <=> r = n + 1
        BY <2>1, <2>5, <3>3, <4>1
      <4> QED
        BY <3>1, <3>2, <4>1, <4>2, <4>3
    <3>4. CASE ~ (j <= n)
      <4>1. m = n /\ T[u].tail = 0 /\ j = n + 1
        BY <2>1, <2>2, <3>4
      <4>2. k \in 1 .. m <=> r \in 1 .. n
        BY <2>1, <2>5, <4>1
      <4>3. r # n + 1
        BY <2>1, <2>5, <4>1
      <4> QED
        BY <3>1, <3>2, <4>1, <4>2, <4>3
    <3> QED
      BY <3>3, <3>4
  <2>7. ASSUME k \in ChildNos(T[u])
        PROVE  Child(T[u], k) = Child(B[u], r) /\ (k <= m => r <= n)
    <3>1. k \in 1 .. m \/ (T[u].tail # 0 /\ k = m + 1)
      BY <2>3, <2>7
    <3>2. CASE k \in 1 .. m
      <4>1. Child(T[u], k) = t[k].child /\ t[k] = IF k < j THEN d[k] ELSE d[k + 1]
        BY <2>2, <2>3, <3>2
      <4>2. r \in 1 .. n
        BY <2>1, <2>2, <2>5, <3>2
      <4>3. Child(B[u], r) = d[r].child
        BY <2>4, <4>2
      <4>4. t[k] = d[r]
        BY <2>1, <2>5, <4>1
      <4>5. r <= n
        BY <2>1, <4>2
      <4> QED
        BY <4>1, <4>3, <4>4, <4>5
    <3>3. CASE T[u].tail # 0 /\ k = m + 1
      <4>1. j <= n /\ T[u].tail = B[u].tail /\ m = n - 1
        BY <2>2, <3>3
      <4>2. r = n + 1 /\ ~ (k <= m)
        BY <2>1, <2>5, <3>3, <4>1
      <4> QED
        BY <2>3, <2>4, <3>3, <4>1, <4>2
    <3> QED
      BY <3>1, <3>2, <3>3
  <2> QED
    BY <1>3, <2>6, <2>7 DEF n, m, r, t, d
<1> QED
  BY <1>2, <1>3

LEMMA RemovalSlot ==
    ASSUME NEW B, NEW T, NEW g, NEW u, NEW j, BTree(B, 0), Removal(B, T, g, u, j),
           NEW q \in DOMAIN T, NEW i \in ChildNos(T[q])
    PROVE  LET k == RemNo(q, i, u, j)
               c == Child(T[q], i)
           IN  /\ i \in Nat /\ 1 <= i /\ q \in DOMAIN B /\ k \in ChildNos(B[q]) /\ c = Child(B[q], k)
               /\ ~ (q = u /\ k = j) /\ c \in DOMAIN T \ {Root}
               /\ (i <= Len(T[q].entries) => k <= Len(B[q].entries))
<1>0. Shaped(B) /\ PagesOK(B) /\ PagesOK(T)
  BY TreeParts, RemovalPages
<1>1. DOMAIN T = DOMAIN B \ g
  BY DEF Removal
<1>2. i \in Nat /\ 1 <= i
  BY <1>0, NodeNos
<1> DEFINE k == RemNo(q, i, u, j)
           c == Child(T[q], i)
<1>3. k \in ChildNos(B[q]) /\ c = Child(B[q], k) /\ (i <= Len(T[q].entries) => k <= Len(B[q].entries))
  BY <1>2, RemovalNos
<1>4. ~ (q = u /\ k = j)
  <2>1. j \in Nat
    BY RemovalFacts
  <2> QED
    BY <1>2, <2>1 DEF RemNo
<1> HIDE DEF k, c
<1>5. q \in DOMAIN B \ g
  BY <1>1
<1>6. c \in DOMAIN B \ {Root}
  BY <1>0, <1>3, <1>5, ChildFacts
<1>7. c \notin g
  BY <1>3, <1>4, <1>5 DEF Removal
<1> QED
  BY <1>1, <1>2, <1>3, <1>4, <1>5, <1>6, <1>7 DEF k, c

LEMMA RemovalOnce ==
    ASSUME NEW B, NEW T, NEW g, NEW u, NEW j, BTree(B, 0), Removal(B, T, g, u, j)
    PROVE  /\ \A c \in DOMAIN T \ {Root} : \E q \in DOMAIN T : \E i \in ChildNos(T[q]) : Child(T[q], i) = c
           /\ \A q, x \in DOMAIN T : \A i \in ChildNos(T[q]), k \in ChildNos(T[x]) :
                Child(T[q], i) = Child(T[x], k) => q = x /\ i = k
<1>0. Shaped(B) /\ PagesOK(B) /\ PagesOK(T)
  BY TreeParts, RemovalPages
<1>1. /\ DOMAIN T = DOMAIN B \ g /\ Child(B[u], j) \in g
      /\ \A x \in g : \A k \in ChildNos(B[x]) : Child(B[x], k) \in g
  BY DEF Removal
<1>2. j \in Nat /\ 1 <= j
  BY RemovalFacts
<1>3. ASSUME NEW c \in DOMAIN T \ {Root}
      PROVE  \E q \in DOMAIN T : \E i \in ChildNos(T[q]) : Child(T[q], i) = c
  <2>1. PICK x \in DOMAIN B : \E k \in ChildNos(B[x]) : Child(B[x], k) = c
    BY <1>0, <1>1, <1>3 DEF Shaped, Hung
  <2>2. PICK k \in ChildNos(B[x]) : Child(B[x], k) = c
    BY <2>1
  <2>3. c \notin g /\ x \notin g /\ x \in DOMAIN T
    BY <1>1, <1>3, <2>2
  <2>4. ~ (x = u /\ k = j)
    BY <1>1, <2>2, <2>3
  <2>5. k \in Nat /\ 1 <= k
    BY <1>0, NodeNos
  <2> DEFINE i == IF x = u /\ k > j THEN k - 1 ELSE k
  <2>6. i \in Nat /\ i >= 1 /\ RemNo(x, i, u, j) = k
    BY <1>2, <2>4, <2>5 DEF RemNo
  <2> HIDE DEF i
  <2>7. i \in ChildNos(T[x]) /\ Child(T[x], i) = c
    <3>1. k \in ChildNos(B[x])
      OBVIOUS
    <3>2. i \in ChildNos(T[x]) <=> RemNo(x, i, u, j) \in ChildNos(B[x])
      BY <2>3, <2>6, RemovalNos
    <3>3. i \in ChildNos(T[x])
      BY <2>6, <3>1, <3>2
    <3>4. Child(T[x], i) = Child(B[x], RemNo(x, i, u, j))
      BY <2>3, <2>6, <3>3, RemovalNos
    <3> QED
      BY <2>2, <2>6, <3>3, <3>4
  <2> QED
    BY <2>3, <2>7
<1>4. ASSUME NEW q \in DOMAIN T, NEW x \in DOMAIN T, NEW i \in ChildNos(T[q]), NEW k \in ChildNos(T[x]),
             Child(T[q], i) = Child(T[x], k)
      PROVE  q = x /\ i = k
  <2> DEFINE ii == RemNo(q, i, u, j)
             kk == RemNo(x, k, u, j)
  <2>1. i \in Nat /\ q \in DOMAIN B /\ ii \in ChildNos(B[q]) /\ Child(T[q], i) = Child(B[q], ii)
    BY RemovalSlot
  <2>2. k \in Nat /\ x \in DOMAIN B /\ kk \in ChildNos(B[x]) /\ Child(T[x], k) = Child(B[x], kk)
    BY RemovalSlot
  <2> HIDE DEF ii, kk
  <2>3. q = x /\ ii = kk
    <3>1. Child(B[q], ii) = Child(B[x], kk)
      BY <1>4, <2>1, <2>2
    <3> QED
      BY <1>0, <2>1, <2>2, <3>1, SlotIs
  <2>4. i = k
    BY <1>2, <2>1, <2>2, <2>3 DEF RemNo, ii, kk
  <2> QED
    BY <2>3, <2>4
<1> QED
  BY <1>3, <1>4

LEMMA RemovalFirst ==
    ASSUME NEW B, NEW T, NEW g, NEW u, NEW j, BTree(B, 0), Removal(B, T, g, u, j), NEW v \in DOMAIN T, ~ Leaf(B[v])
    PROVE  /\ v = u /\ j = 1 => 2 \in ChildNos(B[u]) /\ Child(T[v], 1) = Child(B[u], 2)
           /\ ~ (v = u /\ j = 1) => Child(T[v], 1) = Child(B[v], 1) /\ Child(B[v], 1) \notin g
<1>0. Shaped(B) /\ PagesOK(B) /\ PagesOK(T)
  BY TreeParts, RemovalPages
<1>1. DOMAIN T = DOMAIN B \ g /\ T[v].level = B[v].level
  BY DEF Removal
<1>2. ~ Leaf(T[v])
  BY <1>1 DEF Leaf
<1>3. 1 \in ChildNos(T[v])
  BY <1>0, <1>2, NodeFacts
<1>4. Child(T[v], 1) = Child(B[v], RemNo(v, 1, u, j)) /\ RemNo(v, 1, u, j) \in ChildNos(B[v])
      /\ Child(T[v], 1) \in DOMAIN T
  BY <1>3, RemovalSlot
<1>5. j \in Nat /\ 1 <= j
  BY RemovalFacts
<1>6. CASE v = u /\ j = 1
  <2>1. RemNo(v, 1, u, j) = 2
    BY <1>6 DEF RemNo
  <2> QED
    BY <1>4, <1>6, <2>1
<1>7. CASE ~ (v = u /\ j = 1)
  <2>1. RemNo(v, 1, u, j) = 1
    BY <1>5, <1>7 DEF RemNo
  <2> QED
    BY <1>1, <1>4, <1>7, <2>1
<1> QED
  BY <1>6, <1>7

LEMMA RemovalBehind ==
    ASSUME NEW B, NEW T, NEW g, NEW u, NEW j, BTree(B, 0), Removal(B, T, g, u, j),
           NEW q \in DOMAIN T, NEW i \in ChildNos(T[q])
    PROVE  T[Child(T[q], i)].next = Behind(T, q, i)
<1> DEFINE k == RemNo(q, i, u, j)
           c == Child(T[q], i)
           pg == Child(B[u], j)
           v == B[q].next
<1>0. Shaped(B) /\ PagesOK(B) /\ PagesOK(T)
  BY TreeParts, RemovalPages
<1>1. /\ DOMAIN T = DOMAIN B \ g /\ g \subseteq DOMAIN B /\ u \in DOMAIN B /\ j \in ChildNos(B[u]) /\ pg \in g
      /\ \A x \in g : /\ Len(B[x].entries) = 1 /\ B[x].tail = 0 /\ B[x].level < B[u].level
                      /\ \A l \in ChildNos(B[x]) : Child(B[x], l) \in g
      /\ \A x \in DOMAIN B \ g :
            /\ T[x].level = B[x].level
            /\ T[x].next = (IF B[x].next \in g THEN B[B[x].next].next ELSE B[x].next)
  BY DEF Removal
<1>2. /\ i \in Nat /\ 1 <= i /\ q \in DOMAIN B /\ k \in ChildNos(B[q]) /\ c = Child(B[q], k)
      /\ ~ (q = u /\ k = j) /\ c \in DOMAIN T \ {Root}
  BY RemovalSlot
<1>3. /\ j \in Nat /\ 1 <= j /\ 0 \notin g /\ ~ Leaf(B[u]) /\ u \in DOMAIN T /\ B[u].level \in Nat
      /\ (\A x \in g : B[x].next \notin g)
      /\ \A x \in DOMAIN B : B[x].level = B[u].level => x \notin g
  BY RemovalFacts
<1>4. B[c].next = Behind(B, q, k) /\ ~ Leaf(B[q]) /\ k \in Nat
  BY <1>0, <1>2, ChildFacts
<1>5. c \in DOMAIN B \ g /\ q \in DOMAIN B \ g
  BY <1>1, <1>2
<1>6. v # 0 => v \in DOMAIN B /\ B[v].level = B[q].level
  BY <1>0, <1>2, LinkFacts
<1>7. RemNo(q, i + 1, u, j) = (IF q = u /\ k + 1 = j THEN k + 2 ELSE k + 1) /\ (q = u /\ k + 1 = j => i = k)
  BY <1>2, <1>3 DEF RemNo
<1> DEFINE h == i + 1
<1>8. h \in Nat /\ h >= 1
  BY <1>2
<1> HIDE DEF h
<1>9. /\ h \in ChildNos(T[q]) <=> RemNo(q, h, u, j) \in ChildNos(B[q])
      /\ h \in ChildNos(T[q]) => Child(T[q], h) = Child(B[q], RemNo(q, h, u, j)) /\ Child(T[q], h) \in DOMAIN T
  <2>1. h \in ChildNos(T[q]) <=> RemNo(q, h, u, j) \in ChildNos(B[q])
    BY <1>8, RemovalNos
  <2>2. h \in ChildNos(T[q]) => Child(T[q], h) = Child(B[q], RemNo(q, h, u, j)) /\ Child(T[q], h) \in DOMAIN T
    BY RemovalSlot
  <2> QED
    BY <2>1, <2>2
<1>10. Behind(T, q, i) = IF h \in ChildNos(T[q]) THEN Child(T[q], h)
                         ELSE IF T[q].next = 0 THEN 0 ELSE Child(T[T[q].next], 1)
  BY DEF Behind, h
<1>11. RemNo(q, h, u, j) = (IF q = u /\ k + 1 = j THEN k + 2 ELSE k + 1)
  BY <1>7 DEF h
<1> HIDE DEF k, c, pg, v
<1>12. CASE ~ (q = u /\ k + 1 = j)
  <2>1. RemNo(q, h, u, j) = k + 1
    BY <1>11, <1>12
  <2>2. CASE k + 1 \in ChildNos(B[q])
    <3>1. h \in ChildNos(T[q]) /\ Child(T[q], h) = Child(B[q], k + 1) /\ Child(T[q], h) \in DOMAIN T
      BY <1>9, <2>1, <2>2
    <3>2. B[c].next = Child(B[q], k + 1)
      BY <1>4, <2>2 DEF Behind
    <3>3. T[c].next = Child(B[q], k + 1)
      BY <1>1, <1>5, <3>1, <3>2
    <3> QED
      BY <1>10, <3>1, <3>3 DEF c
  <2>3. CASE k + 1 \notin ChildNos(B[q])
    <3>1. h \notin ChildNos(T[q])
      BY <1>9, <2>1, <2>3
    <3>2. Behind(T, q, i) = IF T[q].next = 0 THEN 0 ELSE Child(T[T[q].next], 1)
      BY <1>10, <3>1
    <3>3. B[c].next = IF v = 0 THEN 0 ELSE Child(B[v], 1)
      BY <1>4, <2>3 DEF Behind, v
    <3>4. CASE v = 0
      <4>1. T[q].next = 0 /\ T[c].next = 0
        BY <1>1, <1>3, <1>5, <3>3, <3>4 DEF v
      <4> QED
        BY <3>2, <4>1 DEF c
    <3>5. CASE v # 0 /\ v \in g
      <4> DEFINE f == Child(B[v], 1)
                 w == B[v].next
      <4>1. ~ Leaf(B[v]) /\ v \in DOMAIN B /\ B[v].level \in Nat
        BY <1>0, <1>4, <1>6, <3>5, PageFacts DEF Leaf
      <4>2. Len(B[v].entries) = 1 /\ B[v].tail = 0 /\ B[v].level < B[u].level
        BY <1>1, <3>5
      <4>3. \A l : l \in ChildNos(B[v]) <=> l = 1
        <5>1. \A l : l \in ChildNos(B[v]) <=> l \in 1 .. Len(B[v].entries) \/ (B[v].tail # 0 /\ l = Len(B[v].entries) + 1)
          BY <1>0, <4>1, NodeFacts
        <5>2. \A l : l \in 1 .. 1 <=> l = 1
          OBVIOUS
        <5> QED
          BY <4>2, <5>1, <5>2
      <4>4. 1 \in ChildNos(B[v]) /\ 1 + 1 \notin ChildNos(B[v]) /\ f \in g
        <5>1. 1 + 1 # 1
          OBVIOUS
        <5> QED
          BY <1>1, <3>5, <4>3, <5>1
      <4>5. B[f].next = IF w = 0 THEN 0 ELSE Child(B[w], 1)
        <5>1. B[f].next = Behind(B, v, 1)
          BY <1>0, <4>1, <4>4, ChildFacts
        <5> QED
          BY <4>4, <5>1 DEF Behind
      <4>6. T[c].next = B[f].next
        BY <1>1, <1>5, <3>3, <3>5, <4>4
      <4>7. T[q].next = w /\ w \notin g
        BY <1>1, <1>3, <1>5, <3>5 DEF v
      <4>8. CASE w = 0
        BY <3>2, <4>5, <4>6, <4>7, <4>8 DEF c
      <4>9. CASE w # 0
        <5>1. w \in DOMAIN B /\ B[w].level = B[v].level
          BY <1>0, <4>1, <4>9, LinkFacts
        <5>2. w # u /\ w \in DOMAIN T /\ ~ Leaf(B[w])
          BY <1>1, <1>3, <4>1, <4>2, <4>7, <5>1 DEF Leaf
        <5> HIDE DEF w
        <5>3. Child(T[w], 1) = Child(B[w], 1)
          BY <5>2, RemovalFirst
        <5> QED
          BY <3>2, <4>5, <4>6, <4>7, <4>9, <5>3 DEF c
      <4> QED
        BY <4>8, <4>9
    <3>6. CASE v # 0 /\ v \notin g
      <4>1. T[q].next = v /\ v \in DOMAIN T /\ ~ Leaf(B[v])
        BY <1>1, <1>4, <1>5, <1>6, <3>6 DEF v, Leaf
      <4>2. CASE v = u /\ j = 1
        <5>1. 2 \in ChildNos(B[u]) /\ Child(T[v], 1) = Child(B[u], 2)
          BY <4>1, <4>2, RemovalFirst
        <5>2. B[c].next = pg
          BY <3>3, <3>6, <4>2 DEF pg
        <5>3. B[pg].next = Behind(B, u, j)
          BY <1>0, <1>1, ChildFacts DEF pg
        <5>4. Behind(B, u, j) = Child(B[u], 2)
          <6>1. j + 1 = 2
            BY <4>2
          <6> QED
            BY <5>1, <6>1 DEF Behind
        <5>5. T[c].next = B[pg].next
          BY <1>1, <1>5, <5>2
        <5> QED
          BY <3>2, <3>6, <4>1, <5>1, <5>3, <5>4, <5>5 DEF c
      <4>3. CASE ~ (v = u /\ j = 1)
        <5>1. Child(T[v], 1) = Child(B[v], 1) /\ Child(B[v], 1) \notin g
          BY <4>1, <4>3, RemovalFirst
        <5>2. T[c].next = Child(B[v], 1)
          BY <1>1, <1>5, <3>3, <3>6, <5>1
        <5> QED
          BY <3>2, <3>6, <4>1, <5>1, <5>2 DEF c
      <4> QED
        BY <4>2, <4>3
    <3> QED
      BY <3>4, <3>5, <3>6
  <2> QED
    BY <2>2, <2>3
<1>13. CASE q = u /\ k + 1 = j
  <2>1. RemNo(q, h, u, j) = j + 1
    BY <1>4, <1>11, <1>13
  <2>2. B[c].next = pg
    BY <1>1, <1>4, <1>13 DEF Behind, pg
  <2>3. T[c].next = B[pg].next
    BY <1>1, <1>5, <2>2
  <2>4. B[pg].next = Behind(B, u, j)
    BY <1>0, <1>1, ChildFacts DEF pg
  <2>5. CASE j + 1 \in ChildNos(B[u])
    <3>1. h \in ChildNos(T[q]) /\ Child(T[q], h) = Child(B[u], j + 1)
      BY <1>9, <1>13, <2>1, <2>5
    <3>2. Behind(B, u, j) = Child(B[u], j + 1)
      BY <2>5 DEF Behind
    <3> QED
      BY <1>10, <2>3, <2>4, <3>1, <3>2 DEF c
  <2>6. CASE j + 1 \notin ChildNos(B[u])
    <3>1. h \notin ChildNos(T[q])
      BY <1>9, <1>13, <2>1, <2>6
    <3>2. Behind(T, q, i) = IF T[q].next = 0 THEN 0 ELSE Child(T[T[q].next], 1)
      BY <1>10, <3>1
    <3>3. Behind(B, u, j) = IF v = 0 THEN 0 ELSE Child(B[v], 1)
      BY <1>13, <2>6 DEF Behind, v
    <3>4. v \notin g /\ T[q].next = v
      BY <1>1, <1>3, <1>5, <1>6, <1>13 DEF v
    <3>5. CASE v = 0
      BY <2>3, <2>4, <3>2, <3>3, <3>4, <3>5 DEF c
    <3>6. CASE v # 0
      <4>1. v # u
        BY <1>1, <1>13, NoLoop DEF v
      <4>2. v \in DOMAIN T /\ ~ Leaf(B[v])
        BY <1>1, <1>4, <1>6, <3>4, <3>6 DEF Leaf
      <4>3. Child(T[v], 1) = Child(B[v], 1)
        BY <4>1, <4>2, RemovalFirst
      <4> QED
        BY <2>3, <2>4, <3>2, <3>3, <3>4, <3>6, <4>3 DEF c
    <3> QED
      BY <3>5, <3>6
  <2> QED
    BY <2>5, <2>6
<1> QED
  BY <1>12, <1>13

LEMMA RemovalHung ==
    ASSUME NEW B, NEW T, NEW g, NEW u, NEW j, BTree(B, 0), Removal(B, T, g, u, j)
    PROVE  Hung(T) /\ Shaped(T)
<1>0. Shaped(B) /\ PagesOK(T) /\ Linked(T)
  BY TreeParts, RemovalPages
<1>1. /\ DOMAIN T = DOMAIN B \ g /\ (B[u].tail = 0 => T[u].tail = 0)
      /\ \A x \in DOMAIN B \ g : T[x].level = B[x].level /\ (x # u => T[x].tail = B[x].tail)
  BY DEF Removal
<1>2. ASSUME NEW q \in DOMAIN T, NEW i \in ChildNos(T[q])
      PROVE  LET c == Child(T[q], i)
             IN  /\ c \in DOMAIN T \ {Root}
                 /\ T[c].level + 1 = T[q].level
                 /\ T[c].next = Behind(T, q, i)
                 /\ i <= Len(T[q].entries) => T[c].tail = 0
  <2> DEFINE c == Child(T[q], i)
             k == RemNo(q, i, u, j)
  <2>1. T[c].next = Behind(T, q, i)
    BY RemovalBehind
  <2>2. /\ q \in DOMAIN B /\ k \in ChildNos(B[q]) /\ c = Child(B[q], k) /\ c \in DOMAIN T \ {Root}
        /\ (i <= Len(T[q].entries) => k <= Len(B[q].entries))
    BY RemovalSlot
  <2> HIDE DEF c, k
  <2>3. B[c].level + 1 = B[q].level /\ (k <= Len(B[q].entries) => B[c].tail = 0)
    BY <1>0, <2>2, ChildFacts
  <2>4. T[c].level + 1 = T[q].level /\ (i <= Len(T[q].entries) => T[c].tail = 0)
    BY <1>1, <2>2, <2>3
  <2> QED
    BY <2>1, <2>2, <2>4 DEF c
<1>3. /\ \A c \in DOMAIN T \ {Root} : \E q \in DOMAIN T : \E i \in ChildNos(T[q]) : Child(T[q], i) = c
      /\ \A q, x \in DOMAIN T : \A i \in ChildNos(T[q]), k \in ChildNos(T[x]) :
            Child(T[q], i) = Child(T[x], k) => q = x /\ i = k
  BY RemovalOnce
<1>4. Hung(T)
  BY <1>2, <1>3 DEF Hung
<1> QED
  BY <1>0, <1>4 DEF Shaped

LEMMA RemovalDivided ==
    ASSUME NEW B, NEW T, NEW g, NEW u, NEW j, BTree(B, 0), Removal(B, T, g, u, j),
           NEW q \in DOMAIN T, ~ Leaf(T[q]), NEW i \in 1 .. Len(T[q].entries), Child(T[q], i) # u
    PROVE  T[q].entries[i].e = Top(T, Child(T[q], i))
<1>0. Shaped(B) /\ PagesOK(B) /\ PagesOK(T)
  BY TreeParts, RemovalPages
<1>1. /\ DOMAIN T = DOMAIN B \ g
      /\ (\A k \in 1 .. Len(T[u].entries) :
            T[u].entries[k] = IF k < j THEN B[u].entries[k] ELSE B[u].entries[k + 1])
      /\ \A x \in DOMAIN B \ g : x # u => T[x].entries = B[x].entries
  BY DEF Removal
<1> DEFINE k == RemNo(q, i, u, j)
           c == Child(T[q], i)
<1>2. i \in ChildNos(T[q]) /\ i \in Nat /\ i <= Len(T[q].entries)
  <2>1. Len(T[q].entries) \in Nat
    BY <1>0, NodeFacts
  <2> QED
    BY <1>0, <2>1, NodeFacts
<1>3. /\ q \in DOMAIN B /\ k \in ChildNos(B[q]) /\ c = Child(B[q], k) /\ c \in DOMAIN T /\ k <= Len(B[q].entries)
  BY <1>2, RemovalSlot
<1>4. T[q].entries[i] = B[q].entries[k]
  <2>1. j \in Nat
    BY RemovalFacts
  <2>2. CASE q = u
    <3>1. k = (IF i < j THEN i ELSE i + 1)
      BY <1>2, <2>1, <2>2 DEF RemNo
    <3> HIDE DEF k
    <3>2. T[u].entries[i] = IF i < j THEN B[u].entries[i] ELSE B[u].entries[i + 1]
      BY <1>1, <2>2
    <3> QED
      BY <2>2, <3>1, <3>2
  <2>3. CASE q # u
    BY <1>1, <2>3 DEF RemNo
  <2> QED
    BY <2>2, <2>3
<1> HIDE DEF k
<1>5. k \in 1 .. Len(B[q].entries) /\ ~ Leaf(B[q])
  <2>1. ~ Leaf(B[q]) /\ k \in Nat /\ 1 <= k /\ Len(B[q].entries) \in Nat
    BY <1>0, <1>3, NodeNos
  <2> QED
    BY <1>3, <2>1
<1>6. B[q].entries[k].e = Top(B, Child(B[q], k))
  <2>1. Child(B[q], k) # 0
    BY <1>0, <1>3, ChildFacts
  <2> QED
    BY <1>3, <1>5, <2>1, Dividers
<1>7. Top(T, c) = Top(B, c)
  BY <1>1, <1>3 DEF Top
<1> QED
  BY <1>3, <1>4, <1>6, <1>7

LEMMA RemovalTree ==
    ASSUME NEW B, NEW T, NEW g, NEW u, NEW j, BTree(B, 0), Removal(B, T, g, u, j)
    PROVE  BTree(T, u)
<1>0. Shaped(B) /\ PagesOK(B) /\ PagesOK(T) /\ \A q \in DOMAIN B : SortedAt(B, q)
  BY TreeParts, RemovalPages
<1>1. /\ DOMAIN T = DOMAIN B \ g /\ g \subseteq DOMAIN B /\ u \in DOMAIN B
      /\ (\A x \in g : Len(B[x].entries) = 1 /\ B[x].level < B[u].level)
      /\ \A x \in DOMAIN B \ g :
            /\ T[x].level = B[x].level /\ (x # u => T[x].entries = B[x].entries)
            /\ T[x].next = (IF B[x].next \in g THEN B[B[x].next].next ELSE B[x].next)
  BY DEF Removal
<1>2. Shaped(T)
  BY RemovalHung
<1>3. u \in DOMAIN T /\ ~ Leaf(T[u]) /\ B[u].level \in Nat /\ 0 \notin g /\ Root \notin g /\ \A x \in g : B[x].next \notin g
  <2>1. Root \in DOMAIN T
    BY RemovalFacts
  <2> QED
    BY <1>1, <2>1, RemovalFacts
<1>4. ASSUME NEW q \in DOMAIN T, B[q].level # B[u].level PROVE SortedAt(T, q)
  <2>1. q \in DOMAIN B /\ q \notin g /\ q # u /\ T[q].entries = B[q].entries /\ SortedAt(B, q)
    BY <1>0, <1>1, <1>4
  <2>2. ASSUME T[q].next # 0 PROVE Less(Top(T, q), Low(T, T[q].next))
    <3>1. CASE B[q].next \in g
      <4> DEFINE y == B[q].next
                 z == B[y].next
      <4>1. y \in DOMAIN B /\ y # 0 /\ y # Root /\ y \in g
        BY <1>1, <1>3, <3>1
      <4>2. B[y].level = B[q].level
        BY <1>0, <2>1, <4>1, LinkFacts
      <4>3. T[q].next = z /\ z # 0 /\ z \notin g
        BY <1>1, <1>3, <2>1, <2>2, <3>1
      <4>4. z \in DOMAIN B /\ B[z].level = B[y].level /\ z # Root
        <5> HIDE DEF y
        <5> QED
          BY <1>0, <4>1, <4>3, LinkFacts
      <4>5. z # u
        BY <1>4, <4>2, <4>4
      <4>6. Less(Top(B, q), Low(B, y))
        BY <2>1, <4>1 DEF SortedAt
      <4>7. SortedAt(B, y)
        BY <1>0, <4>1
      <4> HIDE DEF y
      <4>8. Less(Top(B, y), Low(B, z))
        BY <4>3, <4>7 DEF SortedAt
      <4> HIDE DEF z
      <4>9. B[y].entries # << >> /\ B[z].entries # << >>
        BY <4>1, <4>4, TreeParts
      <4>10. B[q].entries # << >>
        <5>1. q # Root
          <6>1. B[Root].next = 0
            BY <1>0, RootFacts
          <6> QED
            BY <4>1, <6>1 DEF y
        <5> QED
          BY <2>1, <5>1, TreeParts
      <4>11. Low(B, y) = Top(B, y)
        <5>1. Len(B[y].entries) = 1
          BY <1>1, <4>1
        <5>2. Last(B[y].entries) = B[y].entries[Len(B[y].entries)] /\ Head(B[y].entries) = B[y].entries[1]
          BY <1>0, <4>1, <4>9, FilledPage
        <5> QED
          BY <5>1, <5>2 DEF Low, Top
      <4>12. Top(B, q) \in Entry /\ Top(B, y) \in Entry /\ Low(B, z) \in Entry
        <5>1. Last(B[q].entries).e \in Entry
          BY <1>0, <2>1, <4>10, FilledPage
        <5>2. Last(B[y].entries).e \in Entry
          BY <1>0, <4>1, <4>9, FilledPage
        <5>3. Head(B[z].entries).e \in Entry
          BY <1>0, <4>4, <4>9, FilledPage
        <5> QED
          BY <5>1, <5>2, <5>3 DEF Top, Low
      <4>13. Less(Top(B, q), Low(B, z))
        BY <4>6, <4>8, <4>11, <4>12, LessOrder
      <4>14. Top(T, q) = Top(B, q) /\ Low(T, z) = Low(B, z)
        BY <1>1, <2>1, <4>3, <4>4, <4>5 DEF Top, Low
      <4> QED
        BY <4>3, <4>13, <4>14
    <3>2. CASE B[q].next \notin g
      <4>1. T[q].next = B[q].next /\ B[q].next # 0
        BY <1>1, <2>1, <2>2, <3>2
      <4>2. B[q].next \in DOMAIN B /\ B[B[q].next].level = B[q].level
        BY <1>0, <2>1, <4>1, LinkFacts
      <4>3. B[q].next # u
        BY <1>4, <4>2
      <4>4. T[B[q].next].entries = B[B[q].next].entries
        BY <1>1, <3>2, <4>2, <4>3
      <4>5. Less(Top(B, q), Low(B, B[q].next))
        BY <2>1, <4>1 DEF SortedAt
      <4> QED
        BY <2>1, <4>1, <4>4, <4>5 DEF Top, Low
    <3> QED
      BY <3>1, <3>2
  <2> QED
    BY <2>1, <2>2 DEF SortedAt
<1>5. ASSUME NEW q \in DOMAIN T, B[q].level = B[u].level PROVE SortedAt(T, q)
  <2>1. q \in DOMAIN B \ g /\ u \in DOMAIN B \ g /\ T[q].level = B[q].level /\ T[u].level = B[u].level
    BY <1>1, <1>3
  <2>2. ~ Leaf(T[q])
    BY <1>3, <1>5, <2>1 DEF Leaf
  <2>3. ASSUME NEW x \in DOMAIN T, T[x].level + 1 = T[q].level PROVE SortedAt(T, x)
    <3>1. x \in DOMAIN B /\ T[x].level = B[x].level
      BY <1>1
    <3>2. B[x].level \in Nat
      BY <1>0, <3>1, PageFacts
    <3>3. B[x].level # B[u].level
      BY <1>3, <1>5, <2>1, <2>3, <3>1, <3>2
    <3> QED
      BY <1>4, <3>3
  <2>4. ASSUME NEW x \in DOMAIN T, T[x].level = T[q].level, NEW i \in 1 .. Len(T[x].entries)
        PROVE  T[x].entries[i].e = Top(T, Child(T[x], i))
    <3>1. ~ Leaf(T[x])
      BY <2>2, <2>4 DEF Leaf
    <3>2. i \in ChildNos(T[x])
      BY <1>0, <3>1, NodeFacts
    <3>3. T[Child(T[x], i)].level + 1 = T[x].level
      BY <1>2, <3>2, ChildFacts
    <3>4. Child(T[x], i) # u
      <4>1. T[x].level = T[u].level /\ T[u].level \in Nat
        BY <1>3, <1>5, <2>1, <2>4
      <4> QED
        BY <3>3, <4>1
    <3> QED
      BY <3>1, <3>4, RemovalDivided
  <2> QED
    BY <1>2, <2>2, <2>3, <2>4, LevelSorted
<1>6. Sorted(T)
  BY <1>4, <1>5, SortedPages
<1>7. Divided(T, u)
  <2> SUFFICES ASSUME NEW q \in DOMAIN T, NEW i \in DOMAIN T[q].entries, ~ Leaf(T[q]), T[q].entries[i].child # u
               PROVE  T[q].entries[i].e = Last(T[T[q].entries[i].child].entries).e
    BY DEF Divided
  <2>1. i \in 1 .. Len(T[q].entries)
    BY <1>0, PageFacts
  <2>2. Child(T[q], i) = T[q].entries[i].child
    BY <1>0, <2>1, NodeFacts
  <2>3. T[q].entries[i].e = Top(T, Child(T[q], i))
    BY <2>1, <2>2, RemovalDivided
  <2> QED
    BY <2>2, <2>3 DEF Top
<1> QED
  BY <1>2, <1>6, <1>7 DEF BTree, Shaped

LEMMA RemovalIndexed ==
    ASSUME NEW B, NEW T, NEW g, NEW u, NEW j, BTree(B, 0), Removal(B, T, g, u, j), NEW e,
           \A q \in DOMAIN B : Leaf(B[q]) => /\ q \in g => \A x : Holds(B, q, x) <=> x = e
                                             /\ Holds(B, q, e) => q \in g
    PROVE  Indexed(T) = Indexed(B) \ {e}
<1>1. /\ DOMAIN T = DOMAIN B \ g
      /\ \A x \in DOMAIN B \ g : T[x].level = B[x].level /\ (x # u => T[x].entries = B[x].entries)
  BY DEF Removal
<1>2. ~ Leaf(B[u]) /\ ~ Leaf(T[u])
  BY RemovalFacts
<1>3. ASSUME NEW x, NEW q \in DOMAIN B, Leaf(B[q]), Holds(B, q, x), x # e
      PROVE  \E y \in DOMAIN T : Leaf(T[y]) /\ Holds(T, y, x)
  <2>1. q \notin g /\ q # u
    BY <1>2, <1>3
  <2>2. q \in DOMAIN T /\ Leaf(T[q]) /\ Holds(T, q, x)
    BY <1>1, <1>3, <2>1 DEF Leaf, Holds
  <2> QED
    BY <2>2
<1>4. ASSUME NEW x, NEW q \in DOMAIN T, Leaf(T[q]), Holds(T, q, x)
      PROVE  x # e /\ \E y \in DOMAIN B : Leaf(B[y]) /\ Holds(B, y, x)
  <2>1. q \in DOMAIN B \ g /\ q # u
    BY <1>1, <1>2, <1>4
  <2>2. Leaf(B[q]) /\ Holds(B, q, x)
    BY <1>1, <1>4, <2>1 DEF Leaf, Holds
  <2> QED
    BY <2>1, <2>2
<1> QED
  BY <1>3, <1>4 DEF Indexed
=============================================================================
