------------------------- MODULE Jet4Index_proofs -------------------------
(***************************************************************************)
(* Theorems about Jet4Index and JetFiles, for every set of keys and every  *)
(* page size.  The calls of an insertion or a removal, one after the other, *)
(* keep a B-tree, and so do the actions on rows: with the sets of entries  *)
(* they leave, the index serves its table.                                 *)
(***************************************************************************)
EXTENDS JetFiles, Jet4Tree_proofs, JetExport_proofs

(* Calls that end one another *)

LEMMA InsertStep ==
    ASSUME NEW P, NEW gone, NEW path, NEW i, NEW s, NEW X, Pending(P, gone, path, i, s, X)
    PROVE  Answered(After(P, path, ToInsert(i, s)), gone, path, X, 2 * i - 1)
<1>1. /\ Len(s) \in Nat /\ PageSize \in Nat /\ i \in Nat /\ i >= 1
  <2>1. Open(P, gone, path, i) /\ s \in Seq(ItemSet)
    BY DEF Pending
  <2>2. i \in Nat /\ i >= 1
    BY <2>1, OpenFacts
  <2> QED
    BY <2>1, <2>2, IndexConstants
<1>2. CASE Len(s) <= PageSize
  BY <1>2, InsertFits
<1>3. CASE Len(s) > PageSize /\ i > 1
  BY <1>3, SplitStep
<1>4. CASE Len(s) > PageSize /\ ~ (i > 1)
  <2> DEFINE one == i
             w == 2 * one - 1
  <2>1. one = 1 /\ w = 1
    BY <1>1, <1>4
  <2>2. Pending(P, gone, path, 1, s, X)
    BY <2>1
  <2>3. Answered(After(P, path, ToInsert(1, s)), gone, path, X, 1)
    BY <1>4, <2>2, RootSplitStep
  <2> HIDE DEF w
  <2>4. Answered(After(P, path, ToInsert(one, s)), gone, path, X, w)
    BY <2>1, <2>3
  <2> QED
    BY <2>4 DEF w
<1> QED
  BY <1>1, <1>2, <1>3, <1>4

-----------------------------------------------------------------------------
(* Runs *)

\* The state of a run whose calls cost w at most.
Running(st, path, X, w) ==
    /\ st.ok
    /\ \/ st.calls = << >> /\ Done(st.pages, st.gone, X)
       \/ \E k, s : st.calls = <<ToInsert(k, s)>> /\ Pending(st.pages, st.gone, path, k, s, X) /\ 2 * k <= w
       \/ \E k, max : st.calls = <<ToPropagate(k, max)>> /\ Passing(st.pages, st.gone, path, k, max, X) /\ 2 * k - 1 <= w

\* The only call that is left.
LEMMA CalledOnce ==
    ASSUME NEW st, NEW path, NEW c, st.calls = <<c>>
    PROVE  LET r == After(st.pages, path, c)
           IN  /\ Called(st, path).pages = r.pages /\ Called(st, path).ok = r.ok
               /\ Called(st, path).gone = st.gone \cup r.gone
               /\ r.calls = << >> => Called(st, path).calls = << >>
               /\ r.ok => \A d : r.calls = <<d>> => Called(st, path).calls = <<d>>
<1>1. st.calls # << >> /\ Head(st.calls) = c /\ Tail(st.calls) = << >>
  OBVIOUS
<1>2. << >> \o << >> = << >> /\ \A d : <<d>> \o << >> = <<d>>
  <2>1. << >> \o << >> = << >>
    OBVIOUS
  <2>2. \A d : <<d>> \o << >> = <<d>>
    <3> TAKE d
    <3>1. <<d>> \in Seq({d})
      OBVIOUS
    <3> QED
      BY <3>1, ConcatEmptySeq
  <2> QED
    BY <2>1, <2>2
<1> QED
  BY <1>1, <1>2 DEF Called, Answer

LEMMA AnsweredRuns ==
    ASSUME NEW st, NEW path, NEW X, NEW c, NEW w, st.calls = <<c>>,
           Answered(After(st.pages, path, c), st.gone, path, X, w)
    PROVE  Running(Called(st, path), path, X, w) /\ Called(st, path).gone = st.gone
<1> DEFINE r == After(st.pages, path, c)
           n == Called(st, path)
<1>1. /\ n.pages = r.pages /\ n.ok = r.ok /\ n.gone = st.gone \cup r.gone
      /\ r.calls = << >> => n.calls = << >>
      /\ r.ok => \A d : r.calls = <<d>> => n.calls = <<d>>
  BY CalledOnce
<1> HIDE DEF r, n
<1>2. r.ok /\ r.gone = {}
  BY DEF Answered, r
<1>3. n.gone = st.gone
  BY <1>1, <1>2
<1>4. CASE r.calls = << >> /\ Done(r.pages, st.gone, X)
  <2>1. n.calls = << >> /\ Done(n.pages, n.gone, X) /\ n.ok
    BY <1>1, <1>2, <1>3, <1>4
  <2> QED
    BY <1>3, <2>1 DEF Running, n
<1>5. CASE \E k, s : r.calls = <<ToInsert(k, s)>> /\ Pending(r.pages, st.gone, path, k, s, X) /\ 2 * k <= w
  <2>1. PICK k, s : r.calls = <<ToInsert(k, s)>> /\ Pending(r.pages, st.gone, path, k, s, X) /\ 2 * k <= w
    BY <1>5
  <2>2. n.calls = <<ToInsert(k, s)>> /\ Pending(n.pages, n.gone, path, k, s, X) /\ n.ok
    BY <1>1, <1>2, <1>3, <2>1
  <2> QED
    BY <1>3, <2>1, <2>2 DEF Running, n
<1>6. CASE \E k, max : r.calls = <<ToPropagate(k, max)>> /\ Passing(r.pages, st.gone, path, k, max, X) /\ 2 * k - 1 <= w
  <2>1. PICK k, max : r.calls = <<ToPropagate(k, max)>> /\ Passing(r.pages, st.gone, path, k, max, X) /\ 2 * k - 1 <= w
    BY <1>6
  <2>2. n.calls = <<ToPropagate(k, max)>> /\ Passing(n.pages, n.gone, path, k, max, X) /\ n.ok
    BY <1>1, <1>2, <1>3, <2>1
  <2> QED
    BY <1>3, <2>1, <2>2 DEF Running, n
<1> QED
  BY <1>4, <1>5, <1>6 DEF Answered, r

LEMMA AnsweredMore ==
    ASSUME NEW r, NEW gone, NEW path, NEW X, NEW v \in Int, NEW w \in Int, v <= w, Answered(r, gone, path, X, v)
    PROVE  Answered(r, gone, path, X, w)
<1>1. CASE r.calls = << >> /\ Done(r.pages, gone, X)
  BY <1>1 DEF Answered
<1>2. ASSUME NEW k, NEW s, r.calls = <<ToInsert(k, s)>>, Pending(r.pages, gone, path, k, s, X), 2 * k <= v
      PROVE  Answered(r, gone, path, X, w)
  <2>1. k \in Nat
    BY <1>2, OpenFacts DEF Pending
  <2>2. 2 * k <= w
    BY <1>2, <2>1
  <2> QED
    BY <1>2, <2>2 DEF Answered
<1>3. ASSUME NEW k, NEW max, r.calls = <<ToPropagate(k, max)>>, Passing(r.pages, gone, path, k, max, X), 2 * k - 1 <= v
      PROVE  Answered(r, gone, path, X, w)
  <2>1. k \in Nat
    BY <1>3, OpenFacts DEF Passing
  <2>2. 2 * k - 1 <= w
    BY <1>3, <2>1
  <2> QED
    BY <1>3, <2>2 DEF Answered
<1> QED
  BY <1>1, <1>2, <1>3 DEF Answered

LEMMA RunStep ==
    ASSUME NEW st, NEW path, NEW X, NEW w \in Nat, w >= 1, Running(st, path, X, w)
    PROVE  Running(Called(st, path), path, X, w - 1) /\ Called(st, path).gone = st.gone
<1>1. CASE st.calls = << >> /\ Done(st.pages, st.gone, X)
  <2>1. Called(st, path) = st
    BY <1>1 DEF Called
  <2> QED
    BY <1>1, <2>1 DEF Running
<1>2. ASSUME NEW k, NEW s, st.calls = <<ToInsert(k, s)>>, Pending(st.pages, st.gone, path, k, s, X), 2 * k <= w
      PROVE  Running(Called(st, path), path, X, w - 1) /\ Called(st, path).gone = st.gone
  <2>1. k \in Nat
    BY <1>2, OpenFacts DEF Pending
  <2>2. Answered(After(st.pages, path, ToInsert(k, s)), st.gone, path, X, 2 * k - 1)
    BY <1>2, InsertStep
  <2>3. 2 * k - 1 \in Int /\ w - 1 \in Int /\ 2 * k - 1 <= w - 1
    BY <1>2, <2>1
  <2>4. Answered(After(st.pages, path, ToInsert(k, s)), st.gone, path, X, w - 1)
    BY <2>2, <2>3, AnsweredMore
  <2> QED
    BY <1>2, <2>4, AnsweredRuns
<1>3. ASSUME NEW k, NEW max, st.calls = <<ToPropagate(k, max)>>, Passing(st.pages, st.gone, path, k, max, X), 2 * k - 1 <= w
      PROVE  Running(Called(st, path), path, X, w - 1) /\ Called(st, path).gone = st.gone
  <2>1. k \in Nat
    BY <1>3, OpenFacts DEF Passing
  <2>2. Answered(After(st.pages, path, ToPropagate(k, max)), st.gone, path, X, 2 * k - 2)
    BY <1>3, PropagateStep
  <2>3. 2 * k - 2 \in Int /\ w - 1 \in Int /\ 2 * k - 2 <= w - 1
    BY <1>3, <2>1
  <2>4. Answered(After(st.pages, path, ToPropagate(k, max)), st.gone, path, X, w - 1)
    BY <2>2, <2>3, AnsweredMore
  <2> QED
    BY <1>3, <2>4, AnsweredRuns
<1> QED
  BY <1>1, <1>2, <1>3 DEF Running

LEMMA RunEnds ==
    ASSUME NEW st, NEW path, NEW X, Running(st, path, X, 0)
    PROVE  st.ok /\ Done(st.pages, st.gone, X)
<1>1. ASSUME NEW k, NEW s, Pending(st.pages, st.gone, path, k, s, X), 2 * k <= 0 PROVE FALSE
  <2>1. k \in Nat /\ k >= 1
    BY <1>1, OpenFacts DEF Pending
  <2> QED
    BY <1>1, <2>1
<1>2. ASSUME NEW k, NEW max, Passing(st.pages, st.gone, path, k, max, X), 2 * k - 1 <= 0 PROVE FALSE
  <2>1. k \in Nat /\ k >= 1
    BY <1>2, OpenFacts DEF Passing
  <2> QED
    BY <1>2, <2>1
<1> QED
  BY <1>1, <1>2 DEF Running

LEMMA RunIs ==
    ASSUME NEW P, NEW path, Len(path) \in Nat, NEW call
    PROVE  \E f : f[0] = Wrote(P, <<call>>) /\ (\A i \in 1 .. 2 * Len(path) : f[i] = Called(f[i - 1], path)) /\ Run(P, path, call) = f[2 * Len(path)]
<1> DEFINE n == 2 * Len(path)
           first == Wrote(P, <<call>>)
           called[i \in 0 .. n] == IF i = 0 THEN Wrote(P, <<call>>) ELSE Called(called[i - 1], path)
           UpTo(h, m) == h = [i \in 0 .. m |-> IF i = 0 THEN first ELSE Called(h[i - 1], path)]
           A == {m \in 0 .. n : \E h : UpTo(h, m)}
<1>0. n \in Nat
  OBVIOUS
<1>1. 0 \in A
  <2> DEFINE h0 == [i \in 0 .. 0 |-> first]
  <2>1. UpTo(h0, 0) /\ 0 \in 0 .. n
    BY <1>0
  <2> HIDE DEF UpTo, h0, n
  <2> QED
    BY <2>1
<1>2. ASSUME NEW m \in 1 .. n, m - 1 \in A PROVE m \in A
  <2>0. m \in Nat \ {0}
    BY <1>0
  <2>1. PICK h : UpTo(h, m - 1)
    BY <1>2
  <2> HIDE DEF first
  <2>2. \A i \in 0 .. m - 1 : h[i] = IF i = 0 THEN first ELSE Called(h[i - 1], path)
    BY <2>1
  <2>3. PICK g : /\ Counts(g, m) /\ g[m] = Called(h[m - 1], path)
                 /\ \A i \in 0 .. m - 1 : g[i] = h[i]
                 /\ \A i \in 0 .. m : i = m \/ (i \in 0 .. m - 1 /\ (i # 0 => i - 1 \in 0 .. m - 1))
                 /\ m - 1 \in 0 .. m - 1
    BY <2>0, Extended
  <2>4. \A i \in 0 .. m : g[i] = IF i = 0 THEN first ELSE Called(g[i - 1], path)
    <3> TAKE i \in 0 .. m
    <3>1. CASE i = m
      BY <2>0, <2>3, <3>1
    <3>2. CASE i # m
      <4>1. i \in 0 .. m - 1 /\ (i # 0 => i - 1 \in 0 .. m - 1)
        BY <2>3, <3>2
      <4> QED
        BY <2>2, <2>3, <4>1
    <3> QED
      BY <3>1, <3>2
  <2>5. UpTo(g, m)
    BY <2>3, <2>4 DEF Counts
  <2> HIDE DEF UpTo
  <2> QED
    BY <2>5
<1>3. \E h : UpTo(h, n)
  <2>1. \A m \in 0 .. n : m \in A
    <3> HIDE DEF A, n
    <3> QED
      BY <1>0, <1>1, <1>2, Counted
  <2> QED
    BY <1>0, <2>1
<1>4. called = CHOOSE h : UpTo(h, n)
  OBVIOUS
<1>5. Run(P, path, call) = called[n]
  BY DEF Run
<1> HIDE DEF called, UpTo
<1>6. UpTo(called, n)
  BY <1>3, <1>4
<1>7. called[0] = first /\ \A i \in 1 .. n : called[i] = Called(called[i - 1], path)
  <2> HIDE DEF n, first
  <2>1. 0 \in 0 .. n /\ \A i \in 1 .. n : i \in 0 .. n /\ i # 0
    BY <1>0
  <2> QED
    BY <1>6, <2>1 DEF UpTo
<1> QED
  BY <1>5, <1>7 DEF first
-----------------------------------------------------------------------------
(* The way down, and what stays *)

LEMMA RunDone ==
    ASSUME NEW P, NEW path, Len(path) \in Nat, NEW call, NEW X,
           Running(Wrote(P, <<call>>), path, X, 2 * Len(path))
    PROVE  LET r == Run(P, path, call) IN r.ok /\ r.gone = {} /\ Done(r.pages, r.gone, X)
<1> DEFINE n == 2 * Len(path)
           first == Wrote(P, <<call>>)
<1>0. n \in Nat
  OBVIOUS
<1>1. PICK f : f[0] = first /\ (\A i \in 1 .. n : f[i] = Called(f[i - 1], path)) /\ Run(P, path, call) = f[n]
  BY RunIs, SMTT(60)
<1> HIDE DEF n, first
<1> DEFINE A == {j \in 0 .. n : Running(f[j], path, X, n - j) /\ f[j].gone = {}}
<1>3. 0 \in A
  <2>1. n - 0 = n /\ 0 \in 0 .. n
    BY <1>0
  <2> QED
    BY <1>1, <2>1, WroteIs DEF n, first
<1>4. ASSUME NEW j \in 1 .. n, j - 1 \in A PROVE j \in A
  <2> DEFINE v == n - (j - 1)
  <2>1. v \in Nat /\ v >= 1 /\ v - 1 = n - j /\ j \in 0 .. n
    BY <1>0
  <2>2. Running(f[j - 1], path, X, v) /\ f[j - 1].gone = {}
    BY <1>4
  <2> HIDE DEF v
  <2>3. Running(Called(f[j - 1], path), path, X, v - 1) /\ Called(f[j - 1], path).gone = {}
    BY <2>1, <2>2, RunStep
  <2> QED
    BY <1>1, <2>1, <2>3
<1>5. n \in A
  <2> HIDE DEF A
  <2>1. \A j \in 0 .. n : j \in A
    BY <1>0, <1>3, <1>4, Counted
  <2> QED
    BY <1>0, <2>1
<1>6. Running(f[n], path, X, 0) /\ f[n].gone = {}
  <2>1. n - n = 0
    BY <1>0
  <2> QED
    BY <1>5, <2>1
<1> QED
  BY <1>1, <1>6, RunEnds

-----------------------------------------------------------------------------
(* Removals *)

\* TailStays of any pages.
Stays(P, path) ==
    \E k \in 1 .. Len(path) - 1 :
        /\ P[path[k]].tail # 0
        /\ \A l \in k .. Len(path) : Len(P[path[l]].entries) = 1
        /\ P[path[k]].tail # path[k + 1]

\* A path down the tree.
Descends(P, path) ==
    /\ Len(path) \in Nat /\ Len(path) >= 1 /\ path[1] = Root
    /\ \A k \in 1 .. Len(path) : path[k] \in DOMAIN P /\ P[path[k]].level = Len(path) - k
    /\ \A k \in 1 .. Len(path) - 1 : \E j \in ChildNos(P[path[k]]) : Child(P[path[k]], j) = path[k + 1]

LEMMA PathDescends ==
    ASSUME NEW P, BTree(P, 0), NEW e \in Entry
    PROVE  Descends(P, FindLeaf(P, e))
<1> DEFINE path == FindLeaf(P, e)
<1>1. /\ Len(path) = P[Root].level + 1 /\ Len(path) \in Nat /\ Len(path) >= 1 /\ path[1] = Root
      /\ \A i \in 1 .. Len(path) :
            path[i] \in DOMAIN P /\ P[path[i]].level = Len(path) - i /\ InRange(P, path[i], e)
      /\ \A i \in 1 .. Len(path) - 1 : path[i + 1] = Toward(P[path[i]], e)
  BY PathFacts
<1> HIDE DEF path
<1>2. ASSUME NEW k \in 1 .. Len(path) - 1
      PROVE  \E j \in ChildNos(P[path[k]]) : Child(P[path[k]], j) = path[k + 1]
  <2>0. Len(path) \in Nat
    BY <1>1
  <2>1. k \in 1 .. Len(path) /\ Len(path) - k # 0
    BY <2>0
  <2>2. path[k] \in DOMAIN P /\ ~ Leaf(P[path[k]]) /\ InRange(P, path[k], e)
    BY <1>1, <2>1 DEF Leaf
  <2>3. PICK j \in ChildNos(P[path[k]]) : Toward(P[path[k]], e) = Child(P[path[k]], j)
    BY <2>2, TowardInRange
  <2> QED
    BY <1>1, <2>3
<1>3. Descends(P, path)
  BY <1>1, <1>2 DEF Descends
<1> QED
  BY <1>3 DEF path

\* The pages of a path differ, and each is the child of the one before alone.
LEMMA DescendFacts ==
    ASSUME NEW P, BTree(P, 0), NEW path, Descends(P, path)
    PROVE  /\ \A k, l \in 1 .. Len(path) : k # l => path[k] # path[l] /\ P[path[k]].level # P[path[l]].level
           /\ \A k \in 1 .. Len(path) : path[k] \in DOMAIN P /\ (k # 1 => path[k] # Root)
           /\ \A k \in 1 .. Len(path) - 1 : ~ Leaf(P[path[k]])
           /\ \A k \in 1 .. Len(path) - 1 : \A q \in DOMAIN P : \A j \in ChildNos(P[q]) :
                Child(P[q], j) = path[k + 1] => q = path[k]
           /\ P[Root].level = Len(path) - 1
<1>0. Shaped(P) /\ Len(path) \in Nat /\ Len(path) >= 1 /\ path[1] = Root
  BY TreeParts DEF Descends
<1>1. \A k, l \in 1 .. Len(path) : k # l => path[k] # path[l] /\ P[path[k]].level # P[path[l]].level
  <2> TAKE k, l \in 1 .. Len(path)
  <2> HAVE k # l
  <2>1. P[path[k]].level = Len(path) - k /\ P[path[l]].level = Len(path) - l
    BY DEF Descends
  <2>2. Len(path) - k # Len(path) - l
    BY <1>0
  <2> QED
    BY <2>1, <2>2
<1>2. \A k \in 1 .. Len(path) : path[k] \in DOMAIN P /\ (k # 1 => path[k] # Root)
  <2> TAKE k \in 1 .. Len(path)
  <2>1. 1 \in 1 .. Len(path)
    BY <1>0
  <2>2. k # 1 => path[k] # path[1]
    BY <1>1, <2>1
  <2> QED
    BY <1>0, <2>2 DEF Descends
<1>3. ASSUME NEW k \in 1 .. Len(path) - 1
      PROVE  /\ ~ Leaf(P[path[k]])
             /\ \A q \in DOMAIN P : \A j \in ChildNos(P[q]) : Child(P[q], j) = path[k + 1] => q = path[k]
  <2>1. k \in 1 .. Len(path)
    BY <1>0
  <2>2. PICK i \in ChildNos(P[path[k]]) : Child(P[path[k]], i) = path[k + 1]
    BY DEF Descends
  <2>3. \A q \in DOMAIN P : \A j \in ChildNos(P[q]) : Child(P[q], j) = path[k + 1] => q = path[k]
    BY <1>0, <1>2, <2>1, <2>2, SlotIs
  <2>4. ~ Leaf(P[path[k]])
    BY <2>2 DEF ChildNos
  <2> QED
    BY <2>3, <2>4
<1>4. P[Root].level = Len(path) - 1
  <2>1. 1 \in 1 .. Len(path)
    BY <1>0
  <2> QED
    BY <1>0, <2>1 DEF Descends
<1> QED
  BY <1>1, <1>2, <1>3, <1>4

\* A page with a tail hangs on tails all the way.
LEMMA TailsUp ==
    ASSUME NEW P, BTree(P, 0), NEW path, Descends(P, path), NEW m \in 1 .. Len(path), P[path[m]].tail # 0
    PROVE  \A k \in 1 .. m - 1 : P[path[k]].tail = path[k + 1]
<1>0. Shaped(P) /\ Len(path) \in Nat /\ path[1] = Root /\ m \in Nat /\ m >= 1
  BY TreeParts DEF Descends
<1> DEFINE A == {x \in 0 .. m - 1 : P[path[m - x]].tail # 0}
<1>1. 0 \in A
  BY <1>0
<1>2. ASSUME NEW x \in 1 .. m - 1, P[path[m - (x - 1)]].tail # 0
      PROVE  P[path[m - x]].tail = path[m - (x - 1)] /\ P[path[m - x]].tail # 0
  <2> DEFINE k == m - x
  <2>1. k \in 1 .. Len(path) - 1 /\ m - (x - 1) = k + 1 /\ k \in 1 .. Len(path)
    BY <1>0
  <2> HIDE DEF k
  <2>2. PICK j \in ChildNos(P[path[k]]) : Child(P[path[k]], j) = path[k + 1]
    BY <2>1 DEF Descends
  <2>3. path[k] \in DOMAIN P /\ P[path[k + 1]].tail # 0
    BY <1>2, <2>1 DEF Descends
  <2>4. ~ (j <= Len(P[path[k]].entries))
    BY <1>0, <2>2, <2>3, ChildFacts
  <2>5. j \in Nat /\ Len(P[path[k]].entries) \in Nat /\ PagesOK(P)
        /\ (j <= Len(P[path[k]].entries) \/ (P[path[k]].tail # 0 /\ j = Len(P[path[k]].entries) + 1))
    BY <1>0, <2>2, <2>3, NodeNos DEF Shaped
  <2>6. P[path[k]].tail # 0 /\ j = Len(P[path[k]].entries) + 1
    BY <2>4, <2>5
  <2>7. Child(P[path[k]], j) = P[path[k]].tail
    BY <2>4 DEF Child
  <2> QED
    BY <2>1, <2>2, <2>6, <2>7 DEF k
<1>3. \A x \in 0 .. m - 1 : x \in A
  <2>1. m - 1 \in Nat
    BY <1>0
  <2>2. ASSUME NEW x \in 1 .. m - 1, x - 1 \in A PROVE x \in A
    <3>1. P[path[m - (x - 1)]].tail # 0 /\ x \in 0 .. m - 1
      BY <2>2
    <3> QED
      BY <1>2, <3>1
  <2> HIDE DEF A
  <2> QED
    BY <1>1, <2>1, <2>2, Counted
<1>4. ASSUME NEW k \in 1 .. m - 1 PROVE P[path[k]].tail = path[k + 1]
  <2> DEFINE x == m - k
  <2>1. x \in 1 .. m - 1 /\ x - 1 \in 0 .. m - 1 /\ m - x = k /\ m - (x - 1) = k + 1
    BY <1>0
  <2> HIDE DEF x
  <2>2. P[path[m - (x - 1)]].tail # 0
    BY <1>3, <2>1
  <2>3. P[path[m - x]].tail = path[m - (x - 1)]
    BY <1>2, <2>1, <2>2
  <2> QED
    BY <2>1, <2>3
<1> QED
  BY <1>4
-----------------------------------------------------------------------------
(* A removal, up the path *)

\* Where a removal that ends with e stands: the pages below the i-th hold nothing else.
Emptied(P, path, i, e) ==
    /\ BTree(P, 0) /\ Fits(P) /\ Descends(P, path) /\ i \in 1 .. Len(path)
    /\ \A k \in i .. Len(path) : Len(P[path[k]].entries) = 1
    /\ \A k \in i + 1 .. Len(path) : P[path[k]].tail = 0
    /\ \A k \in i .. Len(path) - 1 : P[path[k]].entries[1].child = path[k + 1]
    /\ P[path[Len(path)]].entries[1].e = e
    /\ \A q \in DOMAIN P : Leaf(P[q]) /\ Holds(P, q, e) => q = path[Len(path)]

Chain(path, i) == {path[k] : k \in i .. Len(path)}

Chained(P, path, i, j, e) ==
    LET g == Chain(path, i)
        u == path[i - 1]
    IN  /\ g \subseteq DOMAIN P /\ u \in DOMAIN P /\ path[i] \in g
        /\ \A k \in 1 .. i - 1 : path[k] \notin g
        /\ \A x \in g : /\ Len(P[x].entries) = 1 /\ P[x].tail = 0 /\ P[x].level < P[u].level
                        /\ \A k \in ChildNos(P[x]) : Child(P[x], k) \in g
        /\ \A x, y \in g : P[x].level = P[y].level => x = y
        /\ \A q \in DOMAIN P \ g : \A k \in ChildNos(P[q]) : Child(P[q], k) \in g => q = u /\ k = j
        /\ \A q \in DOMAIN P : Leaf(P[q]) => /\ q \in g => \A x : Holds(P, q, x) <=> x = e
                                             /\ Holds(P, q, e) => q \in g

LEMMA ChainFacts ==
    ASSUME NEW P, NEW path, NEW i, NEW e, Emptied(P, path, i, e), i > 1, P[path[i]].tail = 0,
           NEW j \in ChildNos(P[path[i - 1]]), Child(P[path[i - 1]], j) = path[i]
    PROVE  Chained(P, path, i, j, e)
<1> DEFINE g == Chain(path, i)
           u == path[i - 1]
           n == Len(path)
<1>0. /\ BTree(P, 0) /\ Descends(P, path) /\ n \in Nat /\ i \in Nat /\ i <= n /\ i - 1 \in 1 .. n
      /\ i - 1 \in 1 .. n - 1 /\ i - 1 + 1 = i /\ i \in i .. n /\ n \in i .. n /\ n \in 1 .. n
  <2>1. Len(path) \in Nat /\ i \in 1 .. Len(path)
    BY DEF Emptied, Descends
  <2> QED
    BY <2>1 DEF Emptied
<1>1. Shaped(P) /\ PagesOK(P)
  BY <1>0, TreeParts
<1>2. /\ \A k, l \in 1 .. n : k # l => path[k] # path[l] /\ P[path[k]].level # P[path[l]].level
      /\ \A k \in 1 .. n : path[k] \in DOMAIN P /\ P[path[k]].level = n - k
      /\ \A k \in 1 .. n - 1 : \A q \in DOMAIN P : \A h \in ChildNos(P[q]) :
                Child(P[q], h) = path[k + 1] => q = path[k]
  <2>1. \A k, l \in 1 .. n : k # l => path[k] # path[l] /\ P[path[k]].level # P[path[l]].level
    BY <1>0, DescendFacts
  <2>2. \A k \in 1 .. n : path[k] \in DOMAIN P /\ P[path[k]].level = n - k
    BY <1>0 DEF Descends
  <2>3. \A k \in 1 .. n - 1 : \A q \in DOMAIN P : \A h \in ChildNos(P[q]) :
                Child(P[q], h) = path[k + 1] => q = path[k]
    BY <1>0, DescendFacts
  <2> QED
    BY <2>1, <2>2, <2>3
<1>3. \A k \in i .. n : k \in 1 .. n /\ k \in Nat
  BY <1>0
<1>4. \A x : x \in g <=> \E k \in i .. n : x = path[k]
  BY DEF Chain
<1>5. \A k \in i .. n : path[k] \in g
  BY <1>4
<1> HIDE DEF g
<1>6. g \subseteq DOMAIN P /\ u \in DOMAIN P /\ path[i] \in g
  <2>1. path[i] \in g
    BY <1>0, <1>5
  <2>2. u \in DOMAIN P
    BY <1>0, <1>2
  <2>3. ASSUME NEW x \in g PROVE x \in DOMAIN P
    <3>1. PICK k \in i .. n : x = path[k]
      BY <1>4
    <3> QED
      BY <1>2, <1>3, <3>1
  <2> QED
    BY <2>1, <2>2, <2>3
<1>7. \A k \in 1 .. i - 1 : path[k] \notin g
  <2> TAKE k \in 1 .. i - 1
  <2>1. k \in 1 .. n /\ \A l \in i .. n : k # l
    BY <1>0
  <2> QED
    BY <1>2, <1>3, <1>4, <2>1
<1>8. ASSUME NEW x \in g
      PROVE  /\ Len(P[x].entries) = 1 /\ P[x].tail = 0 /\ P[x].level < P[u].level
             /\ \A k \in ChildNos(P[x]) : Child(P[x], k) \in g
  <2>1. PICK k \in i .. n : x = path[k]
    BY <1>4
  <2>2. Len(P[x].entries) = 1
    BY <2>1 DEF Emptied
  <2>3. P[x].tail = 0
    <3>1. k = i \/ k \in i + 1 .. n
      BY <1>0
    <3> QED
      BY <2>1, <3>1 DEF Emptied
  <2>4. P[x].level < P[u].level
    <3>1. P[x].level = n - k /\ P[u].level = n - (i - 1)
      BY <1>0, <1>2, <1>3, <2>1
    <3>2. n - k < n - (i - 1)
      BY <1>0
    <3> QED
      BY <3>1, <3>2
  <2>5. ASSUME NEW h \in ChildNos(P[x]) PROVE Child(P[x], h) \in g
    <3>1. ~ Leaf(P[x]) /\ h = 1
      <4>1. x \in DOMAIN P
        BY <1>6
      <4>2. ~ Leaf(P[x]) /\ h \in Nat /\ 1 <= h /\ (h <= Len(P[x].entries) \/ P[x].tail # 0)
        BY <1>1, <2>5, <4>1, NodeNos
      <4> QED
        BY <2>2, <2>3, <4>2
    <3>2. k \in i .. n - 1 /\ k + 1 \in i .. n
      <4>1. P[x].level = n - k /\ P[x].level # 0
        BY <1>2, <1>3, <2>1, <3>1 DEF Leaf
      <4> QED
        BY <1>0, <4>1
    <3>3. P[x].entries[1].child = path[k + 1]
      BY <2>1, <3>2 DEF Emptied
    <3>4. Child(P[x], h) = P[x].entries[1].child
      BY <2>2, <3>1 DEF Child
    <3> QED
      BY <1>5, <3>2, <3>3, <3>4
  <2> QED
    BY <2>2, <2>3, <2>4, <2>5
<1>9. \A x, y \in g : P[x].level = P[y].level => x = y
  BY <1>2, <1>3, <1>4
<1>10. ASSUME NEW q \in DOMAIN P \ g, NEW k \in ChildNos(P[q]), Child(P[q], k) \in g
       PROVE  q = u /\ k = j
  <2>1. PICK l \in i .. n : Child(P[q], k) = path[l]
    BY <1>4, <1>10
  <2>2. CASE l = i
    BY <1>1, <1>6, <2>1, <2>2, SlotIs
  <2>3. CASE l # i
    <3> DEFINE m == l - 1
    <3>1. m \in 1 .. n - 1 /\ m \in i .. n /\ m + 1 = l
      BY <1>0, <2>3
    <3> HIDE DEF m
    <3>2. q = path[m]
      BY <1>2, <2>1, <3>1
    <3> QED
      BY <1>5, <3>1, <3>2
  <2> QED
    BY <2>2, <2>3
<1>11. ASSUME NEW q \in DOMAIN P, Leaf(P[q])
       PROVE  /\ q \in g => \A x : Holds(P, q, x) <=> x = e
              /\ Holds(P, q, e) => q \in g
  <2>1. Holds(P, q, e) => q \in g
    BY <1>0, <1>5, <1>11 DEF Emptied
  <2>2. ASSUME q \in g PROVE \A x : Holds(P, q, x) <=> x = e
    <3>1. PICK k \in i .. n : q = path[k]
      BY <1>4, <2>2
    <3>2. k = n
      <4>1. n - k = 0
        BY <1>2, <1>3, <1>11, <3>1 DEF Leaf
      <4> QED
        BY <1>0, <4>1
    <3>3. P[q].entries[1].e = e /\ Len(P[q].entries) = 1
      BY <1>0, <3>1, <3>2 DEF Emptied
    <3>4. \A h : h \in 1 .. 1 <=> h = 1
      OBVIOUS
    <3> QED
      BY <3>3, <3>4 DEF Holds
  <2> QED
    BY <2>1, <2>2
<1> QED
  BY <1>6, <1>7, <1>8, <1>9, <1>10, <1>11 DEF g, Chained

\* Q is P, but for the tail of u.
TailSet(P, Q, u, t) ==
    /\ Q \in [DOMAIN P -> Page]
    /\ \A q \in DOMAIN P : /\ Q[q].level = P[q].level /\ Q[q].prev = P[q].prev /\ Q[q].next = P[q].next
                           /\ Q[q].tail = (IF q = u THEN t ELSE P[q].tail)
                           /\ Q[q].entries = P[q].entries

\* What is left of the dividers of u.
Rest(P, u, j, rest) ==
    /\ rest \in Seq(ItemSet) /\ rest # << >>
    /\ Len(rest) = (IF j <= Len(P[u].entries) THEN Len(P[u].entries) - 1 ELSE Len(P[u].entries))
    /\ \A k \in 1 .. Len(rest) : rest[k] = IF k < j THEN P[u].entries[k] ELSE P[u].entries[k + 1]

LEMMA EmptiedRemoval ==
    ASSUME NEW P, NEW path, NEW i, NEW e, Emptied(P, path, i, e), i > 1, P[path[i]].tail = 0,
           NEW j \in ChildNos(P[path[i - 1]]), Child(P[path[i - 1]], j) = path[i],
           NEW Q, TailSet(P, Q, path[i - 1], IF j <= Len(P[path[i - 1]].entries) THEN P[path[i - 1]].tail ELSE 0),
           NEW rest, Rest(P, path[i - 1], j, rest)
    PROVE  /\ Typed(Q, Chain(path, i))
           /\ Removal(P, At(Unlinked(Q, Chain(path, i)), path[i - 1], rest), Chain(path, i), path[i - 1], j)
<1> DEFINE g == Chain(path, i)
           u == path[i - 1]
           V == Unlinked(Q, g)
           T == At(V, u, rest)
<1>0. 0 \notin DOMAIN P
  BY TreeParts DEF Emptied, PagesOK
<1>20. Chained(P, path, i, j, e)
  BY ChainFacts
<1>1. i \in Nat /\ i - 1 \in 1 .. i - 1 /\ path[i] \in g
  <2>1. i \in Nat
    BY DEF Emptied, Descends
  <2>2. path[i] \in g
    BY <1>20 DEF Chained
  <2> QED
    BY <2>1, <2>2
<1>2. /\ g \subseteq DOMAIN P /\ u \in DOMAIN P \ g
      /\ \A x \in g : /\ Len(P[x].entries) = 1 /\ P[x].tail = 0 /\ P[x].level < P[u].level
                      /\ \A k \in ChildNos(P[x]) : Child(P[x], k) \in g
      /\ \A x, y \in g : P[x].level = P[y].level => x = y
      /\ \A q \in DOMAIN P \ g : \A k \in ChildNos(P[q]) : Child(P[q], k) \in g => q = u /\ k = j
  BY <1>1, <1>20 DEF Chained
<1> HIDE DEF g, u
<1>3. DOMAIN Q = DOMAIN P /\ Typed(Q, g)
  BY <1>0, <1>2 DEF Typed, TailSet
<1>4. /\ DOMAIN V = DOMAIN P \ g
      /\ \A q \in DOMAIN P \ g :
            /\ V[q].level = Q[q].level /\ V[q].tail = Q[q].tail /\ V[q].entries = Q[q].entries
            /\ V[q].next = (IF Q[q].next \in g THEN Q[Q[q].next].next ELSE Q[q].next)
            /\ V[q].prev = (IF Q[q].prev \in g THEN Q[Q[q].prev].prev ELSE Q[q].prev)
            /\ V[q] \in Page
  <2>1. /\ DOMAIN V = DOMAIN Q \ g
        /\ \A q \in DOMAIN Q \ g :
             LET p == V[q]
             IN  /\ p.level = Q[q].level /\ p.tail = Q[q].tail /\ p.entries = Q[q].entries
                 /\ p.next = (IF Q[q].next \in g THEN Q[Q[q].next].next ELSE Q[q].next)
                 /\ p.prev = (IF Q[q].prev \in g THEN Q[Q[q].prev].prev ELSE Q[q].prev)
                 /\ p \in Page
    BY <1>3, UnlinkedFacts
  <2> HIDE DEF V
  <2> QED
    BY <1>3, <2>1
<1>5. Typed(V, {})
  <2>1. rest \in Seq(ItemSet)
    BY DEF Rest
  <2> QED
    BY <1>2, <1>3, <2>1, UnlinkedAt
<1> HIDE DEF V
<1>6. /\ DOMAIN T = DOMAIN V /\ Typed(T, {}) /\ T[u].entries = rest
      /\ \A q \in DOMAIN V :
            /\ q # u => T[q] = V[q]
            /\ T[q].level = V[q].level /\ T[q].prev = V[q].prev
            /\ T[q].next = V[q].next /\ T[q].tail = V[q].tail
  <2>1. rest \in Seq(ItemSet) /\ u \in DOMAIN V
    BY <1>2, <1>4 DEF Rest
  <2> QED
    BY <1>5, <2>1, TypedAt
<1> HIDE DEF T
<1>7. T[u].entries # << >>
      /\ Len(T[u].entries) = (IF j <= Len(P[u].entries) THEN Len(P[u].entries) - 1 ELSE Len(P[u].entries))
      /\ \A k \in 1 .. Len(T[u].entries) :
           T[u].entries[k] = IF k < j THEN P[u].entries[k] ELSE P[u].entries[k + 1]
  BY <1>6 DEF Rest, u
<1>8. TailSet(P, Q, u, IF j <= Len(P[u].entries) THEN P[u].tail ELSE 0)
  BY DEF u
<1>9. T[u].tail = (IF j <= Len(P[u].entries) THEN P[u].tail ELSE 0)
  BY <1>2, <1>4, <1>6, <1>8 DEF TailSet
<1>10. ASSUME NEW q \in DOMAIN P \ g
       PROVE  /\ T[q].level = P[q].level
              /\ q # u => T[q].tail = P[q].tail /\ T[q].entries = P[q].entries
              /\ T[q].next = (IF P[q].next \in g THEN P[P[q].next].next ELSE P[q].next)
              /\ T[q].prev = (IF P[q].prev \in g THEN P[P[q].prev].prev ELSE P[q].prev)
  <2>1. /\ Q[q].level = P[q].level /\ Q[q].prev = P[q].prev /\ Q[q].next = P[q].next
        /\ Q[q].tail = (IF q = u THEN T[u].tail ELSE P[q].tail) /\ Q[q].entries = P[q].entries
        /\ \A x \in g : Q[x].next = P[x].next /\ Q[x].prev = P[x].prev
    BY <1>2, <1>8, <1>9 DEF TailSet
  <2>2. T[q].level = P[q].level /\ (q # u => T[q].tail = P[q].tail /\ T[q].entries = P[q].entries)
    BY <1>4, <1>6, <2>1
  <2>3. T[q].next = (IF P[q].next \in g THEN P[P[q].next].next ELSE P[q].next)
    BY <1>4, <1>6, <2>1
  <2>4. T[q].prev = (IF P[q].prev \in g THEN P[P[q].prev].prev ELSE P[q].prev)
    BY <1>4, <1>6, <2>1
  <2> QED
    BY <2>2, <2>3, <2>4
<1>11. DOMAIN T = DOMAIN P \ g /\ T \in [DOMAIN T -> Page]
  BY <1>4, <1>6 DEF Typed
<1>12. j \in ChildNos(P[u]) /\ Child(P[u], j) \in g
  BY <1>1 DEF u
<1>13. Removal(P, T, g, u, j)
  BY <1>2, <1>7, <1>9, <1>10, <1>11, <1>12 DEF Removal
<1> QED
  BY <1>3, <1>13 DEF g, u, T, V

LEMMA EmptiedBounds ==
    ASSUME NEW P, NEW path, NEW i, NEW e, Emptied(P, path, i, e)
    PROVE  /\ BTree(P, 0) /\ Shaped(P) /\ PagesOK(P) /\ Fits(P) /\ Descends(P, path)
           /\ Len(path) \in Nat /\ i \in Nat /\ 1 <= i /\ i <= Len(path) /\ i \in 1 .. Len(path) /\ path[1] = Root
           /\ i \in i .. Len(path) /\ P[path[i]].level = Len(path) - i
           /\ path[i] \in DOMAIN P /\ P[path[i]] \in Page /\ P[path[i]].tail \in Nat
           /\ i > 1 => /\ i - 1 \in 1 .. Len(path) /\ i - 1 \in 1 .. Len(path) - 1 /\ i - 1 + 1 = i /\ i - 1 \in Nat
                       /\ path[i - 1] \in DOMAIN P /\ path[i] # Root
                       /\ ~ Leaf(P[path[i - 1]])
                       /\ \E j \in ChildNos(P[path[i - 1]]) : Child(P[path[i - 1]], j) = path[i]
<1>1. /\ BTree(P, 0) /\ Fits(P) /\ Descends(P, path) /\ Len(path) \in Nat /\ i \in 1 .. Len(path) /\ path[1] = Root
  BY DEF Emptied, Descends
<1>2. Shaped(P) /\ PagesOK(P)
  BY <1>1, TreeParts
<1>3. path[i] \in DOMAIN P /\ P[path[i]].level = Len(path) - i
  BY <1>1 DEF Descends
<1>4. P[path[i]] \in Page
  BY <1>2, <1>3 DEF PagesOK
<1>5. P[path[i]].tail \in Nat
  BY <1>4 DEF Page
<1>6. i \in Nat /\ 1 <= i /\ i <= Len(path) /\ i \in i .. Len(path)
      /\ (i > 1 => i - 1 \in 1 .. Len(path) /\ i - 1 \in 1 .. Len(path) - 1 /\ i - 1 + 1 = i /\ i - 1 \in Nat)
  BY <1>1
<1>7. ASSUME i > 1
      PROVE  /\ path[i - 1] \in DOMAIN P /\ path[i] # Root
             /\ \E j \in ChildNos(P[path[i - 1]]) : Child(P[path[i - 1]], j) = path[i]
  <2> DEFINE h == i - 1
  <2>1. h \in 1 .. Len(path) /\ h \in 1 .. Len(path) - 1 /\ h + 1 = i /\ i # 1
    BY <1>6, <1>7
  <2> HIDE DEF h
  <2>2. path[h] \in DOMAIN P /\ \E j \in ChildNos(P[path[h]]) : Child(P[path[h]], j) = path[i]
    BY <1>1, <2>1 DEF Descends
  <2>3. path[i] # Root
    BY <1>1, <2>1, DescendFacts
  <2> QED
    BY <2>2, <2>3 DEF h
<1>8. i > 1 => ~ Leaf(P[path[i - 1]])
  BY <1>7 DEF ChildNos
<1> QED
  BY <1>1, <1>2, <1>3, <1>4, <1>5, <1>6, <1>7, <1>8

LEMMA RemovePending ==
    ASSUME NEW P, NEW path, NEW i, NEW e, Emptied(P, path, i, e), i > 1, P[path[i]].tail = 0,
           NEW j \in ChildNos(P[path[i - 1]]), Child(P[path[i - 1]], j) = path[i],
           NEW Q, TailSet(P, Q, path[i - 1], IF j <= Len(P[path[i - 1]].entries) THEN P[path[i - 1]].tail ELSE 0),
           NEW rest, Rest(P, path[i - 1], j, rest)
    PROVE  Pending(Q, Chain(path, i), path, i - 1, rest, Indexed(P) \ {e})
<1> DEFINE g == Chain(path, i)
           h == i - 1
           u == path[h]
           T == At(Unlinked(Q, g), u, rest)
           X == Indexed(P) \ {e}
<1>1. /\ BTree(P, 0) /\ Shaped(P) /\ PagesOK(P) /\ Fits(P) /\ Descends(P, path) /\ path[1] = Root
      /\ Len(path) \in Nat /\ i \in 1 .. Len(path) /\ h \in Nat /\ h \in 1 .. Len(path) /\ h + 1 = i /\ u \in DOMAIN P
      /\ ~ Leaf(P[u])
  BY EmptiedBounds
<1>2. Chained(P, path, i, j, e)
  BY ChainFacts
<1>3. Typed(Q, g) /\ Removal(P, T, g, u, j)
  BY EmptiedRemoval
<1>4. TailSet(P, Q, u, IF j <= Len(P[u].entries) THEN P[u].tail ELSE 0) /\ Rest(P, u, j, rest)
  OBVIOUS
<1>5. /\ \A q \in DOMAIN P : Leaf(P[q]) => /\ q \in g => \A x : Holds(P, q, x) <=> x = e
                                           /\ Holds(P, q, e) => q \in g
      /\ \A k \in 1 .. h : path[k] \notin g
  BY <1>2 DEF Chained
<1> HIDE DEF T, g, u
<1>6. BTree(T, u) /\ Indexed(T) = X
  <2>1. BTree(T, u)
    BY <1>1, <1>3, RemovalTree
  <2>2. Indexed(T) = Indexed(P) \ {e}
    BY <1>1, <1>3, <1>5, RemovalIndexed
  <2> QED
    BY <2>1, <2>2
<1>7. DOMAIN Q = DOMAIN P /\ \A q \in DOMAIN P : Q[q].level = P[q].level /\ Q[q].entries = P[q].entries
                                                 /\ (q # u => Q[q].tail = P[q].tail)
  BY <1>4 DEF TailSet
<1>8. \A k \in 1 .. h : path[k] \in DOMAIN P /\ P[path[k]].level = Len(path) - k
  <2> TAKE k \in 1 .. h
  <2>1. k \in 1 .. Len(path)
    BY <1>1
  <2> QED
    BY <1>1, <2>1 DEF Descends
<1>9. Open(Q, g, path, h)
  <2>1. ASSUME NEW k \in 1 .. h
        PROVE  path[k] \in DOMAIN Q \ g /\ Q[path[k]].level + k = Q[Root].level + 1
    <3>1. P[path[k]].level = Len(path) - k /\ path[k] \in DOMAIN Q \ g
      BY <1>5, <1>7, <1>8
    <3>2. P[Root].level = Len(path) - 1 /\ Root \in DOMAIN P
      BY <1>1, DescendFacts, RootFacts
    <3>3. Len(path) - k + k = Len(path) - 1 + 1
      BY <1>1
    <3> HIDE DEF Root
    <3> QED
      BY <1>7, <1>8, <3>1, <3>2, <3>3
  <2>2. ASSUME NEW k \in 1 .. h - 1
        PROVE  \E m \in ChildNos(Q[path[k]]) : Child(Q[path[k]], m) = path[k + 1]
    <3>1. k \in 1 .. Len(path) - 1 /\ k \in 1 .. Len(path) /\ k # h /\ k \in 1 .. h
      BY <1>1
    <3>2. PICK m \in ChildNos(P[path[k]]) : Child(P[path[k]], m) = path[k + 1]
      BY <1>1, <3>1 DEF Descends
    <3>3. path[k] # u
      <4>1. path[k] # path[h]
        BY <1>1, <3>1, DescendFacts
      <4> QED
        BY <4>1 DEF u
    <3>4. /\ Q[path[k]].level = P[path[k]].level /\ Q[path[k]].entries = P[path[k]].entries
          /\ Q[path[k]].tail = P[path[k]].tail
      BY <1>7, <1>8, <3>1, <3>3
    <3>5. m \in ChildNos(Q[path[k]]) /\ Child(Q[path[k]], m) = path[k + 1]
      BY <3>2, <3>4 DEF ChildNos, Child, Leaf
    <3> QED
      BY <3>5
  <2> QED
    BY <1>1, <1>3, <2>1, <2>2 DEF Open
<1>10. rest \in Seq(ItemSet) /\ Len(rest) <= PageSize
  <2>1. rest \in Seq(ItemSet) /\ Len(rest) <= Len(P[u].entries)
    <3>1. Len(P[u].entries) \in Nat
      BY <1>1, PageFacts
    <3> QED
      BY <1>4, <3>1, SMTT(60) DEF Rest
  <2>2. Len(P[u].entries) <= PageSize /\ Len(P[u].entries) \in Nat /\ Len(rest) \in Nat /\ PageSize \in Nat
    BY <1>1, <2>1, PageFacts, IndexConstants DEF Fits
  <2> QED
    BY <2>1, <2>2
<1>11. Len(rest) <= PageSize + 1
  <2>1. Len(rest) \in Nat /\ PageSize \in Nat
    BY <1>10, IndexConstants
  <2> QED
    BY <1>10, <2>1
<1>12. \A q \in DOMAIN Q \ g : q # path[h] => Len(Q[q].entries) <= PageSize
  BY <1>1, <1>7 DEF Fits
<1>13. ASSUME h > 1
       PROVE  /\ Q[path[h]].entries # << >>
              /\ \A m \in 1 .. Len(Q[path[h - 1]].entries) :
                   Q[path[h - 1]].entries[m].child = path[h] => Q[path[h - 1]].entries[m].e = Top(Q, path[h])
  <2> DEFINE k == h - 1
  <2>1. k \in 1 .. Len(path) - 1 /\ k \in 1 .. Len(path) /\ k + 1 = h
    BY <1>1, <1>13
  <2> HIDE DEF k, h
  <2>2. path[k] \in DOMAIN P /\ ~ Leaf(P[path[k]])
    BY <1>1, <2>1, DescendFacts
  <2>3. ASSUME NEW m \in 1 .. Len(P[path[k]].entries), P[path[k]].entries[m].child = u
        PROVE  P[path[k]].entries[m].e = Top(P, u)
    <3>1. P[path[k]].entries[m].child = Child(P[path[k]], m)
          /\ (Child(P[path[k]], m) # 0 => P[path[k]].entries[m].e = Top(P, Child(P[path[k]], m)))
      BY <1>1, <2>2, Dividers
    <3>2. u # 0
      BY <1>1, PageFacts
    <3> QED
      BY <2>3, <3>1, <3>2
  <2>4. P[u].entries # << >>
    BY <1>1, Filled
  <2>5. Q[path[k]].entries = P[path[k]].entries /\ Q[u].entries = P[u].entries /\ Top(Q, u) = Top(P, u)
    BY <1>1, <1>7, <2>2 DEF Top
  <2> QED
    BY <2>3, <2>4, <2>5 DEF k, u
<1>14. BTree(At(Unlinked(Q, g), path[h], rest), path[h]) /\ Indexed(At(Unlinked(Q, g), path[h], rest)) = X
  BY <1>6 DEF T, u
<1> HIDE DEF h, X
<1>15. Pending(Q, g, path, h, rest, X)
  BY <1>9, <1>10, <1>11, <1>12, <1>13, <1>14 DEF Pending
<1> QED
  BY <1>15 DEF h, g, X

\* Pages with one entry each, from the root to a leaf, are the whole tree.
LEMMA OnePath ==
    ASSUME NEW P, NEW path, NEW e, Emptied(P, path, 1, e), P[Root].tail = 0
    PROVE  \A q \in DOMAIN P : q # Root => q \in Chain(path, 2)
<1> DEFINE n == Len(path)
           A == {k \in 0 .. n - 1 : \A q \in DOMAIN P : P[q].level = n - 1 - k => q = path[k + 1]}
<1>1. /\ BTree(P, 0) /\ Shaped(P) /\ PagesOK(P) /\ Descends(P, path) /\ n \in Nat /\ 1 <= n /\ path[1] = Root
      /\ n - 1 \in Nat
  <2>1. /\ BTree(P, 0) /\ Shaped(P) /\ PagesOK(P) /\ Descends(P, path) /\ n \in Nat /\ 1 <= n /\ path[1] = Root
    BY EmptiedBounds
  <2> QED
    BY <2>1
<1>2. P[Root].level = n - 1
  BY <1>1, DescendFacts
<1> HIDE DEF n
<1>3. \A k \in 1 .. n : Len(P[path[k]].entries) = 1 /\ P[path[k]].tail = 0
  <2> TAKE k \in 1 .. n
  <2>1. k = 1 \/ k \in 1 + 1 .. n
    BY <1>1
  <2> QED
    BY <1>1, <2>1 DEF Emptied, n
<1>4. \A k \in 1 .. n - 1 : P[path[k]].entries[1].child = path[k + 1]
  BY DEF Emptied, n
<1>5. 0 \in A
  <2>1. ASSUME NEW q \in DOMAIN P, P[q].level = n - 1 - 0 PROVE q = path[0 + 1]
    <3>1. P[q].level = P[Root].level /\ P[q].level \in Nat
      BY <1>1, <1>2, <2>1, PageFacts
    <3>2. q = Root
      <4> HIDE DEF Root
      <4> QED
        BY <1>1, <3>1, RootLevel
    <3> QED
      BY <1>1, <3>2
  <2>2. 0 \in 0 .. n - 1
    BY <1>1
  <2> QED
    BY <2>1, <2>2
<1>6. ASSUME NEW k \in 1 .. n - 1, k - 1 \in A PROVE k \in A
  <2>1. ASSUME NEW q \in DOMAIN P, P[q].level = n - 1 - k PROVE q = path[k + 1]
    <3>1. k \in Nat /\ k \in 1 .. n /\ n - 1 - k # n - 1 /\ k - 1 + 1 = k /\ n - 1 - (k - 1) = n - 1 - k + 1
      BY <1>1
    <3>2. q # Root
      BY <1>2, <2>1, <3>1
    <3>3. PICK x \in DOMAIN P : \E i \in ChildNos(P[x]) : Child(P[x], i) = q
      BY <1>1, <3>2 DEF Shaped, Hung
    <3>4. PICK i \in ChildNos(P[x]) : Child(P[x], i) = q
      BY <3>3
    <3>5. P[x].level = n - 1 - k + 1
      BY <1>1, <2>1, <3>4, ChildFacts
    <3>6. x = path[k]
      BY <1>6, <3>1, <3>5
    <3>7. i \in Nat /\ 1 <= i /\ i <= 1
      <4>1. Len(P[x].entries) = 1 /\ P[x].tail = 0
        BY <1>3, <3>1, <3>6
      <4> QED
        BY <1>1, <3>4, <4>1, NodeNos
    <3>8. i = 1 /\ Child(P[x], 1) = P[x].entries[1].child
      BY <1>3, <3>1, <3>6, <3>7 DEF Child
    <3> QED
      BY <1>4, <3>4, <3>6, <3>8
  <2>2. k \in 0 .. n - 1
    BY <1>1
  <2> QED
    BY <2>1, <2>2
<1>7. \A k \in 0 .. n - 1 : k \in A
  <2> HIDE DEF A
  <2> QED
    BY <1>1, <1>5, <1>6, Counted
<1>8. ASSUME NEW q \in DOMAIN P, q # Root PROVE q \in Chain(path, 2)
  <2> DEFINE k == n - 1 - P[q].level
  <2>1. P[q].level \in Nat /\ P[q].level < n - 1
    BY <1>1, <1>2, <1>8, RootLevel, PageFacts
  <2>2. k \in 0 .. n - 1 /\ n - 1 - k = P[q].level /\ k + 1 \in 2 .. n
    BY <1>1, <2>1
  <2> HIDE DEF k
  <2>3. q = path[k + 1]
    BY <1>7, <2>2
  <2> QED
    BY <2>2, <2>3 DEF Chain, n
<1> QED
  BY <1>8

\* A tree of the empty leaf alone.
LEMMA EmptyTree ==
    ASSUME NEW T, T = [q \in {Root} |-> EmptyLeaf]
    PROVE  BTree(T, 0) /\ Fits(T) /\ Indexed(T) = {}
<1>1. /\ DOMAIN T = {Root} /\ T[Root] = EmptyLeaf /\ Root \in Nat /\ Root # 0
      /\ EmptyLeaf.level = 0 /\ EmptyLeaf.prev = 0 /\ EmptyLeaf.next = 0 /\ EmptyLeaf.tail = 0
      /\ EmptyLeaf.entries = << >> /\ Len(EmptyLeaf.entries) = 0 /\ Leaf(EmptyLeaf) /\ DOMAIN EmptyLeaf.entries = {}
  BY DEF EmptyLeaf, Root, Leaf
<1>2. EmptyLeaf \in Page
  <2>1. << >> \in Seq([e : Entry, child : Nat])
    OBVIOUS
  <2> QED
    BY <2>1 DEF EmptyLeaf, Page
<1>3. IsFiniteSet(DOMAIN T)
  BY <1>1, FS_Singleton
<1>4. T \in [DOMAIN T -> Page]
  BY <1>1, <1>2
<1> HIDE DEF EmptyLeaf, Root
<1>5. PagesOK(T)
  BY <1>1, <1>3, <1>4 DEF PagesOK
<1>6. Linked(T)
  BY <1>1 DEF Linked
<1>7. ChildNos(EmptyLeaf) = {}
  BY <1>1 DEF ChildNos
<1>8. Hung(T)
  BY <1>1, <1>7 DEF Hung
<1>9. Sorted(T)
  BY <1>1 DEF Sorted
<1>10. Divided(T, 0)
  BY <1>1 DEF Divided
<1>11. Fits(T)
  BY <1>1, IndexConstants DEF Fits
<1>12. Indexed(T) = {}
  <2>1. \A i : i \notin 1 .. 0
    OBVIOUS
  <2> QED
    BY <1>1, <2>1 DEF Indexed, Holds
<1> QED
  BY <1>5, <1>6, <1>8, <1>9, <1>10, <1>11, <1>12 DEF BTree

LEMMA RootGone ==
    ASSUME NEW P, NEW path, NEW e, Emptied(P, path, 1, e), P[Root].tail = 0
    PROVE  Done([P EXCEPT ![Root] = EmptyLeaf], Chain(path, 2), Indexed(P) \ {e})
<1> DEFINE g == Chain(path, 2)
           Q == [P EXCEPT ![Root] = EmptyLeaf]
           T == Unlinked(Q, g)
           n == Len(path)
<1>1. /\ BTree(P, 0) /\ Shaped(P) /\ PagesOK(P) /\ Descends(P, path) /\ n \in Nat /\ 1 <= n /\ path[1] = Root
      /\ Root \in DOMAIN P /\ n \in 1 .. n /\ 1 \in 1 .. n
  <2>1. /\ BTree(P, 0) /\ Shaped(P) /\ PagesOK(P) /\ Descends(P, path) /\ n \in Nat /\ 1 <= n /\ path[1] = Root
    BY EmptiedBounds
  <2> QED
    BY <2>1, RootFacts
<1>2. \A q \in DOMAIN P : q # Root => q \in g
  BY OnePath
<1>3. g \subseteq DOMAIN P \ {Root}
  <2> SUFFICES ASSUME NEW x \in g PROVE x \in DOMAIN P \ {Root}
    OBVIOUS
  <2>1. PICK k \in 2 .. n : x = path[k]
    BY DEF Chain
  <2>2. k \in 1 .. n /\ k # 1
    BY <1>1
  <2> QED
    BY <1>1, <2>1, <2>2, DescendFacts
<1> HIDE DEF g
<1>4. EmptyLeaf \in Page /\ EmptyLeaf.prev = 0 /\ EmptyLeaf.next = 0
  <2>1. << >> \in Seq([e : Entry, child : Nat])
    OBVIOUS
  <2> QED
    BY <2>1 DEF EmptyLeaf, Page
<1>5. DOMAIN Q = DOMAIN P /\ Q[Root] = EmptyLeaf /\ Q \in [DOMAIN P -> Page]
  <2>1. P \in [DOMAIN P -> Page]
    BY <1>1 DEF PagesOK
  <2> HIDE DEF EmptyLeaf, Root
  <2> QED
    BY <1>1, <1>4, <2>1
<1>6. Typed(Q, g) /\ 0 \notin g
  <2>1. 0 \notin DOMAIN P
    BY <1>1 DEF PagesOK
  <2> HIDE DEF Q
  <2> QED
    BY <1>3, <1>5, <2>1 DEF Typed
<1> HIDE DEF Q
<1>7. T = [q \in {Root} |-> EmptyLeaf]
  <2>1. DOMAIN Q \ g = {Root}
    BY <1>1, <1>2, <1>3, <1>5
  <2>2. DOMAIN T = {Root} /\ T[Root] = EmptyLeaf
    <3>1. /\ DOMAIN T = DOMAIN Q \ g
          /\ \A q \in DOMAIN Q \ g :
             LET p == T[q]
             IN  /\ p.level = Q[q].level /\ p.tail = Q[q].tail /\ p.entries = Q[q].entries
                 /\ p.next = (IF Q[q].next \in g THEN Q[Q[q].next].next ELSE Q[q].next)
                 /\ p.prev = (IF Q[q].prev \in g THEN Q[Q[q].prev].prev ELSE Q[q].prev)
                 /\ p \in Page
      BY <1>6, UnlinkedFacts
    <3> HIDE DEF T, EmptyLeaf, Root
    <3>2. /\ T[Root] \in Page /\ T[Root].level = EmptyLeaf.level /\ T[Root].prev = EmptyLeaf.prev
          /\ T[Root].next = EmptyLeaf.next /\ T[Root].tail = EmptyLeaf.tail /\ T[Root].entries = EmptyLeaf.entries
      BY <1>4, <1>5, <1>6, <2>1, <3>1
    <3>3. T[Root] = EmptyLeaf
      BY <1>4, <3>2, SamePage
    <3> QED
      BY <2>1, <3>1, <3>3
  <2>3. T = [q \in DOMAIN T |-> T[q]]
    BY DEF Unlinked
  <2> HIDE DEF T, EmptyLeaf, Root
  <2> QED
    BY <2>2, <2>3
<1>8. BTree(T, 0) /\ Fits(T) /\ Indexed(T) = {}
  <2> HIDE DEF T, EmptyLeaf, Root
  <2> QED
    BY <1>7, EmptyTree
<1>9. Indexed(P) \ {e} = {}
  <2> SUFFICES ASSUME NEW x \in Indexed(P) PROVE x = e
    OBVIOUS
  <2>1. PICK q \in DOMAIN P : Leaf(P[q]) /\ Holds(P, q, x)
    BY DEF Indexed
  <2>2. q = Root \/ \E k \in 2 .. n : q = path[k]
    BY <1>2 DEF g, Chain
  <2>3. PICK k \in 1 .. n : q = path[k]
    <3>1. \A k \in 2 .. n : k \in 1 .. n
      BY <1>1
    <3> QED
      BY <1>1, <2>2, <3>1
  <2>4. k = n
    <3>1. P[path[k]].level = n - k
      BY DEF Descends, Emptied
    <3>2. n - k = 0
      BY <2>1, <2>3, <3>1 DEF Leaf
    <3> QED
      BY <1>1, <3>2
  <2>5. Len(P[q].entries) = 1 /\ P[q].entries[1].e = e
    BY <1>1, <2>3, <2>4 DEF Emptied
  <2>6. \A i : i \in 1 .. 1 => i = 1
    OBVIOUS
  <2> QED
    BY <2>1, <2>5, <2>6 DEF Holds
<1>10. Done(Q, g, Indexed(P) \ {e})
  <2> HIDE DEF T
  <2>1. Unlinked(Q, g) = T
    BY DEF T
  <2> QED
    BY <1>6, <1>8, <1>9, <2>1 DEF Done
<1> QED
  BY <1>10 DEF Q, g

LEMMA TailRefuses ==
    ASSUME NEW P, NEW path, NEW i, NEW e, Emptied(P, path, i, e), P[path[i]].tail # 0
    PROVE  Stays(P, path)
<1> DEFINE n == Len(path)
           p == P[path[i]]
<1>1. /\ Shaped(P) /\ PagesOK(P) /\ n \in Nat /\ i \in Nat /\ 1 <= i /\ i <= n /\ i \in i .. n
      /\ p.level = n - i /\ path[i] \in DOMAIN P
  BY EmptiedBounds
<1>2. ~ Leaf(p)
  BY <1>1 DEF PagesOK
<1>3. i \in 1 .. n - 1 /\ i \in i .. n - 1
  <2>1. n - i # 0
    BY <1>1, <1>2 DEF Leaf
  <2> QED
    BY <1>1, <2>1
<1>4. Len(p.entries) = 1
  BY <1>1 DEF Emptied
<1>5. p.entries[1].child = path[i + 1]
  BY <1>3 DEF Emptied
<1>6. p.tail # path[i + 1]
  <2>1. 1 \in 1 .. Len(p.entries)
    BY <1>4
  <2>2. 1 \in ChildNos(p) /\ Child(p, 1) = path[i + 1] /\ Len(p.entries) + 1 \in ChildNos(p)
        /\ Child(p, Len(p.entries) + 1) = p.tail
    BY <1>1, <1>2, <1>5, <2>1, NodeFacts
  <2>3. Len(p.entries) + 1 = 2
    BY <1>4
  <2> HIDE DEF p
  <2>4. 2 \in ChildNos(p) /\ Child(p, 2) = p.tail
    BY <2>2, <2>3
  <2>5. Child(p, 2) # Child(p, 1)
    BY <1>1, <2>2, <2>4, SlotIs DEF p
  <2> QED
    BY <2>2, <2>4, <2>5
<1> QED
  BY <1>3, <1>6 DEF Stays, Emptied

LEMMA NoTailLeaves ==
    ASSUME NEW P, NEW path, NEW e, Emptied(P, path, 1, e), P[path[1]].tail = 0
    PROVE  ~ Stays(P, path)
<1>1. Len(path) \in Nat
  BY EmptiedBounds
<1>2. ASSUME NEW k \in 1 .. Len(path) - 1 PROVE P[path[k]].tail = 0
  <2>1. k = 1 \/ k \in 1 + 1 .. Len(path)
    BY <1>1
  <2> QED
    BY <2>1 DEF Emptied
<1> QED
  BY <1>2 DEF Stays

LEMMA RestLeaves ==
    ASSUME NEW P, NEW path, NEW i, NEW e, Emptied(P, path, i, e), i > 1, P[path[i]].tail = 0,
           P[path[i - 1]].tail = path[i] \/ Len(P[path[i - 1]].entries) # 1
    PROVE  ~ Stays(P, path)
<1> DEFINE n == Len(path)
           h == i - 1
<1>1. /\ BTree(P, 0) /\ PagesOK(P) /\ Descends(P, path) /\ n \in Nat /\ i \in Nat /\ 1 <= i /\ i <= n
      /\ h \in 1 .. n /\ h \in 1 .. n - 1 /\ h + 1 = i /\ h \in Nat /\ path[i] \in DOMAIN P
  BY EmptiedBounds
<1>2. P[path[h]].tail = path[i] \/ Len(P[path[h]].entries) # 1
  OBVIOUS
<1>7. h \in 1 .. Len(path)
  BY <1>1
<1> HIDE DEF n, h
<1>8. P[path[h]].tail # 0 => \A x \in 1 .. h - 1 : P[path[x]].tail = path[x + 1]
  BY <1>1, <1>7, TailsUp
<1> SUFFICES ASSUME NEW k \in 1 .. n - 1, P[path[k]].tail # 0,
                    \A l \in k .. n : Len(P[path[l]].entries) = 1, P[path[k]].tail # path[k + 1]
             PROVE  FALSE
  BY DEF Stays, n
<1>3. CASE k >= i
  <2>1. k = i \/ k \in i + 1 .. n
    BY <1>1, <1>3
  <2> QED
    BY <2>1 DEF Emptied, n
<1>4. CASE k = h
  <2>1. k \in k .. n /\ k + 1 = i
    BY <1>1, <1>4
  <2> QED
    BY <1>2, <1>4, <2>1
<1>5. CASE k < h
  <2>1. h \in k .. n /\ k \in 1 .. h - 1
    BY <1>1, <1>5
  <2>2. P[path[h]].tail # 0
    <3>1. path[i] # 0
      BY <1>1, PageFacts
    <3> QED
      BY <1>2, <2>1, <3>1
  <2>3. \A x \in 1 .. h - 1 : P[path[x]].tail = path[x + 1]
    BY <1>8, <2>2
  <2> QED
    BY <2>1, <2>3
<1>6. k \in Nat /\ (k >= i \/ k = h \/ k < h)
  BY <1>1
<1> QED
  BY <1>3, <1>4, <1>5, <1>6

-----------------------------------------------------------------------------
(* removeIndexPage, once each way *)

\* What a removal of a page writes.
Left(P, calls, pg) == [Wrote(P, calls) EXCEPT !.gone = {pg}]

LEMMA LeftParts ==
    ASSUME NEW P, NEW calls, NEW pg
    PROVE  /\ Left(P, calls, pg).pages = P /\ Left(P, calls, pg).calls = calls
           /\ Left(P, calls, pg).gone = {pg} /\ Left(P, calls, pg).ok
BY DEF Left, Wrote

LEMMA OneDivider ==
    ASSUME NEW P, Shaped(P), NEW u \in DOMAIN P, NEW j \in ChildNos(P[u]), NEW pg, Child(P[u], j) = pg
    PROVE  /\ j <= Len(P[u].entries) =>
                DividersOf(P[u].entries, pg) = {j} /\ Min(DividersOf(P[u].entries, pg)) = j
                /\ P[u].tail # pg /\ j \in 1 .. Len(P[u].entries)
           /\ ~ (j <= Len(P[u].entries)) => DividersOf(P[u].entries, pg) = {} /\ P[u].tail = pg
<1> DEFINE d == P[u].entries
           at == DividersOf(d, pg)
<1>1. PagesOK(P) /\ ~ Leaf(P[u]) /\ j \in Nat /\ 1 <= j /\ Len(d) \in Nat
      /\ (j <= Len(d) \/ (P[u].tail # 0 /\ j = Len(d) + 1))
  BY NodeNos DEF Shaped
<1>2. /\ DOMAIN d = 1 .. Len(d)
      /\ \A k \in 1 .. Len(d) : k \in ChildNos(P[u]) /\ Child(P[u], k) = d[k].child
      /\ P[u].tail # 0 => Len(d) + 1 \in ChildNos(P[u]) /\ Child(P[u], Len(d) + 1) = P[u].tail
  <2>1. DOMAIN d = 1 .. Len(d)
    BY <1>1, PageFacts
  <2> QED
    BY <1>1, <2>1, NodeFacts
<1>3. \A k \in 1 .. Len(d) : d[k].child = pg => k = j
  BY <1>2, SlotIs
<1>4. \A k : k \in at <=> k \in 1 .. Len(d) /\ d[k].child = pg
  BY <1>2 DEF DividersOf
<1>5. pg # 0
  BY ChildFacts
<1> HIDE DEF at, d
<1>6. ASSUME j <= Len(d)
      PROVE  at = {j} /\ Min(at) = j /\ P[u].tail # pg /\ j \in 1 .. Len(d)
  <2>1. j \in 1 .. Len(d)
    BY <1>1, <1>6
  <2>2. at = {j}
    BY <1>2, <1>3, <1>4, <2>1
  <2>3. Min(at) = j
    <3>1. at \subseteq Nat /\ at # {}
      BY <1>1, <2>2
    <3> QED
      BY <2>2, <3>1, MinIsLeast
  <2>4. P[u].tail # pg
    <3>1. ASSUME P[u].tail = pg PROVE FALSE
      <4> DEFINE k == Len(d) + 1
      <4>1. k # j
        BY <1>1, <1>6
      <4>2. k \in ChildNos(P[u]) /\ Child(P[u], k) = pg
        BY <1>2, <1>5, <3>1
      <4> HIDE DEF k
      <4> QED
        BY <4>1, <4>2, SlotIs
    <3> QED
      BY <3>1
  <2> QED
    BY <2>1, <2>2, <2>3, <2>4
<1>7. ASSUME ~ (j <= Len(d)) PROVE at = {} /\ P[u].tail = pg
  <2>1. j \notin 1 .. Len(d) /\ j = Len(d) + 1 /\ P[u].tail # 0
    BY <1>1, <1>7
  <2> QED
    BY <1>2, <1>3, <1>4, <2>1
<1> QED
  BY <1>6, <1>7 DEF at, d

\* What removeIndexPage answers for a page that can go, the j-th child of its parent.
Removes(P, path, i, j, r) ==
    LET u == path[i - 1]
        d == P[u].entries
    IN  IF ~ (j <= Len(d))
        THEN r = Left([P EXCEPT ![u].tail = 0], <<ToInsert(i - 1, d)>>, path[i])
        ELSE IF Len(d) = 1 THEN r = Left(P, <<ToRemove(i - 1)>>, path[i]) /\ d[1].child = path[i]
        ELSE r = Left(P, <<ToInsert(i - 1, RemoveAt(d, j))>>, path[i])

LEMMA RemoveIs ==
    ASSUME NEW P, NEW path, NEW i, NEW e, Emptied(P, path, i, e), i > 1, P[path[i]].tail = 0,
           NEW j \in ChildNos(P[path[i - 1]]), Child(P[path[i - 1]], j) = path[i]
    PROVE  Removes(P, path, i, j, After(P, path, ToRemove(i)))
<1> DEFINE u == path[i - 1]
           d == P[u].entries
           at == DividersOf(d, path[i])
           rest == IF at = {} THEN d ELSE RemoveAt(d, Min(at))
           Q == IF P[u].tail = path[i] THEN [P EXCEPT ![u].tail = 0] ELSE P
           r == After(P, path, ToRemove(i))
<1>1. Shaped(P) /\ PagesOK(P) /\ i \in Nat /\ u \in DOMAIN P /\ ~ Leaf(P[u])
  BY EmptiedBounds
<1>2. Len(d) \in Nat /\ Len(d) >= 1 /\ d \in Seq(ItemSet) /\ DOMAIN d = 1 .. Len(d)
  BY <1>1, NodeFacts, PageFacts
<1>3. /\ j <= Len(d) => at = {j} /\ Min(at) = j /\ P[u].tail # path[i] /\ j \in 1 .. Len(d)
      /\ ~ (j <= Len(d)) => at = {} /\ P[u].tail = path[i]
  BY <1>1, OneDivider
<1>4. r = Left(Q, IF rest = << >> THEN <<ToRemove(i - 1)>> ELSE <<ToInsert(i - 1, rest)>>, path[i])
  <2>1. r = RemoveIndexPage(P, path, i)
    BY DEF After, ToRemove
  <2>2. ~ (at = {} /\ P[u].tail # path[i]) /\ i # 1
    <3> HIDE DEF at, u, d, r, rest, Q
    <3>1. i # 1
      BY <1>1
    <3>2. CASE j <= Len(d)
      BY <1>3, <3>1, <3>2
    <3>3. CASE ~ (j <= Len(d))
      BY <1>3, <3>1, <3>3
    <3> QED
      BY <3>2, <3>3
  <2> QED
    BY <2>1, <2>2 DEF RemoveIndexPage, Left
<1> HIDE DEF r, at, d
<1>5. CASE ~ (j <= Len(d))
  <2>1. Q = [P EXCEPT ![u].tail = 0] /\ rest = d /\ d # << >>
    BY <1>2, <1>3, <1>5
  <2> QED
    BY <1>4, <1>5, <2>1 DEF r, d, Removes
<1>6. ASSUME j <= Len(d)
      PROVE  Q = P /\ rest = RemoveAt(d, j) /\ rest \in Seq(ItemSet) /\ Len(rest) = Len(d) - 1 /\ j \in 1 .. Len(d)
  <2>1. Q = P /\ rest = RemoveAt(d, j) /\ j \in 1 .. Len(d) /\ j \in DOMAIN d
    BY <1>2, <1>3, <1>6
  <2>2. RemoveAt(d, j) \in Seq(ItemSet) /\ Len(RemoveAt(d, j)) = Len(d) - 1
    BY <1>2, <2>1, RemoveAtAt
  <2> QED
    BY <2>1, <2>2
<1>7. CASE j <= Len(d) /\ Len(d) = 1
  <2>1. rest = << >>
    BY <1>6, <1>7
  <2>2. d[1].child = path[i]
    <3>1. j = 1
      BY <1>6, <1>7
    <3> QED
      BY <1>7, <3>1 DEF Child, d
  <2> QED
    BY <1>4, <1>6, <1>7, <2>1, <2>2 DEF r, d, Removes
<1>8. CASE j <= Len(d) /\ Len(d) # 1
  <2>1. rest # << >>
    <3> HIDE DEF rest, Q
    <3>1. Len(rest) # 0 /\ Len(<< >>) = 0
      BY <1>2, <1>6, <1>8
    <3> QED
      BY <3>1
  <2> QED
    BY <1>4, <1>6, <1>8, <2>1 DEF r, d, Removes
<1> QED
  BY <1>5, <1>7, <1>8 DEF r, d, Removes

LEMMA EmptiedUp ==
    ASSUME NEW P, NEW path, NEW i, NEW e, Emptied(P, path, i, e), i > 1, P[path[i]].tail = 0,
           Len(P[path[i - 1]].entries) = 1, P[path[i - 1]].entries[1].child = path[i]
    PROVE  Emptied(P, path, i - 1, e)
<1> DEFINE h == i - 1
<1>1. /\ Len(path) \in Nat /\ i \in Nat /\ 1 <= i /\ i <= Len(path) /\ h \in 1 .. Len(path) /\ h + 1 = i /\ h \in Nat
  BY EmptiedBounds
<1>2. Len(P[path[h]].entries) = 1 /\ P[path[h]].entries[1].child = path[i]
  OBVIOUS
<1> HIDE DEF h
<1>3. ASSUME NEW k \in h .. Len(path) PROVE Len(P[path[k]].entries) = 1
  <2>1. k = h \/ k \in i .. Len(path)
    BY <1>1
  <2> QED
    BY <1>2, <2>1 DEF Emptied
<1>4. ASSUME NEW k \in h + 1 .. Len(path) PROVE P[path[k]].tail = 0
  <2>1. k = i \/ k \in i + 1 .. Len(path)
    BY <1>1
  <2> QED
    BY <2>1 DEF Emptied
<1>5. ASSUME NEW k \in h .. Len(path) - 1 PROVE P[path[k]].entries[1].child = path[k + 1]
  <2>1. k = h \/ k \in i .. Len(path) - 1
    BY <1>1
  <2> QED
    BY <1>1, <1>2, <2>1 DEF Emptied
<1>6. Emptied(P, path, h, e)
  BY <1>1, <1>3, <1>4, <1>5 DEF Emptied
<1> QED
  BY <1>6 DEF h

LEMMA ChainUp ==
    ASSUME NEW path, Len(path) \in Nat, NEW i \in 1 .. Len(path)
    PROVE  Chain(path, i) = Chain(path, i + 1) \cup {path[i]}
<1>1. \A k : k \in i .. Len(path) <=> k = i \/ k \in i + 1 .. Len(path)
  OBVIOUS
<1>2. \A x : x \in Chain(path, i) <=> x = path[i] \/ x \in Chain(path, i + 1)
  BY <1>1 DEF Chain
<1> QED
  BY <1>2

\* The state of a removal whose calls cost w at most.
Removing(st, P, path, e, w) ==
    \/ ~ Stays(P, path) /\ Running(st, path, Indexed(P) \ {e}, w)
    \/ Stays(P, path) /\ ~ st.ok /\ st.calls = << >> /\ st.pages = P
    \/ \E i : /\ st.ok /\ st.calls = <<ToRemove(i)>> /\ st.pages = P /\ st.gone = Chain(path, i + 1)
              /\ Emptied(P, path, i, e) /\ 2 * i <= w

LEMMA RemoveRest ==
    ASSUME NEW st, NEW P, NEW path, NEW i, NEW e, NEW w \in Nat, st.calls = <<ToRemove(i)>>, st.pages = P,
           st.gone = Chain(path, i + 1), Emptied(P, path, i, e), 2 * i <= w, i > 1, P[path[i]].tail = 0,
           NEW j \in ChildNos(P[path[i - 1]]), Child(P[path[i - 1]], j) = path[i],
           NEW Q, TailSet(P, Q, path[i - 1], IF j <= Len(P[path[i - 1]].entries) THEN P[path[i - 1]].tail ELSE 0),
           NEW rest, Rest(P, path[i - 1], j, rest),
           After(P, path, ToRemove(i)) = Left(Q, <<ToInsert(i - 1, rest)>>, path[i]),
           P[path[i - 1]].tail = path[i] \/ Len(P[path[i - 1]].entries) # 1
    PROVE  Removing(Called(st, path), P, path, e, w - 1)
<1> DEFINE n == Called(st, path)
           r == After(st.pages, path, ToRemove(i))
           h == i - 1
           X == Indexed(P) \ {e}
<1>1. /\ n.pages = r.pages /\ n.ok = r.ok /\ n.gone = st.gone \cup r.gone
      /\ r.ok => \A d : r.calls = <<d>> => n.calls = <<d>>
  BY CalledOnce
<1>2. r.pages = Q /\ r.calls = <<ToInsert(h, rest)>> /\ r.gone = {path[i]} /\ r.ok
  <2>1. r = Left(Q, <<ToInsert(h, rest)>>, path[i])
    OBVIOUS
  <2> HIDE DEF r, h
  <2> QED
    BY <2>1, LeftParts
<1>3. Pending(Q, Chain(path, i), path, h, rest, X)
  BY RemovePending
<1>4. ~ Stays(P, path)
  BY RestLeaves
<1>5. i \in Nat /\ Len(path) \in Nat /\ i \in 1 .. Len(path)
  BY EmptiedBounds
<1>6. Chain(path, i) = Chain(path, i + 1) \cup {path[i]}
  BY <1>5, ChainUp
<1>7. 2 * h <= w - 1
  BY <1>5
<1> HIDE DEF n, r, h, X
<1>8. n.pages = Q /\ n.ok /\ n.gone = Chain(path, i) /\ n.calls = <<ToInsert(h, rest)>>
  BY <1>1, <1>2, <1>6
<1>9. Running(n, path, X, w - 1)
  BY <1>3, <1>7, <1>8 DEF Running
<1> QED
  BY <1>4, <1>9 DEF Removing, n, X

LEMMA RemoveStep ==
    ASSUME NEW st, NEW P, NEW path, NEW i, NEW e, NEW w \in Nat, st.calls = <<ToRemove(i)>>, st.pages = P,
           st.gone = Chain(path, i + 1), Emptied(P, path, i, e), 2 * i <= w
    PROVE  Removing(Called(st, path), P, path, e, w - 1)
<1> DEFINE n == Called(st, path)
           r == After(st.pages, path, ToRemove(i))
           h == i - 1
           u == path[h]
           d == P[u].entries
           X == Indexed(P) \ {e}
<1>1. /\ n.pages = r.pages /\ n.ok = r.ok /\ n.gone = st.gone \cup r.gone
      /\ r.calls = << >> => n.calls = << >>
      /\ r.ok => \A c : r.calls = <<c>> => n.calls = <<c>>
  BY CalledOnce
<1>2. r = RemoveIndexPage(P, path, i)
  BY DEF After, ToRemove
<1>3. /\ Shaped(P) /\ PagesOK(P) /\ i \in Nat /\ 1 <= i /\ Len(path) \in Nat /\ i \in 1 .. Len(path) /\ path[1] = Root
      /\ i > 1 => /\ h + 1 = i /\ u \in DOMAIN P /\ ~ Leaf(P[u])
                  /\ \E j \in ChildNos(P[u]) : Child(P[u], j) = path[i]
  BY EmptiedBounds
<1>4. CASE P[path[i]].tail # 0
  <2>1. r = Refused(P)
    BY <1>2, <1>4 DEF RemoveIndexPage
  <2>2. ~ r.ok /\ r.calls = << >> /\ r.pages = P
    BY <2>1 DEF Refused
  <2>3. Stays(P, path)
    BY <1>4, TailRefuses
  <2> HIDE DEF r, n
  <2>4. ~ n.ok /\ n.calls = << >> /\ n.pages = P
    BY <1>1, <2>2
  <2> QED
    BY <2>3, <2>4 DEF Removing, n
<1>5. CASE P[path[i]].tail = 0 /\ i = 1
  <2>1. r = Wrote([P EXCEPT ![path[i]] = EmptyLeaf], << >>)
    BY <1>2, <1>5 DEF RemoveIndexPage
  <2>2. Emptied(P, path, 1, e) /\ P[path[1]].tail = 0 /\ st.gone = Chain(path, 2)
    <3>1. i + 1 = 2
      BY <1>5
    <3> QED
      BY <1>5, <3>1
  <2>3. P[Root].tail = 0 /\ r = Wrote([P EXCEPT ![Root] = EmptyLeaf], << >>)
    BY <1>3, <1>5, <2>1, <2>2
  <2>4. Done([P EXCEPT ![Root] = EmptyLeaf], Chain(path, 2), X)
    BY <2>2, <2>3, RootGone
  <2>5. ~ Stays(P, path)
    BY <2>2, NoTailLeaves
  <2> DEFINE E == [P EXCEPT ![Root] = EmptyLeaf]
  <2>6. r = Wrote(E, << >>) /\ Done(E, Chain(path, 2), X)
    BY <2>3, <2>4
  <2> HIDE DEF r, n, E, X
  <2>7. r.pages = E /\ r.calls = << >> /\ r.gone = {} /\ r.ok
    BY <2>6, WroteIs
  <2>8. n.ok /\ n.calls = << >> /\ n.pages = E /\ n.gone = Chain(path, 2)
    BY <1>1, <2>2, <2>7
  <2>9. Running(n, path, X, w - 1)
    BY <2>6, <2>8 DEF Running
  <2> QED
    BY <2>5, <2>9 DEF Removing, n, X
<1>6. CASE P[path[i]].tail = 0 /\ i > 1
  <2>1. PICK j \in ChildNos(P[u]) : Child(P[u], j) = path[i]
    BY <1>3, <1>6
  <2>2. IF ~ (j <= Len(d))
        THEN r = Left([P EXCEPT ![u].tail = 0], <<ToInsert(h, d)>>, path[i])
        ELSE IF Len(d) = 1 THEN r = Left(P, <<ToRemove(h)>>, path[i]) /\ d[1].child = path[i]
        ELSE r = Left(P, <<ToInsert(h, RemoveAt(d, j))>>, path[i])
    <3>1. Removes(P, path, i, j, After(P, path, ToRemove(i)))
      BY <1>6, <2>1, RemoveIs
    <3> QED
      BY <3>1 DEF Removes
  <2>3. /\ Len(d) \in Nat /\ Len(d) >= 1 /\ d \in Seq(ItemSet) /\ DOMAIN d = 1 .. Len(d)
        /\ j \in Nat /\ 1 <= j /\ (j <= Len(d) \/ (P[u].tail # 0 /\ j = Len(d) + 1))
        /\ P[u] \in Page /\ P \in [DOMAIN P -> Page]
    <3>1. u \in DOMAIN P /\ ~ Leaf(P[u])
      BY <1>3, <1>6
    <3> HIDE DEF u, n, r, h, X
    <3>2. Len(d) \in Nat /\ Len(d) >= 1
      BY <1>3, <3>1, NodeFacts
    <3>3. d \in Seq(ItemSet) /\ DOMAIN d = 1 .. Len(d)
      BY <1>3, <3>1, PageFacts
    <3>4. j \in Nat /\ 1 <= j /\ (j <= Len(d) \/ (P[u].tail # 0 /\ j = Len(d) + 1))
      BY <1>3, <2>1, <3>1, NodeNos
    <3>5. P[u] \in Page /\ P \in [DOMAIN P -> Page]
      BY <1>3, <3>1 DEF PagesOK
    <3> QED
      BY <3>2, <3>3, <3>4, <3>5
  <2>4. CASE ~ (j <= Len(d))
    <3> DEFINE Q == [P EXCEPT ![u].tail = 0]
    <3>1. TailSet(P, Q, u, 0)
      <4>1. [P[u] EXCEPT !.tail = 0] \in Page
        BY <2>3 DEF Page
      <4>2. Q \in [DOMAIN P -> Page]
        <5> HIDE DEF u
        <5> QED
          BY <2>3, <4>1
      <4>3. \A q \in DOMAIN P : Q[q] = IF q = u THEN [P[u] EXCEPT !.tail = 0] ELSE P[q]
        OBVIOUS
      <4>4. LET p == [P[u] EXCEPT !.tail = 0]
            IN  p.level = P[u].level /\ p.prev = P[u].prev /\ p.next = P[u].next /\ p.tail = 0 /\ p.entries = P[u].entries
        BY <2>3 DEF Page
      <4> HIDE DEF Q, u
      <4> QED
        BY <4>2, <4>3, <4>4 DEF TailSet
    <3>2. Rest(P, u, j, d)
      <4>1. d # << >>
        BY <2>3
      <4>2. \A k \in 1 .. Len(d) : k < j
        BY <2>3, <2>4
      <4> QED
        BY <2>3, <2>4, <4>1, <4>2 DEF Rest
    <3>3. P[u].tail = path[i]
      BY <2>1, <2>4 DEF Child
    <3>4. TailSet(P, Q, u, IF j <= Len(d) THEN P[u].tail ELSE 0)
      BY <2>4, <3>1
    <3>5. After(P, path, ToRemove(i)) = Left(Q, <<ToInsert(h, d)>>, path[i])
      BY <2>2, <2>4
    <3> HIDE DEF Q
    <3> QED
      BY <1>6, <2>1, <3>2, <3>3, <3>4, <3>5, RemoveRest
  <2>5. CASE j <= Len(d) /\ Len(d) # 1
    <3> DEFINE rest == RemoveAt(d, j)
    <3>1. /\ rest \in Seq(ItemSet) /\ Len(rest) = Len(d) - 1
          /\ \A k \in 1 .. Len(d) - 1 : rest[k] = IF k < j THEN d[k] ELSE d[k + 1]
      <4>1. j \in DOMAIN d
        BY <2>3, <2>5
      <4> HIDE DEF d
      <4> QED
        BY <2>3, <4>1, RemoveAtAt
    <3> HIDE DEF rest
    <3>2. rest # << >>
      <4>1. Len(rest) # 0
        BY <2>3, <2>5, <3>1
      <4> QED
        BY <4>1
    <3>3. Rest(P, u, j, rest)
      BY <2>5, <3>1, <3>2 DEF Rest
    <3>4. TailSet(P, P, u, IF j <= Len(d) THEN P[u].tail ELSE 0)
      BY <2>3, <2>5 DEF TailSet
    <3>5. After(P, path, ToRemove(i)) = Left(P, <<ToInsert(h, rest)>>, path[i])
      BY <2>2, <2>5 DEF rest
    <3>6. Len(P[u].entries) # 1
      BY <2>5
    <3> QED
      BY <1>6, <2>1, <3>3, <3>4, <3>5, <3>6, RemoveRest
  <2>6. CASE j <= Len(d) /\ Len(d) = 1
    <3>1. r = Left(P, <<ToRemove(h)>>, path[i]) /\ d[1].child = path[i]
      BY <2>2, <2>6
    <3>2. Emptied(P, path, h, e)
      BY <1>6, <2>6, <3>1, EmptiedUp
    <3>3. Chain(path, i) = Chain(path, i + 1) \cup {path[i]} /\ h + 1 = i /\ 2 * h <= w - 1
      BY <1>3, ChainUp
    <3> HIDE DEF r, n, h
    <3>4. r.pages = P /\ r.calls = <<ToRemove(h)>> /\ r.gone = {path[i]} /\ r.ok
      BY <3>1, LeftParts
    <3>5. n.ok /\ n.calls = <<ToRemove(h)>> /\ n.pages = P /\ n.gone = Chain(path, h + 1)
      BY <1>1, <3>3, <3>4
    <3> QED
      BY <3>2, <3>3, <3>5 DEF Removing, n
  <2> QED
    BY <2>4, <2>5, <2>6
<1> QED
  BY <1>3, <1>4, <1>5, <1>6

LEMMA RemovingStep ==
    ASSUME NEW st, NEW P, NEW path, NEW e, NEW w \in Nat, w >= 1, Removing(st, P, path, e, w)
    PROVE  Removing(Called(st, path), P, path, e, w - 1)
<1>1. CASE ~ Stays(P, path) /\ Running(st, path, Indexed(P) \ {e}, w)
  <2> DEFINE X == Indexed(P) \ {e}
  <2>1. Running(st, path, X, w)
    BY <1>1
  <2> HIDE DEF X
  <2>2. Running(Called(st, path), path, X, w - 1)
    BY <2>1, RunStep
  <2> QED
    BY <1>1, <2>2 DEF Removing, X
<1>2. CASE Stays(P, path) /\ ~ st.ok /\ st.calls = << >> /\ st.pages = P
  <2>1. Called(st, path) = st
    BY <1>2 DEF Called
  <2> QED
    BY <1>2, <2>1 DEF Removing
<1>3. ASSUME NEW i, st.calls = <<ToRemove(i)>>, st.pages = P, st.gone = Chain(path, i + 1),
             Emptied(P, path, i, e), 2 * i <= w
      PROVE  Removing(Called(st, path), P, path, e, w - 1)
  BY <1>3, RemoveStep
<1> QED
  BY <1>1, <1>2, <1>3 DEF Removing

LEMMA RemovalRun ==
    ASSUME NEW P, NEW path, NEW e, Emptied(P, path, Len(path), e)
    PROVE  LET r == Run(P, path, ToRemove(Len(path)))
           IN  /\ r.ok <=> ~ Stays(P, path)
               /\ r.ok => Done(r.pages, r.gone, Indexed(P) \ {e})
               /\ ~ r.ok => r.pages = P
<1> DEFINE len == Len(path)
           n == 2 * len
           call == ToRemove(len)
           first == Wrote(P, <<call>>)
<1>0. len \in Nat /\ n \in Nat /\ n >= 1
  <2>1. len \in Nat /\ 1 <= len
    BY EmptiedBounds
  <2> HIDE DEF len
  <2> QED
    BY <2>1
<1> HIDE DEF call
<1>1. PICK f : f[0] = first /\ (\A i \in 1 .. n : f[i] = Called(f[i - 1], path)) /\ Run(P, path, call) = f[n]
  <2>1. Len(path) \in Nat
    BY <1>0
  <2>2. \E f : f[0] = Wrote(P, <<call>>) /\ (\A i \in 1 .. 2 * Len(path) : f[i] = Called(f[i - 1], path))
              /\ Run(P, path, call) = f[2 * Len(path)]
    BY <2>1, RunIs
  <2> QED
    BY <2>2
<1> HIDE DEF n, first
<1> DEFINE A == {j \in 0 .. n : Removing(f[j], P, path, e, n - j)}
<1>2. Removing(first, P, path, e, n)
  <2>1. first.ok /\ first.calls = <<ToRemove(len)>> /\ first.pages = P /\ first.gone = {}
    BY WroteIs DEF first, call
  <2>2. Chain(path, len + 1) = {}
    <3>1. \A k : k \notin len + 1 .. len
      BY <1>0
    <3> QED
      BY <3>1 DEF Chain
  <2>3. Emptied(P, path, len, e) /\ 2 * len <= n
    BY <1>0 DEF n
  <2> HIDE DEF len
  <2> QED
    BY <2>1, <2>2, <2>3 DEF Removing
<1> HIDE DEF len
<1>3. 0 \in A
  <2>1. n - 0 = n /\ 0 \in 0 .. n
    BY <1>0
  <2> QED
    BY <1>1, <1>2, <2>1
<1>4. ASSUME NEW j \in 1 .. n, j - 1 \in A PROVE j \in A
  <2> DEFINE v == n - (j - 1)
  <2>1. v \in Nat /\ v >= 1 /\ v - 1 = n - j /\ j \in 0 .. n
    BY <1>0
  <2>2. Removing(f[j - 1], P, path, e, v)
    BY <1>4
  <2> HIDE DEF v
  <2>3. Removing(Called(f[j - 1], path), P, path, e, v - 1)
    BY <2>1, <2>2, RemovingStep
  <2> QED
    BY <1>1, <2>1, <2>3
<1>5. n \in A
  <2> HIDE DEF A
  <2>1. \A j \in 0 .. n : j \in A
    BY <1>0, <1>3, <1>4, Counted
  <2> QED
    BY <1>0, <2>1
<1> DEFINE r == f[n]
<1>6. Removing(r, P, path, e, 0)
  <2>1. n - n = 0
    BY <1>0
  <2> QED
    BY <1>5, <2>1
<1> HIDE DEF r
<1>7. ASSUME NEW i, Emptied(P, path, i, e), 2 * i <= 0 PROVE FALSE
  <2>1. i \in Nat /\ 1 <= i
    BY <1>7, EmptiedBounds
  <2> QED
    BY <1>7, <2>1
<1> DEFINE X == Indexed(P) \ {e}
<1>8. \/ ~ Stays(P, path) /\ Running(r, path, X, 0)
      \/ Stays(P, path) /\ ~ r.ok /\ r.pages = P
  BY <1>6, <1>7 DEF Removing
<1> HIDE DEF X
<1>9. Running(r, path, X, 0) => r.ok /\ Done(r.pages, r.gone, X)
  BY RunEnds
<1>10. /\ r.ok <=> ~ Stays(P, path)
       /\ r.ok => Done(r.pages, r.gone, X)
       /\ ~ r.ok => r.pages = P
  BY <1>8, <1>9
<1> QED
  BY <1>1, <1>10 DEF r, call, X, len
-----------------------------------------------------------------------------
(* Insertion of an entry *)

Has(s, x) == \E i \in 1 .. Len(s) : s[i].e = x

LEMMA InsertedAs ==
    ASSUME NEW s \in Seq(ItemSet), Increasing(s), NEW x \in ItemSet, ~ Has(s, x.e)
    PROVE  LET t == Inserted(s, x)
           IN  /\ t \in Seq(ItemSet) /\ Len(t) = Len(s) + 1 /\ t # << >> /\ Increasing(t)
               /\ \A y : Has(t, y) <=> Has(s, y) \/ y = x.e
               /\ Head(t).e = x.e \/ (s # << >> /\ Head(t) = Head(s))
               /\ Last(t).e = x.e \/ (s # << >> /\ Last(t) = Last(s))
               /\ s # << >> /\ Less(x.e, Last(s).e) => Last(t) = Last(s)
<1> DEFINE t == Inserted(s, x)
           m == Len(s)
<1>1. m \in Nat /\ DOMAIN s = 1 .. m
  OBVIOUS
<1>2. \A i \in DOMAIN s : s[i].e # x.e
  BY <1>1 DEF Has
<1>3. /\ t \in Seq(ItemSet) /\ Len(t) = m + 1 /\ Increasing(t)
      /\ \E p \in 1 .. m + 1 :
                /\ \A i \in 1 .. m + 1 : t[i] = IF i < p THEN s[i] ELSE IF i = p THEN x ELSE s[i - 1]
                /\ \A i \in 1 .. m : IF i < p THEN Less(s[i].e, x.e) ELSE Less(x.e, s[i].e)
  BY <1>2, InsertedNew
<1> HIDE DEF t
<1>4. PICK p \in 1 .. m + 1 :
                /\ \A i \in 1 .. m + 1 : t[i] = IF i < p THEN s[i] ELSE IF i = p THEN x ELSE s[i - 1]
                /\ \A i \in 1 .. m : IF i < p THEN Less(s[i].e, x.e) ELSE Less(x.e, s[i].e)
  BY <1>3
<1>5. t # << >>
  <2>1. Len(t) # 0 /\ Len(<< >>) = 0
    BY <1>1, <1>3
  <2> QED
    BY <2>1
<1>6. Last(t) = t[m + 1] /\ Head(t) = t[1] /\ (m >= 1 => s # << >> /\ Last(s) = s[m] /\ Head(s) = s[1])
  <2>1. Last(t) = t[m + 1] /\ Head(t) = t[1]
    BY <1>3, <1>5, LastHead
  <2>2. ASSUME m >= 1 PROVE s # << >> /\ Last(s) = s[m] /\ Head(s) = s[1]
    <3>1. s # << >>
      BY <2>2
    <3> QED
      BY <3>1, LastHead
  <2> QED
    BY <2>1, <2>2
<1> HIDE DEF m
<1>7. ASSUME NEW y PROVE Has(t, y) <=> Has(s, y) \/ y = x.e
  <2>1. ASSUME Has(t, y) PROVE Has(s, y) \/ y = x.e
    <3>1. PICK i \in 1 .. m + 1 : t[i].e = y
      BY <1>3, <2>1 DEF Has
    <3>2. CASE i < p
      <4>1. i \in 1 .. m /\ t[i] = s[i]
        BY <1>1, <1>4, <3>2
      <4> QED
        BY <3>1, <4>1 DEF Has, m
    <3>3. CASE i = p
      BY <1>4, <3>1, <3>3
    <3>4. CASE i > p
      <4>1. i - 1 \in 1 .. m /\ t[i] = s[i - 1]
        BY <1>1, <1>4, <3>4
      <4> QED
        BY <3>1, <4>1 DEF Has, m
    <3> QED
      BY <1>1, <3>2, <3>3, <3>4
  <2>2. ASSUME Has(s, y) PROVE Has(t, y)
    <3>1. PICK i \in 1 .. m : s[i].e = y
      BY <2>2 DEF Has, m
    <3>2. CASE i < p
      <4>1. i \in 1 .. m + 1 /\ t[i] = s[i]
        BY <1>1, <1>4, <3>2
      <4> QED
        BY <1>3, <3>1, <4>1 DEF Has
    <3>3. CASE i >= p
      <4> DEFINE h == i + 1
      <4>1. h \in 1 .. m + 1 /\ ~ (h < p) /\ h # p /\ h - 1 = i
        BY <1>1, <3>3
      <4> HIDE DEF h
      <4>2. t[h] = s[i]
        BY <1>4, <4>1
      <4> QED
        BY <1>3, <3>1, <4>1, <4>2 DEF Has
    <3> QED
      BY <1>1, <3>2, <3>3
  <2>3. ASSUME y = x.e PROVE Has(t, y)
    <3>1. p \in 1 .. m + 1 /\ t[p] = x
      BY <1>1, <1>4
    <3> QED
      BY <1>3, <2>3, <3>1 DEF Has
  <2> QED
    BY <2>1, <2>2, <2>3
<1>8. Head(t).e = x.e \/ (s # << >> /\ Head(t) = Head(s))
  <2>1. 1 \in 1 .. m + 1
    BY <1>1
  <2>2. CASE p = 1
    BY <1>4, <1>6, <2>1, <2>2
  <2>3. CASE p # 1
    <3>1. 1 < p /\ m >= 1
      BY <1>1, <2>3
    <3> QED
      BY <1>4, <1>6, <2>1, <3>1
  <2> QED
    BY <2>2, <2>3
<1>9. Last(t).e = x.e \/ (m >= 1 /\ p <= m /\ Last(t) = Last(s))
  <2>1. m + 1 \in 1 .. m + 1 /\ m + 1 - 1 = m
    BY <1>1
  <2>2. CASE p = m + 1
    <3>1. t[m + 1] = x
      BY <1>1, <1>4, <2>1, <2>2
    <3> QED
      BY <1>6, <3>1
  <2>3. CASE p # m + 1
    <3>1. ~ (m + 1 < p) /\ m + 1 # p /\ m >= 1 /\ p <= m
      BY <1>1, <2>3
    <3>2. t[m + 1] = s[m]
      <4> DEFINE h == m + 1
      <4>1. h \in 1 .. m + 1 /\ h - 1 = m /\ ~ (h < p) /\ h # p
        BY <1>1, <2>1, <3>1
      <4> HIDE DEF h
      <4>2. t[h] = s[h - 1]
        BY <1>4, <4>1
      <4> QED
        BY <4>1, <4>2 DEF h
    <3> QED
      BY <1>6, <3>1, <3>2
  <2> QED
    BY <2>2, <2>3
<1>10. ASSUME s # << >>, Less(x.e, Last(s).e) PROVE Last(t) = Last(s)
  <2>1. m >= 1 /\ m \in 1 .. m
    BY <1>1, <1>10 DEF m
  <2>2. ~ (m < p)
    <3>1. Less(x.e, s[m].e)
      BY <1>6, <1>10, <2>1
    <3>2. s[m].e \in Entry /\ x.e \in Entry
      <4>1. s[m] \in ItemSet
        BY <2>1 DEF m
      <4> QED
        BY <4>1 DEF ItemSet
    <3>3. ~ Less(s[m].e, x.e)
      BY <3>1, <3>2, LessOrder
    <3> QED
      BY <1>4, <2>1, <3>3
  <2>3. m + 1 \in 1 .. m + 1 /\ m + 1 - 1 = m /\ ~ (m + 1 < p) /\ m + 1 # p
    BY <1>1, <2>2
  <2>4. t[m + 1] = s[m]
    <3> DEFINE h == m + 1
    <3>1. h \in 1 .. m + 1 /\ h - 1 = m /\ ~ (h < p) /\ h # p
      BY <1>1, <2>3
    <3> HIDE DEF h
    <3>2. t[h] = s[h - 1]
      BY <1>4, <3>1
    <3> QED
      BY <3>1, <3>2 DEF h
  <2> QED
    BY <1>6, <2>1, <2>4
<1> QED
  BY <1>3, <1>5, <1>6, <1>7, <1>8, <1>9, <1>10 DEF t, m

LEMMA RemovedAs ==
    ASSUME NEW s \in Seq(ItemSet), Increasing(s), NEW j \in 1 .. Len(s)
    PROVE  LET t == RemoveAt(s, j)
           IN  /\ t \in Seq(ItemSet) /\ Len(t) = Len(s) - 1 /\ Increasing(t)
               /\ \A y : Has(t, y) <=> Has(s, y) /\ y # s[j].e
               /\ t # << >> => /\ Head(t) = Head(s) \/ Less(Head(s).e, Head(t).e)
                               /\ Last(t) = Last(s) \/ (j = Len(s) /\ Less(Last(t).e, Last(s).e))
<1> DEFINE t == RemoveAt(s, j)
           m == Len(s)
<1>1. m \in Nat /\ DOMAIN s = 1 .. m /\ m >= 1
  OBVIOUS
<1>2. /\ t \in Seq(ItemSet) /\ Len(t) = m - 1
      /\ \A k \in 1 .. m - 1 : t[k] = IF k < j THEN s[k] ELSE s[k + 1]
  <2>1. j \in DOMAIN s
    OBVIOUS
  <2> QED
    BY <2>1, RemoveAtAt
<1> HIDE DEF t
<1>3. \A i, k \in 1 .. m : i < k => Less(s[i].e, s[k].e)
  BY <1>1 DEF Increasing
<1>4. \A i \in 1 .. m : s[i].e \in Entry
  <2>1. \A i \in 1 .. m : s[i] \in ItemSet
    OBVIOUS
  <2> HIDE DEF m
  <2> QED
    BY <2>1 DEF ItemSet
<1> HIDE DEF m
<1>5. Increasing(t)
  <2>1. DOMAIN t = 1 .. m - 1
    BY <1>2
  <2>2. ASSUME NEW i \in 1 .. m - 1, NEW k \in 1 .. m - 1, i < k PROVE Less(t[i].e, t[k].e)
    <3> DEFINE x == IF i < j THEN i ELSE i + 1
               y == IF k < j THEN k ELSE k + 1
    <3>1. x \in 1 .. m /\ y \in 1 .. m /\ x < y
      BY <1>1, <2>2
    <3>2. t[i] = s[x] /\ t[k] = s[y]
      BY <1>2
    <3> HIDE DEF x, y
    <3> QED
      BY <1>3, <3>1, <3>2
  <2> QED
    BY <2>1, <2>2 DEF Increasing
<1>6. ASSUME NEW y PROVE Has(t, y) <=> Has(s, y) /\ y # s[j].e
  <2>1. ASSUME Has(t, y) PROVE Has(s, y) /\ y # s[j].e
    <3>1. PICK i \in 1 .. m - 1 : t[i].e = y
      BY <1>2, <2>1 DEF Has
    <3> DEFINE x == IF i < j THEN i ELSE i + 1
    <3>2. x \in 1 .. m /\ x # j /\ j \in 1 .. m /\ (x < j \/ j < x)
      BY <1>1 DEF m
    <3>3. t[i] = s[x]
      BY <1>2
    <3> HIDE DEF x
    <3>4. s[x].e # s[j].e
      BY <1>3, <1>4, <3>2, LessOrder
    <3> QED
      BY <3>1, <3>2, <3>3, <3>4 DEF Has, m
  <2>2. ASSUME Has(s, y), y # s[j].e PROVE Has(t, y)
    <3>1. PICK i \in 1 .. m : s[i].e = y
      BY <2>2 DEF Has, m
    <3>2. i # j /\ j \in 1 .. m
      BY <2>2, <3>1 DEF m
    <3> DEFINE x == IF i < j THEN i ELSE i - 1
    <3>3. x \in 1 .. m - 1 /\ i = (IF x < j THEN x ELSE x + 1)
      BY <1>1, <3>2
    <3>4. t[x] = s[i]
      BY <1>2, <3>3
    <3> HIDE DEF x
    <3> QED
      BY <1>2, <3>1, <3>3, <3>4 DEF Has
  <2> QED
    BY <2>1, <2>2
<1>7. ASSUME t # << >>
      PROVE  /\ Head(t) = Head(s) \/ Less(Head(s).e, Head(t).e)
             /\ Last(t) = Last(s) \/ (j = m /\ Less(Last(t).e, Last(s).e))
  <2>1. m - 1 >= 1 /\ Last(t) = t[m - 1] /\ Head(t) = t[1]
    BY <1>2, <1>7, LastHead
  <2>2. Last(s) = s[m] /\ Head(s) = s[1]
    <3>1. s # << >>
      BY <1>1 DEF m
    <3> QED
      BY <3>1, LastHead DEF m
  <2>3. 1 \in 1 .. m - 1 /\ m - 1 \in 1 .. m - 1 /\ 1 \in 1 .. m /\ 2 \in 1 .. m /\ m \in 1 .. m /\ m - 1 \in 1 .. m
        /\ 1 + 1 = 2 /\ m - 1 + 1 = m /\ m - 1 < m /\ j \in 1 .. m
    BY <1>1, <2>1 DEF m
  <2>4. t[1] = (IF 1 < j THEN s[1] ELSE s[2]) /\ t[m - 1] = (IF m - 1 < j THEN s[m - 1] ELSE s[m])
    BY <1>2, <2>3
  <2>5. Head(t) = Head(s) \/ Less(Head(s).e, Head(t).e)
    BY <1>3, <2>1, <2>2, <2>3, <2>4
  <2>6. m - 1 < j => j = m
    BY <1>1, <2>3
  <2>7. Last(t) = Last(s) \/ (j = m /\ Less(Last(t).e, Last(s).e))
    BY <1>3, <2>1, <2>2, <2>3, <2>4, <2>6
  <2> QED
    BY <2>5, <2>7
<1> QED
  BY <1>2, <1>5, <1>6, <1>7 DEF t, m

-----------------------------------------------------------------------------
(* Leaves *)

LEMMA LeafTree ==
    ASSUME NEW P, BTree(P, 0), NEW pg \in DOMAIN P, Leaf(P[pg]), NEW s \in Seq(ItemSet), s # << >>, Increasing(s),
           P[pg].next # 0 => Less(Last(s).e, Low(P, P[pg].next)),
           P[pg].prev # 0 => Less(Top(P, P[pg].prev), Head(s).e)
    PROVE  BTree(At(P, pg, s), pg)
<1>1. Shaped(P) /\ PagesOK(P)
  BY TreeParts
<1>2. ASSUME NEW q \in DOMAIN P \ {pg}, ~ Leaf(P[q]), NEW i \in 1 .. Len(P[q].entries)
      PROVE  P[q].entries[i].child # 0
  BY <1>1, <1>2, NodeFacts, ChildFacts
<1> QED
  BY <1>2, Rewritten

LEMMA LeafIndexed ==
    ASSUME NEW P, PagesOK(P), NEW pg \in DOMAIN P, Leaf(P[pg]), NEW s \in Seq(ItemSet), NEW e \in Entry
    PROVE  e \in Indexed(At(P, pg, s)) <=>
               Has(s, e) \/ \E q \in DOMAIN P : q # pg /\ Leaf(P[q]) /\ Has(P[q].entries, e)
<1> DEFINE Q == At(P, pg, s)
<1>1. /\ DOMAIN Q = DOMAIN P /\ Q[pg].entries = s
      /\ \A q \in DOMAIN P : (q # pg => Q[q] = P[q]) /\ Q[q].level = P[q].level
  BY AtFacts
<1> HIDE DEF Q
<1>2. e \in Indexed(Q) <=> \E q \in DOMAIN P : Leaf(P[q]) /\ Has(Q[q].entries, e)
  BY <1>1 DEF Indexed, Holds, Has, Leaf
<1>3. e \in Indexed(Q) <=> Has(s, e) \/ \E q \in DOMAIN P : q # pg /\ Leaf(P[q]) /\ Has(P[q].entries, e)
  <2>1. ASSUME NEW q \in DOMAIN P, Leaf(P[q]), Has(Q[q].entries, e)
        PROVE  Has(s, e) \/ \E x \in DOMAIN P : x # pg /\ Leaf(P[x]) /\ Has(P[x].entries, e)
    <3>1. q = pg => Has(s, e)
      BY <1>1, <2>1
    <3>2. q # pg => Has(P[q].entries, e)
      BY <1>1, <2>1
    <3> QED
      BY <2>1, <3>1, <3>2
  <2>2. Has(s, e) => Has(Q[pg].entries, e)
    BY <1>1
  <2>3. ASSUME NEW q \in DOMAIN P, q # pg, Leaf(P[q]), Has(P[q].entries, e) PROVE Has(Q[q].entries, e)
    BY <1>1, <2>3
  <2> QED
    BY <1>2, <2>1, <2>2, <2>3
<1> QED
  BY <1>3 DEF Q

LEMMA IndexedHas ==
    ASSUME NEW P, NEW e \in Entry
    PROVE  e \in Indexed(P) <=> \E q \in DOMAIN P : Leaf(P[q]) /\ Has(P[q].entries, e)
BY DEF Indexed, Holds, Has

\* Only the leaf of an entry holds it.
LEMMA OneLeaf ==
    ASSUME NEW P, BTree(P, 0), NEW e \in Entry, NEW q \in DOMAIN P, Leaf(P[q]), Has(P[q].entries, e)
    PROVE  q = Last(FindLeaf(P, e))
<1>1. PICK i \in 1 .. Len(P[q].entries) : P[q].entries[i].e = e
  BY DEF Has
<1>2. InRange(P, q, e)
  BY <1>1, EntryInRange
<1> QED
  BY <1>2, RangeLeaf

LEMMA LeafGrows ==
    ASSUME NEW P, BTree(P, 0), NEW pg \in DOMAIN P, Leaf(P[pg]), NEW s \in Seq(ItemSet), NEW e \in Entry,
           \A x : Has(s, x) <=> Has(P[pg].entries, x) \/ x = e
    PROVE  Indexed(At(P, pg, s)) = Indexed(P) \cup {e}
<1>1. PagesOK(P)
  BY TreeParts
<1>2. ASSUME NEW x \in Entry PROVE x \in Indexed(At(P, pg, s)) <=> x \in Indexed(P) \/ x = e
  <2>1. x \in Indexed(At(P, pg, s)) <=>
               Has(s, x) \/ \E q \in DOMAIN P : q # pg /\ Leaf(P[q]) /\ Has(P[q].entries, x)
    BY <1>1, LeafIndexed
  <2>2. x \in Indexed(P) <=> \E q \in DOMAIN P : Leaf(P[q]) /\ Has(P[q].entries, x)
    BY IndexedHas
  <2> QED
    BY <2>1, <2>2
<1>3. Indexed(At(P, pg, s)) \subseteq Entry /\ Indexed(P) \subseteq Entry
  BY DEF Indexed
<1> QED
  BY <1>2, <1>3

LEMMA LeafShrinks ==
    ASSUME NEW P, BTree(P, 0), NEW pg \in DOMAIN P, Leaf(P[pg]), NEW s \in Seq(ItemSet), NEW e \in Entry,
           Has(P[pg].entries, e), \A x : Has(s, x) <=> Has(P[pg].entries, x) /\ x # e
    PROVE  Indexed(At(P, pg, s)) = Indexed(P) \ {e}
<1>1. PagesOK(P)
  BY TreeParts
<1>2. ASSUME NEW q \in DOMAIN P, Leaf(P[q]), Has(P[q].entries, e) PROVE q = pg
  BY <1>2, OneLeaf
<1>3. ASSUME NEW x \in Entry PROVE x \in Indexed(At(P, pg, s)) <=> x \in Indexed(P) /\ x # e
  <2>1. x \in Indexed(At(P, pg, s)) <=>
               Has(s, x) \/ \E q \in DOMAIN P : q # pg /\ Leaf(P[q]) /\ Has(P[q].entries, x)
    BY <1>1, LeafIndexed
  <2>2. x \in Indexed(P) <=> \E q \in DOMAIN P : Leaf(P[q]) /\ Has(P[q].entries, x)
    BY IndexedHas
  <2> QED
    BY <1>2, <2>1, <2>2
<1>4. Indexed(At(P, pg, s)) \subseteq Entry /\ Indexed(P) \subseteq Entry
  BY DEF Indexed
<1> QED
  BY <1>3, <1>4

\* The leaf that is searched for an entry.
LeafOf(P, path, e) ==
    LET pg == path[Len(path)]
    IN  /\ Descends(P, path) /\ pg \in DOMAIN P /\ Leaf(P[pg]) /\ InRange(P, pg, e) /\ pg = Last(FindLeaf(P, e))
        /\ P[pg].entries \in Seq(ItemSet) /\ Increasing(P[pg].entries)
        /\ e \in Indexed(P) <=> Has(P[pg].entries, e)
        /\ \A q \in DOMAIN P : Leaf(P[q]) /\ Has(P[q].entries, e) => q = pg

LEMMA LeafOfIs ==
    ASSUME NEW P, BTree(P, 0), NEW e \in Entry
    PROVE  LeafOf(P, FindLeaf(P, e), e)
<1> DEFINE path == FindLeaf(P, e)
           pg == path[Len(path)]
<1>1. /\ path \in Seq(DOMAIN P) /\ Len(path) \in Nat /\ Len(path) >= 1
      /\ \A i \in 1 .. Len(path) :
            path[i] \in DOMAIN P /\ P[path[i]].level = Len(path) - i /\ InRange(P, path[i], e)
  BY PathFacts
<1>2. Descends(P, path)
  BY PathDescends
<1> HIDE DEF path
<1>3. Len(path) \in 1 .. Len(path) /\ Len(path) - Len(path) = 0
  <2>1. Len(path) \in Nat /\ Len(path) >= 1
    BY <1>1
  <2> QED
    BY <2>1
<1>4. pg \in DOMAIN P /\ Leaf(P[pg]) /\ InRange(P, pg, e)
  BY <1>1, <1>3 DEF Leaf
<1>5. pg = Last(path)
  BY <1>1 DEF Last
<1>6. P[pg].entries \in Seq(ItemSet) /\ Increasing(P[pg].entries)
  BY <1>4, TreeParts, PageFacts DEF SortedAt
<1>7. \A q \in DOMAIN P : Leaf(P[q]) /\ Has(P[q].entries, e) => q = pg
  BY <1>5, OneLeaf DEF path
<1>8. e \in Indexed(P) <=> Has(P[pg].entries, e)
  BY <1>4, <1>7, IndexedHas
<1> QED
  BY <1>2, <1>4, <1>5, <1>6, <1>7, <1>8 DEF LeafOf, path

LEMMA Between ==
    ASSUME NEW P, BTree(P, 0), NEW pg \in DOMAIN P
    PROVE  /\ P[pg].next # 0 => /\ pg # Root /\ Less(Top(P, pg), Low(P, P[pg].next))
                                /\ Top(P, pg) \in Entry /\ Low(P, P[pg].next) \in Entry
           /\ P[pg].prev # 0 => /\ pg # Root /\ Less(Top(P, P[pg].prev), Low(P, pg))
                                /\ Top(P, P[pg].prev) \in Entry /\ Low(P, pg) \in Entry
           /\ pg # Root => P[pg].entries # << >> /\ Top(P, pg) \in Entry /\ Low(P, pg) \in Entry
<1>1. /\ Shaped(P) /\ PagesOK(P) /\ (\A q \in DOMAIN P : SortedAt(P, q))
      /\ \A q \in DOMAIN P \ {Root} : P[q].entries # << >>
  BY TreeParts
<1>2. ASSUME NEW q \in DOMAIN P, q # Root
      PROVE  P[q].entries # << >> /\ Top(P, q) \in Entry /\ Low(P, q) \in Entry
  <2>1. P[q].entries # << >>
    BY <1>1, <1>2
  <2> QED
    BY <1>1, <2>1, FilledPage DEF Top, Low
<1>3. ASSUME P[pg].next # 0
      PROVE  /\ pg # Root /\ Less(Top(P, pg), Low(P, P[pg].next))
             /\ Top(P, pg) \in Entry /\ Low(P, P[pg].next) \in Entry
  <2>1. pg # Root /\ P[pg].next \in DOMAIN P /\ P[pg].next # Root
    BY <1>1, <1>3, LinkFacts
  <2>2. Less(Top(P, pg), Low(P, P[pg].next))
    BY <1>1, <1>3 DEF SortedAt
  <2> QED
    BY <1>2, <2>1, <2>2
<1>4. ASSUME P[pg].prev # 0
      PROVE  /\ pg # Root /\ Less(Top(P, P[pg].prev), Low(P, pg))
             /\ Top(P, P[pg].prev) \in Entry /\ Low(P, pg) \in Entry
  <2>1. pg # Root /\ P[pg].prev \in DOMAIN P /\ P[pg].prev # Root /\ P[P[pg].prev].next = pg
    BY <1>1, <1>4, LinkFacts
  <2>2. pg # 0
    BY <1>1, PageFacts
  <2>3. Less(Top(P, P[pg].prev), Low(P, pg))
    BY <1>1, <2>1, <2>2 DEF SortedAt
  <2> QED
    BY <1>2, <2>1, <2>3
<1> QED
  BY <1>2, <1>3, <1>4

\* A page on its path, before anything is written.
LEMMA PathOpen ==
    ASSUME NEW P, BTree(P, 0), NEW path, Descends(P, path), NEW none, \A x : x \notin none
    PROVE  /\ Open(P, none, path, Len(path)) /\ Typed(P, none) /\ Unlinked(P, none) = P
           /\ Len(path) > 1 =>
                /\ P[path[Len(path)]].entries # << >>
                /\ \A j \in 1 .. Len(P[path[Len(path) - 1]].entries) :
                     P[path[Len(path) - 1]].entries[j].child = path[Len(path)] =>
                         P[path[Len(path) - 1]].entries[j].e = Top(P, path[Len(path)])
<1> DEFINE n == Len(path)
<1>1. Shaped(P) /\ PagesOK(P)
  BY TreeParts
<1>2. n \in Nat /\ n >= 1 /\ path[1] = Root /\ n \in 1 .. n
  <2>1. n \in Nat /\ n >= 1 /\ path[1] = Root
    BY DEF Descends
  <2> HIDE DEF n
  <2> QED
    BY <2>1
<1>3. Typed(P, none)
  BY <1>1 DEF Typed, PagesOK
<1>4. Unlinked(P, none) = P
  BY <1>3, UnlinkedNone
<1>5. Open(P, none, path, n)
  <2>1. ASSUME NEW k \in 1 .. n PROVE path[k] \in DOMAIN P \ none /\ P[path[k]].level + k = P[Root].level + 1
    <3>1. path[k] \in DOMAIN P /\ P[path[k]].level = n - k /\ P[Root].level = n - 1
      BY DescendFacts DEF Descends
    <3>2. n - k + k = n - 1 + 1
      BY <1>2
    <3> HIDE DEF n
    <3> QED
      BY <3>1, <3>2
  <2>2. ASSUME NEW k \in 1 .. n - 1 PROVE \E j \in ChildNos(P[path[k]]) : Child(P[path[k]], j) = path[k + 1]
    BY DEF Descends
  <2> QED
    BY <1>2, <1>3, <2>1, <2>2 DEF Open
<1>6. ASSUME n > 1
      PROVE  /\ P[path[n]].entries # << >>
             /\ \A j \in 1 .. Len(P[path[n - 1]].entries) :
                  P[path[n - 1]].entries[j].child = path[n] => P[path[n - 1]].entries[j].e = Top(P, path[n])
  <2> DEFINE h == n - 1
             pg == path[n]
  <2>1. h \in 1 .. n /\ h \in 1 .. n - 1 /\ n # 1
    BY <1>2, <1>6
  <2>2. path[h] \in DOMAIN P /\ ~ Leaf(P[path[h]])
    <3> HIDE DEF h
    <3> QED
      BY <2>1, DescendFacts
  <2>3. pg \in DOMAIN P /\ pg # Root
    BY <1>2, <2>1, DescendFacts
  <2>4. P[pg].entries # << >>
    BY <2>3, Between
  <2>5. ASSUME NEW j \in 1 .. Len(P[path[h]].entries), P[path[h]].entries[j].child = pg
        PROVE  P[path[h]].entries[j].e = Top(P, pg)
    <3> HIDE DEF h, pg
    <3>1. P[path[h]].entries[j].child = Child(P[path[h]], j)
          /\ (Child(P[path[h]], j) # 0 => P[path[h]].entries[j].e = Top(P, Child(P[path[h]], j)))
      BY <2>2, Dividers
    <3>2. pg # 0
      BY <1>1, <2>3, PageFacts
    <3> QED
      BY <2>5, <3>1, <3>2
  <2> QED
    BY <2>4, <2>5
<1> QED
  BY <1>3, <1>4, <1>5, <1>6

LEMMA LeafPending ==
    ASSUME NEW P, BTree(P, 0), Fits(P), NEW e \in Entry, e \notin Indexed(P), NEW path, LeafOf(P, path, e),
           NEW none, \A x : x \notin none
    PROVE  Pending(P, none, path, Len(path), Inserted(P[path[Len(path)]].entries, Item(e, 0)), Indexed(P) \cup {e})
<1> DEFINE n == Len(path)
           pg == path[n]
           s == P[pg].entries
           x == Item(e, 0)
           t == Inserted(s, x)
           X == Indexed(P) \cup {e}
<1>1. /\ Descends(P, path) /\ pg \in DOMAIN P /\ Leaf(P[pg]) /\ InRange(P, pg, e)
      /\ s \in Seq(ItemSet) /\ Increasing(s) /\ ~ Has(s, e)
  BY DEF LeafOf
<1>2. x \in ItemSet /\ x.e = e
  BY DEF Item, ItemSet
<1> HIDE DEF x, s
<1>3. /\ t \in Seq(ItemSet) /\ Len(t) = Len(s) + 1 /\ t # << >> /\ Increasing(t)
      /\ \A y : Has(t, y) <=> Has(s, y) \/ y = e
      /\ Head(t).e = e \/ (s # << >> /\ Head(t) = Head(s))
      /\ Last(t).e = e \/ (s # << >> /\ Last(t) = Last(s))
      /\ s # << >> /\ Less(e, Last(s).e) => Last(t) = Last(s)
  BY <1>1, <1>2, InsertedAs
<1> HIDE DEF t
<1>4. ASSUME P[pg].next # 0 PROVE Less(Last(t).e, Low(P, P[pg].next))
  <2>1. pg # Root /\ Less(Top(P, pg), Low(P, P[pg].next)) /\ s # << >> /\ Top(P, pg) \in Entry
    BY <1>1, <1>4, Between DEF s
  <2>2. ~ Less(Top(P, pg), e)
    BY <1>1, <1>4 DEF InRange
  <2>3. Top(P, pg) # e
    <3>1. Len(s) \in 1 .. Len(s) /\ s[Len(s)] = Last(s)
      BY <1>1, <2>1, LastHead
    <3> QED
      BY <1>1, <3>1 DEF Has, Top, s
  <2>4. Less(e, Top(P, pg))
    BY <2>1, <2>2, <2>3, LessOrder
  <2>5. Last(t) = Last(s) /\ Top(P, pg) = Last(s).e
    BY <1>3, <2>1, <2>4 DEF Top, s
  <2> QED
    BY <2>1, <2>5
<1>5. ASSUME P[pg].prev # 0 PROVE Less(Top(P, P[pg].prev), Head(t).e)
  <2>1. Less(Top(P, P[pg].prev), Low(P, pg)) /\ Low(P, pg) = Head(s).e
    BY <1>1, <1>5, Between DEF Low, s
  <2>2. Less(Top(P, P[pg].prev), e)
    BY <1>1, <1>5 DEF InRange
  <2> QED
    BY <1>3, <2>1, <2>2
<1>6. BTree(At(P, pg, t), pg)
  BY <1>1, <1>3, <1>4, <1>5, LeafTree
<1>7. Indexed(At(P, pg, t)) = X
  BY <1>1, <1>3, LeafGrows DEF s
<1>8. /\ Open(P, none, path, n) /\ Unlinked(P, none) = P
      /\ n > 1 =>
                /\ P[pg].entries # << >>
                /\ \A j \in 1 .. Len(P[path[n - 1]].entries) :
                     P[path[n - 1]].entries[j].child = pg => P[path[n - 1]].entries[j].e = Top(P, pg)
  BY <1>1, PathOpen
<1>9. Len(t) <= PageSize + 1
  <2>1. Len(s) <= PageSize /\ Len(s) \in Nat /\ PageSize \in Nat
    BY <1>1, IndexConstants DEF Fits, s
  <2> QED
    BY <1>3, <2>1
<1>10. none = {}
  OBVIOUS
<1>11. \A q \in DOMAIN P \ none : q # pg => Len(P[q].entries) <= PageSize
  BY DEF Fits
<1> HIDE DEF n, X
<1>12. Pending(P, none, path, n, t, X)
  BY <1>3, <1>6, <1>7, <1>8, <1>9, <1>10, <1>11 DEF Pending
<1> QED
  BY <1>12 DEF t, s, x, X, n

\* An entry is inserted.
LEMMA LeafInsertFacts ==
    ASSUME NEW P, BTree(P, 0), Fits(P), NEW e \in Entry, e \notin Indexed(P)
    PROVE  LET Q == LeafInsert(P, e) IN BTree(Q, 0) /\ Fits(Q) /\ Indexed(Q) = Indexed(P) \cup {e}
<1> DEFINE path == FindLeaf(P, e)
           n == Len(path)
           t == Inserted(P[path[n]].entries, Item(e, 0))
           call == ToInsert(n, t)
           X == Indexed(P) \cup {e}
           r == Run(P, path, call)
<1>1. LeafOf(P, path, e)
  BY LeafOfIs
<1>2. LeafInsert(P, e) = r.pages
  BY DEF LeafInsert
<1> HIDE DEF path
<1>3. n \in Nat
  BY <1>1 DEF LeafOf, Descends
<1>4. Pending(P, {}, path, n, t, X)
  <2> DEFINE none == {}
  <2>1. \A x : x \notin none
    OBVIOUS
  <2> HIDE DEF none
  <2>2. Pending(P, none, path, n, t, X)
    BY <1>1, <2>1, LeafPending
  <2> QED
    BY <2>2 DEF none
<1> HIDE DEF t, X
<1>5. Running(Wrote(P, <<call>>), path, X, 2 * n)
  <2> DEFINE st == Wrote(P, <<call>>)
  <2>1. st.ok /\ st.calls = <<ToInsert(n, t)>> /\ st.pages = P /\ st.gone = {}
    BY WroteIs
  <2> HIDE DEF n, st
  <2>2. 2 * n <= 2 * n
    BY <1>3
  <2>3. Pending(st.pages, st.gone, path, n, t, X)
    BY <1>4, <2>1
  <2>4. Running(st, path, X, 2 * n)
    BY <2>1, <2>2, <2>3 DEF Running
  <2> QED
    BY <2>4 DEF st
<1> HIDE DEF call
<1>6. r.ok /\ r.gone = {} /\ Done(r.pages, r.gone, X)
  BY <1>3, <1>5, RunDone
<1> HIDE DEF r
<1>7. Typed(r.pages, {}) /\ Done(r.pages, {}, X)
  BY <1>6 DEF Done
<1>8. Unlinked(r.pages, {}) = r.pages
  BY <1>7, UnlinkedNone
<1>9. BTree(r.pages, 0) /\ Fits(r.pages) /\ Indexed(r.pages) = X
  BY <1>7, <1>8 DEF Done
<1> QED
  BY <1>2, <1>9 DEF X
-----------------------------------------------------------------------------
(* Erasure of an entry *)

\* The leaf of an erased entry, while others are left in it.
LEMMA LeafErased ==
    ASSUME NEW P, BTree(P, 0), Fits(P), NEW e \in Entry, NEW path, LeafOf(P, path, e),
           NEW j \in 1 .. Len(P[path[Len(path)]].entries), P[path[Len(path)]].entries[j].e = e,
           RemoveAt(P[path[Len(path)]].entries, j) # << >>
    PROVE  LET pg == path[Len(path)]
               s == P[pg].entries
               t == RemoveAt(s, j)
               Q == At(P, pg, t)
           IN  /\ t \in Seq(ItemSet) /\ pg \in DOMAIN P /\ Leaf(P[pg]) /\ P[pg].tail = 0
               /\ BTree(Q, pg) /\ Fits(Q) /\ Indexed(Q) = Indexed(P) \ {e}
               /\ Last(t) = Last(s) \/ j = Len(s)
               /\ j = Len(s) => Last(s).e = e
<1> DEFINE n == Len(path)
           pg == path[n]
           s == P[pg].entries
           t == RemoveAt(s, j)
           Q == At(P, pg, t)
<1>1. /\ Descends(P, path) /\ pg \in DOMAIN P /\ Leaf(P[pg])
      /\ s \in Seq(ItemSet) /\ Increasing(s)
  BY DEF LeafOf
<1>2. Has(s, e) /\ j \in 1 .. Len(s) /\ s[j].e = e /\ t # << >>
  BY DEF Has
<1> HIDE DEF s
<1>3. /\ t \in Seq(ItemSet) /\ Len(t) = Len(s) - 1 /\ Increasing(t)
      /\ \A y : Has(t, y) <=> Has(s, y) /\ y # s[j].e
      /\ t # << >> => /\ Head(t) = Head(s) \/ Less(Head(s).e, Head(t).e)
                      /\ Last(t) = Last(s) \/ (j = Len(s) /\ Less(Last(t).e, Last(s).e))
  BY <1>1, <1>2, RemovedAs
<1> HIDE DEF t
<1>4. s # << >> /\ Last(s) = s[Len(s)] /\ Len(s) \in Nat
  <2>1. s # << >>
    BY <1>1, <1>2
  <2> QED
    BY <1>1, <2>1, LastHead
<1>5. Head(t).e \in Entry /\ Last(t).e \in Entry /\ Head(s).e \in Entry /\ Last(s).e \in Entry
  BY <1>1, <1>2, <1>3, <1>4, LastHead
<1>6. ASSUME P[pg].next # 0 PROVE Less(Last(t).e, Low(P, P[pg].next))
  <2>1. Less(Top(P, pg), Low(P, P[pg].next)) /\ Low(P, P[pg].next) \in Entry /\ Top(P, pg) = Last(s).e
    BY <1>1, <1>6, Between DEF Top, s
  <2>2. Last(t) = Last(s) \/ Less(Last(t).e, Last(s).e)
    BY <1>2, <1>3
  <2> QED
    BY <1>5, <2>1, <2>2, LessOrder
<1>7. ASSUME P[pg].prev # 0 PROVE Less(Top(P, P[pg].prev), Head(t).e)
  <2>1. Less(Top(P, P[pg].prev), Low(P, pg)) /\ Top(P, P[pg].prev) \in Entry /\ Low(P, pg) = Head(s).e
    BY <1>1, <1>7, Between DEF Low, s
  <2>2. Head(t) = Head(s) \/ Less(Head(s).e, Head(t).e)
    BY <1>2, <1>3
  <2> QED
    BY <1>5, <2>1, <2>2, LessOrder
<1>8. BTree(Q, pg)
  BY <1>1, <1>2, <1>3, <1>6, <1>7, LeafTree
<1>9. Indexed(Q) = Indexed(P) \ {e}
  BY <1>1, <1>2, <1>3, LeafShrinks DEF s
<1>10. PagesOK(P)
  BY TreeParts
<1>11. Fits(Q)
  <2>1. Len(s) <= PageSize /\ PageSize \in Nat
    BY <1>1, IndexConstants DEF Fits, s
  <2>2. Len(t) <= PageSize
    BY <1>3, <1>4, <2>1
  <2>3. DOMAIN Q = DOMAIN P /\ Q[pg].entries = t /\ \A q \in DOMAIN P : q # pg => Q[q] = P[q]
    BY <1>1, <1>3, <1>10, AtFacts
  <2> HIDE DEF Q
  <2> QED
    BY <2>2, <2>3 DEF Fits
<1>12. P[pg].tail = 0
  BY <1>1, <1>10 DEF PagesOK
<1>13. Last(t) = Last(s) \/ j = Len(s)
  BY <1>2, <1>3
<1>14. j = Len(s) => Last(s).e = e
  BY <1>2, <1>4
<1> QED
  BY <1>1, <1>3, <1>8, <1>9, <1>11, <1>12, <1>13, <1>14 DEF t, s

\* Nothing above the leaf has to learn of it.
LEMMA ErasedInside ==
    ASSUME NEW P, BTree(P, 0), Fits(P), NEW e \in Entry, NEW path, LeafOf(P, path, e),
           NEW j \in 1 .. Len(P[path[Len(path)]].entries), P[path[Len(path)]].entries[j].e = e,
           RemoveAt(P[path[Len(path)]].entries, j) # << >>,
           Last(P[path[Len(path)]].entries).e # e \/ ~ (Len(path) > 1)
    PROVE  BTree(At(P, path[Len(path)], RemoveAt(P[path[Len(path)]].entries, j)), 0)
<1> DEFINE n == Len(path)
           pg == path[n]
           s == P[pg].entries
           t == RemoveAt(s, j)
           Q == At(P, pg, t)
<1>1. /\ t \in Seq(ItemSet) /\ pg \in DOMAIN P /\ Leaf(P[pg]) /\ BTree(Q, pg)
      /\ Last(t) = Last(s) \/ j = Len(s)
      /\ j = Len(s) => Last(s).e = e
  BY LeafErased
<1>2. n \in Nat /\ n >= 1 /\ path[1] = Root
  BY DEF LeafOf, Descends
<1>3. CASE ~ (n > 1)
  <2>1. pg = Root
    BY <1>2, <1>3
  <2>2. BTree(Q, Root)
    BY <1>1, <2>1
  <2> HIDE DEF Q
  <2>3. BTree(Q, 0)
    BY <2>2, RootNoChild
  <2> QED
    BY <2>3 DEF Q
<1>4. CASE n > 1 /\ Last(s).e # e
  <2>1. Last(t) = Last(s)
    BY <1>1, <1>4
  <2>2. PagesOK(P) /\ pg # 0
    BY <1>1, TreeParts, PageFacts
  <2>3. /\ DOMAIN Q = DOMAIN P /\ Q[pg].entries = t
        /\ \A q \in DOMAIN P : (q # pg => Q[q] = P[q]) /\ Q[q].level = P[q].level
    BY <1>1, <2>2, AtFacts
  <2>4. Top(Q, pg) = Top(P, pg)
    BY <2>1, <2>3 DEF Top
  <2> HIDE DEF Q, t, s, pg
  <2>5. ASSUME NEW q \in DOMAIN Q, ~ Leaf(Q[q]), NEW k \in 1 .. Len(Q[q].entries), Q[q].entries[k].child = pg
        PROVE  Q[q].entries[k].e = Top(Q, pg)
    <3>1. q # pg /\ q \in DOMAIN P /\ Q[q] = P[q]
      BY <1>1, <2>3, <2>5 DEF Leaf
    <3>2. P[q].entries[k].child = Child(P[q], k)
          /\ (Child(P[q], k) # 0 => P[q].entries[k].e = Top(P, Child(P[q], k)))
      BY <2>5, <3>1, Dividers
    <3> QED
      BY <2>2, <2>4, <2>5, <3>1, <3>2
  <2>6. BTree(Q, 0)
    BY <1>1, <2>5, NoDivider
  <2> QED
    BY <2>6 DEF Q, t, s, pg
<1> QED
  BY <1>3, <1>4

\* The dividers above the leaf learn its new largest entry.
LEMMA ErasedLast ==
    ASSUME NEW P, BTree(P, 0), Fits(P), NEW e \in Entry, NEW path, LeafOf(P, path, e),
           NEW j \in 1 .. Len(P[path[Len(path)]].entries), P[path[Len(path)]].entries[j].e = e,
           RemoveAt(P[path[Len(path)]].entries, j) # << >>
    PROVE  LET n == Len(path)
               t == RemoveAt(P[path[n]].entries, j)
               R == Run(At(P, path[n], t), path, ToPropagate(n, Last(t).e)).pages
           IN  BTree(R, 0) /\ Fits(R) /\ Indexed(R) = Indexed(P) \ {e}
<1> DEFINE n == Len(path)
           pg == path[n]
           t == RemoveAt(P[pg].entries, j)
           Q == At(P, pg, t)
           max == Last(t).e
           call == ToPropagate(n, max)
           X == Indexed(P) \ {e}
           r == Run(Q, path, call)
           none == {}
<1>1. t \in Seq(ItemSet) /\ pg \in DOMAIN P /\ BTree(Q, pg) /\ Fits(Q) /\ Indexed(Q) = X
  BY LeafErased
<1>2. Descends(P, path) /\ n \in Nat /\ n >= 1 /\ n \in 1 .. n
  <2>1. Descends(P, path)
    BY DEF LeafOf
  <2>2. n \in Nat /\ n >= 1
    BY <2>1 DEF Descends
  <2> HIDE DEF n
  <2> QED
    BY <2>1, <2>2
<1>3. \A x : x \notin none
  OBVIOUS
<1> HIDE DEF X, t, none
<1>4. Open(P, none, path, n) /\ Typed(P, none) /\ Unlinked(P, none) = P
  BY <1>2, <1>3, PathOpen
<1>5. /\ DOMAIN Q = DOMAIN P /\ Typed(Q, none) /\ Q[pg].entries = t
      /\ \A q \in DOMAIN P : (q # pg => Q[q] = P[q]) /\ Q[q].level = P[q].level
  BY <1>1, <1>4, TypedAt
<1> HIDE DEF Q
<1>6. Unlinked(Q, none) = Q
  BY <1>3, <1>5, UnlinkedNone
<1>7. Open(Q, none, path, n)
  <2>1. \A x \in 1 .. n : Q[path[x]].level = P[path[x]].level
    BY <1>4, <1>5, OpenFacts
  <2>2. \A x \in 1 .. n - 1 : Q[path[x]] = P[path[x]]
    <3> TAKE x \in 1 .. n - 1
    <3>1. x \in 1 .. n /\ x # n
      BY <1>2
    <3> HIDE DEF n
    <3>2. path[x] \in DOMAIN P /\ path[x] # path[n]
      BY <1>2, <1>4, <3>1, OpenFacts
    <3> QED
      BY <1>5, <3>2
  <2> HIDE DEF n
  <2> QED
    BY <1>2, <1>4, <1>5, <2>1, <2>2, OpenKept
<1>8. max = Top(Q, pg)
  BY <1>5 DEF Top
<1> HIDE DEF max
<1>9. Passing(Q, none, path, n, max, X)
  <2> HIDE DEF n
  <2> QED
    BY <1>1, <1>6, <1>7, <1>8 DEF Passing
<1>10. Running(Wrote(Q, <<call>>), path, X, 2 * n)
  <2> DEFINE st == Wrote(Q, <<call>>)
  <2>1. st.ok /\ st.calls = <<ToPropagate(n, max)>> /\ st.pages = Q /\ st.gone = {}
    BY WroteIs
  <2> HIDE DEF n, st
  <2>2. 2 * n - 1 <= 2 * n
    BY <1>2
  <2>3. Passing(st.pages, st.gone, path, n, max, X)
    BY <1>9, <2>1 DEF none
  <2>4. Running(st, path, X, 2 * n)
    BY <2>1, <2>2, <2>3 DEF Running
  <2> QED
    BY <2>4 DEF st
<1> HIDE DEF call
<1>11. r.ok /\ r.gone = {} /\ Done(r.pages, r.gone, X)
  BY <1>2, <1>10, RunDone
<1> HIDE DEF r
<1>12. Typed(r.pages, {}) /\ Done(r.pages, {}, X)
  BY <1>11 DEF Done
<1>13. Unlinked(r.pages, {}) = r.pages
  BY <1>12, UnlinkedNone
<1>14. BTree(r.pages, 0) /\ Fits(r.pages) /\ Indexed(r.pages) = X
  BY <1>12, <1>13 DEF Done
<1> QED
  BY <1>14 DEF X, r, call, max, Q, t

\* What an erasure of e answers.
Erasure(P, e, x) ==
    /\ BTree(x.pages, 0) /\ Fits(x.pages)
    /\ x.ok => e \in Indexed(P) /\ Indexed(x.pages) = Indexed(P) \ {e}
    /\ ~ x.ok => x.pages = P
    /\ e \in Indexed(P) => (x.ok <=> ~ Stays(P, FindLeaf(P, e)))

\* What EraseEntry answers, with the leaf of e on the path.
Erases(P, e, path, x) ==
    LET i == Len(path)
        s == P[path[i]].entries
        at == {j \in DOMAIN s : s[j].e = e}
        rest == RemoveAt(s, Min(at))
        Q == At(P, path[i], rest)
        r == Run(P, path, ToRemove(i))
    IN  /\ at = {} => x = [ok |-> FALSE, pages |-> P]
        /\ at # {} /\ rest # << >> =>
             x = [ok |-> TRUE, pages |-> IF Last(s).e = e /\ i > 1
                                         THEN Run(Q, path, ToPropagate(i, Last(rest).e)).pages ELSE Q]
        /\ at # {} /\ rest = << >> =>
             x = [ok |-> r.ok, pages |-> IF r.ok THEN Unlinked(r.pages, r.gone) ELSE r.pages]

LEMMA EraseIs == ASSUME NEW P, NEW e PROVE Erases(P, e, FindLeaf(P, e), EraseEntry(P, e))
<1> DEFINE path == FindLeaf(P, e)
           i == Len(path)
           s == P[path[i]].entries
           at == {j \in DOMAIN s : s[j].e = e}
           rest == RemoveAt(s, Min(at))
           Q == At(P, path[i], rest)
           r == Run(P, path, ToRemove(i))
<1>1. EraseEntry(P, e) =
        IF at = {} THEN [ok |-> FALSE, pages |-> P]
        ELSE IF rest # << >>
        THEN [ok |-> TRUE, pages |-> IF Last(s).e = e /\ i > 1
                                     THEN Run(Q, path, ToPropagate(i, Last(rest).e)).pages ELSE Q]
        ELSE Removed(r)
  BY DEF EraseEntry, At
<1>2. Removed(r) = [ok |-> r.ok, pages |-> IF r.ok THEN Unlinked(r.pages, r.gone) ELSE r.pages]
  BY DEF Removed
<1> HIDE DEF r, Q, rest, at
<1>3. /\ at = {} => EraseEntry(P, e) = [ok |-> FALSE, pages |-> P]
      /\ at # {} /\ rest # << >> =>
           EraseEntry(P, e) = [ok |-> TRUE, pages |-> IF Last(s).e = e /\ i > 1
                                     THEN Run(Q, path, ToPropagate(i, Last(rest).e)).pages ELSE Q]
      /\ at # {} /\ rest = << >> =>
           EraseEntry(P, e) = [ok |-> r.ok, pages |-> IF r.ok THEN Unlinked(r.pages, r.gone) ELSE r.pages]
  BY <1>1, <1>2
<1> QED
  BY <1>3 DEF Erases, r, Q, rest, at

LEMMA EraseEntryFacts ==
    ASSUME NEW P, BTree(P, 0), Fits(P), NEW e \in Entry
    PROVE  Erasure(P, e, EraseEntry(P, e))
<1> DEFINE path == FindLeaf(P, e)
           i == Len(path)
           s == P[path[i]].entries
           at == {j \in DOMAIN s : s[j].e = e}
           j == Min(at)
           rest == RemoveAt(s, j)
           Q == At(P, path[i], rest)
           r == Run(P, path, ToRemove(i))
           x == EraseEntry(P, e)
           R == Run(Q, path, ToPropagate(i, Last(rest).e)).pages
<1>1. LeafOf(P, path, e)
  BY LeafOfIs
<1>2. /\ at = {} => x = [ok |-> FALSE, pages |-> P]
      /\ at # {} /\ rest # << >> => x = [ok |-> TRUE, pages |-> IF Last(s).e = e /\ i > 1 THEN R ELSE Q]
      /\ at # {} /\ rest = << >> =>
                    x = [ok |-> r.ok, pages |-> IF r.ok THEN Unlinked(r.pages, r.gone) ELSE r.pages]
  <2>1. Erases(P, e, path, x)
    BY EraseIs
  <2> HIDE DEF path, x
  <2> QED
    BY <2>1 DEF Erases
<1> HIDE DEF x
<1>3. Stays(P, FindLeaf(P, e)) <=> Stays(P, path)
  OBVIOUS
<1> HIDE DEF path
<1>4. /\ Descends(P, path) /\ path[i] \in DOMAIN P /\ Leaf(P[path[i]])
      /\ s \in Seq(ItemSet) /\ Increasing(s) /\ (e \in Indexed(P) <=> Has(s, e))
      /\ \A q \in DOMAIN P : Leaf(P[q]) /\ Has(P[q].entries, e) => q = path[i]
  BY <1>1 DEF LeafOf
<1>5. i \in Nat /\ i >= 1
  BY <1>4 DEF Descends
<1>6. at # {} <=> Has(s, e)
  <2>1. s \in Seq(ItemSet)
    BY <1>4
  <2> HIDE DEF s
  <2>2. DOMAIN s = 1 .. Len(s)
    BY <2>1
  <2> QED
    BY <2>2 DEF Has
<1>7. CASE at = {}
  <2>1. ~ x.ok /\ x.pages = P /\ e \notin Indexed(P)
    BY <1>2, <1>4, <1>6, <1>7
  <2> QED
    BY <2>1 DEF Erasure, x
<1>8. ASSUME at # {} PROVE j \in 1 .. Len(s) /\ s[j].e = e /\ Len(rest) = Len(s) - 1
  <2>1. DOMAIN s = 1 .. Len(s) /\ at \subseteq Nat
    BY <1>4
  <2>2. j \in at
    BY <1>8, <2>1, MinIsLeast
  <2>3. j \in DOMAIN s /\ s[j].e = e
    BY <2>2
  <2> HIDE DEF j, at, s
  <2>4. Len(rest) = Len(s) - 1
    BY <1>4, <2>3, RemoveAtAt DEF s
  <2> QED
    BY <2>1, <2>3, <2>4
<1> HIDE DEF j, at
<1>9. CASE at # {} /\ rest # << >>
  <2>1. x.ok /\ x.pages = (IF Last(s).e = e /\ i > 1 THEN R ELSE Q) /\ e \in Indexed(P)
    BY <1>2, <1>4, <1>6, <1>9
  <2>2. j \in 1 .. Len(s) /\ s[j].e = e /\ Len(rest) = Len(s) - 1
    BY <1>8, <1>9
  <2>3. ~ Stays(P, path)
    <3>1. Len(s) # 1
      <4>1. rest \in Seq(ItemSet)
        BY <1>4, <2>2, RemovedAs
      <4> HIDE DEF rest, s
      <4> QED
        BY <1>9, <2>2, <4>1
    <3>2. \A k \in 1 .. i - 1 : i \in k .. i
      BY <1>5
    <3> QED
      BY <3>1, <3>2 DEF Stays
  <2>4. Q = At(P, path[i], rest) /\ BTree(R, 0) /\ Fits(R) /\ Indexed(R) = Indexed(P) \ {e} /\ Fits(Q)
        /\ Indexed(Q) = Indexed(P) \ {e}
    <3>1. BTree(R, 0) /\ Fits(R) /\ Indexed(R) = Indexed(P) \ {e}
      BY <1>1, <1>9, <2>2, ErasedLast
    <3>2. Fits(Q) /\ Indexed(Q) = Indexed(P) \ {e}
      BY <1>1, <1>9, <2>2, LeafErased
    <3> QED
      BY <3>1, <3>2
  <2>5. ~ (Last(s).e = e /\ i > 1) => BTree(Q, 0)
    BY <1>1, <1>9, <2>2, ErasedInside
  <2> HIDE DEF R, Q, s
  <2>6. BTree(x.pages, 0) /\ Fits(x.pages) /\ Indexed(x.pages) = Indexed(P) \ {e}
    BY <2>1, <2>4, <2>5
  <2> QED
    BY <1>3, <2>1, <2>3, <2>6 DEF Erasure, x
<1>10. CASE at # {} /\ rest = << >>
  <2>1. j \in 1 .. Len(s) /\ s[j].e = e /\ Len(s) = 1 /\ e \in Indexed(P)
    <3>1. Len(rest) = 0
      BY <1>10
    <3>2. Len(s) \in Nat /\ j \in 1 .. Len(s) /\ s[j].e = e /\ Len(rest) = Len(s) - 1
      BY <1>4, <1>8, <1>10
    <3> HIDE DEF rest, s
    <3> QED
      BY <1>4, <1>6, <1>10, <3>1, <3>2
  <2>2. Emptied(P, path, i, e)
    <3>1. j = 1
      BY <2>1
    <3>2. /\ i \in 1 .. i /\ (\A k \in i .. i : k = i) /\ (\A k : k \notin i + 1 .. i) /\ (\A k : k \notin i .. i - 1)
      BY <1>5
    <3>3. \A q \in DOMAIN P : Leaf(P[q]) /\ Holds(P, q, e) => q = path[i]
      BY <1>4 DEF Holds, Has
    <3> HIDE DEF i
    <3>4. \A k \in i .. i : Len(P[path[k]].entries) = 1
      BY <2>1, <3>2
    <3>5. P[path[i]].entries[1].e = e
      BY <2>1, <3>1
    <3> QED
      BY <1>4, <3>2, <3>3, <3>4, <3>5 DEF Emptied, i
  <2>3. /\ r.ok <=> ~ Stays(P, path)
        /\ r.ok => Done(r.pages, r.gone, Indexed(P) \ {e})
        /\ ~ r.ok => r.pages = P
    BY <2>2, RemovalRun
  <2> DEFINE V == Unlinked(r.pages, r.gone)
  <2>4. x = [ok |-> r.ok, pages |-> IF r.ok THEN V ELSE r.pages]
    BY <1>2, <1>10
  <2>5. r.ok => BTree(V, 0) /\ Fits(V) /\ Indexed(V) = Indexed(P) \ {e}
    BY <2>3 DEF Done
  <2> HIDE DEF r, V
  <2>6. (x.ok <=> r.ok) /\ x.pages = (IF r.ok THEN V ELSE r.pages)
    BY <2>4
  <2>7. Erasure(P, e, x)
    BY <1>3, <2>1, <2>3, <2>5, <2>6 DEF Erasure
  <2> QED
    BY <2>7 DEF x
<1> QED
  BY <1>7, <1>9, <1>10
-----------------------------------------------------------------------------
(* The entries of a row, and those of every row *)

\* The states of an erasure of a row, entry after entry.
LEMMA ErasedIs ==
    ASSUME NEW P, NEW r, Len(Walk(P)) \in Nat
    PROVE  \E f : f[0] = [ok |-> TRUE, pages |-> P] /\ (\A i \in 1 .. Len(Walk(P)) : f[i] = ErasedNext(f[i - 1], r, Walk(P)[i])) /\ EraseRowRefs(P, r) = f[Len(Walk(P))]
<1> DEFINE n == Len(Walk(P))
           first == [ok |-> TRUE, pages |-> P]
           erased[i \in 0 .. n] == IF i = 0 THEN [ok |-> TRUE, pages |-> P] ELSE ErasedNext(erased[i - 1], r, Walk(P)[i])
           UpTo(h, m) == h = [i \in 0 .. m |-> IF i = 0 THEN first ELSE ErasedNext(h[i - 1], r, Walk(P)[i])]
           A == {m \in 0 .. n : \E h : UpTo(h, m)}
<1>0. n \in Nat
  OBVIOUS
<1>1. 0 \in A
  <2> DEFINE h0 == [i \in 0 .. 0 |-> first]
  <2>1. UpTo(h0, 0) /\ 0 \in 0 .. n
    BY <1>0
  <2> HIDE DEF UpTo, h0, n
  <2> QED
    BY <2>1
<1>2. ASSUME NEW m \in 1 .. n, m - 1 \in A PROVE m \in A
  <2>0. m \in Nat \ {0}
    BY <1>0
  <2>1. PICK h : UpTo(h, m - 1)
    BY <1>2
  <2> HIDE DEF first
  <2>2. \A i \in 0 .. m - 1 : h[i] = IF i = 0 THEN first ELSE ErasedNext(h[i - 1], r, Walk(P)[i])
    BY <2>1
  <2>3. PICK g : /\ Counts(g, m) /\ g[m] = ErasedNext(h[m - 1], r, Walk(P)[m])
                 /\ \A i \in 0 .. m - 1 : g[i] = h[i]
                 /\ \A i \in 0 .. m : i = m \/ (i \in 0 .. m - 1 /\ (i # 0 => i - 1 \in 0 .. m - 1))
                 /\ m - 1 \in 0 .. m - 1
    BY <2>0, Extended
  <2>4. \A i \in 0 .. m : g[i] = IF i = 0 THEN first ELSE ErasedNext(g[i - 1], r, Walk(P)[i])
    <3> TAKE i \in 0 .. m
    <3>1. CASE i = m
      BY <2>0, <2>3, <3>1
    <3>2. CASE i # m
      <4>1. i \in 0 .. m - 1 /\ (i # 0 => i - 1 \in 0 .. m - 1)
        BY <2>3, <3>2
      <4> QED
        BY <2>2, <2>3, <4>1
    <3> QED
      BY <3>1, <3>2
  <2>5. UpTo(g, m)
    BY <2>3, <2>4 DEF Counts
  <2> HIDE DEF UpTo
  <2> QED
    BY <2>5
<1>3. \E h : UpTo(h, n)
  <2>1. \A m \in 0 .. n : m \in A
    <3> HIDE DEF A, n
    <3> QED
      BY <1>0, <1>1, <1>2, Counted
  <2> QED
    BY <1>0, <2>1
<1>4. erased = CHOOSE h : UpTo(h, n)
  OBVIOUS
<1>5. EraseRowRefs(P, r) = erased[n]
  BY DEF EraseRowRefs
<1> HIDE DEF erased, UpTo
<1>6. UpTo(erased, n)
  BY <1>3, <1>4
<1>7. erased[0] = first /\ \A i \in 1 .. n : erased[i] = ErasedNext(erased[i - 1], r, Walk(P)[i])
  <2> HIDE DEF n, first
  <2>1. 0 \in 0 .. n /\ \A i \in 1 .. n : i \in 0 .. n /\ i # 0
    BY <1>0
  <2> QED
    BY <1>6, <2>1 DEF UpTo
<1> QED
  BY <1>5, <1>7 DEF first

\* The states of a repair, entry after entry.
LEMMA ReplacedIs ==
    ASSUME NEW P, Len(Walk(P)) \in Nat
    PROVE  \E f : f[0] = P /\ (\A i \in 1 .. Len(Walk(P)) : f[i] = Replaced(f[i - 1], Walk(P)[i])) /\ RepairedPages(P) = f[Len(Walk(P))]
<1> DEFINE n == Len(Walk(P))
           first == P
           replaced[i \in 0 .. n] == IF i = 0 THEN P ELSE Replaced(replaced[i - 1], Walk(P)[i])
           UpTo(h, m) == h = [i \in 0 .. m |-> IF i = 0 THEN first ELSE Replaced(h[i - 1], Walk(P)[i])]
           A == {m \in 0 .. n : \E h : UpTo(h, m)}
<1>0. n \in Nat
  OBVIOUS
<1>1. 0 \in A
  <2> DEFINE h0 == [i \in 0 .. 0 |-> first]
  <2>1. UpTo(h0, 0) /\ 0 \in 0 .. n
    BY <1>0
  <2> HIDE DEF UpTo, h0, n
  <2> QED
    BY <2>1
<1>2. ASSUME NEW m \in 1 .. n, m - 1 \in A PROVE m \in A
  <2>0. m \in Nat \ {0}
    BY <1>0
  <2>1. PICK h : UpTo(h, m - 1)
    BY <1>2
  <2> HIDE DEF first
  <2>2. \A i \in 0 .. m - 1 : h[i] = IF i = 0 THEN first ELSE Replaced(h[i - 1], Walk(P)[i])
    BY <2>1
  <2>3. PICK g : /\ Counts(g, m) /\ g[m] = Replaced(h[m - 1], Walk(P)[m])
                 /\ \A i \in 0 .. m - 1 : g[i] = h[i]
                 /\ \A i \in 0 .. m : i = m \/ (i \in 0 .. m - 1 /\ (i # 0 => i - 1 \in 0 .. m - 1))
                 /\ m - 1 \in 0 .. m - 1
    BY <2>0, Extended
  <2>4. \A i \in 0 .. m : g[i] = IF i = 0 THEN first ELSE Replaced(g[i - 1], Walk(P)[i])
    <3> TAKE i \in 0 .. m
    <3>1. CASE i = m
      BY <2>0, <2>3, <3>1
    <3>2. CASE i # m
      <4>1. i \in 0 .. m - 1 /\ (i # 0 => i - 1 \in 0 .. m - 1)
        BY <2>3, <3>2
      <4> QED
        BY <2>2, <2>3, <4>1
    <3> QED
      BY <3>1, <3>2
  <2>5. UpTo(g, m)
    BY <2>3, <2>4 DEF Counts
  <2> HIDE DEF UpTo
  <2> QED
    BY <2>5
<1>3. \E h : UpTo(h, n)
  <2>1. \A m \in 0 .. n : m \in A
    <3> HIDE DEF A, n
    <3> QED
      BY <1>0, <1>1, <1>2, Counted
  <2> QED
    BY <1>0, <2>1
<1>4. replaced = CHOOSE h : UpTo(h, n)
  OBVIOUS
<1>5. RepairedPages(P) = replaced[n]
  BY DEF RepairedPages
<1> HIDE DEF replaced, UpTo
<1>6. UpTo(replaced, n)
  BY <1>3, <1>4
<1>7. replaced[0] = first /\ \A i \in 1 .. n : replaced[i] = Replaced(replaced[i - 1], Walk(P)[i])
  <2> HIDE DEF n, first
  <2>1. 0 \in 0 .. n /\ \A i \in 1 .. n : i \in 0 .. n /\ i # 0
    BY <1>0
  <2> QED
    BY <1>6, <2>1 DEF UpTo
<1> QED
  BY <1>5, <1>7 DEF first

\* What an erasure of the entries of r answers.
RowErasure(P, r, x) ==
    /\ BTree(x.pages, 0) /\ Fits(x.pages) /\ Indexed(x.pages) \subseteq Indexed(P)
    /\ \A e \in Indexed(P) : e[2] # r => e \in Indexed(x.pages)
    /\ x.ok => \A e \in Indexed(x.pages) : e[2] # r

\* What it has answered after the first i entries.
RowErasing(P, r, i, x) ==
    /\ BTree(x.pages, 0) /\ Fits(x.pages) /\ Indexed(x.pages) \subseteq Indexed(P)
    /\ \A e \in Indexed(P) : e[2] # r => e \in Indexed(x.pages)
    /\ x.ok => \A k \in 1 .. i : Walk(P)[k][2] = r => Walk(P)[k] \notin Indexed(x.pages)

\* One entry more.
LEMMA RowErasingStep ==
    ASSUME NEW P, NEW r, NEW i \in Nat \ {0}, Walk(P)[i] \in Entry, NEW x, RowErasing(P, r, i - 1, x)
    PROVE  RowErasing(P, r, i, ErasedNext(x, r, Walk(P)[i]))
<1> DEFINE e == Walk(P)[i]
           y == ErasedNext(x, r, e)
<1>1. \A k \in 1 .. i : k = i \/ k \in 1 .. i - 1
  OBVIOUS
<1>2. CASE x.ok /\ e[2] = r
  <2>1. y = EraseEntry(x.pages, e)
    BY <1>2 DEF ErasedNext
  <2>2. BTree(x.pages, 0) /\ Fits(x.pages) /\ e \in Entry
    BY DEF RowErasing
  <2>3. Erasure(x.pages, e, y)
    <3> HIDE DEF e, y
    <3>1. Erasure(x.pages, e, EraseEntry(x.pages, e))
      BY <2>2, EraseEntryFacts
    <3> QED
      BY <2>1, <3>1
  <2> HIDE DEF y
  <2>4. BTree(y.pages, 0) /\ Fits(y.pages) /\ Indexed(y.pages) \subseteq Indexed(x.pages)
    BY <2>3 DEF Erasure
  <2>5. y.ok => Indexed(y.pages) = Indexed(x.pages) \ {e}
    BY <2>3 DEF Erasure
  <2>6. \A z \in Indexed(x.pages) : z[2] # r => z \in Indexed(y.pages)
    BY <1>2, <2>3 DEF Erasure
  <2>7. \A k \in 1 .. i - 1 : Walk(P)[k][2] = r => Walk(P)[k] \notin Indexed(x.pages)
    BY <1>2 DEF RowErasing
  <2>8. RowErasing(P, r, i, y)
    BY <1>1, <2>4, <2>5, <2>6, <2>7 DEF RowErasing
  <2> QED
    BY <2>8 DEF y
<1>3. CASE ~ (x.ok /\ e[2] = r)
  <2>1. y = x
    BY <1>3 DEF ErasedNext
  <2> HIDE DEF y
  <2>2. x.ok => \A k \in 1 .. i : Walk(P)[k][2] = r => Walk(P)[k] \notin Indexed(x.pages)
    BY <1>1, <1>3 DEF RowErasing
  <2>3. RowErasing(P, r, i, y)
    BY <2>1, <2>2 DEF RowErasing
  <2> QED
    BY <2>3 DEF y
<1> QED
  BY <1>2, <1>3

LEMMA EraseRowFacts ==
    ASSUME NEW P, BTree(P, 0), Fits(P), NEW r
    PROVE  RowErasure(P, r, EraseRowRefs(P, r))
<1> DEFINE n == Len(Walk(P))
<1>1. /\ Walk(P) \in Seq(Entry) /\ n \in Nat
      /\ \A e : (\E k \in 1 .. n : Walk(P)[k] = e) <=> e \in Indexed(P)
  BY WalkFacts
<1>2. PICK f : /\ f[0] = [ok |-> TRUE, pages |-> P]
               /\ \A i \in 1 .. n : f[i] = ErasedNext(f[i - 1], r, Walk(P)[i])
               /\ EraseRowRefs(P, r) = f[n]
  BY <1>1, ErasedIs
<1> DEFINE A == {i \in 0 .. n : RowErasing(P, r, i, f[i])}
<1>3. 0 \in A
  <2>1. f[0].ok /\ f[0].pages = P
    BY <1>2
  <2>2. RowErasing(P, r, 0, f[0])
    <3> DEFINE g == f[0]
    <3>1. g.ok /\ g.pages = P
      BY <2>1
    <3> HIDE DEF g
    <3>2. RowErasing(P, r, 0, g)
      BY <3>1 DEF RowErasing
    <3> QED
      BY <3>2 DEF g
  <2> QED
    BY <1>1, <2>2
<1>4. ASSUME NEW i \in 1 .. n, i - 1 \in A PROVE i \in A
  <2>1. i \in Nat \ {0} /\ Walk(P)[i] \in Entry /\ i \in 0 .. n
    BY <1>1
  <2>2. RowErasing(P, r, i - 1, f[i - 1])
    BY <1>4
  <2>3. RowErasing(P, r, i, ErasedNext(f[i - 1], r, Walk(P)[i]))
    BY <2>1, <2>2, RowErasingStep
  <2> QED
    BY <1>2, <2>1, <2>3
<1>5. RowErasing(P, r, n, f[n])
  <2> HIDE DEF A, n
  <2>1. \A i \in 0 .. n : i \in A
    BY <1>1, <1>3, <1>4, Counted
  <2>2. n \in 0 .. n
    BY <1>1
  <2> QED
    BY <2>1, <2>2 DEF A
<1> DEFINE x == f[n]
<1>6. RowErasing(P, r, n, x)
  BY <1>5
<1> HIDE DEF x, n
<1>7. RowErasure(P, r, x)
  <2>1. x.ok => \A e \in Indexed(x.pages) : e[2] # r
    BY <1>1, <1>6 DEF RowErasing
  <2> QED
    BY <1>6, <2>1 DEF RowErasing, RowErasure
<1> QED
  BY <1>2, <1>7 DEF x

\* The entry of its row, when its fields are empty.
Empty(e) == <<EmptyKey, e[2]>>

\* What a repair has left of the entries of P.
Repair(P, Q) ==
    /\ BTree(Q, 0) /\ Fits(Q)
    /\ \A e \in Indexed(Q) : e \in Indexed(P) \/ \E y \in Indexed(P) : e = Empty(y)
    /\ \A e \in Indexed(P) : e \in Indexed(Q) \/ Empty(e) \in Indexed(Q)

\* One entry replaced.
LEMMA ReplacedFacts ==
    ASSUME NEW P, BTree(P, 0), Fits(P), NEW e \in Entry
    PROVE  LET Q == Replaced(P, e)
           IN  /\ BTree(Q, 0) /\ Fits(Q)
               /\ Indexed(Q) \subseteq Indexed(P) \cup {Empty(e)}
               /\ \A x \in Indexed(P) : x \in Indexed(Q) \/ (x = e /\ Empty(e) \in Indexed(Q))
<1> DEFINE want == Empty(e)
           s == P[Last(FindLeaf(P, want))].entries
           have == \E x \in ToSet(s) : x.e = want
           Q == EraseEntry(P, e).pages
           R == Replaced(P, e)
           S == LeafInsert(Q, want)
<1>1. R = IF e = want THEN P ELSE IF have THEN Q ELSE S
  BY DEF Replaced, Empty
<1>2. want \in Entry
  BY EntryParts DEF Empty, Entry
<1>3. have <=> want \in Indexed(P)
  <2>1. LeafOf(P, FindLeaf(P, want), want)
    <3> HIDE DEF want
    <3> QED
      BY <1>2, LeafOfIs
  <2> HIDE DEF want
  <2>2. s \in Seq(ItemSet) /\ (want \in Indexed(P) <=> Has(s, want))
    BY <2>1 DEF LeafOf
  <2> HIDE DEF s
  <2>3. ToSet(s) = {s[i] : i \in 1 .. Len(s)}
    BY <2>2 DEF ToSet
  <2>4. (\E x \in ToSet(s) : x.e = want) <=> Has(s, want)
    BY <2>3 DEF Has
  <2> QED
    BY <2>2, <2>4
<1>4. /\ BTree(Q, 0) /\ Fits(Q) /\ Indexed(Q) \subseteq Indexed(P)
      /\ \A x \in Indexed(P) : x \in Indexed(Q) \/ x = e
  <2> DEFINE y == EraseEntry(P, e)
  <2>1. Erasure(P, e, y)
    BY EraseEntryFacts
  <2> HIDE DEF y
  <2>2. /\ BTree(y.pages, 0) /\ Fits(y.pages) /\ Indexed(y.pages) \subseteq Indexed(P)
        /\ \A x \in Indexed(P) : x \in Indexed(y.pages) \/ x = e
    BY <2>1 DEF Erasure
  <2> QED
    BY <2>2 DEF y
<1> HIDE DEF Q, R, have, want
<1>5. want \notin Indexed(Q) => BTree(S, 0) /\ Fits(S) /\ Indexed(S) = Indexed(Q) \cup {want}
  BY <1>2, <1>4, LeafInsertFacts
<1> HIDE DEF S
<1>6. /\ BTree(R, 0) /\ Fits(R) /\ Indexed(R) \subseteq Indexed(P) \cup {want}
      /\ \A x \in Indexed(P) : x \in Indexed(R) \/ (x = e /\ want \in Indexed(R))
  <2>1. CASE e = want
    <3>1. R = P
      BY <1>1, <2>1
    <3> QED
      BY <3>1
  <2>2. CASE e # want /\ have
    <3>1. R = Q /\ want \in Indexed(Q)
      BY <1>1, <1>3, <1>4, <2>2
    <3> QED
      BY <1>4, <3>1
  <2>3. CASE e # want /\ ~ have
    <3>1. R = S /\ want \notin Indexed(Q)
      BY <1>1, <1>3, <1>4, <2>3
    <3> QED
      BY <1>4, <1>5, <3>1
  <2> QED
    BY <2>1, <2>2, <2>3
<1> QED
  BY <1>6 DEF R, want

LEMMA RepairFacts ==
    ASSUME NEW P, BTree(P, 0), Fits(P)
    PROVE  Repair(P, RepairedPages(P))
<1> DEFINE n == Len(Walk(P))
<1>1. /\ Walk(P) \in Seq(Entry) /\ n \in Nat
      /\ \A k \in 1 .. n : Walk(P)[k] \in Indexed(P)
  BY WalkFacts
<1>2. PICK f : /\ f[0] = P
               /\ \A i \in 1 .. n : f[i] = Replaced(f[i - 1], Walk(P)[i])
               /\ RepairedPages(P) = f[n]
  BY <1>1, ReplacedIs
<1> DEFINE A == {i \in 0 .. n : Repair(P, f[i])}
<1>3. 0 \in A
  <2>1. Repair(P, P)
    BY DEF Repair
  <2> QED
    BY <1>1, <1>2, <2>1
<1>4. ASSUME NEW i \in 1 .. n, i - 1 \in A PROVE i \in A
  <2> DEFINE e == Walk(P)[i]
             C == f[i - 1]
             Q == Replaced(C, e)
  <2>1. e \in Entry /\ i \in 0 .. n /\ e \in Indexed(P)
    BY <1>1
  <2>2. Repair(P, C)
    BY <1>4
  <2>3. f[i] = Q
    BY <1>2
  <2> HIDE DEF e, C, n
  <2>4. /\ BTree(Q, 0) /\ Fits(Q)
        /\ Indexed(Q) \subseteq Indexed(C) \cup {Empty(e)}
        /\ \A x \in Indexed(C) : x \in Indexed(Q) \/ (x = e /\ Empty(e) \in Indexed(Q))
    <3>1. BTree(C, 0) /\ Fits(C)
      BY <2>2 DEF Repair
    <3> QED
      BY <2>1, <3>1, ReplacedFacts
  <2> HIDE DEF Q
  <2>5. \A x : Empty(Empty(x)) = Empty(x)
    BY DEF Empty
  <2>6. \A x \in Indexed(Q) : x \in Indexed(P) \/ \E y \in Indexed(P) : x = Empty(y)
    BY <2>1, <2>2, <2>4 DEF Repair
  <2>7. \A x \in Indexed(P) : x \in Indexed(Q) \/ Empty(x) \in Indexed(Q)
    <3> TAKE x \in Indexed(P)
    <3>1. CASE x \in Indexed(C)
      BY <2>4, <3>1
    <3>2. CASE Empty(x) \in Indexed(C)
      BY <2>4, <2>5, <3>2
    <3> QED
      BY <2>2, <3>1, <3>2 DEF Repair
  <2>8. Repair(P, Q)
    BY <2>4, <2>6, <2>7 DEF Repair
  <2> QED
    BY <2>1, <2>3, <2>8
<1>5. Repair(P, f[n])
  <2> HIDE DEF A, n
  <2>1. \A i \in 0 .. n : i \in A
    BY <1>1, <1>3, <1>4, Counted
  <2>2. n \in 0 .. n
    BY <1>1
  <2> QED
    BY <2>1, <2>2 DEF A
<1> QED
  BY <1>2, <1>5
-----------------------------------------------------------------------------
(* Rows and entries *)

\* The keys under which a row may be found.
KeysOf(r) == {rows[r]} \cup (IF repaired THEN {EmptyKey} ELSE {})

\* Every entry is of a row, or was left behind.
EntriesInv == \A e \in Indexed(pages) : e[2] \in ghosts \/ (e[2] \in DOMAIN rows /\ e[1] \in KeysOf(e[2]))

\* Every row has an entry.
RowsInv == \A r \in DOMAIN rows : \E e \in Indexed(pages) : e[2] = r /\ e[1] \in KeysOf(r)

IndexInv == IndexTypeOK /\ EntriesInv /\ RowsInv

LEMMA IndexedType == ASSUME NEW P, NEW e \in Indexed(P) PROVE e \in Entry
BY DEF Indexed

LEMMA IndexInit == Init => IndexInv
<1> SUFFICES ASSUME Init PROVE IndexInv
  OBVIOUS
<1>1. DOMAIN rows = {} /\ ghosts = {} /\ repaired = FALSE
  BY DEF Init
<1>2. BTree(pages, 0) /\ Fits(pages) /\ Indexed(pages) = {}
  BY EmptyTree DEF Init
<1>3. rows \in [DOMAIN rows -> Keys]
  <2>1. rows = << >>
    BY DEF Init
  <2> QED
    BY <2>1
<1> QED
  BY <1>1, <1>2, <1>3 DEF IndexInv, IndexTypeOK, EntriesInv, RowsInv

\* A new row.
LEMMA NewRowKeeps == ASSUME IndexInv, NEW r \in 1 .. MaxRows, NEW k \in Keys, InsertRow(r, k) PROVE IndexInv'
<1> DEFINE e == <<k, r>>
           Q == LeafInsert(pages, e)
<1>1. /\ r \notin DOMAIN rows \cup ghosts /\ ghosts' = ghosts /\ repaired' = repaired
      /\ rows' = [x \in DOMAIN rows \cup {r} |-> IF x = r THEN k ELSE rows[x]]
      /\ pages' = Q
  BY DEF InsertRow
<1>2. e \in Entry /\ e[1] = k /\ e[2] = r
  BY DEF Entry
<1>3. e \notin Indexed(pages)
  BY <1>1, <1>2 DEF IndexInv, EntriesInv
<1> HIDE DEF e
<1>4. BTree(Q, 0) /\ Fits(Q) /\ Indexed(Q) = Indexed(pages) \cup {e}
  BY <1>2, <1>3, LeafInsertFacts DEF IndexInv, IndexTypeOK
<1> HIDE DEF Q
<1>5. /\ DOMAIN rows' = DOMAIN rows \cup {r} /\ rows'[r] = k
      /\ \A x \in DOMAIN rows : rows'[x] = rows[x]
  BY <1>1
<1>6. KeysOf(r)' = {k} \cup (IF repaired THEN {EmptyKey} ELSE {}) /\ \A x \in DOMAIN rows : KeysOf(x)' = KeysOf(x)
  BY <1>1, <1>5 DEF KeysOf
<1>7. IndexTypeOK'
  BY <1>1, <1>4, <1>5 DEF IndexInv, IndexTypeOK
<1>8. EntriesInv'
  <2> SUFFICES ASSUME NEW x \in Indexed(Q)
               PROVE  x[2] \in ghosts \/ (x[2] \in DOMAIN rows' /\ x[1] \in KeysOf(x[2])')
    BY <1>1 DEF EntriesInv
  <2>1. CASE x = e
    BY <1>2, <1>5, <1>6, <2>1
  <2>2. CASE x \in Indexed(pages)
    BY <1>5, <1>6, <2>2 DEF IndexInv, EntriesInv
  <2> QED
    BY <1>4, <2>1, <2>2
<1>9. RowsInv'
  <2> SUFFICES ASSUME NEW x \in DOMAIN rows' PROVE \E y \in Indexed(Q) : y[2] = x /\ y[1] \in KeysOf(x)'
    BY <1>1 DEF RowsInv
  <2>1. CASE x = r
    BY <1>2, <1>4, <1>6, <2>1
  <2>2. CASE x \in DOMAIN rows
    BY <1>4, <1>6, <2>2 DEF IndexInv, RowsInv
  <2> QED
    BY <1>5, <2>1, <2>2
<1> QED
  BY <1>7, <1>8, <1>9 DEF IndexInv

\* A row under another key.
LEMMA ReindexKeeps == ASSUME IndexInv, NEW r \in 1 .. MaxRows, NEW k \in Keys, ReindexRow(r, k) PROVE IndexInv'
<1> DEFINE e == <<k, r>>
           erased == EraseRowRefs(pages, r)
           P == erased.pages
           Q == LeafInsert(P, e)
<1>1. /\ r \in DOMAIN rows /\ erased.ok /\ ghosts' = ghosts /\ repaired' = repaired
      /\ rows' = [rows EXCEPT ![r] = k] /\ pages' = Q
  BY DEF ReindexRow
<1>2. e \in Entry /\ e[1] = k /\ e[2] = r
  BY DEF Entry
<1>3. RowErasure(pages, r, erased)
  BY EraseRowFacts DEF IndexInv, IndexTypeOK
<1> HIDE DEF erased
<1>4. /\ BTree(P, 0) /\ Fits(P) /\ Indexed(P) \subseteq Indexed(pages)
      /\ \A x \in Indexed(pages) : x[2] # r => x \in Indexed(P)
      /\ \A x \in Indexed(P) : x[2] # r
  BY <1>1, <1>3 DEF RowErasure
<1>5. e \notin Indexed(P)
  BY <1>2, <1>4
<1> HIDE DEF e, P
<1>6. BTree(Q, 0) /\ Fits(Q) /\ Indexed(Q) = Indexed(P) \cup {e}
  BY <1>2, <1>4, <1>5, LeafInsertFacts
<1> HIDE DEF Q
<1>7. /\ DOMAIN rows' = DOMAIN rows /\ rows'[r] = k /\ rows' \in [DOMAIN rows -> Keys]
      /\ \A x \in DOMAIN rows : x # r => rows'[x] = rows[x]
  BY <1>1 DEF IndexInv, IndexTypeOK
<1>8. k \in KeysOf(r)' /\ \A x \in DOMAIN rows : x # r => KeysOf(x)' = KeysOf(x)
  BY <1>1, <1>7 DEF KeysOf
<1>9. IndexTypeOK'
  BY <1>1, <1>6, <1>7 DEF IndexInv, IndexTypeOK
<1>10. EntriesInv'
  <2> SUFFICES ASSUME NEW x \in Indexed(Q)
               PROVE  x[2] \in ghosts \/ (x[2] \in DOMAIN rows' /\ x[1] \in KeysOf(x[2])')
    BY <1>1 DEF EntriesInv
  <2>1. CASE x = e
    BY <1>1, <1>2, <1>7, <1>8, <2>1
  <2>2. CASE x \in Indexed(P)
    BY <1>4, <1>7, <1>8, <2>2 DEF IndexInv, EntriesInv
  <2> QED
    BY <1>6, <2>1, <2>2
<1>11. RowsInv'
  <2> SUFFICES ASSUME NEW x \in DOMAIN rows' PROVE \E y \in Indexed(Q) : y[2] = x /\ y[1] \in KeysOf(x)'
    BY <1>1 DEF RowsInv
  <2>1. CASE x = r
    BY <1>2, <1>6, <1>8, <2>1
  <2>2. CASE x # r
    <3>1. PICK y \in Indexed(pages) : y[2] = x /\ y[1] \in KeysOf(x)
      BY <1>7 DEF IndexInv, RowsInv
    <3> QED
      BY <1>4, <1>6, <1>7, <1>8, <2>2, <3>1
  <2> QED
    BY <2>1, <2>2
<1> QED
  BY <1>9, <1>10, <1>11 DEF IndexInv

\* A row that is deleted.
LEMMA RetireKeeps == ASSUME IndexInv, NEW r \in 1 .. MaxRows, RetireRow(r) PROVE IndexInv'
<1> DEFINE erased == EraseRowRefs(pages, r)
           P == erased.pages
<1>1. /\ r \in DOMAIN rows /\ repaired' = repaired /\ pages' = P
      /\ rows' = [x \in DOMAIN rows \ {r} |-> rows[x]]
      /\ ghosts' = IF erased.ok THEN ghosts ELSE ghosts \cup {r}
  BY DEF RetireRow, Restrict
<1>2. RowErasure(pages, r, erased)
  BY EraseRowFacts DEF IndexInv, IndexTypeOK
<1> HIDE DEF erased
<1>3. /\ BTree(P, 0) /\ Fits(P) /\ Indexed(P) \subseteq Indexed(pages)
      /\ \A x \in Indexed(pages) : x[2] # r => x \in Indexed(P)
      /\ erased.ok => \A x \in Indexed(P) : x[2] # r
  BY <1>1, <1>2 DEF RowErasure
<1> HIDE DEF P
<1>4. /\ DOMAIN rows' = DOMAIN rows \ {r}
      /\ \A x \in DOMAIN rows' : rows'[x] = rows[x]
  BY <1>1
<1>5. \A x \in DOMAIN rows' : KeysOf(x)' = KeysOf(x)
  BY <1>1, <1>4 DEF KeysOf
<1>6. IndexTypeOK'
  <2>1. rows' \in [DOMAIN rows' -> Keys]
    BY <1>1 DEF IndexInv, IndexTypeOK
  <2> QED
    BY <1>1, <1>3, <1>4, <2>1 DEF IndexInv, IndexTypeOK
<1>7. EntriesInv'
  <2> SUFFICES ASSUME NEW x \in Indexed(P)
               PROVE  x[2] \in ghosts' \/ (x[2] \in DOMAIN rows' /\ x[1] \in KeysOf(x[2])')
    BY <1>1 DEF EntriesInv
  <2>1. x[2] \in ghosts \/ (x[2] \in DOMAIN rows /\ x[1] \in KeysOf(x[2]))
    BY <1>3 DEF IndexInv, EntriesInv
  <2>2. x[2] = r => r \in ghosts'
    BY <1>1, <1>3
  <2> QED
    BY <1>1, <1>4, <1>5, <2>1, <2>2
<1>8. RowsInv'
  <2> SUFFICES ASSUME NEW x \in DOMAIN rows' PROVE \E y \in Indexed(P) : y[2] = x /\ y[1] \in KeysOf(x)'
    BY <1>1 DEF RowsInv
  <2>1. PICK y \in Indexed(pages) : y[2] = x /\ y[1] \in KeysOf(x)
    BY <1>4 DEF IndexInv, RowsInv
  <2> QED
    BY <1>3, <1>4, <1>5, <2>1
<1> QED
  BY <1>6, <1>7, <1>8 DEF IndexInv

\* An index whose entries are taken for those of empty rows.
LEMMA RepairKeeps == ASSUME IndexInv, RepairIndex PROVE IndexInv'
<1> DEFINE Q == RepairedPages(pages)
<1>1. rows' = rows /\ ghosts' = ghosts /\ repaired' = TRUE /\ pages' = Q
  BY DEF RepairIndex
<1>2. Repair(pages, Q)
  BY RepairFacts DEF IndexInv, IndexTypeOK
<1> HIDE DEF Q
<1>3. \A x : KeysOf(x)' = {rows[x], EmptyKey} /\ KeysOf(x) \subseteq KeysOf(x)'
  BY <1>1 DEF KeysOf
<1>4. \A x : Empty(x)[1] = EmptyKey /\ Empty(x)[2] = x[2]
  BY DEF Empty
<1>5. IndexTypeOK'
  BY <1>1, <1>2 DEF IndexInv, IndexTypeOK, Repair
<1>6. EntriesInv'
  <2> SUFFICES ASSUME NEW x \in Indexed(Q)
               PROVE  x[2] \in ghosts \/ (x[2] \in DOMAIN rows /\ x[1] \in KeysOf(x[2])')
    BY <1>1 DEF EntriesInv
  <2>1. PICK y \in Indexed(pages) : x = y \/ x = Empty(y)
    BY <1>2 DEF Repair
  <2>2. y[2] \in ghosts \/ (y[2] \in DOMAIN rows /\ y[1] \in KeysOf(y[2]))
    BY DEF IndexInv, EntriesInv
  <2>3. CASE x = y
    BY <1>3, <2>2, <2>3
  <2>4. CASE x = Empty(y)
    BY <1>3, <1>4, <2>2, <2>4
  <2> QED
    BY <2>1, <2>3, <2>4
<1>7. RowsInv'
  <2> SUFFICES ASSUME NEW x \in DOMAIN rows PROVE \E y \in Indexed(Q) : y[2] = x /\ y[1] \in KeysOf(x)'
    BY <1>1 DEF RowsInv
  <2>1. PICK y \in Indexed(pages) : y[2] = x /\ y[1] \in KeysOf(x)
    BY DEF IndexInv, RowsInv
  <2>2. y \in Indexed(Q) \/ Empty(y) \in Indexed(Q)
    BY <1>2 DEF Repair
  <2> QED
    BY <1>3, <1>4, <2>1, <2>2
<1> QED
  BY <1>5, <1>6, <1>7 DEF IndexInv

LEMMA IndexStep == IndexInv /\ [Next]_vars => IndexInv'
<1> SUFFICES ASSUME IndexInv, [Next]_vars PROVE IndexInv'
  OBVIOUS
<1>1. ASSUME NEW r \in 1 .. MaxRows, NEW k \in Keys, InsertRow(r, k) PROVE IndexInv'
  BY <1>1, NewRowKeeps
<1>2. ASSUME NEW r \in 1 .. MaxRows, NEW k \in Keys, ReindexRow(r, k) PROVE IndexInv'
  BY <1>2, ReindexKeeps
<1>3. ASSUME NEW r \in 1 .. MaxRows, RetireRow(r) PROVE IndexInv'
  BY <1>3, RetireKeeps
<1>4. CASE RepairIndex
  BY <1>4, RepairKeeps
<1>5. CASE UNCHANGED vars
  <2>1. rows' = rows /\ pages' = pages /\ ghosts' = ghosts /\ repaired' = repaired
    BY <1>5 DEF vars
  <2>2. IndexTypeOK'
    BY <2>1 DEF IndexInv, IndexTypeOK
  <2>3. EntriesInv' /\ RowsInv'
    BY <2>1 DEF IndexInv, EntriesInv, RowsInv, KeysOf
  <2> QED
    BY <2>2, <2>3 DEF IndexInv
<1> QED
  BY <1>1, <1>2, <1>3, <1>4, <1>5 DEF Next

\* A walk shows what the leaves hold.
LEMMA WalkSees == IndexInv => WalkSeesRows
<1> SUFFICES ASSUME IndexInv PROVE WalkSeesRows
  OBVIOUS
<1> DEFINE w == Walk(pages)
           keys(r) == {rows[r]} \cup (IF repaired THEN {EmptyKey} ELSE {})
<1>1. /\ w \in Seq(Entry) /\ Len(w) \in Nat
      /\ \A k, l \in 1 .. Len(w) : k < l => Less(w[k], w[l])
      /\ \A e : (\E k \in 1 .. Len(w) : w[k] = e) <=> e \in Indexed(pages)
  BY WalkFacts DEF IndexInv, IndexTypeOK
<1> HIDE DEF w
<1>2. ToSet(w) = Indexed(pages)
  <2>1. ToSet(w) = {w[k] : k \in 1 .. Len(w)}
    BY <1>1 DEF ToSet
  <2> QED
    BY <1>1, <2>1
<1>3. \A i \in 1 .. Len(w) - 1 : Less(w[i], w[i + 1])
  <2> TAKE i \in 1 .. Len(w) - 1
  <2>1. i \in 1 .. Len(w) /\ i + 1 \in 1 .. Len(w) /\ i < i + 1
    BY <1>1
  <2> QED
    BY <1>1, <2>1
<1>4. \A r \in DOMAIN rows : ToSet(w) \cap (keys(r) \X {r}) # {}
  <2> TAKE r \in DOMAIN rows
  <2>1. PICK e \in Indexed(pages) : e[2] = r /\ e[1] \in keys(r)
    BY DEF IndexInv, RowsInv, KeysOf
  <2>2. e = <<e[1], e[2]>>
    BY IndexedType, EntryParts
  <2> HIDE DEF keys
  <2>3. e \in keys(r) \X {r}
    BY <2>1, <2>2
  <2> QED
    BY <1>2, <2>3
<1>5. \A e \in ToSet(w) : e[2] \in ghosts \/ (e[2] \in DOMAIN rows /\ e[1] \in keys(e[2]))
  BY <1>2 DEF IndexInv, EntriesInv, KeysOf
<1> QED
  BY <1>3, <1>4, <1>5 DEF WalkSeesRows, w

\* A search leads to what a walk shows, and an erasure is refused for a tail only.
LEMMA SearchErases == IndexInv => EntriesErasable
<1> SUFFICES ASSUME IndexInv, NEW e \in ToSet(Walk(pages))
             PROVE  /\ \E x \in ToSet(pages[Last(FindLeaf(pages, e))].entries) : x.e = e
                    /\ EraseEntry(pages, e).ok <=> ~ TailStays(FindLeaf(pages, e))
  BY DEF EntriesErasable
<1>1. BTree(pages, 0) /\ Fits(pages)
  BY DEF IndexInv, IndexTypeOK
<1>2. e \in Indexed(pages) /\ e \in Entry
  <2>1. ToSet(Walk(pages)) = {Walk(pages)[k] : k \in 1 .. Len(Walk(pages))}
    BY <1>1, WalkFacts DEF ToSet
  <2>2. PICK k \in 1 .. Len(Walk(pages)) : Walk(pages)[k] = e
    BY <2>1
  <2>3. e \in Indexed(pages)
    BY <1>1, <2>2, WalkFacts
  <2> QED
    BY <2>3, IndexedType
<1> DEFINE path == FindLeaf(pages, e)
           s == pages[path[Len(path)]].entries
           x == EraseEntry(pages, e)
<1>3. LeafOf(pages, path, e)
  BY <1>1, <1>2, LeafOfIs
<1>4. Erasure(pages, e, x)
  BY <1>1, <1>2, EraseEntryFacts
<1> HIDE DEF x
<1>5. x.ok <=> ~ Stays(pages, path)
  BY <1>2, <1>4 DEF Erasure
<1>6. TailStays(path) <=> Stays(pages, path)
  BY DEF TailStays, Stays
<1>7. path[Len(path)] = Last(path) /\ s \in Seq(ItemSet) /\ Has(s, e)
  BY <1>2, <1>3 DEF LeafOf
<1>8. \E y \in ToSet(s) : y.e = e
  <2> HIDE DEF s, path
  <2>1. ToSet(s) = {s[k] : k \in 1 .. Len(s)}
    BY <1>7 DEF ToSet
  <2>2. PICK k \in 1 .. Len(s) : s[k].e = e
    BY <1>7 DEF Has
  <2> QED
    BY <2>1, <2>2
<1>9. s = pages[Last(path)].entries
  BY <1>7
<1> QED
  BY <1>5, <1>6, <1>8, <1>9 DEF x, path

LEMMA InvServes == IndexInv => IndexServes
BY WalkSees, SearchErases DEF IndexServes

-----------------------------------------------------------------------------
(* The files *)

\* The index minds nothing of an export, nor an export the index.
FilesInv == IndexInv /\ TypeInv /\ ExportInv

LEMMA IndexStays == ASSUME IndexInv, UNCHANGED vars PROVE IndexInv'
BY IndexStep

LEMMA ExportStays == ASSUME TypeInv, ExportInv, UNCHANGED exportVars PROVE TypeInv' /\ ExportInv'
BY InvStep

LEMMA FilesInvHolds == FilesSpec => []FilesInv
<1>1. FilesInit => FilesInv
  BY IndexInit, InvInit DEF FilesInit, FilesInv
<1>2. ASSUME FilesInv, [FilesNext]_<<part, vars, exportVars>> PROVE FilesInv'
  <2>1. IndexInv /\ TypeInv /\ ExportInv
    BY <1>2 DEF FilesInv
  <2>2. CASE Next /\ UNCHANGED <<part, exportVars>>
    <3>1. UNCHANGED exportVars
      BY <2>2
    <3> QED
      BY <2>1, <2>2, <3>1, IndexStep, ExportStays DEF FilesInv
  <2>3. CASE ExportNext /\ UNCHANGED <<part, vars>>
    <3>1. UNCHANGED vars
      BY <2>3
    <3> QED
      BY <2>1, <2>3, <3>1, InvStep, IndexStays DEF FilesInv
  <2>4. CASE UNCHANGED <<part, vars, exportVars>>
    <3>1. UNCHANGED vars /\ UNCHANGED exportVars
      BY <2>4
    <3> QED
      BY <2>1, <3>1, ExportStays, IndexStays DEF FilesInv
  <2> QED
    BY <1>2, <2>2, <2>3, <2>4 DEF FilesNext
<1> QED
  BY <1>1, <1>2, PTL DEF FilesSpec
-----------------------------------------------------------------------------
(* Theorems *)

\* Whatever is split, emptied, unlinked or divided anew, the pages of the index
\* are a B-tree (splitPage, removeIndexPage, propagateMaxChange), and the file of
\* an export is of its type.
THEOREM FilesTypeCorrect == FilesSpec => []FilesTypeOK
<1>1. FilesInv => FilesTypeOK
  BY TypesAreRight DEF FilesInv, FilesTypeOK, IndexInv
<1> QED
  BY <1>1, FilesInvHolds, PTL

\* The index serves its table: a walk shows the rows and nothing else but what a
\* refused erasure has left, a search leads to every entry, and an erasure is
\* refused for a tail only (walkIndex, findLeaf, eraseEntry).
THEOREM IndexAlwaysServes == FilesSpec => []IndexServes
<1>1. FilesInv => IndexServes
  BY InvServes DEF FilesInv
<1> QED
  BY <1>1, FilesInvHolds, PTL
=============================================================================
