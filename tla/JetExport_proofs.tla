------------------------- MODULE JetExport_proofs -------------------------
(***************************************************************************)
(* Theorems about JetExport, for every set of parties, vouchers and years. *)
(***************************************************************************)
EXTENDS JetExport, Maxima

-----------------------------------------------------------------------------
(* Sums over finite sets *)

\* t is the sum of w over every subset of S, taken as the fold takes it.
IsSum(t, w, S) ==
    /\ DOMAIN t = SUBSET S /\ t = [s \in SUBSET S |-> t[s]]
    /\ \A s \in SUBSET S :
        t[s] = IF s = {} THEN 0 ELSE w[CHOOSE r \in s : TRUE] + t[s \ {CHOOSE r \in s : TRUE}]

\* There is one, by the smallest size for which there would be none.
LEMMA SumExists ==
    ASSUME NEW S, IsFiniteSet(S), NEW w, \A r \in S : w[r] \in Int
    PROVE  \E t : IsSum(t, w, S)
<1> DEFINE Sums(t, n) == \A s \in SUBSET S : Cardinality(s) <= n =>
               t[s] = IF s = {} THEN 0 ELSE w[CHOOSE r \in s : TRUE] + t[s \ {CHOOSE r \in s : TRUE}]
           Good(n) == \E t \in [SUBSET S -> Int] : Sums(t, n)
           Bad == {n \in Nat : ~ Good(n)}
<1>1. \A s \in SUBSET S : IsFiniteSet(s) /\ Cardinality(s) \in Nat
  BY FS_Subset, FS_CardinalityType
<1>2. Good(0)
  <2> DEFINE t == [s \in SUBSET S |-> 0]
  <2>1. t \in [SUBSET S -> Int]
    OBVIOUS
  <2>2. ASSUME NEW s \in SUBSET S, Cardinality(s) <= 0 PROVE s = {} /\ t[s] = 0
    BY <1>1, <2>2, FS_EmptySet
  <2>3. Sums(t, 0)
    BY <2>2
  <2> QED
    BY <2>1, <2>3
<1>3. ASSUME NEW n \in Nat, Good(n) PROVE Good(n + 1)
  <2>1. PICK t \in [SUBSET S -> Int] : Sums(t, n)
    BY <1>3
  <2> DEFINE One(s) == CHOOSE r \in s : TRUE
             u == [s \in SUBSET S |-> IF Cardinality(s) <= n THEN t[s] ELSE w[One(s)] + t[s \ {One(s)}]]
  <2>2. \A s \in SUBSET S : s # {} => One(s) \in s
    OBVIOUS
  <2>3. u \in [SUBSET S -> Int]
    <3>1. ASSUME NEW s \in SUBSET S, ~ (Cardinality(s) <= n) PROVE w[One(s)] + t[s \ {One(s)}] \in Int
      <4>1. s # {}
        <5>1. Cardinality({}) = 0
          BY FS_EmptySet
        <5>2. 0 <= n
          OBVIOUS
        <5> QED
          BY <3>1, <5>1, <5>2, Zenon
      <4> HIDE DEF One
      <4>2. w[One(s)] \in Int /\ t[s \ {One(s)}] \in Int
        BY <2>2, <4>1
      <4> QED
        BY <4>2
    <3> HIDE DEF One
    <3> QED
      BY <3>1
  <2>4. ASSUME NEW s \in SUBSET S, Cardinality(s) <= n + 1
        PROVE  u[s] = IF s = {} THEN 0 ELSE w[One(s)] + u[s \ {One(s)}]
    <3>1. CASE s = {}
      <4>1. Cardinality({}) = 0
        BY FS_EmptySet
      <4>2. u[{}] = t[{}]
        BY <4>1
      <4>3. t[{}] = 0
        BY <2>1, <4>1
      <4> QED
        BY <3>1, <4>2, <4>3
    <3>2. CASE s # {}
      <4>1. Cardinality(s \ {One(s)}) = Cardinality(s) - 1
        BY <1>1, <2>2, <3>2, FS_RemoveElement
      <4>2. s \ {One(s)} \in SUBSET S /\ Cardinality(s \ {One(s)}) <= n
        BY <1>1, <2>4, <4>1
      <4>3. u[s \ {One(s)}] = t[s \ {One(s)}]
        BY <4>2
      <4>4. CASE Cardinality(s) <= n
        <5>1. u[s] = t[s]
          BY <4>4
        <5>2. t[s] = w[One(s)] + t[s \ {One(s)}]
          BY <2>1, <3>2, <4>4
        <5> QED
          BY <3>2, <4>3, <5>1, <5>2
      <4>5. CASE ~ (Cardinality(s) <= n)
        BY <3>2, <4>3, <4>5
      <4> QED
        BY <4>4, <4>5
    <3> QED
      BY <3>1, <3>2
  <2>5. Sums(u, n + 1)
    BY <2>4
  <2> HIDE DEF u
  <2> QED
    BY <2>3, <2>5
<1>4. Bad = {}
  <2> SUFFICES ASSUME Bad # {} PROVE FALSE
    OBVIOUS
  <2> HIDE DEF Good
  <2>1. PICK n \in Bad : \A m \in Bad : n <= m
    <3>1. Bad \subseteq Nat
      OBVIOUS
    <3> HIDE DEF Bad
    <3> QED
      BY <3>1, HasLeast
  <2>2. n # 0
    BY <1>2
  <2>3. n - 1 \in Nat /\ n - 1 \notin Bad
    BY <2>1, <2>2
  <2>4. Good((n - 1) + 1)
    BY <1>3, <2>3
  <2> QED
    BY <2>1, <2>4
<1>5. Good(Cardinality(S))
  <2> HIDE DEF Good
  <2> QED
    BY <1>1, <1>4
<1>6. PICK t \in [SUBSET S -> Int] : Sums(t, Cardinality(S))
  BY <1>5
<1>7. \A s \in SUBSET S : Cardinality(s) <= Cardinality(S)
  BY FS_Subset
<1> QED
  BY <1>6, <1>7 DEF IsSum

\* By a smallest set whose sum would be none.
LEMMA SumType ==
    ASSUME NEW S, IsFiniteSet(S), NEW w, \A r \in S : w[r] \in Int, NEW t, IsSum(t, w, S)
    PROVE  \A s \in SUBSET S : t[s] \in Int
<1> DEFINE Bad == {s \in SUBSET S : t[s] \notin Int}
<1>1. Bad = {}
  <2> SUFFICES ASSUME Bad # {} PROVE FALSE
    OBVIOUS
  <2>1. PICK s \in Bad : \A q \in Bad : <<q, s>> \notin StrictSubsetOrdering(S)
    <3>1. IsWellFoundedOn(StrictSubsetOrdering(S), SUBSET S)
      BY FS_StrictSubsetOrderingWellFounded, FS_FiniteSubsetsOfFinite
    <3>2. Bad \subseteq SUBSET S
      OBVIOUS
    <3> HIDE DEF Bad
    <3> QED
      BY <3>1, <3>2, WFMin
  <2>2. CASE s = {}
    <3>1. t[{}] = 0
      BY DEF IsSum
    <3> QED
      BY <2>1, <2>2, <3>1
  <2>3. CASE s # {}
    <3> DEFINE y == CHOOSE r \in s : TRUE
    <3>1. s \in SUBSET S /\ y \in s
      BY <2>1, <2>3
    <3>2. t[s] = w[y] + t[s \ {y}]
      BY <2>3, <3>1 DEF IsSum
    <3> HIDE DEF y
    <3>3. t[s \ {y}] \in Int
      <4>1. s \ {y} \in SUBSET S /\ s \ {y} # s
        BY <3>1
      <4>2. <<s \ {y}, s>> \in StrictSubsetOrdering(S)
        BY <3>1, <4>1 DEF StrictSubsetOrdering
      <4>3. s \ {y} \notin Bad
        BY <2>1, <4>2
      <4> QED
        BY <4>1, <4>3
    <3>4. w[y] \in Int
      BY <3>1
    <3> QED
      BY <2>1, <3>2, <3>3, <3>4
  <2> QED
    BY <2>2, <2>3
<1> QED
  BY <1>1

\* It does not matter which element is taken first, by a smallest set of which
\* it would.
LEMMA SumTakes ==
    ASSUME NEW S, IsFiniteSet(S), NEW w, \A r \in S : w[r] \in Int, NEW t, IsSum(t, w, S)
    PROVE  \A s \in SUBSET S : \A x \in s : t[s] = w[x] + t[s \ {x}]
<1> DEFINE Takes(s) == \A x \in s : t[s] = w[x] + t[s \ {x}]
           Bad == {s \in SUBSET S : ~ Takes(s)}
<1>1. Bad = {}
  <2> SUFFICES ASSUME Bad # {} PROVE FALSE
    OBVIOUS
  <2>1. PICK s \in Bad : \A u \in Bad : <<u, s>> \notin StrictSubsetOrdering(S)
    <3>1. IsWellFoundedOn(StrictSubsetOrdering(S), SUBSET S)
      BY FS_StrictSubsetOrderingWellFounded, FS_FiniteSubsetsOfFinite
    <3>2. Bad \subseteq SUBSET S
      OBVIOUS
    <3> HIDE DEF Bad
    <3> QED
      BY <3>1, <3>2, WFMin
  <2>2. \A u \in SUBSET S : u \subseteq s /\ u # s => Takes(u)
    BY <2>1 DEF StrictSubsetOrdering
  <2>3. PICK x \in s : t[s] # w[x] + t[s \ {x}]
    BY <2>1
  <2> DEFINE y == CHOOSE r \in s : TRUE
  <2>4. s \in SUBSET S /\ y \in s
    BY <2>1, <2>3
  <2>5. t[s] = w[y] + t[s \ {y}]
    BY <2>3, <2>4 DEF IsSum
  <2> HIDE DEF y
  <2>6. x # y
    BY <2>3, <2>5
  <2>7. t[s \ {y}] = w[x] + t[(s \ {y}) \ {x}]
    <3>1. s \ {y} \in SUBSET S /\ s \ {y} # s /\ x \in s \ {y}
      BY <2>4, <2>6
    <3> QED
      BY <2>2, <3>1
  <2>8. t[s \ {x}] = w[y] + t[(s \ {y}) \ {x}]
    <3>1. s \ {x} \in SUBSET S /\ s \ {x} # s /\ y \in s \ {x}
      BY <2>4, <2>6
    <3>2. t[s \ {x}] = w[y] + t[(s \ {x}) \ {y}]
      BY <2>2, <3>1
    <3>3. (s \ {x}) \ {y} = (s \ {y}) \ {x}
      OBVIOUS
    <3> QED
      BY <3>2, <3>3, Zenon
  <2>9. w[x] \in Int /\ w[y] \in Int /\ t[(s \ {y}) \ {x}] \in Int
    <3>1. x \in S /\ y \in S /\ (s \ {y}) \ {x} \in SUBSET S
      BY <2>4
    <3> QED
      BY <3>1, SumType
  <2> QED
    BY <2>3, <2>5, <2>7, <2>8, <2>9
<1> QED
  BY <1>1

\* Sums over a set are those of any set around it.
LEMMA SumAgrees ==
    ASSUME NEW S, NEW R, IsFiniteSet(S), NEW w, NEW v, NEW t, NEW u,
           IsSum(t, w, S), IsSum(u, v, R), NEW A, A \subseteq S, A \subseteq R,
           \A r \in A : v[r] = w[r]
    PROVE  t[A] = u[A]
<1> DEFINE Bad == {s \in SUBSET A : t[s] # u[s]}
<1>1. Bad = {}
  <2> SUFFICES ASSUME Bad # {} PROVE FALSE
    OBVIOUS
  <2>1. PICK s \in Bad : \A q \in Bad : <<q, s>> \notin StrictSubsetOrdering(S)
    <3>1. IsWellFoundedOn(StrictSubsetOrdering(S), SUBSET S)
      BY FS_StrictSubsetOrderingWellFounded, FS_FiniteSubsetsOfFinite
    <3>2. Bad \subseteq SUBSET S
      OBVIOUS
    <3> HIDE DEF Bad
    <3> QED
      BY <3>1, <3>2, WFMin
  <2>2. CASE s = {}
    <3>1. t[{}] = 0 /\ u[{}] = 0
      BY DEF IsSum
    <3> QED
      BY <2>1, <2>2, <3>1
  <2>3. CASE s # {}
    <3> DEFINE y == CHOOSE r \in s : TRUE
    <3>1. s \in SUBSET S /\ s \in SUBSET R /\ y \in s /\ y \in A
      BY <2>1, <2>3
    <3>2. t[s] = w[y] + t[s \ {y}] /\ u[s] = v[y] + u[s \ {y}]
      BY <2>3, <3>1 DEF IsSum
    <3> HIDE DEF y
    <3>3. t[s \ {y}] = u[s \ {y}]
      <4>1. s \ {y} \in SUBSET S /\ s \ {y} # s
        BY <3>1
      <4>2. <<s \ {y}, s>> \in StrictSubsetOrdering(S)
        BY <3>1, <4>1 DEF StrictSubsetOrdering
      <4>3. s \ {y} \notin Bad
        BY <2>1, <4>2
      <4> QED
        BY <2>1, <4>3
    <3>4. v[y] = w[y]
      BY <3>1
    <3> QED
      BY <2>1, <3>2, <3>3, <3>4
  <2> QED
    BY <2>2, <2>3
<1> QED
  BY <1>1
-----------------------------------------------------------------------------
(* What the rows of a code come to *)

Total(rows, c) ==
    MapThenFoldSet(+, 0, LAMBDA r : rows[r] * Signed(r), LAMBDA legs : CHOOSE r \in legs : TRUE,
                   {r \in DOMAIN rows : r.code = c})

RowsWith(rows, c) == {r \in DOMAIN rows : r.code = c}

Worth(rows) == [r \in DOMAIN rows |-> rows[r] * Signed(r)]

\* A row as the sums need it.
RowsCount(rows) ==
    /\ IsFiniteSet(DOMAIN rows)
    /\ \A r \in DOMAIN rows : rows[r] \in Nat \ {0} /\ r.amount \in Int

LEMMA TotalIs ==
    ASSUME NEW rows, RowsCount(rows), NEW c
    PROVE  \E t : IsSum(t, Worth(rows), RowsWith(rows, c)) /\ Total(rows, c) = t[RowsWith(rows, c)]
<1> DEFINE S == RowsWith(rows, c)
           One(s) == CHOOSE r \in s : TRUE
           Is(t) == t = [s \in SUBSET S |-> IF s = {} THEN 0 ELSE rows[One(s)] * Signed(One(s)) + t[s \ {One(s)}]]
<1>1. IsFiniteSet(S) /\ \A r \in S : Worth(rows)[r] \in Int
  <2>1. S \subseteq DOMAIN rows
    BY DEF RowsWith
  <2>2. IsFiniteSet(S)
    BY <2>1, FS_Subset DEF RowsCount
  <2>3. \A r \in S : rows[r] \in Int /\ Signed(r) \in Int
    BY <2>1 DEF RowsCount, Signed
  <2> QED
    BY <2>1, <2>2, <2>3 DEF Worth
<1>2. \A s \in SUBSET S : s # {} => One(s) \in s /\ Worth(rows)[One(s)] = rows[One(s)] * Signed(One(s))
  BY DEF Worth, RowsWith
<1>3. ASSUME NEW t, IsSum(t, Worth(rows), S) PROVE Is(t)
  <2> HIDE DEF S, One
  <2>1. \A s \in SUBSET S : t[s] = IF s = {} THEN 0 ELSE rows[One(s)] * Signed(One(s)) + t[s \ {One(s)}]
    BY <1>2, <1>3 DEF IsSum, One
  <2> QED
    BY <1>3, <2>1 DEF IsSum
<1>4. ASSUME NEW t, Is(t) PROVE IsSum(t, Worth(rows), S)
  <2> HIDE DEF S
  <2>1. DOMAIN t = SUBSET S /\ t = [s \in SUBSET S |-> t[s]]
    BY <1>4
  <2>2. \A s \in SUBSET S : t[s] = IF s = {} THEN 0 ELSE rows[One(s)] * Signed(One(s)) + t[s \ {One(s)}]
    BY <1>4
  <2> QED
    BY <1>2, <2>1, <2>2 DEF IsSum
<1>5. Total(rows, c) = (CHOOSE t : Is(t))[S]
  BY DEF Total, MapThenFoldSet, RowsWith
<1>6. \E t : Is(t)
  <2> HIDE DEF S, Is
  <2> QED
    BY <1>1, <1>3, SumExists
<1>7. Is(CHOOSE t : Is(t))
  <2> HIDE DEF Is
  <2> QED
    BY <1>6
<1> QED
  <2> HIDE DEF S, Is
  <2>1. IsSum(CHOOSE t : Is(t), Worth(rows), S)
    BY <1>4, <1>7
  <2> QED
    BY <1>5, <2>1 DEF S

\* The rows with one more of a leg.
With(rows, leg) ==
    [r \in DOMAIN rows \cup {leg} |->
        (IF r \in DOMAIN rows THEN rows[r] ELSE 0) + IF r = leg THEN 1 ELSE 0]

LEMMA WithCounts ==
    ASSUME NEW rows, RowsCount(rows), NEW leg, leg.amount \in Int
    PROVE  RowsCount(With(rows, leg))
<1>1. IsFiniteSet(DOMAIN With(rows, leg))
  BY FS_AddElement DEF RowsCount, With
<1>2. ASSUME NEW r \in DOMAIN With(rows, leg)
      PROVE  With(rows, leg)[r] \in Nat \ {0} /\ r.amount \in Int
  <2>1. CASE r \in DOMAIN rows
    BY <1>2, <2>1 DEF RowsCount, With
  <2>2. CASE r \notin DOMAIN rows
    BY <1>2, <2>2 DEF RowsCount, With
  <2> QED
    BY <2>1, <2>2
<1> QED
  BY <1>1, <1>2 DEF RowsCount

\* Another row of a leg moves what the rows of its code come to, and no other code.
LEMMA TotalMoves ==
    ASSUME NEW rows, RowsCount(rows), NEW leg, leg.amount \in Int, NEW c
    PROVE  /\ Total(rows, c) \in Int
           /\ Total(With(rows, leg), c) = Total(rows, c) + IF leg.code = c THEN Signed(leg) ELSE 0
<1> DEFINE more == With(rows, leg)
           S == RowsWith(rows, c)
           R == RowsWith(more, c)
           w == Worth(rows)
           v == Worth(more)
<1>1. RowsCount(more)
  BY WithCounts
<1>2. PICK t : IsSum(t, w, S) /\ Total(rows, c) = t[S]
  BY TotalIs
<1>3. PICK u : IsSum(u, v, R) /\ Total(more, c) = u[R]
  BY <1>1, TotalIs
<1>4. IsFiniteSet(S) /\ \A r \in S : w[r] \in Int
  <2>1. S \subseteq DOMAIN rows
    BY DEF RowsWith
  <2>2. \A r \in S : rows[r] \in Int /\ Signed(r) \in Int
    BY <2>1 DEF RowsCount, Signed
  <2> QED
    BY <2>1, <2>2, FS_Subset DEF RowsCount, Worth
<1>5. IsFiniteSet(R) /\ \A r \in R : v[r] \in Int
  <2>1. R \subseteq DOMAIN more
    BY DEF RowsWith
  <2>2. \A r \in R : more[r] \in Int /\ Signed(r) \in Int
    BY <1>1, <2>1 DEF RowsCount, Signed
  <2> QED
    BY <1>1, <2>1, <2>2, FS_Subset DEF RowsCount, Worth
<1>6. t[S] \in Int /\ \A s \in SUBSET S : t[s] \in Int
  BY <1>2, <1>4, SumType
<1>7. \A r \in DOMAIN rows \ {leg} : r \in DOMAIN more /\ more[r] = rows[r]
  BY DEF With, RowsCount
<1>8. S \ {leg} = R \ {leg}
  BY DEF RowsWith, With
<1>9. \A r \in S \ {leg} : v[r] = w[r]
  <2>1. S \subseteq DOMAIN rows
    BY DEF RowsWith
  <2> QED
    BY <1>7, <2>1 DEF Worth
<1>10. t[S \ {leg}] = u[S \ {leg}]
  <2> HIDE DEF S, R, w, v
  <2>1. S \ {leg} \subseteq S /\ S \ {leg} \subseteq R
    BY <1>8
  <2> QED
    BY <1>2, <1>3, <1>4, <1>9, <2>1, SumAgrees
<1>11. CASE leg.code # c
  <2>1. leg \notin S /\ leg \notin R
    BY <1>11 DEF RowsWith
  <2>2. S \ {leg} = S /\ S = R
    BY <1>8, <2>1
  <2>3. u[R] = t[S]
    BY <1>10, <2>2, Zenon
  <2>4. Total(more, c) = Total(rows, c) /\ Total(rows, c) \in Int
    BY <1>2, <1>3, <1>6, <2>3, Zenon
  <2> QED
    BY <1>11, <2>4
<1>12. CASE leg.code = c
  <2>1. leg \in R /\ Signed(leg) \in Int
    BY <1>12 DEF RowsWith, With, Signed
  <2>2. u[R] = v[leg] + u[R \ {leg}]
    <3> HIDE DEF R, v
    <3> QED
      BY <1>3, <1>5, <2>1, SumTakes
  <2>3. CASE leg \in DOMAIN rows
    <3>1. leg \in S
      BY <1>12, <2>3 DEF RowsWith
    <3>2. t[S] = w[leg] + t[S \ {leg}]
      <4> HIDE DEF S, w
      <4> QED
        BY <1>2, <1>4, <3>1, SumTakes
    <3>3. more[leg] = rows[leg] + 1 /\ rows[leg] \in Int /\ leg \in DOMAIN more
      BY <2>3 DEF With, RowsCount
    <3>4. v[leg] = (rows[leg] + 1) * Signed(leg) /\ w[leg] = rows[leg] * Signed(leg)
      BY <2>3, <3>3 DEF Worth
    <3> DEFINE n == rows[leg]
               m == Signed(leg)
    <3>5. (n + 1) * m = n * m + m /\ n * m \in Int
      <4> HIDE DEF n, m
      <4>1. n \in Int /\ m \in Int
        BY <2>1, <3>3 DEF n, m
      <4> QED
        BY <4>1
    <3>6. v[leg] = w[leg] + Signed(leg) /\ w[leg] \in Int
      BY <3>4, <3>5, Zenon
    <3>7. u[R] = t[S] + Signed(leg)
      <4>1. u[R \ {leg}] = t[S \ {leg}] /\ t[S \ {leg}] \in Int
        BY <1>6, <1>8, <1>10
      <4> HIDE DEF S, R, v, w
      <4> QED
        BY <2>1, <2>2, <3>2, <3>6, <4>1
    <3> QED
      BY <1>2, <1>3, <1>6, <1>12, <3>7
  <2>4. CASE leg \notin DOMAIN rows
    <3>1. leg \notin S /\ S \ {leg} = S
      BY <2>4 DEF RowsWith
    <3>2. more[leg] = 1 /\ leg \in DOMAIN more
      BY <2>4 DEF With
    <3>3. v[leg] = 1 * Signed(leg)
      BY <3>2 DEF Worth
    <3>4. v[leg] = Signed(leg)
      BY <2>1, <3>3
    <3>5. u[R \ {leg}] = t[S]
      BY <1>8, <1>10, <3>1
    <3>6. u[R] = t[S] + Signed(leg)
      <4> HIDE DEF S, R, v, w
      <4> QED
        BY <1>6, <2>1, <2>2, <3>4, <3>5
    <3> QED
      BY <1>2, <1>3, <1>6, <1>12, <3>6
  <2> QED
    BY <2>3, <2>4
<1> QED
  BY <1>2, <1>6, <1>11, <1>12
-----------------------------------------------------------------------------
(* Codes and legs *)

BooksType ==
    /\ parties \in Seq(Nat)
    /\ IsFiniteSet(DOMAIN book) /\ DOMAIN book \subseteq Nat
    /\ \A id \in DOMAIN book : book[id] \in Vouchers

\* A number names one voucher of its series in a year.
BooksUnique ==
    \A i, j \in DOMAIN book :
        book[i].series = book[j].series /\ Group(book[i]) = Group(book[j]) => i = j

LegType ==
    [group : BookYears \X VoucherNos, side : {"Dr", "Cr"}, row : 1 .. 2 * Cardinality(Series),
     amount : {1}, code : Codes \cup {0}]

LEMMA SeriesFinite == IsFiniteSet(Series) /\ Cardinality(Series) \in Nat
<1>1. IsFiniteSet({"Jrnl", "TDS"})
  <2>1. IsFiniteSet({} \cup {"Jrnl"})
    BY FS_AddElement, FS_EmptySet
  <2>2. IsFiniteSet(({} \cup {"Jrnl"}) \cup {"TDS"})
    BY <2>1, FS_AddElement
  <2>3. {"Jrnl", "TDS"} = ({} \cup {"Jrnl"}) \cup {"TDS"}
    OBVIOUS
  <2> QED
    BY <2>2, <2>3
<1> QED
  BY <1>1, FS_Subset, FS_CardinalityType, ExportConstants

LEMMA CodesType ==
    ASSUME parties \in Seq(Nat)
    PROVE  Codes \subseteq Nat \ {0} /\ \A p \in DOMAIN parties : LedgerCode(p) \in Codes
<1>1. \A p \in DOMAIN parties : LedgerCode(p) \in Nat \ {0}
  BY DEF LedgerCode
<1> QED
  BY <1>1 DEF Codes

LEMMA IdsType ==
    ASSUME BooksType, NEW g
    PROVE  /\ IdsOf(g) \subseteq DOMAIN book /\ IdsOf(g) \subseteq Nat /\ IsFiniteSet(IdsOf(g))
           /\ Cardinality(IdsOf(g)) \in Nat
           /\ IdsOf(g) # {} => g \in BookYears \X VoucherNos
<1>1. IdsOf(g) \subseteq DOMAIN book
  BY DEF IdsOf
<1>2. IsFiniteSet(IdsOf(g))
  BY <1>1, FS_Subset DEF BooksType
<1>3. ASSUME NEW id \in IdsOf(g) PROVE g \in BookYears \X VoucherNos
  BY DEF IdsOf, Group, BooksType, Vouchers
<1> QED
  BY <1>1, <1>2, <1>3, FS_CardinalityType DEF BooksType

\* A group has a voucher of each series at most.
LEMMA GroupsAreSmall ==
    ASSUME BooksType, BooksUnique, NEW g
    PROVE  Cardinality(IdsOf(g)) <= Cardinality(Series)
<1> DEFINE f == [id \in IdsOf(g) |-> book[id].series]
<1>1. f \in [IdsOf(g) -> Series]
  BY IdsType DEF BooksType, Vouchers
<1>2. ASSUME NEW i \in IdsOf(g), NEW j \in IdsOf(g), f[i] = f[j] PROVE i = j
  BY <1>2 DEF IdsOf, BooksUnique
<1>3. f \in Injection(IdsOf(g), Series)
  BY <1>1, <1>2 DEF Injection, IsInjective
<1> QED
  BY <1>3, SeriesFinite, FS_Injection DEF ExistsInjection

LEMMA LegsAre ==
    ASSUME BooksType, BooksUnique, NEW g, NEW leg \in LegsOf(g)
    PROVE  leg \in LegType /\ leg.group = g /\ g \in BookYears \X VoucherNos /\ IdsOf(g) # {}
<1> DEFINE ids == IdsOf(g)
           Rank(id) == Cardinality({i \in ids : i <= id})
<1>1. PICK id \in ids, side \in {"Dr", "Cr"} :
        leg = [group |-> g, side |-> side, row |-> Rank(id) + IF side = "Dr" THEN 0 ELSE Cardinality(ids),
               amount |-> book[id].amount,
               code |-> AcCode(book[id].series, IF side = "Dr" THEN book[id].dr ELSE book[id].cr)]
  <2>1. PICK id \in ids, side \in {"Dr", "Cr"} : leg = LegOf(id, side)
    BY DEF LegsOf
  <2>2. Group(book[id]) = g
    BY <2>1 DEF IdsOf
  <2>3. RowOf(id, side) = Rank(id) + IF side = "Dr" THEN 0 ELSE Cardinality(ids)
    BY <2>2 DEF RowOf
  <2> HIDE DEF Rank, ids
  <2> QED
    BY <2>1, <2>2, <2>3 DEF LegOf
<1>2. g \in BookYears \X VoucherNos
  BY <1>1, IdsType
<1>3. book[id] \in Vouchers
  BY <1>1, IdsType DEF BooksType
<1>4. \A p \in DOMAIN parties : AcCode(book[id].series, p) \in Codes \cup {0}
  BY CodesType DEF AcCode, BooksType
<1>5. leg.code \in Codes \cup {0}
  BY <1>1, <1>3, <1>4 DEF Vouchers
<1>6. Rank(id) \in Nat /\ 1 <= Rank(id) /\ Rank(id) <= Cardinality(ids)
  <2> DEFINE below == {i \in ids : i <= id}
  <2>1. below \subseteq ids /\ id \in below
    BY <1>1, IdsType
  <2>2. IsFiniteSet(below) /\ Cardinality(below) \in Nat /\ Cardinality(below) <= Cardinality(ids)
    BY <2>1, IdsType, FS_Subset, FS_CardinalityType
  <2>3. Cardinality(below) # 0
    BY <2>1, <2>2, FS_EmptySet
  <2> QED
    BY <2>2, <2>3
<1>7. leg.row \in 1 .. 2 * Cardinality(Series)
  <2> HIDE DEF ids, Rank
  <2>1. Cardinality(ids) \in Nat /\ Cardinality(ids) <= Cardinality(Series) /\ Cardinality(Series) \in Nat
    BY IdsType, GroupsAreSmall, SeriesFinite DEF ids
  <2>2. leg.row = Rank(id) + IF side = "Dr" THEN 0 ELSE Cardinality(ids)
    BY <1>1
  <2> QED
    BY <1>6, <2>1, <2>2
<1>8. leg.amount \in {1}
  BY <1>1, <1>3 DEF Vouchers
<1> HIDE DEF Rank, ids
<1> QED
  BY <1>1, <1>2, <1>5, <1>7, <1>8 DEF LegType, ids

LEMMA LegsOfYears ==
    ASSUME BooksType, BooksUnique, NEW years
    PROVE  /\ Legs(years) \subseteq LegType
           /\ \A leg \in Legs(years) :
                leg.group \in GroupsOf(years) /\ leg \in LegsOf(leg.group) /\ leg.group[1] \in years
<1>1. ASSUME NEW leg \in Legs(years)
      PROVE  leg \in LegType /\ leg.group \in GroupsOf(years) /\ leg \in LegsOf(leg.group) /\ leg.group[1] \in years
  <2>1. PICK g \in GroupsOf(years) : leg \in LegsOf(g)
    BY DEF Legs
  <2>2. leg \in LegType /\ leg.group = g
    BY <2>1, LegsAre
  <2>3. g[1] \in years
    BY DEF GroupsOf, Group
  <2> QED
    BY <2>1, <2>2, <2>3
<1> QED
  BY <1>1

\* Among legs there is a first one.
LEMMA FirstIsOne ==
    ASSUME BooksType, BooksUnique, NEW years, NEW legs \in SUBSET Legs(years), legs # {}
    PROVE  FirstOf(legs) \in legs
<1> DEFINE First(leg) == Min(IdsOf(leg.group))
           Date(leg) == leg.group[1]
           dates == {Date(leg) : leg \in legs}
<1>1. \A leg \in legs : Date(leg) \in Nat /\ leg.row \in Nat /\ First(leg) \in Nat
  <2>1. ASSUME NEW leg \in legs PROVE Date(leg) \in Nat /\ leg.row \in Nat
    <3>1. leg \in LegType
      BY LegsOfYears
    <3>2. leg.group \in BookYears \X VoucherNos /\ leg.row \in 1 .. 2 * Cardinality(Series)
      BY <3>1 DEF LegType
    <3>3. leg.row \in Nat
      BY <3>2, SeriesFinite
    <3>4. BookYears \subseteq Nat
      BY ExportConstants
    <3> QED
      BY <3>2, <3>3, <3>4
  <2>2. ASSUME NEW leg \in legs PROVE First(leg) \in Nat
    <3>1. IdsOf(leg.group) # {} /\ IdsOf(leg.group) \subseteq Nat
      BY LegsOfYears, LegsAre, IdsType
    <3>2. \E m \in IdsOf(leg.group) : \A x \in IdsOf(leg.group) : m <= x
      BY <3>1, HasLeast
    <3> QED
      BY <3>1, <3>2 DEF Min
  <2> QED
    BY <2>1, <2>2
<1> HIDE DEF First, Date
<1>2. PICK d \in dates : \A x \in dates : d <= x
  <2>1. dates \subseteq Nat /\ dates # {}
    BY <1>1
  <2> QED
    BY <2>1, HasLeast
<1> DEFINE today == {leg \in legs : Date(leg) = d}
           firsts == {First(leg) : leg \in today}
<1>3. PICK f \in firsts : \A x \in firsts : f <= x
  <2>1. firsts \subseteq Nat /\ firsts # {}
    BY <1>1, <1>2
  <2> QED
    BY <2>1, HasLeast
<1> DEFINE group == {leg \in today : First(leg) = f}
           rows == {leg.row : leg \in group}
<1>4. PICK n \in rows : \A x \in rows : n <= x
  <2>1. rows \subseteq Nat /\ rows # {}
    BY <1>1, <1>3
  <2> QED
    BY <2>1, HasLeast
<1>5. PICK leg \in group : leg.row = n
  BY <1>4
<1>6. ASSUME NEW other \in legs PROVE ~ Sooner(other, leg)
  <2>1. d <= Date(other) /\ Date(leg) = d
    BY <1>2, <1>5
  <2>2. Date(other) = d => f <= First(other)
    BY <1>3
  <2>3. First(leg) = f
    BY <1>5
  <2>4. other.group = leg.group => Date(other) = d /\ First(other) = f
    BY <2>1, <2>3 DEF Date, First
  <2>5. other.group = leg.group => n <= other.row
    BY <1>4, <2>4
  <2>6. Date(leg) \in Nat /\ Date(other) \in Nat /\ First(other) \in Nat /\ First(leg) \in Nat
        /\ leg.row \in Nat /\ other.row \in Nat
    BY <1>1, <1>5
  <2>7. ~ (Date(other) < Date(leg))
    BY <2>1, <2>6
  <2>8. ~ (Date(other) = Date(leg) /\ First(other) < First(leg))
    BY <2>1, <2>2, <2>3, <2>6
  <2>9. ~ (other.group = leg.group /\ other.row < leg.row)
    BY <1>5, <2>5, <2>6
  <2> QED
    BY <2>7, <2>8, <2>9 DEF Sooner, Date, First
<1>7. leg \in legs
  BY <1>5
<1> QED
  BY <1>6, <1>7 DEF FirstOf
-----------------------------------------------------------------------------
(* The invariant *)

LedgersType ==
    \A c \in DOMAIN ledgers :
        /\ ledgers[c] = [party |-> ledgers[c].party, balance |-> ledgers[c].balance, moved |-> ledgers[c].moved]
        /\ ledgers[c].party \in DOMAIN parties /\ ledgers[c].balance \in Int
        /\ LedgerCode(ledgers[c].party) = c

RowsType ==
    /\ IsFiniteSet(DOMAIN txRows)
    /\ txRows \in [DOMAIN txRows -> Nat \ {0}]
    /\ DOMAIN txRows \subseteq LegType

RunType ==
    /\ run = [years |-> run.years, todo |-> run.todo, seen |-> run.seen, deltas |-> run.deltas,
              refused |-> run.refused, on |-> run.on]
    /\ run.on \in BOOLEAN /\ run.refused \in BOOLEAN
    /\ run.todo \subseteq Legs(run.years)
    /\ run.seen \subseteq DOMAIN txRows
    /\ IF run.on THEN run.deltas \in [Codes -> Int] ELSE run = Idle

HistoryType == touched \subseteq BookYears \X VoucherNos /\ stale \subseteq Codes \cup {0}

TypeInv == BooksType /\ BooksUnique /\ LedgersType /\ RowsType /\ RunType /\ HistoryType

\* Legs that are through are in the file.
ThroughInv == run.on /\ ~ run.refused => Legs(run.years) \ run.todo \subseteq DOMAIN txRows

\* What the file has of a group that was left alone is a leg of the group, once.
LegsInv == \A r \in DOMAIN txRows : r.group \notin touched => r \in LegsOf(r.group) /\ txRows[r] = 1

\* What an export did not see it does not insert again.
SeenInv == run.on => \A r \in DOMAIN txRows \ run.seen : r \notin run.todo \/ r.group \in touched

Balance(c) == IF c \in DOMAIN ledgers THEN ledgers[c].balance ELSE 0
Delta(c) == IF run.on THEN run.deltas[c] ELSE 0

\* A balance and what the export is about to add to it come to what the file says.
BalanceInv == \A c \in Codes \ stale : Balance(c) + Delta(c) = Posted(c)

ExportInv == ThroughInv /\ LegsInv /\ SeenInv /\ BalanceInv

\* The types say what the sums need.
LEMMA RowsAreCounted == ASSUME RowsType PROVE RowsCount(txRows)
<1>1. ASSUME NEW r \in DOMAIN txRows PROVE r.amount \in Int
  BY DEF RowsType, LegType
<1> QED
  BY <1>1 DEF RowsType, RowsCount

LEMMA TotalIsInt == ASSUME NEW rows, RowsCount(rows), NEW c PROVE Total(rows, c) \in Int
<1>1. PICK t : IsSum(t, Worth(rows), RowsWith(rows, c)) /\ Total(rows, c) = t[RowsWith(rows, c)]
  BY TotalIs
<1>2. IsFiniteSet(RowsWith(rows, c)) /\ \A r \in RowsWith(rows, c) : Worth(rows)[r] \in Int
  <2>1. RowsWith(rows, c) \subseteq DOMAIN rows
    BY DEF RowsWith
  <2>2. \A r \in DOMAIN rows : rows[r] \in Int /\ Signed(r) \in Int
    BY DEF RowsCount, Signed
  <2> QED
    BY <2>1, <2>2, FS_Subset DEF RowsCount, Worth
<1> QED
  BY <1>1, <1>2, SumType

LEMMA PostedTotal == \A c : Posted(c) = Total(txRows, c) /\ Posted(c)' = Total(txRows', c)
<1>1. ASSUME NEW c PROVE Posted(c) = Total(txRows, c)
  BY DEF Posted, Total, MapThenFoldSet, Signed
<1>2. ASSUME NEW c PROVE Posted(c)' = Total(txRows', c)
  BY DEF Posted, Total, MapThenFoldSet, Signed
<1> QED
  BY <1>1, <1>2

\* Nothing is posted to a code without rows.
LEMMA NothingPosted ==
    ASSUME RowsType, NEW c, RowsWith(txRows, c) = {}
    PROVE  Posted(c) = 0
<1>1. PICK t : IsSum(t, Worth(txRows), RowsWith(txRows, c)) /\ Total(txRows, c) = t[RowsWith(txRows, c)]
  BY RowsAreCounted, TotalIs
<1>2. t[{}] = 0
  BY <1>1 DEF IsSum
<1> QED
  BY <1>1, <1>2, PostedTotal

LEMMA LedgersHaveCodes == ASSUME LedgersType PROVE DOMAIN ledgers \subseteq Codes
  BY DEF LedgersType, Codes

LEMMA InvInit == ExportInit => TypeInv /\ ExportInv
<1> SUFFICES ASSUME ExportInit PROVE TypeInv /\ ExportInv
  OBVIOUS
<1>1. BooksType /\ BooksUnique
  <2>1. parties \in Seq(Nat)
    BY ExportConstants DEF ExportInit
  <2>2. DOMAIN book = {}
    BY DEF ExportInit
  <2> QED
    BY <2>1, <2>2, FS_EmptySet DEF BooksType, BooksUnique
<1>2. LedgersType /\ DOMAIN ledgers = {}
  BY DEF ExportInit, LedgersType
<1>3. RowsType /\ DOMAIN txRows = {}
  BY FS_EmptySet DEF ExportInit, RowsType
<1>4. RunType /\ ~ run.on
  BY DEF ExportInit, RunType, Idle
<1>5. HistoryType
  BY DEF ExportInit, HistoryType
<1>6. ThroughInv /\ SeenInv
  BY <1>4 DEF ThroughInv, SeenInv
<1>7. LegsInv
  BY <1>3 DEF LegsInv
<1>8. BalanceInv
  <2>1. ASSUME NEW c \in Codes PROVE Balance(c) + Delta(c) = Posted(c)
    <3>1. Balance(c) = 0 /\ Delta(c) = 0
      BY <1>2, <1>4 DEF Balance, Delta
    <3>2. Posted(c) = 0
      BY <1>3, NothingPosted DEF RowsWith
    <3> QED
      BY <3>1, <3>2
  <2> QED
    BY <2>1 DEF BalanceInv
<1> QED
  BY <1>1, <1>2, <1>3, <1>4, <1>5, <1>6, <1>7, <1>8 DEF TypeInv, ExportInv

-----------------------------------------------------------------------------
(* What the steps do to the books *)

LEMMA SameParties ==
    ASSUME parties' = parties
    PROVE  /\ Codes' = Codes /\ LegType' = LegType /\ Vouchers' = Vouchers
           /\ \A p : LedgerCode(p)' = LedgerCode(p)
<1>1. \A p : LedgerCode(p)' = LedgerCode(p)
  BY DEF LedgerCode
<1>2. Codes' = Codes
  BY <1>1 DEF Codes
<1>3. LegType' = LegType
  BY <1>2 DEF LegType
<1>4. Vouchers' = Vouchers
  BY DEF Vouchers
<1> QED
  BY <1>1, <1>2, <1>3, <1>4

LEMMA LegsStay ==
    ASSUME NEW g, IdsOf(g)' = IdsOf(g), \A id \in IdsOf(g) : book'[id] = book[id],
           \A id \in IdsOf(g) :
               /\ AcCode(book[id].series, book[id].dr)' = AcCode(book[id].series, book[id].dr)
               /\ AcCode(book[id].series, book[id].cr)' = AcCode(book[id].series, book[id].cr)
    PROVE  LegsOf(g)' = LegsOf(g)
<1>1. ASSUME NEW id \in IdsOf(g), NEW side \in {"Dr", "Cr"} PROVE LegOf(id, side)' = LegOf(id, side)
  <2>1. Group(book[id]) = g /\ Group(book[id])' = g
    BY DEF IdsOf, Group
  <2>2. RowOf(id, side)' = RowOf(id, side)
    BY <2>1 DEF RowOf
  <2>3. AcCode(book[id].series, IF side = "Dr" THEN book[id].dr ELSE book[id].cr)'
        = AcCode(book[id].series, IF side = "Dr" THEN book[id].dr ELSE book[id].cr)
    OBVIOUS
  <2> QED
    BY <2>1, <2>2, <2>3 DEF LegOf
<1> QED
  BY <1>1 DEF LegsOf

\* An export reads the books and leaves them.
LEMMA SameBooks ==
    ASSUME parties' = parties, book' = book
    PROVE  /\ Codes' = Codes /\ LegType' = LegType /\ Vouchers' = Vouchers
           /\ \A g : LegsOf(g)' = LegsOf(g)
           /\ \A years : Legs(years)' = Legs(years)
           /\ \A p : LedgerCode(p)' = LedgerCode(p)
           /\ BooksType => BooksType'
           /\ BooksUnique => BooksUnique'
<1>1. /\ Codes' = Codes /\ LegType' = LegType /\ Vouchers' = Vouchers
      /\ \A p : LedgerCode(p)' = LedgerCode(p)
  BY SameParties
<1>2. ASSUME NEW g PROVE LegsOf(g)' = LegsOf(g)
  <2>1. \A series, p : AcCode(series, p)' = AcCode(series, p)
    BY <1>1 DEF AcCode
  <2>2. IdsOf(g)' = IdsOf(g)
    BY DEF IdsOf
  <2>3. \A id \in IdsOf(g) : book'[id] = book[id]
    OBVIOUS
  <2> QED
    BY <2>1, <2>2, <2>3, LegsStay
<1>3. ASSUME NEW years PROVE Legs(years)' = Legs(years)
  BY <1>2 DEF Legs, GroupsOf, Range
<1>4. BooksType => BooksType'
  BY <1>1 DEF BooksType
<1>5. BooksUnique => BooksUnique'
  BY DEF BooksUnique
<1> QED
  BY <1>1, <1>2, <1>3, <1>4, <1>5

\* A new party has a code of its own or one that is there, and is in no voucher.
LEMMA PartyBooks ==
    ASSUME BooksType, BooksUnique, NewParty
    PROVE  /\ Codes \subseteq Codes' /\ LegType \subseteq LegType'
           /\ DOMAIN parties \subseteq DOMAIN parties'
           /\ \A p \in DOMAIN parties : LedgerCode(p)' = LedgerCode(p)
           /\ \A g : LegsOf(g)' = LegsOf(g)
           /\ BooksType' /\ BooksUnique'
<1>1. /\ DOMAIN parties \subseteq DOMAIN parties' /\ parties' \in Seq(Nat)
      /\ \A p \in DOMAIN parties : parties'[p] = parties[p]
  BY DEF NewParty, BooksType
<1>2. book' = book
  BY DEF NewParty
<1>3. \A p \in DOMAIN parties : LedgerCode(p)' = LedgerCode(p)
  BY <1>1 DEF LedgerCode
<1>4. Codes \subseteq Codes'
  BY <1>1, <1>3 DEF Codes
<1>5. LegType \subseteq LegType'
  BY <1>4 DEF LegType
<1>6. Vouchers \subseteq Vouchers'
  BY <1>1 DEF Vouchers
<1>7. ASSUME NEW g PROVE LegsOf(g)' = LegsOf(g)
  <2>1. IdsOf(g)' = IdsOf(g)
    BY <1>2 DEF IdsOf
  <2>2. \A series, p : p \in DOMAIN parties => AcCode(series, p)' = AcCode(series, p)
    BY <1>1, <1>3 DEF AcCode
  <2>3. \A id \in IdsOf(g) : book[id].dr \in DOMAIN parties /\ book[id].cr \in DOMAIN parties
    BY IdsType DEF BooksType, Vouchers
  <2> QED
    BY <1>2, <2>1, <2>2, <2>3, LegsStay
<1>8. BooksType'
  BY <1>1, <1>2, <1>6 DEF BooksType
<1>9. BooksUnique'
  BY <1>2 DEF BooksUnique
<1> QED
  BY <1>1, <1>3, <1>4, <1>5, <1>7, <1>8, <1>9

\* A change leaves the groups alone that neither the voucher nor what it replaces is of.
LEMMA ChangeBooks ==
    ASSUME BooksType, BooksUnique, NEW v \in Vouchers, NEW new, Change(v, new),
           new \subseteq Nat, IsFiniteSet(new), new \cap DOMAIN book = {},
           \A i, j \in new : i = j
    PROVE  /\ BooksType' /\ BooksUnique'
           /\ \A g : g # Group(v) /\ (\A w \in Range(book) : Hit(v, w) => Group(w) # g)
                     => LegsOf(g)' = LegsOf(g)
<1> DEFINE kept == {i \in DOMAIN book : ~ Hit(v, book[i])}
<1>1. /\ DOMAIN book' = kept \cup new /\ \A id \in new : book'[id] = v
      /\ \A id \in kept : book'[id] = book[id]
      /\ parties' = parties
  BY DEF Change
<1>2. Vouchers' = Vouchers
  BY <1>1 DEF Vouchers
<1>3. kept \subseteq DOMAIN book
  OBVIOUS
<1>4. BooksType'
  <2>1. IsFiniteSet(kept \cup new)
    BY <1>3, FS_Subset, FS_Union DEF BooksType
  <2> QED
    BY <1>1, <1>2, <1>3, <2>1 DEF BooksType
<1>5. BooksUnique'
  <2> SUFFICES ASSUME NEW i \in kept \cup new, NEW j \in kept \cup new,
                      book'[i].series = book'[j].series, Group(book'[i]) = Group(book'[j])
               PROVE  i = j
    BY <1>1 DEF BooksUnique, Group
  <2>1. CASE i \in kept /\ j \in kept
    BY <1>1, <2>1 DEF BooksUnique
  <2>2. CASE i \in kept /\ j \in new
    BY <1>1, <2>2 DEF Hit, Group
  <2>3. CASE i \in new /\ j \in kept
    BY <1>1, <2>3 DEF Hit, Group
  <2>4. CASE i \in new /\ j \in new
    BY <2>4
  <2> QED
    BY <2>1, <2>2, <2>3, <2>4
<1>6. ASSUME NEW g, g # Group(v), \A w \in Range(book) : Hit(v, w) => Group(w) # g
      PROVE  LegsOf(g)' = LegsOf(g)
  <2>1. IdsOf(g)' = IdsOf(g)
    <3>1. ASSUME NEW id \in IdsOf(g)' PROVE id \in IdsOf(g)
      BY <1>1, <1>6 DEF IdsOf, Group
    <3>2. ASSUME NEW id \in IdsOf(g) PROVE id \in IdsOf(g)'
      <4>1. id \in DOMAIN book /\ Group(book[id]) = g
        BY DEF IdsOf
      <4>2. id \in kept
        BY <1>6, <4>1 DEF Range
      <4> QED
        BY <1>1, <4>1, <4>2 DEF IdsOf, Group
    <3> QED
      BY <3>1, <3>2
  <2>2. \A id \in IdsOf(g) : book'[id] = book[id]
    BY <1>1, <2>1 DEF IdsOf
  <2>3. \A series, p : AcCode(series, p)' = AcCode(series, p)
    BY <1>1 DEF AcCode, LedgerCode
  <2> QED
    BY <2>1, <2>2, <2>3, LegsStay
<1> QED
  BY <1>4, <1>5, <1>6

\* Ids go up.
LEMMA NewIdIsNew ==
    ASSUME BooksType
    PROVE  /\ Max(DOMAIN book \cup {0}) + 1 \in Nat
           /\ Max(DOMAIN book \cup {0}) + 1 \notin DOMAIN book
<1> DEFINE ids == DOMAIN book \cup {0}
<1>1. ids \subseteq Nat /\ ids # {} /\ IsFiniteSet(ids)
  <2>1. IsFiniteSet(DOMAIN book) /\ DOMAIN book \subseteq Nat
    BY DEF BooksType
  <2>2. IsFiniteSet(ids)
    BY <2>1, FS_AddElement
  <2> QED
    BY <2>1, <2>2
<1>2. \E m \in ids : \A x \in ids : x <= m
  <2> HIDE DEF ids
  <2> QED
    BY <1>1, HasLargest
<1>3. Max(ids) \in ids /\ \A x \in ids : x <= Max(ids)
  <2> HIDE DEF ids
  <2>1. \E m \in ids : \A x \in ids : m >= x
    BY <1>1, <1>2
  <2> QED
    BY <1>1, <2>1 DEF Max
<1> QED
  <2> DEFINE m == Max(ids)
  <2>1. m \in Nat /\ \A x \in DOMAIN book : x <= m
    BY <1>1, <1>3
  <2> HIDE DEF m
  <2>2. m + 1 \in Nat /\ m + 1 \notin DOMAIN book
    BY <2>1
  <2> QED
    BY <2>2 DEF m

\* Between exports there is no leg to come.
LEMMA RunRests == ASSUME RunType, ~ run.on PROVE run = Idle /\ run.todo = {}
  BY DEF RunType, Idle

LEMMA ChangeKeeps ==
    ASSUME TypeInv, ExportInv, NEW v \in Vouchers, NEW new, Change(v, new),
           new \subseteq Nat, IsFiniteSet(new), new \cap DOMAIN book = {},
           \A i, j \in new : i = j
    PROVE  TypeInv' /\ ExportInv'
<1>1. /\ parties' = parties /\ ledgers' = ledgers /\ txRows' = txRows /\ run' = run /\ stale' = stale
      /\ ~ run.on /\ touched \subseteq touched'
  BY DEF Change, Touch
<1>2. /\ Codes' = Codes /\ LegType' = LegType
      /\ \A p : LedgerCode(p)' = LedgerCode(p)
  BY <1>1, SameParties
<1>3. /\ BooksType' /\ BooksUnique'
      /\ \A g : g # Group(v) /\ (\A w \in Range(book) : Hit(v, w) => Group(w) # g) => LegsOf(g)' = LegsOf(g)
  BY ChangeBooks DEF TypeInv
<1>4. LedgersType'
  BY <1>1, <1>2 DEF TypeInv, LedgersType
<1>5. RowsType'
  BY <1>1, <1>2 DEF TypeInv, RowsType
<1>6. RunType'
  <2>1. run = Idle /\ run.todo = {}
    BY <1>1, RunRests DEF TypeInv
  <2> QED
    BY <1>1, <2>1 DEF TypeInv, RunType
<1>7. HistoryType'
  <2>1. \A g : RowsOf(g) # {} => g \in BookYears \X VoucherNos
    BY DEF RowsOf, TypeInv, RowsType, LegType
  <2> QED
    BY <1>1, <1>2, <2>1 DEF Change, Touch, TypeInv, HistoryType
<1>8. ThroughInv' /\ SeenInv'
  BY <1>1 DEF ThroughInv, SeenInv
<1>9. LegsInv'
  <2> SUFFICES ASSUME NEW r \in DOMAIN txRows, r.group \notin touched'
               PROVE  r \in LegsOf(r.group)' /\ txRows[r] = 1
    BY <1>1 DEF LegsInv
  <2>1. r \in LegsOf(r.group) /\ txRows[r] = 1
    BY <1>1 DEF ExportInv, LegsInv
  <2>2. RowsOf(r.group) # {}
    BY DEF RowsOf
  <2>3. r.group \notin {Group(v)} \cup {Group(w) : w \in {u \in Range(book) : Hit(v, u)}}
    BY <2>2 DEF Change, Touch
  <2>4. LegsOf(r.group)' = LegsOf(r.group)
    BY <1>3, <2>3
  <2> QED
    BY <2>1, <2>4
<1>10. BalanceInv'
  BY <1>1, <1>2, PostedTotal DEF ExportInv, BalanceInv, Balance, Delta
<1> QED
  BY <1>3, <1>4, <1>5, <1>6, <1>7, <1>8, <1>9, <1>10 DEF TypeInv, ExportInv

LEMMA SaveKeeps == ASSUME TypeInv, ExportInv, NEW v \in Vouchers, SaveVoucher(v) PROVE TypeInv' /\ ExportInv'
<1> DEFINE id == Max(DOMAIN book \cup {0}) + 1
<1>1. Change(v, {id})
  BY DEF SaveVoucher
<1>2. id \in Nat /\ id \notin DOMAIN book
  BY NewIdIsNew DEF TypeInv
<1> HIDE DEF id
<1>3. {id} \subseteq Nat /\ IsFiniteSet({id}) /\ {id} \cap DOMAIN book = {}
  BY <1>2, FS_Singleton
<1> QED
  BY <1>1, <1>3, ChangeKeeps

LEMMA EraseKeeps == ASSUME TypeInv, ExportInv, NEW v \in Vouchers, EraseVoucher(v) PROVE TypeInv' /\ ExportInv'
  BY FS_EmptySet, ChangeKeeps DEF EraseVoucher

LEMMA PartyKeeps == ASSUME TypeInv, ExportInv, NewParty PROVE TypeInv' /\ ExportInv'
<1>1. /\ book' = book /\ ledgers' = ledgers /\ txRows' = txRows /\ run' = run /\ stale' = stale
      /\ touched' = touched /\ ~ run.on
  BY DEF NewParty
<1>2. /\ Codes \subseteq Codes' /\ LegType \subseteq LegType' /\ DOMAIN parties \subseteq DOMAIN parties'
      /\ \A p \in DOMAIN parties : LedgerCode(p)' = LedgerCode(p)
      /\ \A g : LegsOf(g)' = LegsOf(g)
      /\ BooksType' /\ BooksUnique'
  BY PartyBooks DEF TypeInv
<1>3. LedgersType'
  BY <1>1, <1>2 DEF TypeInv, LedgersType
<1>4. RowsType'
  BY <1>1, <1>2 DEF TypeInv, RowsType
<1>5. RunType'
  <2>1. run = Idle /\ run.todo = {}
    BY <1>1, RunRests DEF TypeInv
  <2> QED
    BY <1>1, <2>1 DEF TypeInv, RunType
<1>6. HistoryType'
  BY <1>1, <1>2 DEF TypeInv, HistoryType
<1>7. ThroughInv' /\ SeenInv'
  BY <1>1 DEF ThroughInv, SeenInv
<1>8. LegsInv'
  BY <1>1, <1>2 DEF ExportInv, LegsInv
<1>9. BalanceInv'
  <2>1. ASSUME NEW c \in Codes', c \notin stale PROVE Balance(c)' + Delta(c)' = Posted(c)'
    <3>1. Balance(c)' = Balance(c) /\ Delta(c)' = 0 /\ Delta(c) = 0
      BY <1>1 DEF Balance, Delta
    <3>2. Posted(c)' = Posted(c)
      BY <1>1, PostedTotal
    <3>3. CASE c \in Codes
      BY <2>1, <3>1, <3>2, <3>3 DEF ExportInv, BalanceInv
    <3>4. CASE c \notin Codes
      <4>1. Balance(c) = 0
        BY <3>4, LedgersHaveCodes DEF Balance, TypeInv
      <4>2. c # 0
        <5>1. parties' \in Seq(Nat)
          BY <1>2 DEF BooksType
        <5>2. \A p \in DOMAIN parties' : LedgerCode(p)' # 0
          BY <5>1 DEF LedgerCode
        <5> QED
          BY <2>1, <5>2 DEF Codes
      <4>3. RowsWith(txRows, c) = {}
        BY <3>4, <4>2 DEF RowsWith, TypeInv, RowsType, LegType
      <4>4. Posted(c) = 0
        BY <4>3, NothingPosted DEF TypeInv
      <4> QED
        BY <3>1, <3>2, <4>1, <4>4
    <3> QED
      BY <3>3, <3>4
  <2> QED
    BY <1>1, <2>1 DEF BalanceInv
<1> QED
  BY <1>2, <1>3, <1>4, <1>5, <1>6, <1>7, <1>8, <1>9 DEF TypeInv, ExportInv

\* Of the parties of a code one is the last.
LEMMA OwnerOwns ==
    ASSUME BooksType, NEW c \in Codes
    PROVE  Owner(c) \in DOMAIN parties /\ LedgerCode(Owner(c)) = c
<1> DEFINE owners == {p \in DOMAIN parties : LedgerCode(p) = c}
<1>1. owners # {}
  BY DEF Codes
<1>2. owners \subseteq Nat /\ IsFiniteSet(owners)
  <2>1. DOMAIN parties = 1 .. Len(parties) /\ Len(parties) \in Nat
    BY DEF BooksType
  <2>2. IsFiniteSet(1 .. Len(parties))
    BY <2>1, FS_Interval
  <2> QED
    BY <2>1, <2>2, FS_Subset
<1>3. \E m \in owners : \A x \in owners : x <= m
  <2> HIDE DEF owners
  <2> QED
    BY <1>1, <1>2, HasLargest
<1>4. Max(owners) \in owners
  <2> HIDE DEF owners
  <2>1. \E m \in owners : \A x \in owners : m >= x
    BY <1>2, <1>3
  <2> QED
    BY <2>1 DEF Max
<1> QED
  BY <1>4 DEF Owner

LEMMA StartKeeps ==
    ASSUME TypeInv, ExportInv, NEW years, NEW refused, NEW blind \in BOOLEAN, StartExport(years, refused, blind)
    PROVE  TypeInv' /\ ExportInv'
<1>1. /\ parties' = parties /\ book' = book /\ txRows' = txRows /\ stale' = stale /\ ~ run.on
      /\ run' = [years |-> years, todo |-> Legs(years), seen |-> Seen(blind),
                 deltas |-> [c \in Codes |-> 0], refused |-> FALSE, on |-> TRUE]
      /\ touched' = IF blind THEN touched \cup {r.group : r \in DOMAIN txRows} ELSE touched
  BY DEF StartExport
<1>2. /\ run'.on = TRUE /\ run'.years = years /\ run'.todo = Legs(years) /\ run'.seen = Seen(blind)
      /\ run'.deltas = [c \in Codes |-> 0] /\ run'.refused = FALSE
  BY <1>1
<1>3. /\ Codes' = Codes /\ LegType' = LegType
      /\ \A g : LegsOf(g)' = LegsOf(g)
      /\ \A y : Legs(y)' = Legs(y)
      /\ \A p : LedgerCode(p)' = LedgerCode(p)
      /\ BooksType' /\ BooksUnique'
  BY <1>1, SameBooks DEF TypeInv
<1>4. /\ DOMAIN ledgers \subseteq DOMAIN ledgers' /\ DOMAIN ledgers' \subseteq Codes
      /\ \A c \in DOMAIN ledgers : ledgers'[c] = ledgers[c]
      /\ \A c \in DOMAIN ledgers' \ DOMAIN ledgers : ledgers'[c] = [party |-> Owner(c), balance |-> 0, moved |-> FALSE]
  BY LedgersHaveCodes DEF StartExport, TypeInv
<1>5. LedgersType'
  <2>1. ASSUME NEW c \in DOMAIN ledgers'
        PROVE  /\ ledgers'[c] = [party |-> ledgers'[c].party, balance |-> ledgers'[c].balance, moved |-> ledgers'[c].moved]
               /\ ledgers'[c].party \in DOMAIN parties /\ ledgers'[c].balance \in Int
               /\ LedgerCode(ledgers'[c].party) = c
    <3>1. CASE c \in DOMAIN ledgers
      BY <1>4, <3>1 DEF TypeInv, LedgersType
    <3>2. CASE c \notin DOMAIN ledgers
      <4>1. Owner(c) \in DOMAIN parties /\ LedgerCode(Owner(c)) = c
        BY <1>4, OwnerOwns DEF TypeInv
      <4>2. ledgers'[c] = [party |-> Owner(c), balance |-> 0, moved |-> FALSE]
        BY <1>4, <3>2
      <4> QED
        BY <4>1, <4>2
    <3> QED
      BY <3>1, <3>2
  <2> QED
    BY <1>1, <1>3, <2>1 DEF LedgersType
<1>6. RowsType'
  BY <1>1, <1>3 DEF TypeInv, RowsType
<1>7. RunType'
  <2>1. Seen(blind) \subseteq DOMAIN txRows
    BY DEF Seen
  <2>2. run'.deltas \in [Codes -> Int]
    BY <1>2
  <2> QED
    BY <1>1, <1>2, <1>3, <2>1, <2>2 DEF RunType
<1>8. HistoryType'
  <2>1. {r.group : r \in DOMAIN txRows} \subseteq BookYears \X VoucherNos
    BY DEF TypeInv, RowsType, LegType
  <2> QED
    BY <1>1, <1>3, <2>1 DEF TypeInv, HistoryType
<1>9. ThroughInv'
  BY <1>2, <1>3 DEF ThroughInv
<1>10. LegsInv'
  BY <1>1, <1>3 DEF ExportInv, LegsInv
<1>11. SeenInv'
  <2>1. CASE blind
    BY <1>1, <2>1 DEF SeenInv
  <2>2. CASE ~ blind
    <3>1. run'.seen = DOMAIN txRows'
      BY <1>1, <1>2, <2>2 DEF Seen
    <3> QED
      BY <3>1 DEF SeenInv
  <2> QED
    BY <2>1, <2>2
<1>12. BalanceInv'
  <2>1. ASSUME NEW c \in Codes PROVE Balance(c)' = Balance(c) /\ Delta(c)' = Delta(c) /\ Posted(c)' = Posted(c)
    <3>1. Balance(c)' = Balance(c)
      BY <1>4 DEF Balance
    <3>2. Delta(c)' = 0 /\ Delta(c) = 0
      BY <1>1, <1>2 DEF Delta
    <3> QED
      BY <1>1, <3>1, <3>2, PostedTotal
  <2> QED
    BY <1>1, <1>3, <2>1 DEF ExportInv, BalanceInv
<1> QED
  BY <1>3, <1>5, <1>6, <1>7, <1>8, <1>9, <1>10, <1>11, <1>12 DEF TypeInv, ExportInv

\* The next leg is one of the legs to come.
LEMMA NextIs ==
    ASSUME TypeInv, run.todo # {}
    PROVE  /\ run.on /\ NextLeg \in run.todo /\ NextLeg \in LegType
           /\ NextLeg \in Legs(run.years) /\ NextLeg \in LegsOf(NextLeg.group)
           /\ NextLeg.amount \in Int /\ Signed(NextLeg) \in Int
<1>1. run.on
  BY RunRests DEF TypeInv, RunType
<1>2. NextLeg \in run.todo
  BY FirstIsOne DEF NextLeg, TypeInv, RunType
<1>3. NextLeg \in Legs(run.years)
  BY <1>2 DEF TypeInv, RunType
<1>4. NextLeg \in LegType /\ NextLeg \in LegsOf(NextLeg.group)
  BY <1>3, LegsOfYears DEF TypeInv
<1>5. NextLeg.amount = 1
  BY <1>4 DEF LegType
<1> QED
  BY <1>1, <1>2, <1>3, <1>4, <1>5 DEF Signed

LEMMA SkipKeeps == ASSUME TypeInv, ExportInv, SkipLeg PROVE TypeInv' /\ ExportInv'
<1>1. /\ parties' = parties /\ book' = book /\ ledgers' = ledgers /\ txRows' = txRows
      /\ touched' = touched /\ stale' = stale /\ run.todo # {} /\ NextLeg \in run.seen
      /\ run' = [run EXCEPT !.todo = Later]
  BY DEF SkipLeg
<1>2. run.on /\ NextLeg \in run.todo
  BY <1>1, NextIs
<1>3. run' = [years |-> run.years, todo |-> Later, seen |-> run.seen, deltas |-> run.deltas,
              refused |-> run.refused, on |-> run.on]
  BY <1>1 DEF TypeInv, RunType
<1>4. /\ Codes' = Codes /\ LegType' = LegType
      /\ \A g : LegsOf(g)' = LegsOf(g)
      /\ \A y : Legs(y)' = Legs(y)
      /\ \A p : LedgerCode(p)' = LedgerCode(p)
      /\ BooksType' /\ BooksUnique'
  BY <1>1, SameBooks DEF TypeInv
<1>5. LedgersType' /\ RowsType' /\ HistoryType'
  BY <1>1, <1>4 DEF TypeInv, LedgersType, RowsType, HistoryType
<1>6. RunType'
  BY <1>1, <1>2, <1>3, <1>4 DEF TypeInv, RunType, Later
<1>7. ThroughInv'
  BY <1>1, <1>2, <1>3, <1>4 DEF TypeInv, RunType, ExportInv, ThroughInv, Later
<1>8. LegsInv' /\ SeenInv'
  BY <1>1, <1>2, <1>3, <1>4 DEF ExportInv, LegsInv, SeenInv, Later
<1>9. BalanceInv'
  BY <1>1, <1>2, <1>3, <1>4, PostedTotal DEF ExportInv, BalanceInv, Balance, Delta
<1> QED
  BY <1>4, <1>5, <1>6, <1>7, <1>8, <1>9 DEF TypeInv, ExportInv

LEMMA WithRowIs == \A leg : WithRow(leg) = With(txRows, leg)
  BY DEF WithRow, With

\* What is said of the rows when one more leg is there.
LEMMA RowWritten ==
    ASSUME TypeInv, ExportInv, run.todo # {}, NextLeg \notin run.seen, txRows' = WithRow(NextLeg),
           parties' = parties, book' = book, touched' = touched
    PROVE  /\ RowsType' /\ LegsInv'
           /\ DOMAIN txRows' = DOMAIN txRows \cup {NextLeg}
<1>1. /\ DOMAIN txRows' = DOMAIN txRows \cup {NextLeg}
      /\ \A r \in DOMAIN txRows \ {NextLeg} : txRows'[r] = txRows[r]
  BY DEF WithRow, TypeInv, RowsType
<1>2. NextLeg \in LegType /\ NextLeg \in run.todo /\ run.on /\ NextLeg \in LegsOf(NextLeg.group)
  BY NextIs
<1>3. LegType' = LegType /\ \A g : LegsOf(g)' = LegsOf(g)
  BY SameBooks
<1>4. RowsType'
  <2>1. RowsCount(txRows')
    BY <1>2, RowsAreCounted, NextIs, WithCounts, WithRowIs DEF TypeInv
  <2>2. txRows' = [r \in DOMAIN txRows' |-> txRows'[r]]
    BY <1>1 DEF WithRow
  <2>3. DOMAIN txRows' \subseteq LegType
    BY <1>1, <1>2 DEF TypeInv, RowsType
  <2> QED
    BY <1>3, <2>1, <2>2, <2>3 DEF RowsType, RowsCount
<1>5. LegsInv'
  <2> SUFFICES ASSUME NEW r \in DOMAIN txRows', r.group \notin touched
               PROVE  r \in LegsOf(r.group) /\ txRows'[r] = 1
    BY <1>3 DEF LegsInv
  <2>1. CASE r # NextLeg
    BY <1>1, <2>1 DEF ExportInv, LegsInv
  <2>2. CASE r = NextLeg
    <3>1. r \notin DOMAIN txRows
      BY <1>2, <2>2 DEF ExportInv, SeenInv
    <3>2. txRows'[r] = 1
      BY <1>1, <2>2, <3>1 DEF WithRow
    <3> QED
      BY <1>2, <2>2, <3>2
  <2> QED
    BY <2>1, <2>2
<1> QED
  BY <1>1, <1>4, <1>5

LEMMA InsertKeeps == ASSUME TypeInv, ExportInv, InsertLeg PROVE TypeInv' /\ ExportInv'
<1> DEFINE leg == NextLeg
<1>1. /\ parties' = parties /\ book' = book /\ ledgers' = ledgers /\ txRows' = WithRow(leg)
      /\ touched' = touched /\ stale' = stale /\ run.todo # {} /\ leg \notin run.seen
      /\ run' = [run EXCEPT !.todo = Later, !.seen = @ \cup {leg}, !.deltas = Noted(@, leg)]
  BY DEF InsertLeg
<1>2. /\ run.on /\ leg \in run.todo /\ leg \in LegType
      /\ leg.amount \in Int /\ Signed(leg) \in Int
  BY <1>1, NextIs
<1>3. run' = [years |-> run.years, todo |-> Later, seen |-> run.seen \cup {leg},
              deltas |-> Noted(run.deltas, leg), refused |-> run.refused, on |-> run.on]
  <2> HIDE DEF leg
  <2> QED
    BY <1>1 DEF TypeInv, RunType
<1>4. /\ Codes' = Codes /\ LegType' = LegType
      /\ \A g : LegsOf(g)' = LegsOf(g)
      /\ \A y : Legs(y)' = Legs(y)
      /\ \A p : LedgerCode(p)' = LedgerCode(p)
      /\ BooksType' /\ BooksUnique'
  BY <1>1, SameBooks DEF TypeInv
<1>5. RowsType' /\ LegsInv' /\ DOMAIN txRows' = DOMAIN txRows \cup {leg}
  BY <1>1, RowWritten
<1>6. LedgersType' /\ HistoryType'
  BY <1>1, <1>4 DEF TypeInv, LedgersType, HistoryType
<1>7. run.deltas \in [Codes -> Int] /\ Codes \subseteq Nat \ {0}
  BY <1>2, CodesType DEF TypeInv, RunType, BooksType
<1>8. leg.code \in Codes \cup {0}
  BY <1>2 DEF LegType
<1> HIDE DEF leg
<1>9. /\ Noted(run.deltas, leg) \in [Codes -> Int]
      /\ \A c \in Codes : Noted(run.deltas, leg)[c]
                            = run.deltas[c] + IF leg.code = c THEN Signed(leg) ELSE 0
  <2>1. CASE leg.code = 0
    BY <1>7, <2>1 DEF Noted
  <2>2. CASE leg.code # 0
    <3> DEFINE k == leg.code
               m == Signed(leg)
               d == run.deltas
    <3>1. k \in Codes
      BY <1>8, <2>2
    <3>2. k > 0
      <4>1. k \in Nat \ {0}
        BY <1>7, <3>1
      <4> HIDE DEF k
      <4> QED
        BY <4>1
    <3>3. Noted(d, leg) = [d EXCEPT ![k] = @ + m]
      BY <3>2 DEF Noted
    <3>4. m \in Int /\ d \in [Codes -> Int]
      BY <1>2, <1>7
    <3>5. /\ [d EXCEPT ![k] = @ + m] \in [Codes -> Int]
          /\ \A c \in Codes : [d EXCEPT ![k] = @ + m][c] = d[c] + IF k = c THEN m ELSE 0
      <4> HIDE DEF k, m, d
      <4> QED
        BY <3>1, <3>4
    <3> QED
      BY <3>3, <3>5
  <2> QED
    BY <2>1, <2>2
<1>10. RunType'
  <2>1. Later \subseteq run.todo
    BY DEF Later
  <2>2. run.todo \subseteq Legs(run.years) /\ run.seen \subseteq DOMAIN txRows /\ run.refused \in BOOLEAN
    BY DEF TypeInv, RunType
  <2> QED
    BY <1>2, <1>3, <1>4, <1>5, <1>9, <2>1, <2>2 DEF RunType
<1>11. ThroughInv'
  <2>1. Legs(run.years) \ Later \subseteq (Legs(run.years) \ run.todo) \cup {leg}
    BY DEF Later, leg
  <2> QED
    BY <1>2, <1>3, <1>4, <1>5, <2>1 DEF ExportInv, ThroughInv
<1>12. SeenInv'
  <2>1. Later \subseteq run.todo
    BY DEF Later
  <2> QED
    BY <1>1, <1>2, <1>3, <1>5, <2>1 DEF ExportInv, SeenInv
<1>13. BalanceInv'
  <2>1. ASSUME NEW c \in Codes, c \notin stale PROVE Balance(c)' + Delta(c)' = Posted(c)'
    <3>1. Balance(c)' = Balance(c) /\ Balance(c) \in Int
      BY <1>1 DEF Balance, TypeInv, LedgersType
    <3>2. /\ Delta(c)' = Delta(c) + IF leg.code = c THEN Signed(leg) ELSE 0
          /\ Delta(c) \in Int
      BY <1>2, <1>3, <1>7, <1>9 DEF Delta
    <3>3. /\ Posted(c)' = Posted(c) + IF leg.code = c THEN Signed(leg) ELSE 0
          /\ Posted(c) \in Int
      <4>1. /\ Total(txRows, c) \in Int
            /\ Total(With(txRows, leg), c) = Total(txRows, c) + IF leg.code = c THEN Signed(leg) ELSE 0
        BY <1>2, RowsAreCounted, TotalMoves DEF TypeInv
      <4>2. txRows' = With(txRows, leg)
        BY <1>1, WithRowIs
      <4> QED
        BY <4>1, <4>2, PostedTotal
    <3>4. Balance(c) + Delta(c) = Posted(c)
      BY <2>1 DEF ExportInv, BalanceInv
    <3> DEFINE m == IF leg.code = c THEN Signed(leg) ELSE 0
    <3>5. m \in Int
      BY <1>2
    <3> HIDE DEF m
    <3>6. Delta(c)' = Delta(c) + m /\ Posted(c)' = Posted(c) + m
      BY <3>2, <3>3 DEF m
    <3> QED
      BY <3>1, <3>2, <3>3, <3>4, <3>5, <3>6
  <2> QED
    BY <1>1, <1>4, <2>1 DEF BalanceInv
<1> QED
  BY <1>4, <1>5, <1>6, <1>10, <1>11, <1>12, <1>13 DEF TypeInv, ExportInv

LEMMA RefuseKeeps ==
    ASSUME TypeInv, ExportInv, NEW written \in BOOLEAN, RefuseLeg(written)
    PROVE  TypeInv' /\ ExportInv'
<1> DEFINE leg == NextLeg
<1>1. /\ parties' = parties /\ book' = book /\ ledgers' = ledgers
      /\ txRows' = IF written THEN WithRow(leg) ELSE txRows
      /\ stale' = IF written THEN stale \cup {leg.code} ELSE stale
      /\ touched' = touched /\ run.todo # {} /\ leg \notin run.seen
      /\ run' = [run EXCEPT !.todo = Later, !.refused = ~ written \/ @]
  BY DEF RefuseLeg
<1>2. /\ run.on /\ leg \in run.todo /\ leg \in LegType
      /\ leg.amount \in Int /\ Signed(leg) \in Int
  BY <1>1, NextIs
<1>3. run' = [years |-> run.years, todo |-> Later, seen |-> run.seen,
              deltas |-> run.deltas, refused |-> ~ written \/ run.refused, on |-> run.on]
  BY <1>1 DEF TypeInv, RunType
<1>4. /\ Codes' = Codes /\ LegType' = LegType
      /\ \A g : LegsOf(g)' = LegsOf(g)
      /\ \A y : Legs(y)' = Legs(y)
      /\ \A p : LedgerCode(p)' = LedgerCode(p)
      /\ BooksType' /\ BooksUnique'
  BY <1>1, SameBooks DEF TypeInv
<1>5. RowsType' /\ LegsInv' /\ DOMAIN txRows \subseteq DOMAIN txRows'
      /\ DOMAIN txRows' = DOMAIN txRows \cup (IF written THEN {leg} ELSE {})
  <2>1. CASE written
    BY <1>1, <2>1, RowWritten
  <2>2. CASE ~ written
    BY <1>1, <1>4, <2>2 DEF TypeInv, RowsType, ExportInv, LegsInv
  <2> QED
    BY <2>1, <2>2
<1>6. LedgersType' /\ HistoryType'
  <2>1. leg.code \in Codes \cup {0}
    BY <1>2 DEF LegType
  <2> HIDE DEF leg
  <2> QED
    BY <1>1, <1>4, <2>1 DEF TypeInv, LedgersType, HistoryType
<1> HIDE DEF leg
<1>7. Later = run.todo \ {leg}
  BY DEF Later, leg
<1>8. RunType'
  <2>1. run.todo \subseteq Legs(run.years) /\ run.seen \subseteq DOMAIN txRows
        /\ run.refused \in BOOLEAN /\ run.deltas \in [Codes -> Int]
    BY <1>2 DEF TypeInv, RunType
  <2> QED
    BY <1>2, <1>3, <1>4, <1>5, <1>7, <2>1 DEF RunType
<1>9. ThroughInv'
  <2>1. CASE written
    BY <1>2, <1>3, <1>4, <1>5, <1>7, <2>1 DEF ExportInv, ThroughInv
  <2>2. CASE ~ written
    BY <1>3, <2>2 DEF ThroughInv
  <2> QED
    BY <2>1, <2>2
<1>10. SeenInv'
  BY <1>1, <1>2, <1>3, <1>5, <1>7 DEF ExportInv, SeenInv
<1>11. BalanceInv'
  <2>1. ASSUME NEW c \in Codes, c \notin stale' PROVE Balance(c)' + Delta(c)' = Posted(c)'
    <3>1. Balance(c)' = Balance(c) /\ Delta(c)' = Delta(c)
      BY <1>1, <1>2, <1>3 DEF Balance, Delta
    <3>2. Posted(c)' = Posted(c)
      <4>1. CASE written
        <5>1. leg.code # c
          BY <1>1, <2>1, <4>1
        <5>2. /\ Total(txRows, c) \in Int
              /\ Total(With(txRows, leg), c) = Total(txRows, c) + IF leg.code = c THEN Signed(leg) ELSE 0
          BY <1>2, RowsAreCounted, TotalMoves DEF TypeInv
        <5>3. txRows' = With(txRows, leg)
          BY <1>1, <4>1, WithRowIs
        <5> QED
          BY <5>1, <5>2, <5>3, PostedTotal
      <4>2. CASE ~ written
        BY <1>1, <4>2, PostedTotal
      <4> QED
        BY <4>1, <4>2
    <3>3. c \notin stale
      BY <1>1, <2>1
    <3> QED
      BY <3>1, <3>2, <3>3 DEF ExportInv, BalanceInv
  <2> QED
    BY <1>4, <2>1 DEF BalanceInv
<1> QED
  BY <1>4, <1>5, <1>6, <1>8, <1>9, <1>10, <1>11 DEF TypeInv, ExportInv

\* An export that ends, whatever it did to the ledgers.
LEMMA EndKeeps ==
    ASSUME TypeInv, ExportInv, run.on, parties' = parties, book' = book, txRows' = txRows,
           touched' = touched, run' = Idle, LedgersType', stale \subseteq stale', stale' \subseteq stale \cup Due,
           \A c \in Codes \ stale' : Balance(c)' = Balance(c) + run.deltas[c]
    PROVE  TypeInv' /\ ExportInv'
<1>1. /\ Codes' = Codes /\ LegType' = LegType
      /\ \A g : LegsOf(g)' = LegsOf(g)
      /\ BooksType' /\ BooksUnique'
  BY SameBooks DEF TypeInv
<1>2. RowsType'
  BY <1>1 DEF TypeInv, RowsType
<1>3. RunType'
  BY DEF RunType, Idle
<1>4. HistoryType'
  <2>1. Due \subseteq Codes
    BY DEF TypeInv, RunType, Due
  <2> QED
    BY <1>1, <2>1 DEF TypeInv, HistoryType
<1>5. ThroughInv' /\ SeenInv'
  BY DEF ThroughInv, SeenInv, Idle
<1>6. LegsInv'
  BY <1>1 DEF ExportInv, LegsInv
<1>7. BalanceInv'
  <2>1. ASSUME NEW c \in Codes, c \notin stale' PROVE Balance(c)' + Delta(c)' = Posted(c)'
    <3>1. Balance(c)' = Balance(c) + run.deltas[c]
      BY <2>1
    <3>2. Delta(c) = run.deltas[c] /\ Delta(c)' = 0
      BY DEF Delta, Idle
    <3>3. Balance(c) + Delta(c) = Posted(c)
      BY <2>1 DEF ExportInv, BalanceInv
    <3>4. Posted(c)' = Posted(c) /\ Posted(c) \in Int
      BY PostedTotal, RowsAreCounted, TotalIsInt DEF TypeInv
    <3> QED
      BY <3>1, <3>2, <3>3, <3>4
  <2> QED
    BY <1>1, <2>1 DEF BalanceInv
<1> QED
  BY <1>1, <1>2, <1>3, <1>4, <1>5, <1>6, <1>7 DEF TypeInv, ExportInv

LEMMA UpdateKeeps ==
    ASSUME TypeInv, ExportInv, NEW done, NEW grown, UpdateBalances(done, grown)
    PROVE  TypeInv' /\ ExportInv'
<1>1. /\ parties' = parties /\ book' = book /\ txRows' = txRows /\ touched' = touched
      /\ run.on /\ run' = Idle /\ stale' = stale \cup (Due \ done)
      /\ done \subseteq Due \cap DOMAIN ledgers /\ DOMAIN ledgers' = DOMAIN ledgers
      /\ \A c \in DOMAIN ledgers \ done : ledgers'[c] = ledgers[c]
  BY DEF UpdateBalances
<1>2. run.deltas \in [Codes -> Int] /\ Due \subseteq Codes
  BY <1>1 DEF TypeInv, RunType, Due
<1>3. \A c \in done : ledgers'[c] = [party |-> ledgers[c].party, balance |-> ledgers[c].balance + run.deltas[c],
                                     moved |-> c \in grown]
  <2>1. \A c \in done : ledgers'[c] = [ledgers[c] EXCEPT !.balance = @ + run.deltas[c], !.moved = c \in grown]
    BY <1>1 DEF UpdateBalances
  <2> QED
    BY <1>1, <2>1 DEF TypeInv, LedgersType
<1>4. \A p : LedgerCode(p)' = LedgerCode(p)
  BY <1>1, SameParties
<1>5. LedgersType'
  <2>1. ASSUME NEW c \in DOMAIN ledgers
        PROVE  /\ ledgers'[c] = [party |-> ledgers'[c].party, balance |-> ledgers'[c].balance, moved |-> ledgers'[c].moved]
               /\ ledgers'[c].party \in DOMAIN parties /\ ledgers'[c].balance \in Int
               /\ LedgerCode(ledgers'[c].party) = c
    <3>1. CASE c \in done
      <4>1. run.deltas[c] \in Int /\ ledgers[c].balance \in Int
        BY <1>1, <1>2, <3>1 DEF TypeInv, LedgersType
      <4>2. ledgers'[c] = [party |-> ledgers[c].party, balance |-> ledgers[c].balance + run.deltas[c],
                           moved |-> c \in grown]
        BY <1>3, <3>1
      <4> QED
        BY <4>1, <4>2 DEF TypeInv, LedgersType
    <3>2. CASE c \notin done
      BY <1>1, <3>2 DEF TypeInv, LedgersType
    <3> QED
      BY <3>1, <3>2
  <2> QED
    BY <1>1, <1>4, <2>1 DEF LedgersType
<1>6. ASSUME NEW c \in Codes \ stale' PROVE Balance(c)' = Balance(c) + run.deltas[c]
  <2>1. CASE c \in done
    <3>1. c \in DOMAIN ledgers /\ c \in DOMAIN ledgers'
      BY <1>1, <2>1
    <3>2. ledgers'[c].balance = ledgers[c].balance + run.deltas[c]
      <4>1. PICK b : ledgers'[c] = [party |-> ledgers[c].party, balance |-> ledgers[c].balance + run.deltas[c],
                                    moved |-> b]
        BY <1>3, <2>1, Zenon
      <4> QED
        BY <4>1
    <3> QED
      BY <3>1, <3>2 DEF Balance
  <2>2. CASE c \notin done
    <3>1. run.deltas[c] = 0
      BY <1>1, <1>2, <1>6, <2>2 DEF Due
    <3>2. Balance(c)' = Balance(c) /\ Balance(c) \in Int
      BY <1>1, <2>2 DEF Balance, TypeInv, LedgersType
    <3> QED
      BY <3>1, <3>2
  <2> QED
    BY <2>1, <2>2
<1> QED
  BY <1>1, <1>5, <1>6, EndKeeps

LEMMA CutKeeps == ASSUME TypeInv, ExportInv, CutExport PROVE TypeInv' /\ ExportInv'
<1>1. /\ parties' = parties /\ book' = book /\ ledgers' = ledgers /\ txRows' = txRows /\ touched' = touched
      /\ run.on /\ run' = Idle /\ stale' = stale \cup Due
  BY DEF CutExport
<1>2. run.deltas \in [Codes -> Int]
  BY <1>1 DEF TypeInv, RunType
<1>3. LedgersType'
  BY <1>1, SameParties DEF TypeInv, LedgersType
<1>4. ASSUME NEW c \in Codes \ stale' PROVE Balance(c)' = Balance(c) + run.deltas[c]
  <2>1. run.deltas[c] = 0
    BY <1>1, <1>2, <1>4 DEF Due
  <2>2. Balance(c)' = Balance(c) /\ Balance(c) \in Int
    BY <1>1 DEF Balance, TypeInv, LedgersType
  <2> QED
    BY <2>1, <2>2
<1> QED
  BY <1>1, <1>3, <1>4, EndKeeps

LEMMA InvStep == TypeInv /\ ExportInv /\ [ExportNext]_exportVars => TypeInv' /\ ExportInv'
<1> SUFFICES ASSUME TypeInv, ExportInv, [ExportNext]_exportVars PROVE TypeInv' /\ ExportInv'
  OBVIOUS
<1>1. CASE \E v \in Vouchers : SaveVoucher(v) \/ EraseVoucher(v)
  BY <1>1, SaveKeeps, EraseKeeps
<1>2. CASE NewParty
  BY <1>2, PartyKeeps
<1>3. CASE \E years \in Scopes, refused \in SUBSET Codes, blind \in BOOLEAN : StartExport(years, refused, blind)
  BY <1>3, StartKeeps
<1>4. CASE SkipLeg \/ InsertLeg
  BY <1>4, SkipKeeps, InsertKeeps
<1>5. CASE \E written \in BOOLEAN : RefuseLeg(written)
  BY <1>5, RefuseKeeps
<1>6. CASE \E done \in SUBSET Codes : \E grown \in SUBSET done : UpdateBalances(done, grown)
  BY <1>6, UpdateKeeps
<1>7. CASE CutExport
  BY <1>7, CutKeeps
<1>8. CASE UNCHANGED exportVars
  <2>1. /\ parties' = parties /\ book' = book /\ ledgers' = ledgers /\ txRows' = txRows /\ run' = run
        /\ touched' = touched /\ stale' = stale
    BY <1>8 DEF exportVars
  <2>2. /\ Codes' = Codes /\ LegType' = LegType
        /\ \A g : LegsOf(g)' = LegsOf(g)
        /\ \A y : Legs(y)' = Legs(y)
        /\ \A p : LedgerCode(p)' = LedgerCode(p)
        /\ BooksType' /\ BooksUnique'
    BY <2>1, SameBooks DEF TypeInv
  <2>3. LedgersType' /\ RowsType' /\ HistoryType'
    BY <2>1, <2>2 DEF TypeInv, LedgersType, RowsType, HistoryType
  <2>4. RunType'
    BY <2>1, <2>2 DEF TypeInv, RunType
  <2>5. ThroughInv' /\ LegsInv' /\ SeenInv'
    BY <2>1, <2>2 DEF ExportInv, ThroughInv, LegsInv, SeenInv
  <2>6. BalanceInv'
    BY <2>1, <2>2, PostedTotal DEF ExportInv, BalanceInv, Balance, Delta
  <2> QED
    BY <2>2, <2>3, <2>4, <2>5, <2>6 DEF TypeInv, ExportInv
<1> QED
  BY <1>1, <1>2, <1>3, <1>4, <1>5, <1>6, <1>7, <1>8 DEF ExportNext

LEMMA InvHolds == ExportSpec => [](TypeInv /\ ExportInv)
<1>1. ExportInit => TypeInv /\ ExportInv
  BY InvInit
<1>2. (TypeInv /\ ExportInv) /\ [ExportNext]_exportVars => (TypeInv /\ ExportInv)'
  BY InvStep
<1> QED
  BY <1>1, <1>2, PTL DEF ExportSpec
-----------------------------------------------------------------------------
(* Theorems *)

LEMMA TypesAreRight == TypeInv => ExportTypeOK
<1> SUFFICES ASSUME TypeInv PROVE ExportTypeOK
  OBVIOUS
<1>1. Range(book) \subseteq Vouchers
  BY DEF TypeInv, BooksType, Range
<1>2. \A c \in DOMAIN ledgers : LedgerCode(ledgers[c].party) = c /\ ledgers[c].balance \in Int
  BY DEF TypeInv, LedgersType
<1>3. txRows \in [DOMAIN txRows -> Nat \ {0}]
  BY DEF TypeInv, RowsType
<1>4. \A r \in DOMAIN txRows : r.code \in Codes \cup {0} /\ r.row \in 1 .. 2 * Cardinality(Series)
  BY DEF TypeInv, RowsType, LegType
<1>5. run.on => DOMAIN run.deltas = Codes
  BY DEF TypeInv, RunType
<1>6. \A leg \in run.todo : leg.group[1] \in run.years
  BY LegsOfYears DEF TypeInv, RunType
<1>7. touched \subseteq BookYears \X VoucherNos /\ stale \subseteq Codes \cup {0}
  BY DEF TypeInv, HistoryType
<1> QED
  BY <1>1, <1>2, <1>3, <1>4, <1>5, <1>6, <1>7 DEF ExportTypeOK

\* Ledgers are of parties that have their code, a group has a leg or two of each
\* series, and an export is over before the books go on (exportViaLibMdb).
THEOREM ExportTypeCorrect == ExportSpec => []ExportTypeOK
<1>1. TypeInv => ExportTypeOK
  BY TypesAreRight
<1> QED
  BY <1>1, InvHolds, PTL

\* An export leaves no leg of its years out and none twice, over all that earlier
\* exports left half done (existingTxSignatures).
THEOREM ExportsAreExact == ExportSpec => []ExportIsExact
<1>1. TypeInv /\ ExportInv => ExportIsExact
  <2> SUFFICES ASSUME TypeInv, ExportInv, run.on, run.todo = {}, ~ run.refused,
                      NEW g \in GroupsOf(run.years)
               PROVE  /\ LegsOf(g) \subseteq RowsOf(g)
                      /\ g \notin touched => RowsOf(g) = LegsOf(g) /\ \A leg \in LegsOf(g) : txRows[leg] = 1
    BY DEF ExportIsExact
  <2>1. LegsOf(g) \subseteq Legs(run.years)
    BY DEF Legs
  <2>2. \A leg \in LegsOf(g) : leg.group = g
    BY LegsAre DEF TypeInv
  <2>3. LegsOf(g) \subseteq RowsOf(g)
    BY <2>1, <2>2 DEF ExportInv, ThroughInv, RowsOf
  <2>4. ASSUME g \notin touched PROVE \A r \in RowsOf(g) : r \in LegsOf(g) /\ txRows[r] = 1
    BY <2>4 DEF ExportInv, LegsInv, RowsOf
  <2> QED
    BY <2>3, <2>4
<1> QED
  BY <1>1, InvHolds, PTL

\* What a ledger's balance says is what its rows come to, as long as no update of
\* it was lost (applyLedgerBalanceDeltas).
THEOREM BalancesAreSums == ExportSpec => []BalancesFollow
<1>1. TypeInv /\ ExportInv => BalancesFollow
  <2> SUFFICES ASSUME TypeInv, ExportInv, ~ run.on, NEW c \in DOMAIN ledgers \ stale
               PROVE  ledgers[c].balance = Posted(c)
    BY DEF BalancesFollow
  <2>1. c \in Codes \ stale
    BY LedgersHaveCodes DEF TypeInv
  <2>2. Balance(c) + Delta(c) = Posted(c)
    BY <2>1 DEF ExportInv, BalanceInv
  <2>3. Balance(c) = ledgers[c].balance /\ Delta(c) = 0 /\ ledgers[c].balance \in Int
    BY DEF Balance, Delta, TypeInv, LedgersType
  <2> QED
    BY <2>2, <2>3
<1> QED
  BY <1>1, InvHolds, PTL
=============================================================================
