----------------------------- MODULE Maxima -------------------------------
(* A set of natural numbers has a least element, a finite one a largest. *)
EXTENDS Naturals, FiniteSetTheorems, WellFoundedInduction, TLAPS

\* By the well-foundedness of the strict subset: a smallest counterexample
\* without one of its elements is none.
LEMMA HasLargest ==
    ASSUME NEW S, S \subseteq Nat, IsFiniteSet(S), S # {}
    PROVE  \E m \in S : \A x \in S : x <= m
<1> DEFINE HasMax(A) == \E m \in A : \A x \in A : x <= m
           Bad == {A \in SUBSET S : A # {} /\ ~ HasMax(A)}
<1>1. Bad = {}
  <2> SUFFICES ASSUME Bad # {} PROVE FALSE
    OBVIOUS
  <2>1. IsWellFoundedOn(StrictSubsetOrdering(S), SUBSET S)
    BY FS_StrictSubsetOrderingWellFounded, FS_FiniteSubsetsOfFinite
  <2>2. PICK A \in Bad : \A B \in Bad : <<B, A>> \notin StrictSubsetOrdering(S)
    <3>1. Bad \subseteq SUBSET S
      OBVIOUS
    <3> HIDE DEF Bad
    <3> QED
      BY <2>1, <3>1, WFMin
  <2>3. PICK a \in A : TRUE
    OBVIOUS
  <2>4. A \ {a} \notin Bad
    BY <2>2, <2>3 DEF StrictSubsetOrdering
  <2>5. CASE A \ {a} = {}
    BY <2>3, <2>5
  <2>6. CASE A \ {a} # {}
    <3>1. PICK m \in A \ {a} : \A x \in A \ {a} : x <= m
      BY <2>4, <2>6
    <3>2. a \in Nat /\ m \in Nat
      BY <3>1
    <3>3. CASE a <= m
      BY <3>1, <3>3
    <3>4. CASE ~ (a <= m)
      BY <3>1, <3>2, <3>4
    <3> QED
      BY <3>3, <3>4
  <2> QED
    BY <2>5, <2>6
<1> QED
  BY <1>1

\* By the well-foundedness of the numbers.
LEMMA HasLeast == ASSUME NEW S, S \subseteq Nat, S # {} PROVE \E m \in S : \A x \in S : m <= x
<1>1. IsWellFoundedOn(OpToRel(<, Nat), Nat)
  BY NatLessThanWellFounded
<1>2. PICK m \in S : \A x \in S : <<x, m>> \notin OpToRel(<, Nat)
  BY <1>1, WFMin
<1>3. \A x \in S : ~ (x < m)
  BY <1>2 DEF OpToRel
<1> QED
  BY <1>3
=============================================================================
