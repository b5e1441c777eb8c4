------------------------- MODULE Documents_proofs -------------------------
(***************************************************************************)
(* Theorems about Vouchers, for every set of years, families and instances *)
(* of the program, every file and every bound; about BankStatement; about  *)
(* Bills, for every set of years and numbers and either model; about       *)
(* Forms, for every kind of form and every set of years; and about the     *)
(* documents together.                                                     *)
(***************************************************************************)
EXTENDS MCDocuments, Maxima

-----------------------------------------------------------------------------
(* Vouchers *)

\* Ids are numbers below the counter and name one header: there are finitely many.
LEMMA HeadersFinite == ASSUME VouchersTypeOK PROVE IsFiniteSet(headers)
<1> DEFINE f == [h \in headers |-> h.id]
<1>1. \A h \in headers : h.id \in 1..nextHeader
  BY DEF VouchersTypeOK, Row
<1>2. f \in Injection(headers, 1..nextHeader)
  <2>1. f \in [headers -> 1..nextHeader]
    BY <1>1
  <2>2. \A g, h \in headers : g.id = h.id => g = h
    BY DEF VouchersTypeOK
  <2> QED
    BY <2>1, <2>2 DEF Injection, IsInjective
<1>3. IsFiniteSet(1..nextHeader)
  BY FS_Interval DEF VouchersTypeOK
<1> QED
  BY <1>2, <1>3, FS_Injection

\* The next number is past every number the family has in the year.
LEMMA NextNoIsFresh ==
    ASSUME VouchersTypeOK, NEW s \in Families, NEW y \in EntryYears
    PROVE  /\ NextNo(s, y) \in Number
           /\ NextNo(s, y).family = s
           /\ \A h \in headers : Counted(h, s, y) => h.no.n < NextNo(s, y).n
<1> DEFINE counting == {g \in headers : Counted(g, s, y)}
           numbers == {h.no.n : h \in counting}
           used == {0} \cup numbers
           last == CHOOSE n \in used : \A u \in used : u <= n
           f == [h \in counting |-> h.no.n]
<1>1. IsFiniteSet(counting)
  BY HeadersFinite, FS_Subset
<1>2. IsFiniteSet(numbers)
  <2>1. f \in Surjection(counting, numbers)
    BY DEF Surjection
  <2> QED
    BY <1>1, <2>1, FS_Surjection
<1>3. used \subseteq Nat
  BY DEF VouchersTypeOK, Row, Number
<1>4. IsFiniteSet(used)
  <2> HIDE DEF numbers
  <2> QED
    BY <1>2, FS_EmptySet, FS_AddElement, FS_Union, FS_Singleton
<1>5. last \in used /\ \A u \in used : u <= last
  <2> HIDE DEF used
  <2>1. used # {}
    BY DEF used
  <2> QED
    BY <1>3, <1>4, <2>1, HasLargest
<1>6. last \in Nat
  BY <1>3, <1>5
<1>7. NextNo(s, y) = [year |-> y, family |-> s, n |-> last + 1]
  BY DEF NextNo
<1>8. \A h \in counting : h.no.n \in Nat /\ h.no.n <= last
  BY <1>3, <1>5
<1> HIDE DEF last, used
<1> QED
  BY <1>6, <1>7, <1>8 DEF Number
-----------------------------------------------------------------------------
(* Type correctness *)

LEMMA FormFields ==
    ASSUME VouchersTypeOK, NEW i \in Instances, entry[i] # NoForm
    PROVE  entry[i] \in FormType
  BY DEF VouchersTypeOK

LEMMA MadeFrom ==
    ASSUME NEW id \in Nat \ {0}, NEW v \in Voucher
    PROVE  /\ Header(id, v) \in Row /\ Header(id, v).id = id
           /\ Leg(id, v) \in Row /\ Leg(id, v).id = id
           /\ VoucherOf(Header(id, v)) = v /\ VoucherOf(Leg(id, v)) = v
           /\ LegsFrom(id, v) \subseteq Row
           /\ \A l \in LegsFrom(id, v) : (l.id = id \/ l.id = id + 1) /\ VoucherOf(l) = v
  BY DEF Header, Leg, LegsFrom, Row, Voucher, VoucherOf

LEMMA TypeInit == ASSUME VouchersInit PROVE VouchersTypeOK
<1> PICK F \in Files :
        /\ headers = {Header(k, F[k]) : k \in DOMAIN F}
        /\ voucherLegs = UNION {LegsFrom(2 * k - 1, F[k]) : k \in DOMAIN F}
        /\ nextHeader = Len(F) + 1
        /\ nextLeg = 2 * Len(F) + 1
        /\ unique = (Extras(headers) = {})
        /\ locked = {}
        /\ entry = [i \in Instances |-> NoForm]
        /\ book = {F[k] : k \in DOMAIN F}
        /\ touched = (F # <<>>)
  BY DEF VouchersInit
<1>1. F \in Seq(Voucher) /\ Len(F) \in Nat /\ DOMAIN F = 1..Len(F)
  BY ConstantsAssumption
<1>2. \A k \in 1..Len(F) : F[k] \in Voucher
  BY <1>1
<1>3. \A h \in headers : \E k \in 1..Len(F) : h = Header(k, F[k])
  BY <1>1
<1>4. \A h \in headers : h \in Row /\ h.id < nextHeader
  BY <1>1, <1>2, <1>3, MadeFrom
<1>5. \A x, y \in headers : x.id = y.id => x = y
  BY <1>1, <1>2, <1>3, MadeFrom
<1>6. \A l \in voucherLegs : \E k \in 1..Len(F) : l \in LegsFrom(2 * k - 1, F[k])
  BY <1>1
<1>7. \A l \in voucherLegs : \E k \in 1..Len(F) :
          l = Leg(2 * k - 1, F[k]) \/ l = Leg(2 * k, F[k])
  <2> TAKE l \in voucherLegs
  <2>1. PICK k \in 1..Len(F) : l \in LegsFrom(2 * k - 1, F[k])
    BY <1>6
  <2>2. (2 * k - 1) + 1 = 2 * k
    BY <1>1
  <2> QED
    BY <2>1, <2>2 DEF LegsFrom
<1>8. \A l \in voucherLegs : l \in Row /\ l.id < nextLeg
  <2> TAKE l \in voucherLegs
  <2>1. PICK k \in 1..Len(F) : l = Leg(2 * k - 1, F[k]) \/ l = Leg(2 * k, F[k])
    BY <1>7
  <2>2. 2 * k - 1 \in Nat \ {0} /\ 2 * k \in Nat \ {0}
    BY <1>1
  <2>3. 2 * k - 1 < nextLeg /\ 2 * k < nextLeg
    BY <1>1
  <2>4. \A id \in Nat \ {0} : Leg(id, F[k]) \in Row /\ Leg(id, F[k]).id = id
    BY <1>2, MadeFrom
  <2>5. CASE l = Leg(2 * k - 1, F[k])
    BY <2>2, <2>3, <2>4, <2>5
  <2>6. CASE l = Leg(2 * k, F[k])
    BY <2>2, <2>3, <2>4, <2>6
  <2> QED
    BY <2>1, <2>5, <2>6
<1>9. \A x, y \in voucherLegs : x.id = y.id => x = y
  <2> TAKE x, y \in voucherLegs
  <2>1. PICK k \in 1..Len(F) : x = Leg(2 * k - 1, F[k]) \/ x = Leg(2 * k, F[k])
    BY <1>7
  <2>2. PICK m \in 1..Len(F) : y = Leg(2 * m - 1, F[m]) \/ y = Leg(2 * m, F[m])
    BY <1>7
  <2>3. x.id \in {2 * k - 1, 2 * k} /\ y.id \in {2 * m - 1, 2 * m}
    BY <2>1, <2>2 DEF Leg
  <2>4. x.id = y.id => k = m
    BY <1>1, <2>3
  <2>5. x = Leg(x.id, F[k]) /\ y = Leg(y.id, F[m])
    BY <2>1, <2>2 DEF Leg
  <2> QED
    BY <2>4, <2>5
<1> QED
  BY <1>1, <1>2, <1>4, <1>5, <1>8, <1>9 DEF VouchersTypeOK

\* Steps that leave the tables and the history alone.
LEMMA ScreenType ==
    ASSUME VouchersTypeOK, NEW i \in Instances,
           \/ \E s \in Families, y \in EntryYears : OpenNew(i, s, y)
           \/ \E l \in voucherLegs : Load(i, l)
           \/ Leave(i)
    PROVE  VouchersTypeOK'
<1>1. CASE \E s \in Families, y \in EntryYears : OpenNew(i, s, y)
  <2> PICK s \in Families, y \in EntryYears : OpenNew(i, s, y)
    BY <1>1
  <2>1. Form(0, [no |-> NextNo(s, y), year |-> y, raw |-> s]) \in FormType
    BY NextNoIsFresh DEF Form, FormType
  <2> QED
    BY <2>1 DEF OpenNew, Screens, voucherTables, VouchersTypeOK
<1>2. CASE \E l \in voucherLegs : Load(i, l)
  <2> PICK l \in voucherLegs : Load(i, l)
    BY <1>2
  <2>1. Form(l.id, VoucherOf(l)) \in FormType
    BY DEF VouchersTypeOK, Row, Form, FormType, VoucherOf
  <2> QED
    BY <2>1 DEF Load, Screens, voucherTables, VouchersTypeOK
<1>3. CASE Leave(i)
  BY <1>3 DEF Leave, Screens, voucherTables, VouchersTypeOK
<1> QED
  BY <1>1, <1>2, <1>3

LEMMA SaveNewType == ASSUME VouchersTypeOK, NEW i \in Instances, SaveNew(i) PROVE VouchersTypeOK'
<1> DEFINE f == entry[i]
           v == VoucherOf(f)
<1>1. v \in Voucher
  BY FormFields DEF SaveNew, FormType, VoucherOf, Voucher
<1>2. nextHeader \in Nat \ {0} /\ nextLeg \in Nat \ {0}
  BY DEF VouchersTypeOK
<1>3. headers' = headers \cup {Header(nextHeader, v)} /\ nextHeader' = nextHeader + 1
  BY DEF SaveNew
<1>4. voucherLegs' = voucherLegs \cup LegsFrom(nextLeg, v) /\ nextLeg' = nextLeg + 2
  BY DEF SaveNew
<1>5. headers' \subseteq Row /\ \A h \in headers' : h.id < nextHeader'
  BY <1>1, <1>2, <1>3, MadeFrom DEF VouchersTypeOK, Row
<1>6. \A x, y \in headers' : x.id = y.id => x = y
  BY <1>1, <1>2, <1>3, MadeFrom DEF VouchersTypeOK, Row
<1>7. voucherLegs' \subseteq Row /\ \A l \in voucherLegs' : l.id < nextLeg'
  BY <1>1, <1>2, <1>4, MadeFrom DEF VouchersTypeOK, Row
<1>8. \A x, y \in voucherLegs' : x.id = y.id => x = y
  <2>1. \A x, y \in LegsFrom(nextLeg, v) : x.id = y.id => x = y
    BY <1>2 DEF LegsFrom, Leg
  <2>2. \A x \in voucherLegs : x.id < nextLeg /\ x.id \in Nat
    BY DEF VouchersTypeOK, Row
  <2>3. \A x \in LegsFrom(nextLeg, v) : x.id >= nextLeg
    BY <1>2 DEF LegsFrom, Leg
  <2> QED
    BY <1>2, <1>4, <2>1, <2>2, <2>3 DEF VouchersTypeOK
<1>9. /\ nextHeader' \in Nat \ {0} /\ nextLeg' \in Nat \ {0}
      /\ unique' \in BOOLEAN /\ touched' \in BOOLEAN /\ locked' \subseteq EntryYears
      /\ entry' \in [Instances -> FormType \cup {NoForm}] /\ book' \subseteq Voucher
  BY <1>1, <1>2 DEF SaveNew, VouchersTypeOK
<1> QED
  BY <1>5, <1>6, <1>7, <1>8, <1>9 DEF VouchersTypeOK

\* What an edit leaves in the tables.
LEMMA EditFacts ==
    ASSUME VouchersTypeOK, NEW i \in Instances, NEW s \in Families, NEW y \in EntryYears,
           SaveEdit(i, s, y)
    PROVE  LET v == [no |-> entry[i].no, year |-> y, raw |-> s] IN
           /\ entry[i] \in FormType /\ v \in Voucher
           /\ \A h \in headers' :
                 \/ h \in headers /\ h.id # entry[i].id
                 \/ h = Header(entry[i].id, v) /\ \E g \in headers : g.id = entry[i].id
           /\ voucherLegs' \subseteq voucherLegs \cup LegsFrom(nextLeg, v)
           /\ y \notin locked
<1> DEFINE f == entry[i]
           v == [no |-> f.no, year |-> y, raw |-> s]
           target == {h \in headers : h.id = f.id}
<1>1. f \in FormType
  BY FormFields DEF SaveEdit
<1>2. v \in Voucher
  BY <1>1 DEF FormType, Voucher
<1>3. headers' = (headers \ target) \cup {Header(h.id, v) : h \in target}
  BY DEF SaveEdit
<1>4. \A h \in headers' :
          \/ h \in headers /\ h.id # f.id
          \/ h = Header(f.id, v) /\ \E g \in headers : g.id = f.id
  <2> HIDE DEF v
  <2> QED
    BY <1>3
<1>5. voucherLegs' \subseteq voucherLegs \cup LegsFrom(nextLeg, v) /\ y \notin locked
  BY DEF SaveEdit, Writable
<1> QED
  BY <1>1, <1>2, <1>4, <1>5

LEMMA SaveEditType ==
    ASSUME VouchersTypeOK, NEW i \in Instances, NEW s \in Families, NEW y \in EntryYears,
           SaveEdit(i, s, y)
    PROVE  VouchersTypeOK'
<1> DEFINE v == [no |-> entry[i].no, year |-> y, raw |-> s]
<1>1. v \in Voucher
  BY EditFacts
<1>2. nextHeader \in Nat \ {0} /\ nextHeader' = nextHeader
  BY DEF VouchersTypeOK, SaveEdit
<1>3. nextLeg \in Nat \ {0} /\ nextLeg' = nextLeg + 2
  BY DEF VouchersTypeOK, SaveEdit
<1>4. \A h \in headers' : h \in Row /\ \E g \in headers : g.id = h.id
  <2> TAKE h \in headers'
  <2>1. CASE h \in headers
    BY <2>1 DEF VouchersTypeOK
  <2>2. ASSUME NEW g \in headers, g.id = entry[i].id, h = Header(entry[i].id, v)
        PROVE  h \in Row /\ h.id = g.id
    <3>1. g.id \in Nat \ {0}
      BY DEF VouchersTypeOK, Row
    <3> QED
      BY <1>1, <2>2, <3>1, MadeFrom
  <2> QED
    BY <2>1, <2>2, EditFacts
<1>5. headers' \subseteq Row /\ \A h \in headers' : h.id < nextHeader'
  BY <1>2, <1>4 DEF VouchersTypeOK
<1>6. \A g, h \in headers' : g.id = h.id => g = h
  <2> SUFFICES ASSUME NEW g \in headers', NEW h \in headers', g.id = h.id
               PROVE  g = h
    OBVIOUS
  <2>1. CASE g \in headers /\ h \in headers
    BY <2>1 DEF VouchersTypeOK
  <2>2. CASE g \notin headers
    <3>1. g = Header(entry[i].id, v)
      BY <2>2, EditFacts
    <3>2. h.id = entry[i].id
      BY <3>1 DEF Header
    <3>3. h = Header(entry[i].id, v)
      BY <3>2, EditFacts
    <3> QED
      BY <3>1, <3>3
  <2>3. CASE h \notin headers
    <3>1. h = Header(entry[i].id, v)
      BY <2>3, EditFacts
    <3>2. g.id = entry[i].id
      BY <3>1 DEF Header
    <3>3. g = Header(entry[i].id, v)
      BY <3>2, EditFacts
    <3> QED
      BY <3>1, <3>3
  <2> QED
    BY <2>1, <2>2, <2>3
<1>7. voucherLegs' \subseteq voucherLegs \cup LegsFrom(nextLeg, v)
  BY EditFacts
<1>8. voucherLegs' \subseteq Row /\ \A l \in voucherLegs' : l.id < nextLeg'
  BY <1>1, <1>3, <1>7, MadeFrom DEF VouchersTypeOK, Row
<1>9. \A x, z \in voucherLegs' : x.id = z.id => x = z
  <2>1. \A x, z \in LegsFrom(nextLeg, v) : x.id = z.id => x = z
    BY <1>3 DEF LegsFrom, Leg
  <2>2. \A x \in voucherLegs : x.id < nextLeg /\ x.id \in Nat
    BY DEF VouchersTypeOK, Row
  <2>3. \A x \in LegsFrom(nextLeg, v) : x.id >= nextLeg
    BY <1>3 DEF LegsFrom, Leg
  <2> QED
    BY <1>3, <1>7, <2>1, <2>2, <2>3 DEF VouchersTypeOK
<1>10. /\ unique' \in BOOLEAN /\ touched' \in BOOLEAN /\ locked' \subseteq EntryYears
       /\ entry' \in [Instances -> FormType \cup {NoForm}] /\ book' \subseteq Voucher
  BY <1>1 DEF SaveEdit, VouchersTypeOK
<1> QED
  BY <1>2, <1>3, <1>5, <1>6, <1>8, <1>9, <1>10 DEF VouchersTypeOK

\* Deleting only takes rows away.
LEMMA EraseType ==
    ASSUME VouchersTypeOK, NEW id, NEW v, Erase(id, v)
    PROVE  /\ headers' \subseteq headers /\ voucherLegs' \subseteq voucherLegs
           /\ book' \subseteq book /\ touched'
           /\ UNCHANGED <<nextHeader, nextLeg, unique, locked>>
  BY DEF Erase

LEMMA DeleteType ==
    ASSUME VouchersTypeOK, NEW i \in Instances,
           DeleteVoucher(i) \/ \E l \in voucherLegs : DeleteRow(i, l)
    PROVE  VouchersTypeOK'
<1>1. /\ headers' \subseteq headers /\ voucherLegs' \subseteq voucherLegs
      /\ book' \subseteq book /\ touched'
      /\ UNCHANGED <<nextHeader, nextLeg, unique, locked>>
  BY EraseType DEF DeleteVoucher, DeleteRow
<1>2. entry' \in [Instances -> FormType \cup {NoForm}]
  BY DEF DeleteVoucher, DeleteRow, VouchersTypeOK
<1> QED
  BY <1>1, <1>2 DEF VouchersTypeOK

LEMMA RenumberType ==
    ASSUME VouchersTypeOK, NEW i \in Instances, NEW h \in headers, Renumber(i, h)
    PROVE  VouchersTypeOK'
<1> DEFINE fresh == NextNo(h.no.family, h.year)
           anew(x) == [x EXCEPT !.no = fresh]
           moved == {l \in voucherLegs : l.no = h.no /\ l.year = h.year /\ SameType(l, h)}
<1>1. fresh \in Number
  BY NextNoIsFresh DEF VouchersTypeOK, Row, Number
<1>2. headers' = (headers \ {h}) \cup {anew(h)} /\ voucherLegs' = (voucherLegs \ moved) \cup {anew(l) : l \in moved}
  BY DEF Renumber
<1>3. book' = book \cup {VoucherOf(anew(h))} /\ touched'
  BY DEF Renumber
<1>4. UNCHANGED <<nextHeader, nextLeg, unique, locked, entry>>
  BY DEF Renumber
<1>5. \A x \in Row : anew(x) \in Row /\ anew(x).id = x.id
  BY <1>1 DEF Row
<1> HIDE DEF fresh, anew
<1>6. headers' \subseteq Row /\ \A g \in headers' : g.id < nextHeader
  BY <1>2, <1>5 DEF VouchersTypeOK
<1>7. \A x, z \in headers' : x.id = z.id => x = z
  BY <1>2, <1>5 DEF VouchersTypeOK
<1>8. voucherLegs' \subseteq Row /\ \A l \in voucherLegs' : l.id < nextLeg
  BY <1>2, <1>5 DEF VouchersTypeOK
<1>9. \A x, z \in voucherLegs' : x.id = z.id => x = z
  BY <1>2, <1>5 DEF VouchersTypeOK
<1>10. book' \subseteq Voucher
  BY <1>3, <1>5 DEF VouchersTypeOK, Row, Voucher, VoucherOf
<1> QED
  BY <1>3, <1>4, <1>6, <1>7, <1>8, <1>9, <1>10 DEF VouchersTypeOK

LEMMA TypeStep == VouchersTypeOK /\ [VouchersNext]_voucherVars => VouchersTypeOK'
<1> SUFFICES ASSUME VouchersTypeOK, [VouchersNext]_voucherVars PROVE VouchersTypeOK'
  OBVIOUS
<1>1. CASE UNCHANGED voucherVars
  BY <1>1 DEF voucherVars, VouchersTypeOK
<1>2. ASSUME NEW i \in Instances, Screen(i) PROVE VouchersTypeOK'
  BY <1>2, ScreenType, SaveNewType, SaveEditType, DeleteType, RenumberType DEF Screen
<1>3. CASE Heal
  BY <1>3 DEF Heal, voucherTables, VouchersTypeOK
<1>4. ASSUME NEW y \in EntryYears, Lock(y) PROVE VouchersTypeOK'
  BY <1>4 DEF Lock, voucherTables, VouchersTypeOK
<1> QED
  BY <1>1, <1>2, <1>3, <1>4 DEF VouchersNext

\* Type correctness, with counters that are past every id in use.
THEOREM VoucherTypeCorrect == VouchersSpec => []VouchersTypeOK
  BY TypeInit, TypeStep, PTL DEF VouchersSpec
-----------------------------------------------------------------------------
(* The saves are whole *)

\* The counter is odd between two saves: a debit gets it, its credit the next id.
WholeInv == VouchersTypeOK /\ nextLeg % 2 = 1 /\ SavesAreWhole

LEMMA PartnerPair ==
    ASSUME NEW n \in Nat \ {0}, n % 2 = 1
    PROVE  /\ Partner(n) = n + 1 /\ Partner(n + 1) = n
           /\ (n + 2) % 2 = 1
  BY DEF Partner

LEMMA PairIsWhole ==
    ASSUME NEW n \in Nat \ {0}, n % 2 = 1, NEW v \in Voucher
    PROVE  \A l \in LegsFrom(n, v) : \E k \in LegsFrom(n, v) :
               k.id = Partner(l.id) /\ VoucherOf(k) = VoucherOf(l)
<1>1. /\ Leg(n, v).id = n /\ Leg(n + 1, v).id = n + 1
      /\ VoucherOf(Leg(n, v)) = v /\ VoucherOf(Leg(n + 1, v)) = v
  BY DEF Leg, VoucherOf, Voucher
<1>2. Leg(n, v) \in LegsFrom(n, v) /\ Leg(n + 1, v) \in LegsFrom(n, v)
  BY DEF LegsFrom
<1>3. \A l \in LegsFrom(n, v) : l = Leg(n, v) \/ l = Leg(n + 1, v)
  BY DEF LegsFrom
<1> QED
  BY <1>1, <1>2, <1>3, PartnerPair

\* A selection that looks at the voucher only keeps or drops both legs.
LEMMA SelectionIsWhole ==
    ASSUME SavesAreWhole, NEW L, L \subseteq voucherLegs,
           \A k, l \in voucherLegs : VoucherOf(k) = VoucherOf(l) /\ l \in L => k \in L
    PROVE  \A l \in L : \E k \in L : k.id = Partner(l.id) /\ VoucherOf(k) = VoucherOf(l)
  BY DEF SavesAreWhole

LEMMA WholeInit == ASSUME VouchersInit PROVE WholeInv
<1> PICK F \in Files :
        /\ voucherLegs = UNION {LegsFrom(2 * k - 1, F[k]) : k \in DOMAIN F}
        /\ nextLeg = 2 * Len(F) + 1
  BY DEF VouchersInit
<1>1. F \in Seq(Voucher) /\ Len(F) \in Nat /\ DOMAIN F = 1..Len(F)
  BY ConstantsAssumption
<1>2. nextLeg % 2 = 1
  BY <1>1
<1>3. SavesAreWhole
  <2> SUFFICES ASSUME NEW l \in voucherLegs
               PROVE  \E k \in voucherLegs : k.id = Partner(l.id) /\ VoucherOf(k) = VoucherOf(l)
    BY DEF SavesAreWhole
  <2>1. PICK j \in 1..Len(F) : l \in LegsFrom(2 * j - 1, F[j])
    BY <1>1
  <2>2. LegsFrom(2 * j - 1, F[j]) \subseteq voucherLegs
    BY <1>1
  <2>3. 2 * j - 1 \in Nat \ {0} /\ (2 * j - 1) % 2 = 1
    BY <1>1
  <2>4. F[j] \in Voucher
    BY <1>1
  <2>5. PICK k \in LegsFrom(2 * j - 1, F[j]) :
            k.id = Partner(l.id) /\ VoucherOf(k) = VoucherOf(l)
    BY <2>1, <2>3, <2>4, PairIsWhole
  <2> QED
    BY <2>2, <2>5
<1> QED
  BY <1>2, <1>3, TypeInit DEF WholeInv

LEMMA SaveNewWhole == ASSUME WholeInv, NEW i \in Instances, SaveNew(i) PROVE WholeInv'
<1> DEFINE v == VoucherOf(entry[i])
<1>1. VouchersTypeOK' /\ nextLeg \in Nat \ {0} /\ nextLeg % 2 = 1
  BY SaveNewType DEF WholeInv, VouchersTypeOK
<1>2. v \in Voucher
  BY FormFields DEF WholeInv, SaveNew, FormType, VoucherOf, Voucher
<1>3. voucherLegs' = voucherLegs \cup LegsFrom(nextLeg, v) /\ nextLeg' = nextLeg + 2
  BY DEF SaveNew
<1>4. nextLeg' % 2 = 1
  BY <1>1, <1>3, PartnerPair
<1>5. SavesAreWhole'
  <2> HIDE DEF v
  <2> QED
    BY <1>1, <1>2, <1>3, PairIsWhole DEF WholeInv, SavesAreWhole
<1> QED
  BY <1>1, <1>4, <1>5 DEF WholeInv

LEMMA SaveEditWhole ==
    ASSUME WholeInv, NEW i \in Instances, NEW s \in Families, NEW y \in EntryYears,
           SaveEdit(i, s, y)
    PROVE  WholeInv'
<1> DEFINE v == [no |-> entry[i].no, year |-> y, raw |-> s]
           target == {h \in headers : h.id = entry[i].id}
           numbers == {entry[i].no} \cup {h.no : h \in target}
           kept == {l \in voucherLegs : ~ (l.no \in numbers /\ SameType(l, v))}
<1>1. VouchersTypeOK' /\ nextLeg \in Nat \ {0} /\ nextLeg % 2 = 1
  BY SaveEditType DEF WholeInv, VouchersTypeOK
<1>2. v \in Voucher
  BY EditFacts DEF WholeInv
<1>3. voucherLegs' = kept \cup LegsFrom(nextLeg, v) /\ nextLeg' = nextLeg + 2
  BY DEF SaveEdit
<1>4. nextLeg' % 2 = 1
  BY <1>1, <1>3, PartnerPair
<1>5. \A l \in kept : \E k \in kept : k.id = Partner(l.id) /\ VoucherOf(k) = VoucherOf(l)
  <2>1. \A k, l \in voucherLegs : VoucherOf(k) = VoucherOf(l) /\ l \in kept => k \in kept
    <3> HIDE DEF numbers, v
    <3> QED
      BY DEF VoucherOf, SameType
  <2> HIDE DEF kept
  <2>2. kept \subseteq voucherLegs
    BY DEF kept
  <2> QED
    BY <2>1, <2>2, SelectionIsWhole DEF WholeInv
<1>6. SavesAreWhole'
  <2>1. \A l \in LegsFrom(nextLeg, v) : \E k \in LegsFrom(nextLeg, v) :
            k.id = Partner(l.id) /\ VoucherOf(k) = VoucherOf(l)
    BY <1>1, <1>2, PairIsWhole
  <2> HIDE DEF v, kept
  <2> QED
    BY <1>3, <1>5, <2>1 DEF SavesAreWhole
<1> QED
  BY <1>1, <1>4, <1>6 DEF WholeInv

LEMMA DeleteWhole ==
    ASSUME WholeInv, NEW i \in Instances, DeleteVoucher(i) \/ \E l \in voucherLegs : DeleteRow(i, l)
    PROVE  WholeInv'
<1>1. VouchersTypeOK'
  BY DeleteType DEF WholeInv
<1>2. PICK h \in headers :
          /\ voucherLegs' = {l \in voucherLegs : ~ (l.no = h.no /\ SameType(l, h))}
          /\ nextLeg' = nextLeg
  BY DEF DeleteVoucher, DeleteRow, Erase
<1>3. \A k, l \in voucherLegs : VoucherOf(k) = VoucherOf(l) /\ l \in voucherLegs' => k \in voucherLegs'
  BY <1>2 DEF VoucherOf, SameType
<1>4. SavesAreWhole'
  BY <1>2, <1>3, SelectionIsWhole DEF WholeInv, SavesAreWhole
<1> QED
  BY <1>1, <1>2, <1>4 DEF WholeInv

LEMMA RenumberWhole ==
    ASSUME WholeInv, NEW i \in Instances, NEW h \in headers, Renumber(i, h)
    PROVE  WholeInv'
<1> DEFINE fresh == NextNo(h.no.family, h.year)
           anew(x) == [x EXCEPT !.no = fresh]
           moved == {l \in voucherLegs : l.no = h.no /\ l.year = h.year /\ SameType(l, h)}
<1>1. VouchersTypeOK'
  BY RenumberType DEF WholeInv
<1>2. voucherLegs' = (voucherLegs \ moved) \cup {anew(l) : l \in moved} /\ nextLeg' = nextLeg
  BY DEF Renumber
<1>3. \A k, l \in voucherLegs : VoucherOf(k) = VoucherOf(l) => (k \in moved <=> l \in moved)
  BY DEF VoucherOf, SameType
<1>4. \A k, l \in Row : VoucherOf(k) = VoucherOf(l) =>
          /\ VoucherOf(anew(k)) = VoucherOf(anew(l))
          /\ anew(k).id = k.id /\ anew(l).id = l.id
  <2> HIDE DEF fresh
  <2> QED
    BY DEF VoucherOf, Row
<1>5. voucherLegs \subseteq Row /\ moved \subseteq voucherLegs
  BY DEF WholeInv, VouchersTypeOK
<1> HIDE DEF moved, anew
<1>6. SavesAreWhole'
  <2> SUFFICES ASSUME NEW l \in voucherLegs'
               PROVE  \E k \in voucherLegs' : k.id = Partner(l.id) /\ VoucherOf(k) = VoucherOf(l)
    BY DEF SavesAreWhole
  <2>1. CASE l \in voucherLegs \ moved
    <3>1. PICK k \in voucherLegs : k.id = Partner(l.id) /\ VoucherOf(k) = VoucherOf(l)
      BY <2>1 DEF WholeInv, SavesAreWhole
    <3> QED
      BY <1>2, <1>3, <2>1, <3>1
  <2>2. ASSUME NEW m \in moved, l = anew(m)
        PROVE  \E k \in voucherLegs' : k.id = Partner(l.id) /\ VoucherOf(k) = VoucherOf(l)
    <3>1. PICK k \in voucherLegs : k.id = Partner(m.id) /\ VoucherOf(k) = VoucherOf(m)
      BY <1>5 DEF WholeInv, SavesAreWhole
    <3>2. k \in moved
      BY <1>3, <1>5, <3>1
    <3>3. anew(k) \in voucherLegs'
      BY <1>2, <3>2
    <3> QED
      BY <1>4, <1>5, <2>2, <3>1, <3>3
  <2> QED
    BY <1>2, <2>1, <2>2
<1> QED
  BY <1>1, <1>2, <1>6 DEF WholeInv

LEMMA WholeStep == WholeInv /\ [VouchersNext]_voucherVars => WholeInv'
<1> SUFFICES ASSUME WholeInv, [VouchersNext]_voucherVars PROVE WholeInv'
  OBVIOUS
<1>1. CASE UNCHANGED <<voucherLegs, nextLeg>>
  BY <1>1, TypeStep DEF WholeInv, SavesAreWhole
<1>2. ASSUME NEW i \in Instances, Screen(i) PROVE WholeInv'
  <2>1. CASE UNCHANGED <<voucherLegs, nextLeg>>
    BY <1>1, <2>1
  <2>2. CASE ~ UNCHANGED <<voucherLegs, nextLeg>>
    <3>1. \/ SaveNew(i)
          \/ \E s \in Families, y \in EntryYears : SaveEdit(i, s, y)
          \/ DeleteVoucher(i) \/ \E l \in voucherLegs : DeleteRow(i, l)
          \/ \E h \in headers : Renumber(i, h)
      BY <1>2, <2>2 DEF Screen, OpenNew, Load, Leave, Screens, voucherTables
    <3> QED
      BY <3>1, SaveNewWhole, SaveEditWhole, DeleteWhole, RenumberWhole
  <2> QED
    BY <2>1, <2>2
<1>3. CASE UNCHANGED voucherVars \/ Heal \/ \E y \in EntryYears : Lock(y)
  BY <1>1, <1>3 DEF voucherVars, Heal, Lock, voucherTables
<1> QED
  BY <1>2, <1>3 DEF VouchersNext

\* The debit and the credit of a save are the legs of one voucher for as long as
\* one of them exists.
THEOREM VoucherSavesAreWhole == VouchersSpec => []SavesAreWhole
<1>1. WholeInv => SavesAreWhole
  BY DEF WholeInv
<1> QED
  BY <1>1, WholeInit, WholeStep, PTL DEF VouchersSpec
-----------------------------------------------------------------------------
(* Entry is exact *)

\* Until something is altered the unique index guards the numbers.
ExactInv == WholeInv /\ (~ touched => unique) /\ EntryIsExact

LEMMA ExactInit == ASSUME VouchersInit PROVE ExactInv
<1> PICK F \in Files :
        /\ headers = {Header(k, F[k]) : k \in DOMAIN F}
        /\ voucherLegs = UNION {LegsFrom(2 * k - 1, F[k]) : k \in DOMAIN F}
        /\ unique = (Extras(headers) = {})
        /\ book = {F[k] : k \in DOMAIN F}
        /\ touched = (F # <<>>)
  BY DEF VouchersInit
<1>1. ASSUME ~ touched PROVE headers = {} /\ voucherLegs = {} /\ book = {} /\ unique
  <2>1. F = <<>>
    BY <1>1, Zenon
  <2>2. DOMAIN F = {}
    BY <2>1
  <2>3. headers = {} /\ voucherLegs = {} /\ book = {}
    BY <2>2
  <2> QED
    BY <2>3 DEF Extras
<1> QED
  BY <1>1, WholeInit DEF ExactInv, EntryIsExact

LEMMA SaveNewExact == ASSUME ExactInv, NEW i \in Instances, SaveNew(i) PROVE ExactInv'
<1> DEFINE v == VoucherOf(entry[i])
<1>1. WholeInv' /\ touched' = touched /\ unique' = unique
  BY SaveNewWhole DEF ExactInv, SaveNew
<1>2. v \in Voucher
  BY FormFields DEF ExactInv, WholeInv, SaveNew, FormType, VoucherOf, Voucher
<1>3. /\ headers' = headers \cup {Header(nextHeader, v)}
      /\ voucherLegs' = voucherLegs \cup LegsFrom(nextLeg, v)
      /\ book' = book \cup {v}
      /\ ~ Taken(nextHeader, v)
  BY DEF SaveNew
<1>4. nextHeader \in Nat \ {0} /\ nextLeg \in Nat \ {0} /\ nextLeg % 2 = 1
  BY DEF ExactInv, WholeInv, VouchersTypeOK
<1> SUFFICES ASSUME ~ touched PROVE EntryIsExact'
  BY <1>1 DEF ExactInv, EntryIsExact
<1>5. /\ {VoucherOf(h) : h \in headers} = book
      /\ {VoucherOf(l) : l \in voucherLegs} = book
      /\ \A g, h \in headers : VoucherOf(g) = VoucherOf(h) => g = h
      /\ \A k, l \in voucherLegs : VoucherOf(k) = VoucherOf(l) => k.id \in {l.id, Partner(l.id)}
  BY DEF ExactInv, EntryIsExact
<1>6. \A h \in headers : VoucherOf(h) # v
  <2> SUFFICES ASSUME NEW h \in headers, VoucherOf(h) = v PROVE FALSE
    OBVIOUS
  <2>1. h.id # nextHeader
    BY <1>4 DEF ExactInv, WholeInv, VouchersTypeOK, Row
  <2>2. SameKey(h, v)
    BY DEF VoucherOf, SameKey, SameType
  <2> QED
    BY <1>3, <2>1, <2>2 DEF Taken, ExactInv
<1>7. \A l \in voucherLegs : VoucherOf(l) # v
  BY <1>5, <1>6
<1> HIDE DEF v
<1>8. VoucherOf(Header(nextHeader, v)) = v
  BY <1>2, <1>4, MadeFrom
<1>9. \A l \in LegsFrom(nextLeg, v) : VoucherOf(l) = v /\ l.id \in {nextLeg, nextLeg + 1}
  BY <1>2, <1>4, MadeFrom
<1>10. Leg(nextLeg, v) \in LegsFrom(nextLeg, v)
  BY DEF LegsFrom
<1>11. {VoucherOf(h) : h \in headers'} = book'
  BY <1>3, <1>5, <1>8
<1>12. {VoucherOf(l) : l \in voucherLegs'} = book'
  BY <1>3, <1>5, <1>9, <1>10
<1>13. \A g, h \in headers' : VoucherOf(g) = VoucherOf(h) => g = h
  BY <1>3, <1>5, <1>6, <1>8
<1>14. \A k, l \in voucherLegs' : VoucherOf(k) = VoucherOf(l) => k.id \in {l.id, Partner(l.id)}
  <2> SUFFICES ASSUME NEW k \in voucherLegs', NEW l \in voucherLegs', VoucherOf(k) = VoucherOf(l)
               PROVE  k.id \in {l.id, Partner(l.id)}
    OBVIOUS
  <2>1. CASE k \in voucherLegs /\ l \in voucherLegs
    BY <1>5, <2>1
  <2>2. CASE k \in LegsFrom(nextLeg, v) /\ l \in LegsFrom(nextLeg, v)
    BY <1>4, <1>9, <2>2, PartnerPair
  <2> QED
    BY <1>3, <1>7, <1>9, <2>1, <2>2
<1> QED
  BY <1>11, <1>12, <1>13, <1>14 DEF EntryIsExact

LEMMA ExactStep == ExactInv /\ [VouchersNext]_voucherVars => ExactInv'
<1> SUFFICES ASSUME ExactInv, [VouchersNext]_voucherVars PROVE ExactInv'
  OBVIOUS
<1>1. WholeInv'
  BY WholeStep DEF ExactInv
<1>2. CASE touched'
  BY <1>1, <1>2 DEF ExactInv, EntryIsExact
<1>3. CASE UNCHANGED <<headers, voucherLegs, book>> /\ (unique => unique') /\ (touched => touched')
  BY <1>1, <1>3 DEF ExactInv, EntryIsExact
<1>4. ASSUME NEW i \in Instances, Screen(i) PROVE ExactInv'
  <2>1. CASE SaveNew(i)
    BY <2>1, SaveNewExact
  <2>2. CASE ~ SaveNew(i)
    BY <1>2, <1>3, <1>4, <2>2 DEF Screen, OpenNew, Load, Leave, Screens, voucherTables,
                                  SaveEdit, DeleteVoucher, DeleteRow, Erase, Renumber
  <2> QED
    BY <2>1, <2>2
<1>5. CASE UNCHANGED voucherVars \/ Heal \/ \E y \in EntryYears : Lock(y)
  BY <1>3, <1>5 DEF voucherVars, Heal, Lock, voucherTables
<1> QED
  BY <1>4, <1>5 DEF VouchersNext

\* As long as vouchers are only entered the file holds what was entered, each
\* voucher once.
THEOREM VoucherEntryIsExact == VouchersSpec => []EntryIsExact
<1>1. ExactInv => EntryIsExact
  BY DEF ExactInv
<1> QED
  BY <1>1, ExactInit, ExactStep, PTL DEF VouchersSpec
-----------------------------------------------------------------------------
(* Locked years *)

\* The rows of a step in the years that are locked before it were in them before.
GainsNothing ==
    /\ \A h \in headers' : h.year \in locked =>
           \E g \in headers : g.id = h.id /\ g.year = h.year
    /\ \A l \in voucherLegs' : l.year \in locked =>
           \E k \in voucherLegs : k.id = l.id /\ k.year = l.year

LEMMA GainsNothingStep == VouchersTypeOK /\ [VouchersNext]_voucherVars => GainsNothing
<1> SUFFICES ASSUME VouchersTypeOK, [VouchersNext]_voucherVars PROVE GainsNothing
  OBVIOUS
<1>1. CASE headers' \subseteq headers /\ voucherLegs' \subseteq voucherLegs
  BY <1>1 DEF GainsNothing
<1>2. ASSUME NEW i \in Instances, SaveNew(i) PROVE GainsNothing
  <2> DEFINE v == VoucherOf(entry[i])
  <2>1. v.year \notin locked
    BY <1>2 DEF SaveNew, Writable, VoucherOf
  <2>2. headers' = headers \cup {Header(nextHeader, v)} /\ voucherLegs' = voucherLegs \cup LegsFrom(nextLeg, v)
    BY <1>2 DEF SaveNew
  <2>3. Header(nextHeader, v).year = v.year /\ \A l \in LegsFrom(nextLeg, v) : l.year = v.year
    BY DEF Header, Leg, LegsFrom
  <2> HIDE DEF v
  <2> QED
    BY <2>1, <2>2, <2>3 DEF GainsNothing
<1>3. ASSUME NEW i \in Instances, NEW s \in Families, NEW y \in EntryYears, SaveEdit(i, s, y)
      PROVE  GainsNothing
  <2> DEFINE v == [no |-> entry[i].no, year |-> y, raw |-> s]
  <2>1. v.year \notin locked
    BY <1>3, EditFacts
  <2>2. Header(entry[i].id, v).year = v.year /\ \A l \in LegsFrom(nextLeg, v) : l.year = v.year
    BY DEF Header, Leg, LegsFrom
  <2>3. /\ \A h \in headers' : h \in headers \/ h = Header(entry[i].id, v)
        /\ voucherLegs' \subseteq voucherLegs \cup LegsFrom(nextLeg, v)
    BY <1>3, EditFacts
  <2> HIDE DEF v
  <2> QED
    BY <2>1, <2>2, <2>3 DEF GainsNothing
<1>4. ASSUME NEW i \in Instances, NEW h \in headers, Renumber(i, h) PROVE GainsNothing
  <2> DEFINE anew(x) == [x EXCEPT !.no = NextNo(h.no.family, h.year)]
             moved == {l \in voucherLegs : l.no = h.no /\ l.year = h.year /\ SameType(l, h)}
  <2>1. /\ headers' = (headers \ {h}) \cup {anew(h)}
        /\ voucherLegs' = (voucherLegs \ moved) \cup {anew(l) : l \in moved}
    BY <1>4 DEF Renumber
  <2>2. \A x \in Row : anew(x).id = x.id /\ anew(x).year = x.year
    BY DEF Row
  <2>3. headers \subseteq Row /\ voucherLegs \subseteq Row /\ moved \subseteq voucherLegs
    BY DEF VouchersTypeOK
  <2> HIDE DEF anew, moved
  <2> QED
    BY <2>1, <2>2, <2>3 DEF GainsNothing
<1>5. ASSUME NEW i \in Instances, DeleteVoucher(i) \/ \E l \in voucherLegs : DeleteRow(i, l)
      PROVE  GainsNothing
  BY <1>1, <1>5, EraseType DEF DeleteVoucher, DeleteRow
<1>6. ASSUME NEW i \in Instances, Screen(i) PROVE GainsNothing
  BY <1>1, <1>2, <1>3, <1>4, <1>5, <1>6 DEF Screen, OpenNew, Load, Leave, Screens, voucherTables
<1>7. CASE UNCHANGED voucherVars \/ Heal \/ \E y \in EntryYears : Lock(y)
  BY <1>1, <1>7 DEF voucherVars, Heal, Lock, voucherTables
<1> QED
  BY <1>6, <1>7 DEF VouchersNext

\* No header and no leg comes into a locked year.
THEOREM VoucherLockedYearGainsNothing == VouchersSpec => LockedYearGainsNothing
<1>1. VouchersTypeOK /\ [VouchersNext]_voucherVars => [GainsNothing]_voucherVars
  BY GainsNothingStep
<1> QED
  BY <1>1, TypeInit, TypeStep, PTL DEF VouchersSpec, LockedYearGainsNothing, GainsNothing
-----------------------------------------------------------------------------
(* The repair converges *)

\* A renumbered header has a number of its own and makes no header an extra.
LEMMA RenumberShrinks ==
    ASSUME VouchersTypeOK, NEW i \in Instances, NEW h \in headers, Renumber(i, h)
    PROVE  Extras(headers') \subseteq Extras(headers) \ {h}
<1> DEFINE fresh == NextNo(h.no.family, h.year)
           anew == [h EXCEPT !.no = fresh]
<1>1. headers' = (headers \ {h}) \cup {anew}
  BY DEF Renumber
<1>2. h \in Row /\ h.no.family \in Families /\ h.year \in EntryYears
  BY DEF VouchersTypeOK, Row, Number
<1>3. anew.id = h.id /\ anew.year = h.year /\ anew.no = fresh
  BY <1>2 DEF Row
<1>4. /\ fresh.family = h.no.family
      /\ \A g \in headers : Counted(g, h.no.family, h.year) => g.no.n < fresh.n
      /\ fresh \in Number
  BY <1>2, NextNoIsFresh
<1> HIDE DEF fresh, anew
<1>5. \A g \in headers : ~ (g.year = h.year /\ g.no = fresh)
  <2> SUFFICES ASSUME NEW g \in headers, g.year = h.year, g.no = fresh PROVE FALSE
    OBVIOUS
  <2>1. g.no.n < fresh.n
    BY <1>4 DEF Counted
  <2>2. fresh.n \in Nat
    BY <1>4 DEF Number
  <2> QED
    BY <2>1, <2>2
<1>6. \A g \in headers : ~ SameKey(g, anew) /\ ~ SameKey(anew, g)
  BY <1>3, <1>5 DEF SameKey
<1> SUFFICES ASSUME NEW x \in Extras(headers')
             PROVE  x \in Extras(headers) /\ x # h
  OBVIOUS
<1>7. PICK g \in headers' : x \in headers' /\ g.id < x.id /\ SameKey(g, x)
  BY DEF Extras
<1>8. ~ (g = anew /\ x = anew)
  <2>1. anew.id \in Nat
    BY <1>2, <1>3 DEF Row
  <2> QED
    BY <1>7, <2>1
<1>9. g \in headers \ {h} /\ x \in headers \ {h}
  BY <1>1, <1>6, <1>7, <1>8
<1> QED
  BY <1>7, <1>9 DEF Extras

LEMMA RenumberConverges ==
    ASSUME VouchersTypeOK, NEW i \in Instances, NEW h \in headers, Renumber(i, h)
    PROVE  Cardinality(Extras(headers')) < Cardinality(Extras(headers))
<1>1. h \in Extras(headers)
  BY DEF Renumber
<1>2. IsFiniteSet(Extras(headers))
  BY HeadersFinite, FS_Subset DEF Extras
<1>3. /\ IsFiniteSet(Extras(headers) \ {h})
      /\ Cardinality(Extras(headers) \ {h}) = Cardinality(Extras(headers)) - 1
  BY <1>1, <1>2, FS_RemoveElement
<1>4. Cardinality(Extras(headers')) <= Cardinality(Extras(headers) \ {h})
  BY <1>3, RenumberShrinks, FS_Subset
<1>5. IsFiniteSet(Extras(headers'))
  BY <1>3, RenumberShrinks, FS_Subset
<1>6. Cardinality(Extras(headers)) \in Nat /\ Cardinality(Extras(headers')) \in Nat
  BY <1>2, <1>5, FS_CardinalityType
<1> QED
  BY <1>3, <1>4, <1>6

Converges ==
    \A i \in Instances, h \in headers :
        Renumber(i, h) => Cardinality(Extras(headers')) < Cardinality(Extras(headers))

\* Every pass of the repair takes one header out of the duplicates.
THEOREM VoucherRepairConverges == VouchersSpec => RepairConverges
<1>1. VouchersTypeOK => Converges
  BY RenumberConverges DEF Converges
<1>2. VouchersTypeOK /\ [VouchersNext]_voucherVars => [Converges]_voucherVars
  BY <1>1
<1> QED
  BY <1>2, TypeInit, TypeStep, PTL DEF VouchersSpec, RepairConverges, Converges
-----------------------------------------------------------------------------
(***************************************************************************)
(* Statements.  The bound on what is posted is not inductive: between the  *)
(* check of a statement and the posting of its rows nothing compares them  *)
(* with the books.  What holds meanwhile is that the rows that are not     *)
(* marked, and what was posted of the same movement, are together no more  *)
(* than the statement shows (Room).  The check establishes it, since a row *)
(* is left unmarked only when every voucher posted from its movement was   *)
(* found by another row (PostedAreMarked); no step of the screen or of the *)
(* books takes it away; and posting turns it into the bound.               *)
(***************************************************************************)

-----------------------------------------------------------------------------
(* The matching of a statement with the books *)

FreeLegs(s, j, used) == {l \in bankLegs : LegMatches(l, s.moves[j], s.bank)} \ used

UsedStep(s, j, used) ==
    used \cup (IF FreeLegs(s, j, used) = {} THEN {} ELSE {Oldest(FreeLegs(s, j, used))})

IsMatching(s, n, f) == f = [j \in 0..n |-> IF j = 0 THEN {} ELSE UsedStep(s, j, f[j - 1])]

\* The recursion has a solution, for as many movements as there are.
LEMMA MatchingExists == ASSUME NEW s, NEW n \in Nat PROVE \E f : IsMatching(s, n, f)
<1> DEFINE Bad == {k \in Nat : ~ \E f : IsMatching(s, k, f)}
<1>1. Bad = {}
  <2> SUFFICES ASSUME Bad # {} PROVE FALSE
    OBVIOUS
  <2>1. PICK k \in Bad : \A x \in Bad : k <= x
    <3>1. Bad \subseteq Nat
      OBVIOUS
    <3> HIDE DEF Bad
    <3> QED
      BY <3>1, HasLeast
  <2>2. k # 0
    <3>1. IsMatching(s, 0, [j \in 0..0 |-> {}])
      BY DEF IsMatching
    <3> QED
      BY <2>1, <3>1
  <2>3. k - 1 \in Nat /\ k - 1 \notin Bad /\ k \in Nat
    BY <2>1, <2>2
  <2>4. PICK f : IsMatching(s, k - 1, f)
    BY <2>3
  <2>5. \A j \in 0..k - 1 : f[j] = IF j = 0 THEN {} ELSE UsedStep(s, j, f[j - 1])
    BY <2>4 DEF IsMatching
  <2> DEFINE g == [j \in 0..k |-> IF j = k THEN UsedStep(s, k, f[k - 1]) ELSE f[j]]
  <2>6. \A j \in 0..k : g[j] = IF j = 0 THEN {} ELSE UsedStep(s, j, g[j - 1])
    <3> SUFFICES ASSUME NEW j \in 0..k PROVE g[j] = IF j = 0 THEN {} ELSE UsedStep(s, j, g[j - 1])
      OBVIOUS
    <3>1. CASE j = k
      <4>1. k - 1 \in 0..k /\ k - 1 # k
        BY <2>3
      <4> QED
        BY <2>2, <3>1, <4>1
    <3>2. CASE j # k
      <4>1. j \in 0..k - 1 /\ j # 0 => j - 1 \in 0..k /\ j - 1 # k
        BY <2>3, <3>2
      <4>2. j \in 0..k - 1
        BY <2>3, <3>2
      <4> QED
        BY <2>5, <3>2, <4>1, <4>2
    <3> QED
      BY <3>1, <3>2
  <2>7. IsMatching(s, k, g)
    <3>1. g = [j \in 0..k |-> g[j]]
      OBVIOUS
    <3> HIDE DEF g
    <3> QED
      BY <2>6, <3>1 DEF IsMatching
  <2> QED
    BY <2>1, <2>7
<1> QED
  BY <1>1

LEMMA MatchedIs == ASSUME NEW s, Len(s.moves) \in Nat PROVE IsMatching(s, Len(s.moves), Matched(s))
<1>1. Matched(s) = CHOOSE f : IsMatching(s, Len(s.moves), f)
  BY DEF Matched, IsMatching, UsedStep, FreeLegs
<1> QED
  BY <1>1, MatchingExists


LEMMA StatementType ==
    ASSUME NEW s \in Statements
    PROVE  /\ s.bank \in Accounts /\ s.moves \in Seq(Movement)
           /\ Len(s.moves) \in Nat /\ DOMAIN s.moves = 1..Len(s.moves)
           /\ \A j \in DOMAIN s.moves : s.moves[j] \in Movement
  BY BankAssumption

\* A leg is one of its voucher's.
LEMMA LegOfHead ==
    ASSUME BankTypeOK, NEW l \in bankLegs
    PROVE  \E h \in bankHeads :
             /\ l.by = h.id /\ l.what = h.what /\ l.side \in Sides
             /\ l.party = IF l.side = "Dr" THEN h.dr ELSE h.cr
             /\ l.opposing = IF l.side = "Dr" THEN h.cr ELSE h.dr
             /\ l = [by |-> h.id, side |-> l.side, what |-> h.what,
                     party |-> IF l.side = "Dr" THEN h.dr ELSE h.cr,
                     opposing |-> IF l.side = "Dr" THEN h.cr ELSE h.dr]
<1>1. PICK h \in bankHeads : l \in LegsOf(h.id, h.dr, h.cr, h.what, Sides)
  BY DEF BankTypeOK
<1>2. PICK x \in Sides : l = [by |-> h.id, side |-> x, what |-> h.what,
                              party |-> IF x = "Dr" THEN h.dr ELSE h.cr,
                              opposing |-> IF x = "Dr" THEN h.cr ELSE h.dr]
  BY <1>1 DEF LegsOf
<1> QED
  BY <1>2

LEMMA HeadType ==
    ASSUME BankTypeOK, NEW h \in bankHeads
    PROVE  /\ h.id \in 1..bankIds /\ h.id \in Nat /\ h.dr \in Accounts /\ h.cr \in Accounts
           /\ h.what \in Whats /\ h.from \in Text /\ bankIds \in Nat
  BY BankAssumption DEF BankTypeOK

\* Of legs there is an oldest.
LEMMA OldestIn ==
    ASSUME BankTypeOK, NEW L \in SUBSET bankLegs, L # {}
    PROVE  Oldest(L) \in L
<1> DEFINE ids == {l.by : l \in L}
<1>1. \A l \in L : l.by \in Nat /\ l.side \in {"Dr", "Cr"}
  BY LegOfHead, HeadType DEF Sides
<1>2. PICK m \in ids : \A x \in ids : m <= x
  <2>1. ids \subseteq Nat /\ ids # {}
    BY <1>1
  <2> HIDE DEF ids
  <2> QED
    BY <2>1, HasLeast
<1>3. PICK first \in L : first.by = m /\ \A k \in L : first.by <= k.by
  BY <1>2
<1>4. \A k, l \in L : k.by = l.by /\ k.side = l.side => k = l
  <2> SUFFICES ASSUME NEW k \in L, NEW l \in L, k.by = l.by, k.side = l.side PROVE k = l
    OBVIOUS
  <2>1. PICK g \in bankHeads : k = [by |-> g.id, side |-> k.side, what |-> g.what,
                     party |-> IF k.side = "Dr" THEN g.dr ELSE g.cr,
                     opposing |-> IF k.side = "Dr" THEN g.cr ELSE g.dr] /\ k.by = g.id
    BY LegOfHead
  <2>2. PICK h \in bankHeads : l = [by |-> h.id, side |-> l.side, what |-> h.what,
                     party |-> IF l.side = "Dr" THEN h.dr ELSE h.cr,
                     opposing |-> IF l.side = "Dr" THEN h.cr ELSE h.dr] /\ l.by = h.id
    BY LegOfHead
  <2>3. g = h
    BY <2>1, <2>2 DEF BankTypeOK
  <2> QED
    BY <2>1, <2>2, <2>3
<1>5. PICK l \in L : /\ l.by = first.by
                     /\ l.side = "Dr" \/ \A k \in L : k.by = first.by => k.side = "Cr"
  BY <1>1, <1>3
<1>6. \A k \in L : l.by < k.by \/ (l.by = k.by /\ (l.side = "Dr" \/ k = l))
  <2> SUFFICES ASSUME NEW k \in L PROVE l.by < k.by \/ (l.by = k.by /\ (l.side = "Dr" \/ k = l))
    OBVIOUS
  <2>1. CASE k.by = first.by
    BY <1>1, <1>4, <1>5, <2>1
  <2>2. CASE k.by # first.by
    BY <1>1, <1>3, <1>5, <2>2
  <2> QED
    BY <2>1, <2>2
<1> QED
  BY <1>6 DEF Oldest

Found(s, j) == Matched(s)[j] \ Matched(s)[j - 1]

\* A movement takes one leg that matches it or, when none is left, nothing.
LEMMA MatchedStep ==
    ASSUME BankTypeOK, NEW s \in Statements, NEW j \in DOMAIN s.moves
    PROVE  /\ Matched(s)[0] = {}
           /\ Matched(s)[j - 1] \subseteq Matched(s)[j]
           /\ \A l \in Found(s, j) : l \in bankLegs /\ LegMatches(l, s.moves[j], s.bank)
           /\ \A k, l \in Found(s, j) : k = l
           /\ Found(s, j) = {} =>
                {l \in bankLegs : LegMatches(l, s.moves[j], s.bank)} \subseteq Matched(s)[j - 1]
<1> DEFINE used == Matched(s)[j - 1]
           L == FreeLegs(s, j, used)
<1>1. IsMatching(s, Len(s.moves), Matched(s)) /\ j \in 1..Len(s.moves) /\ Len(s.moves) \in Nat
  BY StatementType, MatchedIs
<1>2. /\ Matched(s)[0] = {}
      /\ Matched(s)[j] = UsedStep(s, j, used)
  <2>1. \A i \in 0..Len(s.moves) :
          Matched(s)[i] = IF i = 0 THEN {} ELSE UsedStep(s, i, Matched(s)[i - 1])
    BY <1>1 DEF IsMatching
  <2> QED
    BY <1>1, <2>1
<1>3. L # {} => Oldest(L) \in L
  <2>1. L \in SUBSET bankLegs
    BY DEF FreeLegs
  <2> QED
    BY <2>1, OldestIn
<1>4. Matched(s)[j] = used \cup (IF L = {} THEN {} ELSE {Oldest(L)})
  BY <1>2 DEF UsedStep
<1>5. L = {l \in bankLegs : LegMatches(l, s.moves[j], s.bank)} \ used
  BY DEF FreeLegs
<1>6. Found(s, j) = IF L = {} THEN {} ELSE {Oldest(L)}
  <2>1. L # {} => Oldest(L) \notin used
    BY <1>3, <1>5
  <2> HIDE DEF L
  <2> QED
    BY <1>4, <2>1 DEF Found
<1>7. used \subseteq Matched(s)[j]
  BY <1>4
<1>8. \A l \in Found(s, j) : l \in bankLegs /\ LegMatches(l, s.moves[j], s.bank)
  <2>1. \A l \in Found(s, j) : l \in L
    BY <1>3, <1>6
  <2> QED
    BY <1>5, <2>1
<1>9. Found(s, j) = {} => {l \in bankLegs : LegMatches(l, s.moves[j], s.bank)} \subseteq used
  BY <1>5, <1>6
<1>10. \A k, l \in Found(s, j) : k = l
  BY <1>6
<1> QED
  BY <1>2, <1>7, <1>8, <1>9, <1>10

\* What is taken was taken by one of the movements before.
LEMMA TakenBySome ==
    ASSUME BankTypeOK, NEW s \in Statements, NEW i \in 0..Len(s.moves), NEW l \in Matched(s)[i]
    PROVE  \E k \in DOMAIN s.moves : l \in Found(s, k)
<1> DEFINE Holds == {j \in 0..Len(s.moves) : l \in Matched(s)[j]}
<1>0. Len(s.moves) \in Nat /\ DOMAIN s.moves = 1..Len(s.moves)
  BY StatementType
<1>1. PICK k \in Holds : \A x \in Holds : k <= x
  <2>1. Holds \subseteq Nat /\ i \in Holds
    BY <1>0
  <2> HIDE DEF Holds
  <2> QED
    BY <2>1, HasLeast
<1>2. k # 0
  <2>1. CASE DOMAIN s.moves = {}
    <3>1. Matched(s)[0] = {}
      <4>1. IsMatching(s, Len(s.moves), Matched(s))
        BY <1>0, MatchedIs
      <4> QED
        BY <1>0, <4>1 DEF IsMatching
    <3> QED
      BY <1>1, <3>1
  <2>2. CASE DOMAIN s.moves # {}
    BY <1>1, <2>2, MatchedStep
  <2> QED
    BY <2>1, <2>2
<1>3. k \in 1..Len(s.moves) /\ k - 1 \in 0..Len(s.moves) /\ ~ (k <= k - 1)
  BY <1>0, <1>1, <1>2
<1>4. l \in Matched(s)[k] /\ l \notin Matched(s)[k - 1]
  BY <1>1, <1>3
<1> QED
  BY <1>0, <1>3, <1>4 DEF Found
-----------------------------------------------------------------------------
(* Vouchers posted from a statement are found again *)

\* PostedFrom, of any tables.
PostedOf(hs, ls, bank, m) ==
    {h \in hs :
        /\ h.from = bank /\ ~ h.again
        /\ h.what = m.what /\ h.dir = m.dir
        /\ IF m.dir = "deposit" THEN h.dr = bank /\ h.cr # bank ELSE h.cr = bank /\ h.dr # bank
        /\ \E l \in ls : l.by = h.id}

MarkedIn(s, m) == {k \in DOMAIN s.moves : s.moves[k] = m /\ Found(s, k) # {}}

\* A leg of a voucher posted from a movement matches that movement and no other.
LEMMA LegFindsItsMove ==
    ASSUME BankTypeOK, NEW bank, NEW m \in Movement,
           NEW h \in PostedOf(bankHeads, bankLegs, bank, m), NEW l \in bankLegs, l.by = h.id
    PROVE  /\ LegMatches(l, m, bank)
           /\ \A n \in Movement : LegMatches(l, n, bank) => n = m
<1>1. PICK g \in bankHeads :
          /\ l.by = g.id /\ l.what = g.what /\ l.side \in Sides
          /\ l.party = IF l.side = "Dr" THEN g.dr ELSE g.cr
          /\ l.opposing = IF l.side = "Dr" THEN g.cr ELSE g.dr
  BY LegOfHead
<1>2. h \in bankHeads
  BY DEF PostedOf
<1>3. g = h
  BY <1>1, <1>2 DEF BankTypeOK
<1>4. /\ h.what = m.what
      /\ IF m.dir = "deposit" THEN h.dr = bank /\ h.cr # bank ELSE h.cr = bank /\ h.dr # bank
  BY DEF PostedOf
<1>5. m.dir \in {"deposit", "withdrawal"}
  BY DEF Movement
<1>6. LegMatches(l, m, bank)
  BY <1>1, <1>3, <1>4, <1>5 DEF LegMatches, Sides
<1>7. ASSUME NEW n \in Movement, LegMatches(l, n, bank) PROVE n = m
  <2>1. n.dir \in {"deposit", "withdrawal"} /\ n.what = m.what
    BY <1>1, <1>3, <1>4, <1>7 DEF Movement, LegMatches
  <2>2. n.dir = m.dir
    BY <1>1, <1>3, <1>4, <1>5, <1>7, <2>1 DEF LegMatches, Sides
  <2> QED
    BY <2>1, <2>2 DEF Movement
<1> QED
  BY <1>6, <1>7

\* When a movement finds no leg any more, every voucher posted from it has been
\* found by another row of the statement, each by one of its own.
LEMMA PostedAreMarked ==
    ASSUME BankTypeOK, NEW s \in Statements, NEW i \in DOMAIN s.moves, Found(s, i) = {}
    PROVE  /\ IsFiniteSet(PostedOf(bankHeads, bankLegs, s.bank, s.moves[i]))
           /\ Cardinality(PostedOf(bankHeads, bankLegs, s.bank, s.moves[i]))
                  <= Cardinality(MarkedIn(s, s.moves[i]))
<1> DEFINE m == s.moves[i]
           posted == PostedOf(bankHeads, bankLegs, s.bank, m)
           marked == MarkedIn(s, m)
           Finds(h, k) == \E l \in Found(s, k) : l.by = h.id
<1>0. /\ Len(s.moves) \in Nat /\ DOMAIN s.moves = 1..Len(s.moves) /\ m \in Movement
      /\ \A k \in DOMAIN s.moves : s.moves[k] \in Movement
      /\ i - 1 \in 0..Len(s.moves)
  BY StatementType
<1>1. ASSUME NEW h \in posted PROVE \E k \in marked : Finds(h, k)
  <2>1. PICK l \in bankLegs : l.by = h.id
    BY <1>1 DEF PostedOf
  <2>2. /\ LegMatches(l, m, s.bank)
        /\ \A n \in Movement : LegMatches(l, n, s.bank) => n = m
    BY <1>0, <1>1, <2>1, LegFindsItsMove
  <2>3. l \in Matched(s)[i - 1]
    BY <2>2, MatchedStep
  <2>4. PICK k \in DOMAIN s.moves : l \in Found(s, k)
    BY <1>0, <2>3, TakenBySome
  <2>5. LegMatches(l, s.moves[k], s.bank)
    BY <2>4, MatchedStep
  <2>6. s.moves[k] = m
    BY <1>0, <2>2, <2>5
  <2> QED
    BY <2>1, <2>4, <2>6 DEF MarkedIn
<1>2. ASSUME NEW g \in posted, NEW h \in posted, NEW k \in marked, Finds(g, k), Finds(h, k)
      PROVE  g = h
  <2>1. \A a, b \in Found(s, k) : a = b
    BY MatchedStep DEF MarkedIn
  <2>2. g.id = h.id
    BY <1>2, <2>1
  <2> QED
    BY <2>2 DEF PostedOf, BankTypeOK
<1> DEFINE f == [h \in posted |-> CHOOSE k \in marked : Finds(h, k)]
<1>3. \A h \in posted : f[h] \in marked /\ Finds(h, f[h])
  <2> HIDE DEF posted, marked, Finds
  <2> QED
    BY <1>1
<1>4. f \in Injection(posted, marked)
  <2>1. f \in [posted -> marked]
    BY <1>3
  <2>2. \A g, h \in posted : f[g] = f[h] => g = h
    <3> HIDE DEF posted, marked, Finds, f
    <3> QED
      BY <1>2, <1>3
  <2> HIDE DEF f, posted, marked
  <2> QED
    BY <2>1, <2>2 DEF Injection, IsInjective
<1>5. IsFiniteSet(marked)
  <2>1. IsFiniteSet(1..Len(s.moves))
    <3> DEFINE n == Len(s.moves)
    <3>1. 1 \in Int /\ n \in Int
      BY <1>0
    <3> HIDE DEF n
    <3> QED
      BY <3>1, FS_Interval
  <2>2. marked \in SUBSET (1..Len(s.moves))
    BY <1>0 DEF MarkedIn
  <2> HIDE DEF marked
  <2> QED
    BY <2>1, <2>2, FS_Subset
<1> QED
  BY <1>4, <1>5, FS_Injection
-----------------------------------------------------------------------------
(* Types *)

RowType == [move : Movement, from : Accounts, dr : Text, cr : Text,
            duplicate : BOOLEAN, selected : BOOLEAN, by : 0..bankIds]

TablesOK ==
    /\ bankIds \in 0..MaxMoves
    /\ bankHeads \subseteq [id : 1..bankIds, dr : Accounts, cr : Accounts, what : Whats,
                            from : Text, dir : {"deposit", "withdrawal", "none"}, again : BOOLEAN]
    /\ \A g, h \in bankHeads : g.id = h.id => g = h
    /\ \A l \in bankLegs : \E h \in bankHeads : l \in LegsOf(h.id, h.dr, h.cr, h.what, Sides)

RowsOK == bankLedger \in Text /\ \A j \in DOMAIN allRows : allRows[j] \in RowType

LEMMA TypeParts == BankTypeOK <=> TablesOK /\ RowsOK
  BY DEF BankTypeOK, TablesOK, RowsOK, RowType

LEMMA BankTypeInit == BankInit => TablesOK /\ RowsOK
<1> SUFFICES ASSUME BankInit PROVE TablesOK /\ RowsOK
  OBVIOUS
<1>1. DOMAIN allRows = {}
  BY DEF BankInit
<1> QED
  BY <1>1, BankAssumption DEF BankInit, TablesOK, RowsOK, Text

\* The screen sets what is in rows and boxes, and leaves alone what the check of
\* the statement has found.
Restyled ==
    /\ UNCHANGED bankTables
    /\ bankLedger' \in Text
    /\ DOMAIN allRows' = DOMAIN allRows
    /\ \A j \in DOMAIN allRows :
          /\ allRows'[j] \in RowType
          /\ allRows'[j].move = allRows[j].move
          /\ allRows'[j].from = allRows[j].from
          /\ allRows'[j].duplicate = allRows[j].duplicate

LEMMA RowSet ==
    ASSUME NEW r \in RowType, NEW text \in Text, NEW b \in BOOLEAN
    PROVE  /\ [r EXCEPT !.selected = b] \in RowType
           /\ [r EXCEPT !.dr = text] \in RowType
           /\ [r EXCEPT !.cr = text] \in RowType
           /\ [r EXCEPT !.dr = text, !.selected = b] \in RowType
           /\ [r EXCEPT !.cr = text, !.selected = b] \in RowType
  BY DEF RowType

LEMMA RewrittenRows ==
    ASSUME RowsOK, NEW text \in Text
    PROVE  /\ DOMAIN Rewritten(text) = DOMAIN allRows
           /\ \A j \in DOMAIN allRows :
                 /\ Rewritten(text)[j] \in RowType
                 /\ Rewritten(text)[j].move = allRows[j].move
                 /\ Rewritten(text)[j].from = allRows[j].from
                 /\ Rewritten(text)[j].duplicate = allRows[j].duplicate
<1>1. CASE text = bankLedger
  BY <1>1 DEF Rewritten, RowsOK
<1>2. CASE text # bankLedger
  <2>1. Rewritten(text) = [j \in DOMAIN allRows |->
            IF allRows[j].move.dir = "deposit" THEN [allRows[j] EXCEPT !.dr = text]
            ELSE [allRows[j] EXCEPT !.cr = text]]
    BY <1>2 DEF Rewritten
  <2>2. ASSUME NEW j \in DOMAIN allRows
        PROVE  /\ Rewritten(text)[j] \in RowType
               /\ Rewritten(text)[j].move = allRows[j].move
               /\ Rewritten(text)[j].from = allRows[j].from
               /\ Rewritten(text)[j].duplicate = allRows[j].duplicate
    <3>1. allRows[j] \in RowType
      BY DEF RowsOK
    <3>2. \/ Rewritten(text)[j] = [allRows[j] EXCEPT !.dr = text]
          \/ Rewritten(text)[j] = [allRows[j] EXCEPT !.cr = text]
      BY <2>1
    <3>3. Rewritten(text)[j] \in RowType
      BY <3>1, <3>2, RowSet
    <3>4. DOMAIN allRows[j] = {"move", "from", "dr", "cr", "duplicate", "selected", "by"}
      BY <3>1 DEF RowType
    <3> QED
      BY <3>2, <3>3, <3>4
  <2> QED
    BY <2>1, <2>2
<1> QED
  BY <1>1, <1>2

LEMMA TypedText == Typed \subseteq Text
  BY BankAssumption DEF Text

LEMMA RowStepRestyles ==
    ASSUME RowsOK, RowStep \/ \E text \in Typed : LoadFails(text) \/ PostRefused(text)
    PROVE  Restyled
<1>0. \A j \in DOMAIN allRows : allRows[j] \in RowType
  BY DEF RowsOK
<1>1. ASSUME NEW j \in DOMAIN allRows, Tick(j) PROVE Restyled
  <2>1. allRows[j].selected \in BOOLEAN
    BY <1>0 DEF RowType
  <2>2. /\ UNCHANGED <<bankTables, bankLedger>> /\ DOMAIN allRows' = DOMAIN allRows
        /\ \A k \in DOMAIN allRows : allRows'[k] =
               IF k = j THEN [allRows[j] EXCEPT !.selected = ~ allRows[j].selected] ELSE allRows[k]
    BY <1>1 DEF Tick
  <2>3. [allRows[j] EXCEPT !.selected = ~ allRows[j].selected] \in RowType
    BY <1>0, <2>1 DEF RowType
  <2> QED
    BY <1>0, <2>2, <2>3 DEF Restyled, RowType, RowsOK
<1>2. ASSUME NEW j \in DOMAIN allRows, NEW side \in Sides, NEW text \in Typed,
             PickAccount(j, side, text)
      PROVE  Restyled
  <2>1. PICK r : /\ r \in {[allRows[j] EXCEPT !.dr = text, !.selected = TRUE],
                           [allRows[j] EXCEPT !.cr = text, !.selected = TRUE]}
                 /\ \A k \in DOMAIN allRows : allRows'[k] = IF k = j THEN r ELSE allRows[k]
                 /\ UNCHANGED <<bankTables, bankLedger>> /\ DOMAIN allRows' = DOMAIN allRows
    <3>1. CASE side = "Dr"
      BY <1>2, <3>1 DEF PickAccount
    <3>2. CASE side # "Dr"
      BY <1>2, <3>2 DEF PickAccount
    <3> QED
      BY <3>1, <3>2
  <2>2. r \in RowType
    BY <1>0, <2>1, RowSet, TypedText
  <2>3. DOMAIN allRows[j] = {"move", "from", "dr", "cr", "duplicate", "selected", "by"}
    BY <1>0 DEF RowType
  <2>4. r.move = allRows[j].move /\ r.from = allRows[j].from /\ r.duplicate = allRows[j].duplicate
    BY <2>1, <2>3
  <2> QED
    BY <1>0, <2>1, <2>2, <2>4 DEF Restyled, RowType, RowsOK
<1>3. ASSUME NEW shown \in SUBSET DOMAIN allRows, NEW b \in BOOLEAN, SelectAll(shown, b)
      PROVE  Restyled
  <2>1. /\ UNCHANGED <<bankTables, bankLedger>> /\ DOMAIN allRows' = DOMAIN allRows
        /\ \A k \in DOMAIN allRows : allRows'[k] =
               IF k \in shown THEN [allRows[k] EXCEPT !.selected = b] ELSE allRows[k]
    BY <1>3 DEF SelectAll
  <2>2. \A k \in DOMAIN allRows : [allRows[k] EXCEPT !.selected = b] \in RowType
    BY <1>0 DEF RowType
  <2> QED
    BY <1>0, <2>1, <2>2 DEF Restyled, RowType, RowsOK
<1>4. CASE DeselectDuplicates
  <2>1. /\ UNCHANGED <<bankTables, bankLedger>> /\ DOMAIN allRows' = DOMAIN allRows
        /\ \A k \in DOMAIN allRows : allRows'[k] =
               IF allRows[k].duplicate THEN [allRows[k] EXCEPT !.selected = FALSE] ELSE allRows[k]
    BY <1>4 DEF DeselectDuplicates
  <2>2. \A k \in DOMAIN allRows : [allRows[k] EXCEPT !.selected = FALSE] \in RowType
    BY <1>0 DEF RowType
  <2> QED
    BY <1>0, <2>1, <2>2 DEF Restyled, RowType, RowsOK
<1>5. ASSUME NEW text \in Typed, LoadFails(text) \/ PostRefused(text) PROVE Restyled
  <2>1. bankLedger' = text /\ allRows' = Rewritten(text) /\ UNCHANGED bankTables
    BY <1>5 DEF LoadFails, PostRefused
  <2> QED
    BY <2>1, RewrittenRows, TypedText DEF Restyled
<1> QED
  BY <1>1, <1>2, <1>3, <1>4, <1>5 DEF RowStep
-----------------------------------------------------------------------------
(* The bound *)

Unmarked(shown, m) == {j \in DOMAIN shown : shown[j].move = m /\ ~ shown[j].duplicate}

Shows(s, shown) ==
    /\ DOMAIN shown = DOMAIN s.moves
    /\ \A j \in DOMAIN s.moves : shown[j].move = s.moves[j] /\ shown[j].from = s.bank

\* The rows of s that are not marked, and what is posted of the same movement,
\* are no more than s shows.
Room(hs, ls, s, shown) ==
    \A j \in DOMAIN s.moves : ~ shown[j].duplicate =>
        Cardinality(PostedOf(hs, ls, s.bank, s.moves[j])) + Cardinality(Unmarked(shown, s.moves[j]))
            <= Times(s, s.moves[j])

RowsBound ==
    \/ DOMAIN allRows = {}
    \/ \E s \in Statements : Shows(s, allRows) /\ Room(bankHeads, bankLegs, s, allRows)

Bounded ==
    \A s \in Statements : \A j \in DOMAIN s.moves : \E t \in Statements :
        /\ t.bank = s.bank
        /\ Cardinality(PostedOf(bankHeads, bankLegs, s.bank, s.moves[j])) <= Times(t, s.moves[j])

LEMMA MovesFinite ==
    ASSUME NEW s \in Statements
    PROVE  /\ IsFiniteSet(DOMAIN s.moves)
           /\ \A m : IsFiniteSet({j \in DOMAIN s.moves : s.moves[j] = m}) /\ Times(s, m) \in Nat
<1>1. IsFiniteSet(DOMAIN s.moves)
  <2> DEFINE n == Len(s.moves)
  <2>1. 1 \in Int /\ n \in Int /\ DOMAIN s.moves = 1..n
    BY StatementType
  <2> HIDE DEF n
  <2> QED
    BY <2>1, FS_Interval
<1>2. ASSUME NEW m PROVE IsFiniteSet({j \in DOMAIN s.moves : s.moves[j] = m}) /\ Times(s, m) \in Nat
  <2> DEFINE T == {j \in DOMAIN s.moves : s.moves[j] = m}
  <2>1. T \in SUBSET DOMAIN s.moves
    OBVIOUS
  <2>2. IsFiniteSet(T) /\ Cardinality(T) \in Nat
    <3> HIDE DEF T
    <3> QED
      BY <1>1, <2>1, FS_Subset, FS_CardinalityType
  <2> QED
    BY <2>2 DEF Times
<1> QED
  BY <1>1, <1>2

LEMMA UnmarkedFinite ==
    ASSUME NEW s \in Statements, NEW shown, Shows(s, shown), NEW m
    PROVE  IsFiniteSet(Unmarked(shown, m)) /\ Cardinality(Unmarked(shown, m)) \in Nat
<1>1. Unmarked(shown, m) \in SUBSET DOMAIN s.moves
  BY DEF Unmarked, Shows
<1> QED
  BY <1>1, MovesFinite, FS_Subset, FS_CardinalityType

LEMMA HeadsFinite == ASSUME TablesOK PROVE IsFiniteSet(bankHeads)
<1> DEFINE f == [h \in bankHeads |-> h.id]
<1>1. bankIds \in Nat /\ \A h \in bankHeads : h.id \in 1..bankIds
  BY BankAssumption DEF TablesOK
<1>2. f \in [bankHeads -> 1..bankIds] /\ \A g, h \in bankHeads : f[g] = f[h] => g = h
  BY <1>1 DEF TablesOK
<1>3. f \in Injection(bankHeads, 1..bankIds)
  <2> HIDE DEF f
  <2> QED
    BY <1>2 DEF Injection, IsInjective
<1>4. IsFiniteSet(1..bankIds)
  <2>1. 1 \in Int /\ bankIds \in Int
    BY <1>1
  <2> QED
    BY <2>1, FS_Interval
<1> QED
  BY <1>3, <1>4, FS_Injection

LEMMA PostedFinite ==
    ASSUME TablesOK, NEW bank, NEW m
    PROVE  /\ IsFiniteSet(PostedOf(bankHeads, bankLegs, bank, m))
           /\ Cardinality(PostedOf(bankHeads, bankLegs, bank, m)) \in Nat
<1>1. PostedOf(bankHeads, bankLegs, bank, m) \in SUBSET bankHeads
  BY DEF PostedOf
<1> QED
  BY <1>1, HeadsFinite, FS_Subset, FS_CardinalityType

\* A step that posts nothing from rows, and leaves what their check has found.
LEMMA BoundKept ==
    ASSUME TablesOK, Bounded,
           \A bank : \A m \in Movement :
               PostedOf(bankHeads', bankLegs', bank, m)
                   \subseteq PostedOf(bankHeads, bankLegs, bank, m)
    PROVE  /\ Bounded'
           /\ \A s \in Statements : \A shown :
                  Shows(s, shown) /\ Room(bankHeads, bankLegs, s, shown)
                      => Room(bankHeads', bankLegs', s, shown)
<1>0. \A s \in Statements : \A j \in DOMAIN s.moves : s.moves[j] \in Movement
  BY StatementType
<1>1. ASSUME NEW bank, NEW m \in Movement
      PROVE  /\ Cardinality(PostedOf(bankHeads', bankLegs', bank, m)) \in Nat
             /\ Cardinality(PostedOf(bankHeads, bankLegs, bank, m)) \in Nat
             /\ Cardinality(PostedOf(bankHeads', bankLegs', bank, m))
                    <= Cardinality(PostedOf(bankHeads, bankLegs, bank, m))
  BY PostedFinite, FS_Subset, FS_CardinalityType
<1>2. Bounded'
  <2> SUFFICES ASSUME NEW s \in Statements, NEW j \in DOMAIN s.moves
               PROVE  \E t \in Statements :
                        /\ t.bank = s.bank
                        /\ Cardinality(PostedOf(bankHeads', bankLegs', s.bank, s.moves[j]))
                               <= Times(t, s.moves[j])
    BY DEF Bounded
  <2>1. PICK t \in Statements :
            /\ t.bank = s.bank
            /\ Cardinality(PostedOf(bankHeads, bankLegs, s.bank, s.moves[j]))
                   <= Times(t, s.moves[j])
    BY DEF Bounded
  <2>2. Times(t, s.moves[j]) \in Nat
    BY MovesFinite
  <2> QED
    BY <1>0, <1>1, <2>1, <2>2
<1>3. ASSUME NEW s \in Statements, NEW shown, Shows(s, shown), Room(bankHeads, bankLegs, s, shown)
      PROVE  Room(bankHeads', bankLegs', s, shown)
  <2> SUFFICES ASSUME NEW j \in DOMAIN s.moves, ~ shown[j].duplicate
               PROVE  Cardinality(PostedOf(bankHeads', bankLegs', s.bank, s.moves[j]))
                          + Cardinality(Unmarked(shown, s.moves[j])) <= Times(s, s.moves[j])
    BY DEF Room
  <2>1. Cardinality(PostedOf(bankHeads, bankLegs, s.bank, s.moves[j]))
            + Cardinality(Unmarked(shown, s.moves[j])) <= Times(s, s.moves[j])
    BY <1>3 DEF Room
  <2>2. Cardinality(Unmarked(shown, s.moves[j])) \in Nat /\ Times(s, s.moves[j]) \in Nat
    BY <1>3, UnmarkedFinite, MovesFinite
  <2> QED
    BY <1>0, <1>1, <2>1, <2>2
<1> QED
  BY <1>2, <1>3

LEMMA RestyledKeeps ==
    ASSUME TablesOK, RowsOK, RowsBound, Bounded, Restyled
    PROVE  TablesOK' /\ RowsOK' /\ RowsBound' /\ Bounded'
<1>1. UNCHANGED <<bankHeads, bankLegs, bankIds>>
  BY DEF Restyled, bankTables
<1>2. TablesOK' /\ Bounded'
  BY <1>1 DEF TablesOK, Bounded
<1>3. RowsOK'
  BY <1>1 DEF RowsOK, Restyled, RowType
<1>4. RowsBound'
  <2>1. CASE DOMAIN allRows = {}
    BY <2>1 DEF RowsBound, Restyled
  <2>2. ASSUME NEW s \in Statements, Shows(s, allRows), Room(bankHeads, bankLegs, s, allRows)
        PROVE  RowsBound'
    <3>1. DOMAIN allRows' = DOMAIN s.moves
      BY <2>2 DEF Restyled, Shows
    <3>2. Shows(s, allRows')
      BY <2>2, <3>1 DEF Restyled, Shows
    <3>3. \A m : Unmarked(allRows', m) = Unmarked(allRows, m)
      BY DEF Unmarked, Restyled
    <3>4. \A j \in DOMAIN s.moves : allRows'[j].duplicate = allRows[j].duplicate
      BY <2>2 DEF Restyled, Shows
    <3>5. Room(bankHeads', bankLegs', s, allRows')
      BY <1>1, <2>2, <3>3, <3>4 DEF Room
    <3> QED
      BY <3>2, <3>5 DEF RowsBound
  <2> QED
    BY <2>1, <2>2 DEF RowsBound
<1> QED
  BY <1>2, <1>3, <1>4

\* What the check of a statement finds.
LEMMA CheckedRows ==
    ASSUME BankTypeOK, NEW s \in Statements, NEW guess \in NarrationsFind(s)
    PROVE  /\ Shows(s, Checked(s, guess))
           /\ \A j \in DOMAIN s.moves :
                 /\ Checked(s, guess)[j] \in RowType
                 /\ Checked(s, guess)[j].duplicate = (Found(s, j) # {})
<1> DEFINE Other(j) == Recovered(Found(s, j), s.bank, guess[j])
<1>1. Checked(s, guess) = [j \in DOMAIN s.moves |->
            [move |-> s.moves[j], from |-> s.bank,
             dr |-> IF s.moves[j].dir = "deposit" THEN s.bank ELSE Other(j),
             cr |-> IF s.moves[j].dir = "deposit" THEN Other(j) ELSE s.bank,
             duplicate |-> Found(s, j) # {},
             selected |-> Found(s, j) = {} /\ Other(j) # NoLedger,
             by |-> IF Found(s, j) = {} THEN 0 ELSE (CHOOSE l \in Found(s, j) : TRUE).by]]
  BY DEF Checked, Found
<1>2. ASSUME NEW j \in DOMAIN s.moves PROVE Other(j) \in Text
  <2> DEFINE ends == {l.opposing : l \in Found(s, j)} \cup {l.party : l \in Found(s, j)}
  <2>1. ends \subseteq Accounts
    BY MatchedStep, LegOfHead, HeadType
  <2>2. guess[j] \in Text
    BY DEF NarrationsFind
  <2>3. Other(j) = IF ends \subseteq {s.bank} THEN guess[j] ELSE CHOOSE a \in ends : a # s.bank
    BY DEF Recovered
  <2>4. ends \subseteq {s.bank} \/ \E a \in ends : a # s.bank
    OBVIOUS
  <2> HIDE DEF ends, Other
  <2> QED
    BY <2>1, <2>2, <2>3, <2>4 DEF Text
<1>3. ASSUME NEW j \in DOMAIN s.moves
      PROVE  (IF Found(s, j) = {} THEN 0 ELSE (CHOOSE l \in Found(s, j) : TRUE).by) \in 0..bankIds
  <2>1. \A l \in Found(s, j) : l.by \in 1..bankIds
    BY MatchedStep, LegOfHead, HeadType
  <2>2. bankIds \in Nat
    BY BankAssumption DEF BankTypeOK
  <2>3. CASE Found(s, j) = {}
    BY <2>2, <2>3
  <2>4. CASE Found(s, j) # {}
    <3>1. (CHOOSE l \in Found(s, j) : TRUE) \in Found(s, j)
      BY <2>4
    <3>2. (CHOOSE l \in Found(s, j) : TRUE).by \in 1..bankIds
      BY <2>1, <3>1
    <3> QED
      BY <2>2, <2>4, <3>2
  <2> QED
    BY <2>3, <2>4
<1>4. Shows(s, Checked(s, guess))
  BY <1>1 DEF Shows
<1>5. ASSUME NEW j \in DOMAIN s.moves
      PROVE  /\ Checked(s, guess)[j] \in RowType
             /\ Checked(s, guess)[j].duplicate = (Found(s, j) # {})
  <2>1. s.moves[j] \in Movement /\ s.bank \in Accounts /\ s.bank \in Text
    BY StatementType DEF Text
  <2>2. Other(j) \in Text
    BY <1>2
  <2>3. (IF Found(s, j) = {} THEN 0 ELSE (CHOOSE l \in Found(s, j) : TRUE).by) \in 0..bankIds
    BY <1>3
  <2> HIDE DEF Other
  <2> QED
    BY <1>1, <2>1, <2>2, <2>3 DEF RowType
<1> QED
  BY <1>4, <1>5

LEMMA LoadKeeps ==
    ASSUME TablesOK, RowsOK, Bounded, LoadStatement
    PROVE  TablesOK' /\ RowsOK' /\ RowsBound' /\ Bounded'
<1>0. PICK s \in Statements : \E guess \in NarrationsFind(s) :
          bankLedger' = s.bank /\ allRows' = Checked(s, guess) /\ UNCHANGED bankTables
  BY DEF LoadStatement
<1>1. PICK guess \in NarrationsFind(s) :
          bankLedger' = s.bank /\ allRows' = Checked(s, guess) /\ UNCHANGED bankTables
  BY <1>0
<1>2. UNCHANGED <<bankHeads, bankLegs, bankIds>>
  BY <1>1 DEF bankTables
<1>3. TablesOK' /\ Bounded'
  BY <1>2 DEF TablesOK, Bounded
<1>4. BankTypeOK
  BY TypeParts
<1>5. /\ Shows(s, allRows')
      /\ \A j \in DOMAIN s.moves :
            allRows'[j] \in RowType /\ allRows'[j].duplicate = (Found(s, j) # {})
  BY <1>1, <1>4, CheckedRows
<1>6. RowsOK'
  <2>1. DOMAIN allRows' = DOMAIN s.moves
    BY <1>5 DEF Shows
  <2> QED
    BY <1>1, <1>2, <1>5, <2>1, StatementType DEF RowsOK, RowType, Text
<1>7. Room(bankHeads', bankLegs', s, allRows')
  <2> SUFFICES ASSUME NEW j \in DOMAIN s.moves, ~ allRows'[j].duplicate
               PROVE  Cardinality(PostedOf(bankHeads, bankLegs, s.bank, s.moves[j]))
                          + Cardinality(Unmarked(allRows', s.moves[j])) <= Times(s, s.moves[j])
    BY <1>2 DEF Room
  <2> DEFINE m == s.moves[j]
             all == {k \in DOMAIN s.moves : s.moves[k] = m}
             free == {k \in DOMAIN s.moves : s.moves[k] = m /\ Found(s, k) = {}}
  <2>1. Found(s, j) = {}
    BY <1>5
  <2>2. /\ Cardinality(PostedOf(bankHeads, bankLegs, s.bank, m)) <= Cardinality(MarkedIn(s, m))
        /\ Cardinality(PostedOf(bankHeads, bankLegs, s.bank, m)) \in Nat
    BY <1>4, <2>1, PostedAreMarked, PostedFinite
  <2>3. Unmarked(allRows', m) = free
    BY <1>5 DEF Unmarked, Shows
  <2>4. all = MarkedIn(s, m) \cup free /\ MarkedIn(s, m) \cap free = {}
    BY DEF MarkedIn
  <2>5. IsFiniteSet(all) /\ Times(s, m) = Cardinality(all)
    BY MovesFinite DEF Times
  <2>6. MarkedIn(s, m) \in SUBSET all /\ free \in SUBSET all
    BY DEF MarkedIn
  <2> HIDE DEF all, free, m
  <2>7. IsFiniteSet(MarkedIn(s, m)) /\ IsFiniteSet(free)
    BY <2>5, <2>6, FS_Subset
  <2>8. /\ Cardinality(all) = Cardinality(MarkedIn(s, m)) + Cardinality(free) - Cardinality({})
        /\ Cardinality({}) = 0 /\ Cardinality(MarkedIn(s, m)) \in Nat /\ Cardinality(free) \in Nat
    BY <2>4, <2>7, FS_Union, FS_EmptySet, FS_CardinalityType
  <2>9. Cardinality(PostedOf(bankHeads, bankLegs, s.bank, m))
            + Cardinality(Unmarked(allRows', m)) <= Times(s, m)
    BY <2>2, <2>3, <2>5, <2>8
  <2> QED
    BY <2>9 DEF m
<1>8. RowsBound'
  BY <1>5, <1>7 DEF RowsBound
<1> QED
  BY <1>3, <1>6, <1>8

\* Vouchers entered elsewhere are of no statement, and no leg is of another voucher.
LEMMA EnterKeeps ==
    ASSUME TablesOK, RowsOK, RowsBound, Bounded,
           NEW dr \in Accounts, NEW cr \in Accounts, NEW what \in Whats, EnterVoucher(dr, cr, what)
    PROVE  TablesOK' /\ RowsOK' /\ RowsBound' /\ Bounded'
<1> DEFINE new == [id |-> bankIds + 1, dr |-> dr, cr |-> cr, what |-> what,
                   from |-> NoLedger, dir |-> "none", again |-> FALSE]
<1>1. /\ bankIds < MaxMoves /\ bankIds' = bankIds + 1
      /\ bankHeads' = bankHeads \cup {new}
      /\ bankLegs' = bankLegs \cup LegsOf(bankIds + 1, dr, cr, what, Sides)
      /\ UNCHANGED <<bankLedger, allRows>>
  BY DEF EnterVoucher
<1>2. /\ bankIds \in Nat /\ bankIds' \in 0..MaxMoves
      /\ \A h \in bankHeads : h.id \in 1..bankIds /\ h.id \in Nat
  BY <1>1, BankAssumption DEF TablesOK
<1>3. TablesOK'
  <2>1. 1..bankIds \subseteq 1..bankIds' /\ bankIds + 1 \in 1..bankIds' /\ NoLedger \in Text
    BY <1>1, <1>2 DEF Text
  <2> HIDE DEF Text, Whats
  <2>2. new \in [id : 1..bankIds', dr : Accounts, cr : Accounts, what : Whats,
                 from : Text, dir : {"deposit", "withdrawal", "none"}, again : BOOLEAN]
    BY <2>1
  <2>3. bankHeads' \subseteq [id : 1..bankIds', dr : Accounts, cr : Accounts, what : Whats,
                 from : Text, dir : {"deposit", "withdrawal", "none"}, again : BOOLEAN]
    BY <1>1, <2>1, <2>2 DEF TablesOK
  <2>4. /\ new.id = bankIds + 1 /\ new.dr = dr /\ new.cr = cr /\ new.what = what
        /\ \A h \in bankHeads : h.id # bankIds + 1
    BY <1>2
  <2> HIDE DEF new
  <2>5. \A g, h \in bankHeads' : g.id = h.id => g = h
    BY <1>1, <2>4 DEF TablesOK
  <2>6. \A l \in bankLegs' : \E h \in bankHeads' : l \in LegsOf(h.id, h.dr, h.cr, h.what, Sides)
    BY <1>1, <2>4 DEF TablesOK
  <2> QED
    BY <1>2, <2>3, <2>5, <2>6 DEF TablesOK
<1>4. RowsOK'
  <2>1. 0..bankIds \subseteq 0..bankIds'
    BY <1>1, <1>2
  <2>2. RowType \subseteq RowType'
    BY <2>1 DEF RowType
  <2> QED
    BY <1>1, <2>2 DEF RowsOK
<1>5. ASSUME NEW bank, NEW m \in Movement, NEW h \in PostedOf(bankHeads', bankLegs', bank, m)
      PROVE  h \in PostedOf(bankHeads, bankLegs, bank, m)
  <2>1. h \in bankHeads' /\ h.dir = m.dir
    BY DEF PostedOf
  <2>2. h # new
    BY <2>1 DEF Movement
  <2>3. h \in bankHeads
    BY <1>1, <2>1, <2>2
  <2>4. PICK l \in bankLegs' : l.by = h.id
    BY DEF PostedOf
  <2>5. \A k \in LegsOf(bankIds + 1, dr, cr, what, Sides) : k.by = bankIds + 1
    BY DEF LegsOf
  <2>6. l \in bankLegs
    BY <1>1, <1>2, <2>3, <2>4, <2>5
  <2> QED
    BY <2>3, <2>4, <2>6 DEF PostedOf
<1>6. RowsBound' /\ Bounded'
  BY <1>1, <1>5, BoundKept DEF RowsBound
<1> QED
  BY <1>3, <1>4, <1>6

LEMMA RemoveKeeps ==
    ASSUME TablesOK, RowsOK, RowsBound, Bounded, NEW h \in bankHeads, RemoveVoucher(h)
    PROVE  TablesOK' /\ RowsOK' /\ RowsBound' /\ Bounded'
<1>1. /\ bankHeads' = bankHeads \ {h} /\ bankLegs' = {l \in bankLegs : l.by # h.id}
      /\ UNCHANGED <<bankIds, bankLedger, allRows>>
  BY DEF RemoveVoucher
<1>2. TablesOK'
  <2>1. ASSUME NEW l \in bankLegs'
        PROVE  \E g \in bankHeads' : l \in LegsOf(g.id, g.dr, g.cr, g.what, Sides)
    <3>1. PICK g \in bankHeads : l \in LegsOf(g.id, g.dr, g.cr, g.what, Sides)
      BY <1>1 DEF TablesOK
    <3>2. l.by = g.id
      BY <3>1 DEF LegsOf
    <3> QED
      BY <1>1, <3>1, <3>2
  <2> QED
    BY <1>1, <2>1 DEF TablesOK
<1>3. RowsOK'
  BY <1>1 DEF RowsOK, RowType
<1>4. \A bank : \A m \in Movement :
          PostedOf(bankHeads', bankLegs', bank, m) \subseteq PostedOf(bankHeads, bankLegs, bank, m)
  BY <1>1 DEF PostedOf
<1>5. RowsBound' /\ Bounded'
  BY <1>1, <1>4, BoundKept DEF RowsBound
<1> QED
  BY <1>2, <1>3, <1>5
-----------------------------------------------------------------------------
(* The posting of rows *)

\* The place of j in S.
RankIn(S, j) == Cardinality({k \in S : k <= j})

\* The elements of a set are numbered from 1, each with a number of its own.
LEMMA Ranks ==
    ASSUME NEW S, S \subseteq Nat, IsFiniteSet(S)
    PROVE  /\ \A j \in S : RankIn(S, j) \in 1..Cardinality(S)
           /\ \A i, j \in S : RankIn(S, i) = RankIn(S, j) => i = j
<1> DEFINE Below(j) == {k \in S : k <= j}
<1>1. ASSUME NEW j \in S
      PROVE  /\ IsFiniteSet(Below(j)) /\ j \in Below(j)
             /\ Cardinality(Below(j)) \in 1..Cardinality(S)
  <2>1. Below(j) \in SUBSET S /\ j \in Below(j)
    OBVIOUS
  <2> HIDE DEF Below
  <2>2. /\ IsFiniteSet(Below(j)) /\ Cardinality(Below(j)) <= Cardinality(S)
        /\ Cardinality(Below(j)) \in Nat /\ Cardinality(S) \in Nat
    BY <2>1, FS_Subset, FS_CardinalityType
  <2>3. Cardinality(Below(j)) # 0
    BY <2>1, <2>2, FS_EmptySet
  <2> QED
    BY <2>1, <2>2, <2>3
<1>2. ASSUME NEW i \in S, NEW j \in S, i < j PROVE Cardinality(Below(i)) # Cardinality(Below(j))
  <2>1. i \in Nat /\ j \in Nat /\ \A k \in S : k \in Nat
    OBVIOUS
  <2>2. ~ (j <= i) /\ \A k \in S : k <= i => k <= j
    BY <1>2, <2>1
  <2>3. Below(i) \in SUBSET Below(j) /\ j \notin Below(i)
    BY <2>2
  <2> HIDE DEF Below
  <2> QED
    BY <1>1, <2>3, FS_Subset
<1>3. ASSUME NEW i \in S, NEW j \in S, i # j PROVE Cardinality(Below(i)) # Cardinality(Below(j))
  <2>1. CASE i < j
    BY <1>2, <2>1
  <2>2. CASE j < i
    BY <1>2, <2>2
  <2> QED
    BY <1>3, <2>1, <2>2
<1> QED
  BY <1>1, <1>3 DEF RankIn

\* What is in a row, to be a voucher.
PostedAs(id, row) ==
    [id |-> id, dr |-> row.dr, cr |-> row.cr, what |-> row.move.what,
     from |-> row.from, dir |-> row.move.dir, again |-> row.duplicate]

\* Rows are posted under ids of their own, which no voucher has.
LEMMA PostedRows ==
    ASSUME TablesOK, RowsOK, RowsBound, NEW text \in Typed, PostSelected(text)
    PROVE  \E shown, chosen :
             /\ chosen # {} /\ chosen \subseteq DOMAIN allRows /\ IsFiniteSet(chosen)
             /\ bankIds' \in bankIds..MaxMoves
             /\ \A j \in chosen :
                   /\ shown[j] \in RowType
                   /\ shown[j].dr \in Accounts /\ shown[j].cr \in Accounts
                   /\ shown[j].move = allRows[j].move /\ shown[j].from = allRows[j].from
                   /\ shown[j].duplicate = allRows[j].duplicate
                   /\ bankIds + RankIn(chosen, j) \in (bankIds + 1)..bankIds'
             /\ \A i, j \in chosen : RankIn(chosen, i) = RankIn(chosen, j) => i = j
             /\ bankHeads' = bankHeads \cup
                   {PostedAs(bankIds + RankIn(chosen, j), shown[j]) : j \in chosen}
             /\ \A l \in bankLegs' : l \in bankLegs \/ \E j \in chosen :
                   l \in LegsOf(bankIds + RankIn(chosen, j), shown[j].dr, shown[j].cr,
                                shown[j].move.what, Sides)
             /\ bankLedger' = NoLedger /\ allRows' = <<>>
<1> DEFINE shown == Rewritten(text)
           chosen == SelectedIn(shown)
           id(j) == bankIds + RankIn(chosen, j)
<1>1. /\ chosen # {}
      /\ \A j \in chosen : shown[j].dr # NoLedger /\ shown[j].cr # NoLedger
      /\ bankIds + Cardinality(chosen) <= MaxMoves
      /\ bankHeads' = bankHeads \cup {PostedAs(id(j), shown[j]) : j \in chosen}
      /\ bankIds' = bankIds + Cardinality(chosen)
      /\ bankLedger' = NoLedger
      /\ allRows' = <<>>
  BY DEF PostSelected, PostedAs, RankIn
<1>2. \A l \in bankLegs' : l \in bankLegs \/ \E j \in chosen :
          l \in LegsOf(id(j), shown[j].dr, shown[j].cr, shown[j].move.what, Sides)
  <2>1. PICK lost \in SUBSET (chosen \X Sides) :
            bankLegs' = bankLegs \cup UNION
                {LegsOf(id(j), shown[j].dr, shown[j].cr, shown[j].move.what,
                        {side \in Sides : <<j, side>> \notin lost}) : j \in chosen}
    BY DEF PostSelected, RankIn
  <2> HIDE DEF shown, chosen, id
  <2>2. ASSUME NEW l \in bankLegs', l \notin bankLegs
        PROVE  \E j \in chosen :
                 l \in LegsOf(id(j), shown[j].dr, shown[j].cr, shown[j].move.what, Sides)
    <3>1. PICK j \in chosen : l \in LegsOf(id(j), shown[j].dr, shown[j].cr, shown[j].move.what,
                                           {side \in Sides : <<j, side>> \notin lost})
      BY <2>1, <2>2
    <3>2. l \in LegsOf(id(j), shown[j].dr, shown[j].cr, shown[j].move.what, Sides)
      BY <3>1 DEF LegsOf
    <3> QED
      BY <3>2
  <2> QED
    BY <2>2
<1>3. /\ chosen \subseteq DOMAIN allRows
      /\ \A j \in chosen :
            /\ shown[j] \in RowType
            /\ shown[j].move = allRows[j].move /\ shown[j].from = allRows[j].from
            /\ shown[j].duplicate = allRows[j].duplicate
  BY RewrittenRows, TypedText DEF SelectedIn
<1>4. \A j \in chosen : shown[j].dr \in Accounts /\ shown[j].cr \in Accounts
  <2> HIDE DEF shown, chosen
  <2> QED
    BY <1>1, <1>3 DEF RowType, Text
<1>5. IsFiniteSet(DOMAIN allRows) /\ DOMAIN allRows \subseteq Nat
  <2>1. PICK u \in Statements : Shows(u, allRows)
    BY <1>1, <1>3 DEF RowsBound
  <2> QED
    BY <2>1, StatementType, MovesFinite DEF Shows
<1>6. IsFiniteSet(chosen) /\ chosen \subseteq Nat
  <2> HIDE DEF chosen
  <2> QED
    BY <1>3, <1>5, FS_Subset
<1> HIDE DEF shown, chosen
<1>7. Cardinality(chosen) \in Nat /\ bankIds \in Nat /\ MaxMoves \in Nat
  BY <1>6, FS_CardinalityType, BankAssumption DEF TablesOK
<1>8. \A j \in chosen : id(j) \in (bankIds + 1)..bankIds'
  <2>1. \A j \in chosen : RankIn(chosen, j) \in 1..Cardinality(chosen)
    BY <1>6, Ranks
  <2> SUFFICES ASSUME NEW j \in chosen PROVE id(j) \in (bankIds + 1)..bankIds'
    OBVIOUS
  <2>2. bankIds' = bankIds + Cardinality(chosen) /\ RankIn(chosen, j) \in 1..Cardinality(chosen)
    BY <1>1, <2>1
  <2> QED
    BY <1>7, <2>2
<1>9. \A i, j \in chosen : RankIn(chosen, i) = RankIn(chosen, j) => i = j
  BY <1>6, Ranks
<1>10. bankIds' \in bankIds..MaxMoves
  BY <1>1, <1>7
<1> QED
  BY <1>1, <1>2, <1>3, <1>4, <1>6, <1>8, <1>9, <1>10

\* The dates and amounts of the rows are those of a statement.
LEMMA RowsWhats ==
    ASSUME RowsBound, NEW j \in DOMAIN allRows
    PROVE  allRows[j].move.what \in Whats
<1>1. PICK u \in Statements : Shows(u, allRows)
  BY DEF RowsBound
<1>2. j \in DOMAIN u.moves /\ allRows[j].move = u.moves[j]
  BY <1>1 DEF Shows
<1> QED
  BY <1>2 DEF Whats

LEMMA OpenKeeps ==
    ASSUME TablesOK, Bounded, OpenScreen
    PROVE  TablesOK' /\ RowsOK' /\ RowsBound' /\ Bounded'
<1>1. /\ UNCHANGED <<bankHeads, bankLegs, bankIds>>
      /\ bankLedger' = NoLedger /\ DOMAIN allRows' = {}
  BY DEF OpenScreen, bankTables
<1>2. RowsOK' /\ RowsBound'
  BY <1>1 DEF RowsOK, RowsBound, Text
<1> QED
  BY <1>1, <1>2 DEF TablesOK, Bounded

\* What is posted of a movement is what was posted before, and its unmarked rows.
LEMMA PostKeeps ==
    ASSUME TablesOK, RowsOK, RowsBound, Bounded, NEW text \in Typed, PostSelected(text)
    PROVE  TablesOK' /\ RowsOK' /\ RowsBound' /\ Bounded'
<1>0. PICK shown, chosen :
             /\ chosen # {} /\ chosen \subseteq DOMAIN allRows /\ IsFiniteSet(chosen)
             /\ bankIds' \in bankIds..MaxMoves
             /\ \A j \in chosen :
                   /\ shown[j] \in RowType
                   /\ shown[j].dr \in Accounts /\ shown[j].cr \in Accounts
                   /\ shown[j].move = allRows[j].move /\ shown[j].from = allRows[j].from
                   /\ shown[j].duplicate = allRows[j].duplicate
                   /\ bankIds + RankIn(chosen, j) \in (bankIds + 1)..bankIds'
             /\ \A i, j \in chosen : RankIn(chosen, i) = RankIn(chosen, j) => i = j
             /\ bankHeads' = bankHeads \cup
                   {PostedAs(bankIds + RankIn(chosen, j), shown[j]) : j \in chosen}
             /\ \A l \in bankLegs' : l \in bankLegs \/ \E j \in chosen :
                   l \in LegsOf(bankIds + RankIn(chosen, j), shown[j].dr, shown[j].cr,
                                shown[j].move.what, Sides)
             /\ bankLedger' = NoLedger /\ allRows' = <<>>
  BY PostedRows
<1> DEFINE id(j) == bankIds + RankIn(chosen, j)
           new(j) == PostedAs(id(j), shown[j])
<1>1. /\ bankIds \in Nat /\ bankIds' \in Nat /\ bankIds <= bankIds' /\ bankIds' \in 0..MaxMoves
      /\ \A h \in bankHeads : h.id \in 1..bankIds
      /\ \A j \in chosen : id(j) \in (bankIds + 1)..bankIds' /\ id(j) \in Int
  BY <1>0, BankAssumption DEF TablesOK
<1>2. \A j \in chosen :
        /\ new(j).id = id(j) /\ new(j).dr = shown[j].dr /\ new(j).cr = shown[j].cr
        /\ new(j).what = allRows[j].move.what /\ new(j).dir = allRows[j].move.dir
        /\ new(j).from = allRows[j].from /\ new(j).again = allRows[j].duplicate
  BY <1>0 DEF PostedAs
<1>3. \A i, j \in chosen : id(i) = id(j) => i = j
  <2> SUFFICES ASSUME NEW i \in chosen, NEW j \in chosen, id(i) = id(j) PROVE i = j
    OBVIOUS
  <2>1. ASSUME NEW x \in Int, NEW y \in Int, bankIds + x = bankIds + y PROVE x = y
    BY <1>1, <2>1
  <2>2. RankIn(chosen, i) \in Int /\ RankIn(chosen, j) \in Int
    <3>1. chosen \subseteq Nat
      <4>1. PICK u \in Statements : Shows(u, allRows)
        BY <1>0 DEF RowsBound
      <4> QED
        BY <1>0, <4>1, StatementType DEF Shows
    <3> QED
      BY <1>0, <3>1, Ranks, FS_CardinalityType
  <2>3. RankIn(chosen, i) = RankIn(chosen, j)
    BY <1>1, <2>1, <2>2
  <2> QED
    BY <1>0, <2>3
<1>4. \A h \in bankHeads' : h \in bankHeads \/ \E j \in chosen : h = new(j)
  BY <1>0
<1>5. \A h \in bankHeads : h \in bankHeads'
  BY <1>0
<1>6. \A j \in chosen : new(j) \in bankHeads'
  BY <1>0
<1>7. TablesOK'
  <2>1. ASSUME NEW j \in chosen
        PROVE  new(j) \in [id : 1..bankIds', dr : Accounts, cr : Accounts, what : Whats,
                           from : Text, dir : {"deposit", "withdrawal", "none"}, again : BOOLEAN]
    <3>1. allRows[j].move.what \in Whats
      BY <1>0, RowsWhats
    <3>2. id(j) \in 1..bankIds'
      BY <1>1
    <3>3. /\ shown[j].move.dir \in {"deposit", "withdrawal"} /\ shown[j].from \in Text
          /\ shown[j].duplicate \in BOOLEAN /\ shown[j].move.what \in Whats
      BY <1>0, <3>1 DEF RowType, Movement, Text
    <3> HIDE DEF Whats, Text, id
    <3> QED
      BY <1>0, <3>2, <3>3 DEF PostedAs
  <2>2. ASSUME NEW h \in bankHeads
        PROVE  h \in [id : 1..bankIds', dr : Accounts, cr : Accounts, what : Whats,
                      from : Text, dir : {"deposit", "withdrawal", "none"}, again : BOOLEAN]
    <3>1. h \in [id : 1..bankIds, dr : Accounts, cr : Accounts, what : Whats,
                 from : Text, dir : {"deposit", "withdrawal", "none"}, again : BOOLEAN]
      BY DEF TablesOK
    <3>2. 1..bankIds \subseteq 1..bankIds'
      BY <1>1
    <3> HIDE DEF Whats, Text
    <3> QED
      BY <3>1, <3>2
  <2>3. ASSUME NEW g \in bankHeads', NEW h \in bankHeads', g.id = h.id PROVE g = h
    <3> HIDE DEF id, new
    <3>1. \A k \in bankHeads : \A j \in chosen : k.id # new(j).id
      BY <1>1, <1>2
    <3>2. \A i, j \in chosen : new(i).id = new(j).id => i = j
      BY <1>2, <1>3
    <3> QED
      BY <1>4, <2>3, <3>1, <3>2 DEF TablesOK
  <2>4. ASSUME NEW l \in bankLegs'
        PROVE  \E h \in bankHeads' : l \in LegsOf(h.id, h.dr, h.cr, h.what, Sides)
    <3>1. CASE l \in bankLegs
      BY <1>5, <3>1 DEF TablesOK
    <3>2. ASSUME NEW j \in chosen,
                 l \in LegsOf(id(j), shown[j].dr, shown[j].cr, shown[j].move.what, Sides)
          PROVE  \E h \in bankHeads' : l \in LegsOf(h.id, h.dr, h.cr, h.what, Sides)
      <4>1. l \in LegsOf(new(j).id, new(j).dr, new(j).cr, new(j).what, Sides)
        BY <1>0, <1>2, <3>2
      <4> HIDE DEF new
      <4> QED
        BY <1>6, <4>1
    <3> QED
      BY <1>0, <3>1, <3>2
  <2> HIDE DEF new, id
  <2>5. bankHeads' \subseteq [id : 1..bankIds', dr : Accounts, cr : Accounts, what : Whats,
                      from : Text, dir : {"deposit", "withdrawal", "none"}, again : BOOLEAN]
    BY <1>4, <2>1, <2>2
  <2> QED
    BY <1>1, <2>3, <2>4, <2>5 DEF TablesOK
<1>8. RowsOK' /\ RowsBound'
  <2>1. DOMAIN allRows' = {}
    BY <1>0
  <2> QED
    BY <1>0, <2>1 DEF RowsOK, RowsBound, Text
<1>9. PICK u \in Statements : Shows(u, allRows) /\ Room(bankHeads, bankLegs, u, allRows)
  BY <1>0 DEF RowsBound
<1>10. ASSUME NEW bank, NEW m \in Movement, NEW h \in PostedOf(bankHeads', bankLegs', bank, m),
              h \notin PostedOf(bankHeads, bankLegs, bank, m)
       PROVE  bank = u.bank /\ \E j \in Unmarked(allRows, m) \cap chosen : h = new(j)
  <2>1. /\ h \in bankHeads' /\ h.from = bank /\ ~ h.again /\ h.what = m.what /\ h.dir = m.dir
        /\ \E l \in bankLegs' : l.by = h.id
        /\ IF m.dir = "deposit" THEN h.dr = bank /\ h.cr # bank ELSE h.cr = bank /\ h.dr # bank
    BY <1>10 DEF PostedOf
  <2>2. h \notin bankHeads
    <3> SUFFICES ASSUME h \in bankHeads PROVE FALSE
      OBVIOUS
    <3>1. PICK l \in bankLegs' : l.by = h.id
      BY <2>1
    <3>2. ASSUME NEW j \in chosen,
                 l \in LegsOf(id(j), shown[j].dr, shown[j].cr, shown[j].move.what, Sides)
          PROVE  FALSE
      <4>1. l.by = id(j)
        BY <3>2 DEF LegsOf
      <4> HIDE DEF id, new
      <4>2. h.id \in 1..bankIds /\ id(j) \in (bankIds + 1)..bankIds'
        BY <1>1
      <4>3. h.id = id(j)
        BY <3>1, <4>1
      <4> QED
        BY <1>1, <4>2, <4>3
    <3>3. l \in bankLegs
      BY <1>0, <3>2
    <3> QED
      BY <1>10, <2>1, <3>1, <3>3 DEF PostedOf
  <2>3. PICK j \in chosen : h = new(j)
    BY <1>4, <2>1, <2>2
  <2>4. j \in DOMAIN allRows /\ allRows[j].from = u.bank
    BY <1>0, <1>9 DEF Shows
  <2> HIDE DEF new
  <2>5. /\ bank = u.bank /\ ~ allRows[j].duplicate
        /\ allRows[j].move.what = m.what /\ allRows[j].move.dir = m.dir
    BY <1>2, <2>1, <2>3, <2>4
  <2>6. allRows[j].move = m
    <3>1. allRows[j].move \in Movement
      BY <2>4 DEF RowsOK, RowType
    <3> QED
      BY <2>5, <3>1 DEF Movement
  <2> QED
    BY <2>3, <2>4, <2>5, <2>6 DEF Unmarked
<1>11. Bounded'
  <2> SUFFICES ASSUME NEW s \in Statements, NEW i \in DOMAIN s.moves
               PROVE  \E t \in Statements :
                        /\ t.bank = s.bank
                        /\ Cardinality(PostedOf(bankHeads', bankLegs', s.bank, s.moves[i]))
                               <= Times(t, s.moves[i])
    BY DEF Bounded
  <2> DEFINE m == s.moves[i]
             P == PostedOf(bankHeads, bankLegs, s.bank, m)
             Q == PostedOf(bankHeads', bankLegs', s.bank, m)
             T == Unmarked(allRows, m) \cap chosen
             f == [j \in T |-> new(j)]
             V == {f[j] : j \in T}
  <2>0. m \in Movement /\ IsFiniteSet(P) /\ Cardinality(P) \in Nat
    BY StatementType, PostedFinite
  <2>1. Q \subseteq P \cup V
    BY <1>10, <2>0
  <2>2. /\ IsFiniteSet(T) /\ Cardinality(T) <= Cardinality(Unmarked(allRows, m))
        /\ IsFiniteSet(Unmarked(allRows, m)) /\ Cardinality(T) \in Nat
        /\ Cardinality(Unmarked(allRows, m)) \in Nat
    <3>1. IsFiniteSet(Unmarked(allRows, m)) /\ T \in SUBSET Unmarked(allRows, m)
      BY <1>9, UnmarkedFinite
    <3> HIDE DEF T
    <3> QED
      BY <3>1, FS_Subset, FS_CardinalityType
  <2>3. IsFiniteSet(V) /\ Cardinality(V) <= Cardinality(T) /\ Cardinality(V) \in Nat
    <3>1. f \in Surjection(T, V)
      <4>1. f \in [T -> V] /\ \A v \in V : \E j \in T : f[j] = v
        <5> HIDE DEF T, new
        <5> QED
          OBVIOUS
      <4> HIDE DEF f, V, T
      <4> QED
        BY <4>1 DEF Surjection
    <3> HIDE DEF f, V, T
    <3> QED
      BY <2>2, <3>1, FS_Surjection, FS_CardinalityType
  <2>4. /\ IsFiniteSet(Q) /\ Cardinality(Q) \in Nat
        /\ Cardinality(Q) <= Cardinality(P) + Cardinality(V)
    <3> HIDE DEF P, Q, V
    <3>1. IsFiniteSet(P \cup V) /\ P \cap V \in SUBSET P
      BY <2>0, <2>3, FS_Union
    <3>2. /\ Cardinality(P \cup V) = Cardinality(P) + Cardinality(V) - Cardinality(P \cap V)
          /\ Cardinality(P \cap V) \in Nat
      BY <2>0, <2>3, <3>1, FS_Union, FS_Subset, FS_CardinalityType
    <3>3. IsFiniteSet(Q) /\ Cardinality(Q) <= Cardinality(P \cup V) /\ Cardinality(Q) \in Nat
      BY <2>1, <3>1, FS_Subset, FS_CardinalityType
    <3> QED
      BY <2>0, <2>3, <3>2, <3>3
  <2>5. CASE Q \subseteq P
    <3>1. PICK t \in Statements : t.bank = s.bank /\ Cardinality(P) <= Times(t, m)
      BY DEF Bounded
    <3>2. Times(t, m) \in Nat
      BY MovesFinite
    <3>3. Cardinality(Q) <= Cardinality(P)
      <4> HIDE DEF P, Q
      <4> QED
        BY <2>0, <2>5, FS_Subset
    <3>4. Cardinality(Q) <= Times(t, m)
      <4> HIDE DEF P, Q, m
      <4> QED
        BY <2>0, <2>4, <3>1, <3>2, <3>3
    <3> QED
      BY <3>1, <3>4
  <2>6. ASSUME NEW h \in Q, h \notin P
        PROVE  \E t \in Statements : t.bank = s.bank /\ Cardinality(Q) <= Times(t, m)
    <3>1. s.bank = u.bank
      BY <1>10, <2>0, <2>6
    <3>2. PICK k \in Unmarked(allRows, m) : TRUE
      BY <1>10, <2>0, <2>6
    <3>3. k \in DOMAIN u.moves /\ u.moves[k] = m /\ ~ allRows[k].duplicate
      BY <1>9, <3>2 DEF Unmarked, Shows
    <3>4. Cardinality(P) + Cardinality(Unmarked(allRows, m)) <= Times(u, m)
      <4> HIDE DEF m
      <4>1. Cardinality(PostedOf(bankHeads, bankLegs, u.bank, u.moves[k]))
              + Cardinality(Unmarked(allRows, u.moves[k])) <= Times(u, u.moves[k])
        BY <1>9, <3>3 DEF Room
      <4> QED
        BY <3>1, <3>3, <4>1
    <3>5. Times(u, m) \in Nat
      BY MovesFinite
    <3>6. Cardinality(Q) <= Times(u, m)
      <4> HIDE DEF P, Q, V, T, m
      <4> QED
        BY <2>0, <2>2, <2>3, <2>4, <3>4, <3>5
    <3> QED
      BY <3>1, <3>6
  <2> QED
    BY <2>5, <2>6
<1> QED
  BY <1>7, <1>8, <1>11
-----------------------------------------------------------------------------
(* The theorems *)

BankInv == TablesOK /\ RowsOK /\ RowsBound /\ Bounded

\* Without vouchers nothing is posted.
LEMMA BankInvInit == BankInit => BankInv
<1> SUFFICES ASSUME BankInit PROVE BankInv
  OBVIOUS
<1>1. bankHeads = {} /\ DOMAIN allRows = {}
  BY DEF BankInit
<1>2. \A bank, m : PostedOf(bankHeads, bankLegs, bank, m) = {}
  BY <1>1 DEF PostedOf
<1>3. \A s \in Statements : \A m : Times(s, m) \in Nat
  BY MovesFinite
<1>4. Bounded
  BY <1>2, <1>3, FS_EmptySet DEF Bounded
<1> QED
  BY <1>1, <1>4, BankTypeInit DEF BankInv, RowsBound

LEMMA BankInvStep == BankInv /\ [BankNext]_bankVars => BankInv'
<1> SUFFICES ASSUME BankInv, [BankNext]_bankVars PROVE BankInv'
  OBVIOUS
<1>0. TablesOK /\ RowsOK /\ RowsBound /\ Bounded
  BY DEF BankInv
<1>1. CASE LoadStatement
  BY <1>0, <1>1, LoadKeeps DEF BankInv
<1>2. CASE RowStep \/ \E text \in Typed : LoadFails(text) \/ PostRefused(text)
  BY <1>0, <1>2, RowStepRestyles, RestyledKeeps DEF BankInv
<1>3. CASE OpenScreen
  BY <1>0, <1>3, OpenKeeps DEF BankInv
<1>4. ASSUME NEW text \in Typed, PostSelected(text) PROVE BankInv'
  BY <1>0, <1>4, PostKeeps DEF BankInv
<1>5. ASSUME NEW dr \in Accounts, NEW cr \in Accounts, NEW what \in Whats,
             EnterVoucher(dr, cr, what)
      PROVE  BankInv'
  BY <1>0, <1>5, EnterKeeps DEF BankInv
<1>6. ASSUME NEW h \in bankHeads, RemoveVoucher(h) PROVE BankInv'
  BY <1>0, <1>6, RemoveKeeps DEF BankInv
<1>7. CASE UNCHANGED bankVars
  BY <1>0, <1>7
     DEF BankInv, bankVars, bankTables, TablesOK, RowsOK, RowType, RowsBound, Bounded
<1> QED
  BY <1>1, <1>2, <1>3, <1>4, <1>5, <1>6, <1>7 DEF BankNext

LEMMA BankInvHolds == BankSpec => []BankInv
  BY BankInvInit, BankInvStep, PTL DEF BankSpec

\* Rows, vouchers and legs have their types and every leg is one of its voucher's,
\* for any statements and ledgers: loading, posting and the screens of vouchers
\* keep the tables and the rows to their columns.
THEOREM BankTypeCorrect == BankSpec => []BankTypeOK
<1>1. BankInv => BankTypeOK
  BY TypeParts DEF BankInv
<1> QED
  BY <1>1, BankInvHolds, PTL

\* Of each movement of a statement, however many statements there are, some
\* statement of the ledger shows as many as are posted from unmarked rows.
THEOREM PostedIsShown == BankSpec => []Bounded
<1>1. BankInv => Bounded
  BY DEF BankInv
<1> QED
  BY <1>1, BankInvHolds, PTL

\* A number that some statement shows is at most the largest any shows.
LEMMA LargestShown ==
    ASSUME IsFiniteSet(Statements), TablesOK, Bounded PROVE NotOverposted
<1> SUFFICES ASSUME NEW s \in Statements, NEW j \in DOMAIN s.moves
             PROVE  Cardinality(PostedFrom(s.bank, s.moves[j])) <=
                      Max({Times(t, s.moves[j]) : t \in {u \in Statements : u.bank = s.bank}})
  BY DEF NotOverposted
<1> DEFINE m == s.moves[j]
           same == {u \in Statements : u.bank = s.bank}
           f == [t \in same |-> Times(t, m)]
           shown == {f[t] : t \in same}
           posted == Cardinality(PostedFrom(s.bank, m))
<1>1. PICK t \in same : posted <= Times(t, m)
  BY DEF Bounded, PostedOf, PostedFrom
<1>2. IsFiniteSet(shown)
  <2>1. f \in Surjection(same, shown)
    <3>1. f \in [same -> shown] /\ \A v \in shown : \E u \in same : f[u] = v
      <4> HIDE DEF same
      <4> QED
        OBVIOUS
    <3> HIDE DEF f, same, shown
    <3> QED
      BY <3>1 DEF Surjection
  <2>2. same \in SUBSET Statements
    OBVIOUS
  <2> HIDE DEF f, same, shown
  <2> QED
    BY <2>1, <2>2, FS_Subset, FS_Surjection
<1>3. shown \subseteq Nat /\ Times(t, m) \in shown
  BY MovesFinite
<1>4. PICK most \in shown : \A x \in shown : x <= most
  <2> HIDE DEF shown
  <2> QED
    BY <1>2, <1>3, HasLargest
<1>5. Max(shown) \in shown /\ \A x \in shown : Max(shown) >= x
  <2> HIDE DEF shown
  <2> QED
    BY <1>3, <1>4 DEF Max
<1>6. shown = {Times(u, m) : u \in same}
  OBVIOUS
<1>7. posted \in Nat
  BY PostedFinite DEF PostedOf, PostedFrom
<1>8. Max(shown) \in Nat /\ Times(t, m) \in Nat /\ Times(t, m) <= Max(shown)
  <2> HIDE DEF shown, m
  <2> QED
    BY <1>3, <1>5
<1>9. posted <= Max(shown)
  <2> HIDE DEF shown, m, posted
  <2> QED
    BY <1>1, <1>7, <1>8
<1> QED
  BY <1>6, <1>9

\* "Never auto-select duplicates for posting": a movement is posted from rows that
\* are not marked no more often than a statement of its ledger shows it, for any
\* statements, ledgers and ids, whatever is loaded again, entered and deleted
\* meanwhile, and whichever legs are lost, however many.
THEOREM NeverOverposted == ASSUME IsFiniteSet(Statements) PROVE BankSpec => []NotOverposted
<1>1. BankInv => NotOverposted
  BY LargestShown DEF BankInv
<1> QED
  BY <1>1, BankInvHolds, PTL
-----------------------------------------------------------------------------
(* Bills *)

\* A non-empty set of rows has a first one.
LEMMA FirstIsOne ==
    ASSUME NEW S, S # {}, \A r \in S : r.id \in Nat
    PROVE  FirstById(S) \in S /\ \A s \in S : FirstById(S).id <= s.id
<1> DEFINE ids == {r.id : r \in S}
<1>1. PICK n \in ids : \A k \in ids : <<k, n>> \notin OpToRel(<, Nat)
  <2>1. IsWellFoundedOn(OpToRel(<, Nat), Nat)
    BY NatLessThanWellFounded
  <2>2. ids \subseteq Nat /\ ids # {}
    OBVIOUS
  <2> HIDE DEF ids
  <2> QED
    BY <2>1, <2>2, WFMin
<1>2. PICK r \in S : r.id = n
  BY <1>1
<1>3. \A k \in ids : ~ (k < n)
  BY <1>1 DEF OpToRel
<1>4. \A s \in S : r.id <= s.id
  BY <1>2, <1>3
<1> QED
  BY <1>2, <1>4 DEF FirstById

\* What the tables hold besides their types: ids are given out once, and there
\* are finitely many bills and headers.
BillsRegistered ==
    /\ TypeOK
    /\ IsFiniteSet(bills) /\ IsFiniteSet(heads)
    /\ \A r \in bills : r.id <= entered
    /\ \A r, s \in bills : r.id = s.id => r = s

\* The next number is of its year and past every number used in it.
LEMMA NextVoucherNoIsFresh ==
    ASSUME BillsRegistered, NEW fy \in Years
    PROVE  /\ NextVoucherNo(fy) \in VoucherNo
           /\ NextVoucherNo(fy)[1] = fy
           /\ \A r \in bills \cup heads : r.fy = fy => r.vno[2] < NextVoucherNo(fy)[2]
<1> DEFINE of == {x \in bills \cup heads : x.fy = fy}
           used == {r.vno[2] : r \in of}
           all == used \cup {0}
           f == [r \in of |-> r.vno[2]]
<1>1. IsFiniteSet(of)
  BY FS_Union, FS_Subset DEF BillsRegistered
<1>2. IsFiniteSet(used)
  <2>1. f \in Surjection(of, used)
    BY DEF Surjection
  <2> HIDE DEF of, used, f
  <2> QED
    BY <1>1, <2>1, FS_Surjection
<1>3. all \subseteq Nat
  BY DEF BillsRegistered, TypeOK, Rows, VoucherNo
<1>4. IsFiniteSet(all)
  <2> HIDE DEF used
  <2> QED
    BY <1>2, FS_Union, FS_Singleton
<1>5. Max(all) \in all /\ \A u \in all : u <= Max(all)
  <2>1. all # {}
    OBVIOUS
  <2> HIDE DEF all
  <2>2. PICK m \in all : \A x \in all : x <= m
    BY <1>3, <1>4, <2>1, HasLargest
  <2>3. \A x \in all : m >= x
    BY <1>3, <2>2
  <2>4. Max(all) \in all /\ \A x \in all : Max(all) >= x
    BY <2>2, <2>3 DEF Max
  <2> QED
    BY <1>3, <2>4
<1>6. NextVoucherNo(fy) = <<fy, Max(all) + 1>>
  BY DEF NextVoucherNo
<1>7. Max(all) \in Nat
  BY <1>3, <1>5
<1>8. \A r \in of : r.vno[2] \in Nat /\ r.vno[2] <= Max(all)
  BY <1>3, <1>5
<1> HIDE DEF all
<1> QED
  BY <1>6, <1>7, <1>8 DEF VoucherNo

\* An edit overwrites a bill that is the one on the screen or shares a number.
LEMMA TargetIsABill ==
    ASSUME BillsRegistered, NEW b \in bills, NEW fy, NEW inv
    PROVE  /\ Target(b, fy, inv) \in bills
           /\ \/ Target(b, fy, inv).id = b.id
              \/ Target(b, fy, inv).fy = fy
                   /\ (Target(b, fy, inv).inv = inv \/ Target(b, fy, inv).vno = b.vno)
<1> DEFINE S == {r \in bills : r.id = b.id \/ (r.fy = fy /\ (r.inv = inv \/ r.vno = b.vno))}
<1>1. S # {}
  BY DEF S
<1>2. \A r \in S : r.id \in Nat
  BY DEF BillsRegistered, TypeOK, Rows
<1>3. FirstById(S) \in S
  <2> HIDE DEF S
  <2> QED
    BY <1>1, <1>2, FirstIsOne
<1> QED
  BY <1>3 DEF Target
-----------------------------------------------------------------------------
(* Type correctness *)

LEMMA BillsInitially == Init => BillsRegistered
<1> SUFFICES ASSUME Init PROVE BillsRegistered
  OBVIOUS
<1>1. TypeOK
  BY BillsConstants DEF Init, TypeOK, Unique
<1>2. IsFiniteSet(bills) /\ IsFiniteSet(heads)
  BY FS_EmptySet DEF Init
<1> QED
  BY <1>1, <1>2 DEF Init, BillsRegistered

\* What a save makes of a well-typed bill is well typed.
LEMMA SavedTypes ==
    ASSUME NEW r \in Rows
    PROVE  /\ Line(r) \in [bill : Nat, inv : Numbers, rev : Nat]
           /\ Posting(r) \in Postings
           /\ [vno |-> r.vno, rev |-> r.rev] \in [vno : VoucherNo, rev : Nat]
           /\ \A n \in Nat : [r EXCEPT !.id = n] \in Rows
  BY DEF Rows, Line, Posting, Postings

LEMMA AddRegistered ==
    ASSUME BillsRegistered, NEW fy \in Years, NEW inv \in Numbers, NEW deducted, Add(fy, inv, deducted)
    PROVE  BillsRegistered'
<1> DEFINE b == [id |-> entered + 1, fy |-> fy, vno |-> NextVoucherNo(fy), inv |-> inv, rev |-> saves + 1]
<1>1. b \in Rows
  BY NextVoucherNoIsFresh DEF BillsRegistered, TypeOK, Rows
<1>2. /\ bills' = bills \cup {b} /\ Unique(bills \cup {b})
      /\ items' = items \cup {Line(b)}
      /\ heads' = heads \cup {[b EXCEPT !.id = HeadId(b.id)]}
      /\ stock' = stock \cup {Posting(b)} /\ legs' \subseteq legs \cup {Posting(b)}
      /\ tds' \subseteq tds \cup {[vno |-> b.vno, rev |-> b.rev]}
      /\ entered' = b.id /\ saves' = b.rev /\ odd' = odd \cup Repeated(inv, bills)
      /\ kind' = kind /\ others' = others
  <2>1. Posting(Posting(b)) = Posting(b) /\ Posting(b).vno = b.vno
    BY DEF Posting
  <2>2. PostLegs(Posting(b)) => legs' \subseteq legs \cup {Posting(b)}
    BY DEF PostLegs
  <2>3. Register(b, deducted) => tds' \subseteq tds \cup {[vno |-> b.vno, rev |-> b.rev]}
    BY DEF Register
  <2> HIDE DEF b
  <2> QED
    BY <2>2, <2>3 DEF Add, b
<1>3. HeadId(b.id) \in Nat /\ entered \in Nat /\ saves \in Nat
  BY DEF HeadId, BillsRegistered, TypeOK
<1>4. b.id = entered + 1 /\ b.rev = saves + 1
  OBVIOUS
<1> HIDE DEF b
<1>5. TypeOK'
  <2>1. bills' \subseteq Rows /\ heads' \subseteq Rows
    BY <1>1, <1>2, <1>3, SavedTypes DEF BillsRegistered, TypeOK
  <2>2. items' \subseteq [bill : Nat, inv : Numbers, rev : Nat]
    BY <1>1, <1>2, SavedTypes DEF BillsRegistered, TypeOK
  <2>3. stock' \subseteq Postings /\ legs' \subseteq Postings
    BY <1>1, <1>2, SavedTypes DEF BillsRegistered, TypeOK
  <2>4. tds' \subseteq [vno : VoucherNo, rev : Nat]
    BY <1>1, <1>2, SavedTypes DEF BillsRegistered, TypeOK
  <2>5. others' \in Nat /\ entered' \in Nat /\ saves' \in Nat
    BY <1>2, <1>3, <1>4 DEF BillsRegistered, TypeOK
  <2>6. kind' \in Kinds /\ odd' \subseteq {"repeat", "move", "refused"}
    BY <1>2 DEF BillsRegistered, TypeOK, Repeated
  <2>7. Unique(bills)'
    BY <1>2 DEF Unique
  <2> QED
    BY <2>1, <2>2, <2>3, <2>4, <2>5, <2>6, <2>7 DEF TypeOK
<1>6. IsFiniteSet(bills') /\ IsFiniteSet(heads')
  BY <1>2, FS_AddElement DEF BillsRegistered
<1>7. /\ \A r \in bills' : r.id <= entered'
      /\ \A r, s \in bills' : r.id = s.id => r = s
  <2>1. \A r \in bills : r.id \in Nat /\ r.id <= entered
    BY DEF BillsRegistered, TypeOK, Rows
  <2> QED
    BY <1>2, <1>3, <1>4, <2>1 DEF BillsRegistered
<1> QED
  BY <1>5, <1>6, <1>7 DEF BillsRegistered

\* The row an edit writes.
Edited(b, fy, inv) ==
    [id |-> Target(b, fy, inv).id, fy |-> fy, vno |-> b.vno, inv |-> inv, rev |-> saves + 1]

LEMMA UpdateEffect ==
    ASSUME BillsRegistered, NEW b \in bills, NEW fy \in Years, NEW inv \in Numbers, NEW deducted,
           Update(b, fy, inv, deducted)
    PROVE  LET t == Target(b, fy, inv)
               new == Edited(b, fy, inv)
           IN  /\ new \in Rows
               /\ \/ /\ bills' = bills /\ "refused" \in odd'
                  \/ /\ bills' = (bills \ {t}) \cup {new} /\ Unique(bills')
               /\ items' = {l \in items : l.bill # t.id /\ l.inv # inv} \cup {Line(new)}
               /\ Rehead(t, new)
               /\ stock' = {s \in stock : s.vno # b.vno /\ s.inv # inv} \cup {Posting(new)}
               /\ legs' = {l \in legs : l.vno # b.vno /\ l.inv # inv} \cup {Posting(new)}
               /\ Register(new, deducted)
               /\ saves' = saves + 1
               /\ odd' \subseteq {"repeat", "move", "refused"} /\ odd \subseteq odd'
               /\ odd' = {} => fy = b.fy /\ \A r \in bills : r.inv = inv => r.id = b.id
               /\ UNCHANGED <<kind, others, entered>>
<1> DEFINE t == Target(b, fy, inv)
           new == Edited(b, fy, inv)
           refused == ~ Unique((bills \ {t}) \cup {new})
<1>1. new \in Rows
  BY TargetIsABill DEF BillsRegistered, TypeOK, Rows, Edited
<1>2. Posting(new).vno = b.vno /\ Posting(new).inv = inv /\ new.rev = saves + 1
  BY DEF Posting, Edited
<1>3. /\ bills' = IF refused THEN bills ELSE (bills \ {t}) \cup {new}
      /\ items' = {l \in items : l.bill # t.id /\ l.inv # inv} \cup {Line(new)}
      /\ Rehead(t, new) /\ Restock(Posting(new)) /\ PostLegs(Posting(new)) /\ Register(new, deducted)
      /\ saves' = new.rev
      /\ odd' = odd \cup Repeated(inv, {r \in bills : r.id # b.id})
                    \cup {x \in {"move"} : fy # b.fy} \cup {x \in {"refused"} : refused}
      /\ UNCHANGED <<kind, others, entered>>
  BY Zenon DEF Update, Edited
<1> HIDE DEF new, t, refused
<1>4. \/ bills' = bills /\ "refused" \in odd'
      \/ bills' = (bills \ {t}) \cup {new} /\ Unique(bills')
  <2>1. CASE refused
    BY <1>3, <2>1
  <2>2. CASE ~ refused
    BY <1>3, <2>2 DEF refused
  <2> QED
    BY <2>1, <2>2
<1>5. stock' = {s \in stock : s.vno # b.vno /\ s.inv # inv} \cup {Posting(new)}
  BY <1>2, <1>3 DEF Restock
<1>6. legs' = {l \in legs : l.vno # b.vno /\ l.inv # inv} \cup {Posting(new)}
  BY <1>2, <1>3 DEF PostLegs
<1>7. odd' \subseteq {"repeat", "move", "refused"} /\ odd \subseteq odd'
  BY <1>3 DEF BillsRegistered, TypeOK, Repeated
<1>8. odd' = {} => fy = b.fy /\ \A r \in bills : r.inv = inv => r.id = b.id
  BY <1>3 DEF Repeated
<1> QED
  BY <1>1, <1>2, <1>3, <1>4, <1>5, <1>6, <1>7, <1>8 DEF new, t

LEMMA UpdateRegistered ==
    ASSUME BillsRegistered, NEW b \in bills, NEW fy \in Years, NEW inv \in Numbers, NEW deducted,
           Update(b, fy, inv, deducted)
    PROVE  BillsRegistered'
<1> DEFINE t == Target(b, fy, inv)
           new == Edited(b, fy, inv)
<1>1. t \in bills /\ new.id = t.id
  BY TargetIsABill DEF Edited
<1>2. /\ new \in Rows
      /\ \/ bills' = bills /\ "refused" \in odd'
         \/ bills' = (bills \ {t}) \cup {new} /\ Unique(bills')
      /\ items' = {l \in items : l.bill # t.id /\ l.inv # inv} \cup {Line(new)}
      /\ Rehead(t, new)
      /\ stock' = {s \in stock : s.vno # b.vno /\ s.inv # inv} \cup {Posting(new)}
      /\ legs' = {l \in legs : l.vno # b.vno /\ l.inv # inv} \cup {Posting(new)}
      /\ Register(new, deducted)
      /\ saves' = saves + 1
      /\ odd' \subseteq {"repeat", "move", "refused"}
      /\ UNCHANGED <<kind, others, entered>>
  BY UpdateEffect, Zenon
<1> HIDE DEF t, new
<1>3. \/ heads' = heads
      \/ \E h \in heads : heads' = (heads \ {h}) \cup {[new EXCEPT !.id = h.id]}
  <2> DEFINE found == {h \in heads : h.inv = new.inv \/ h.vno = new.vno \/ h.id = t.id}
  <2>1. CASE found = {}
    BY <1>2, <2>1 DEF Rehead
  <2>2. CASE found # {}
    <3>1. \A h \in found : h.id \in Nat
      BY DEF BillsRegistered, TypeOK, Rows
    <3>2. FirstById(found) \in found
      <4> HIDE DEF found
      <4> QED
        BY <2>2, <3>1, FirstIsOne
    <3> QED
      BY <1>2, <3>2 DEF Rehead
  <2> QED
    BY <2>1, <2>2
<1>4. TypeOK'
  <2>1. bills' \subseteq Rows
    BY <1>2 DEF BillsRegistered, TypeOK
  <2>2. heads' \subseteq Rows
    <3>1. \A h \in heads : h.id \in Nat
      BY DEF BillsRegistered, TypeOK, Rows
    <3> QED
      BY <1>2, <1>3, <3>1, SavedTypes DEF BillsRegistered, TypeOK
  <2>3. items' \subseteq [bill : Nat, inv : Numbers, rev : Nat]
    BY <1>2, SavedTypes DEF BillsRegistered, TypeOK
  <2>4. stock' \subseteq Postings /\ legs' \subseteq Postings
    BY <1>2, SavedTypes DEF BillsRegistered, TypeOK
  <2>5. tds' \subseteq [vno : VoucherNo, rev : Nat]
    <3>1. tds' \subseteq tds \cup {[vno |-> new.vno, rev |-> new.rev]}
      BY <1>2 DEF Register
    <3> QED
      BY <1>2, <3>1, SavedTypes DEF BillsRegistered, TypeOK
  <2>6. others' \in Nat /\ entered' \in Nat /\ saves' \in Nat
    BY <1>2 DEF BillsRegistered, TypeOK
  <2>7. kind' \in Kinds /\ odd' \subseteq {"repeat", "move", "refused"}
    BY <1>2 DEF BillsRegistered, TypeOK
  <2>8. Unique(bills)'
    BY <1>2 DEF BillsRegistered, TypeOK, Unique
  <2> QED
    BY <2>1, <2>2, <2>3, <2>4, <2>5, <2>6, <2>7, <2>8 DEF TypeOK
<1>5. IsFiniteSet(bills') /\ IsFiniteSet(heads')
  <2>1. IsFiniteSet(bills) /\ IsFiniteSet(heads)
    BY DEF BillsRegistered
  <2>2. IsFiniteSet((bills \ {t}) \cup {new})
    BY <2>1, FS_AddElement, FS_RemoveElement
  <2>3. \A h : IsFiniteSet((heads \ {h}) \cup {[new EXCEPT !.id = h.id]})
    <3> TAKE h
    <3> DEFINE n == [new EXCEPT !.id = h.id]
    <3> HIDE DEF n
    <3>1. IsFiniteSet((heads \ {h}) \cup {n})
      BY <2>1, FS_AddElement, FS_RemoveElement
    <3> QED
      BY <3>1 DEF n
  <2> QED
    BY <1>2, <1>3, <2>1, <2>2, <2>3
<1>6. /\ \A r \in bills' : r.id <= entered'
      /\ \A r, s \in bills' : r.id = s.id => r = s
  BY <1>1, <1>2 DEF BillsRegistered
<1> QED
  BY <1>4, <1>5, <1>6 DEF BillsRegistered

LEMMA DeleteBillRegistered ==
    ASSUME BillsRegistered, NEW id, NEW inv, DeleteInvoice(id, inv)
    PROVE  BillsRegistered'
<1>1. /\ bills' \subseteq bills /\ items' \subseteq items /\ heads' \subseteq heads
      /\ stock' \subseteq stock /\ legs' \subseteq legs
      /\ UNCHANGED <<kind, tds, others, entered, saves, odd>>
  BY DEF DeleteInvoice
<1>2. TypeOK'
  BY <1>1 DEF BillsRegistered, TypeOK, Unique
<1>3. IsFiniteSet(bills') /\ IsFiniteSet(heads')
  BY <1>1, FS_Subset DEF BillsRegistered
<1> QED
  BY <1>1, <1>2, <1>3 DEF BillsRegistered

LEMMA BillsStep == BillsRegistered /\ [Next]_vars => BillsRegistered'
<1> SUFFICES ASSUME BillsRegistered, [Next]_vars PROVE BillsRegistered'
  OBVIOUS
<1>1. CASE \E fy \in Years, inv \in Numbers, deducted \in BOOLEAN : Add(fy, inv, deducted)
  BY <1>1, AddRegistered
<1>2. CASE \E fy \in Years, inv \in Numbers, deducted \in BOOLEAN, b \in bills :
             Update(b, fy, inv, deducted)
  BY <1>2, UpdateRegistered
<1>3. CASE \E b \in bills : Delete(b)
  BY <1>3, DeleteBillRegistered DEF Delete
<1>4. CASE \E p \in legs : \E leg \in LegIds(p) : DeleteFromLedger(p, leg)
  BY <1>4, DeleteBillRegistered DEF DeleteFromLedger
<1>5. CASE UNCHANGED vars
  BY <1>5 DEF vars, tables, BillsRegistered, TypeOK, Unique
<1> QED
  BY <1>1, <1>2, <1>3, <1>4, <1>5 DEF Next

\* Type correctness, and no number twice in a year's sales.
THEOREM BillsTypeCorrect == Spec => []TypeOK
<1>1. BillsRegistered => TypeOK
  BY DEF BillsRegistered
<1> QED
  BY BillsInitially, BillsStep, <1>1, PTL DEF Spec
-----------------------------------------------------------------------------
(* No posting without its bill *)

LEMMA AddKeepsPostings ==
    ASSUME BillsRegistered, PostingsHaveBills, NEW fy \in Years, NEW inv \in Numbers, NEW deducted,
           Add(fy, inv, deducted)
    PROVE  PostingsHaveBills'
<1> DEFINE b == [id |-> entered + 1, fy |-> fy, vno |-> NextVoucherNo(fy), inv |-> inv, rev |-> saves + 1]
<1>1. /\ bills' = bills \cup {b} /\ items' = items \cup {Line(b)} /\ stock' = stock \cup {Posting(b)}
      /\ legs' \subseteq legs \cup {Posting(b)} /\ odd \subseteq odd'
  BY DEF Add, PostLegs, Posting
<1> HIDE DEF b
<1> QED
  BY <1>1 DEF PostingsHaveBills

LEMMA UpdateKeepsPostings ==
    ASSUME BillsRegistered, PostingsHaveBills, NEW b \in bills, NEW fy \in Years, NEW inv \in Numbers,
           NEW deducted, Update(b, fy, inv, deducted)
    PROVE  PostingsHaveBills'
<1> DEFINE t == Target(b, fy, inv)
           new == Edited(b, fy, inv)
<1>1. /\ \/ bills' = bills /\ "refused" \in odd'
         \/ bills' = (bills \ {t}) \cup {new} /\ Unique(bills')
      /\ items' = {l \in items : l.bill # t.id /\ l.inv # inv} \cup {Line(new)}
      /\ stock' = {s \in stock : s.vno # b.vno /\ s.inv # inv} \cup {Posting(new)}
      /\ legs' = {l \in legs : l.vno # b.vno /\ l.inv # inv} \cup {Posting(new)}
      /\ odd \subseteq odd'
  BY UpdateEffect, Zenon
<1>2. t \in bills /\ (t = b \/ t.inv = inv \/ t.vno = b.vno)
  BY TargetIsABill DEF BillsRegistered
<1> HIDE DEF t, new
<1> SUFFICES ASSUME "refused" \notin odd'
             PROVE  /\ \A p \in stock' \cup legs' : \E r \in bills' : Posting(r) = p
                    /\ \A l \in items' : \E r \in bills' : Line(r) = l
  BY DEF PostingsHaveBills
<1>3. bills' = (bills \ {t}) \cup {new}
  BY <1>1
<1>4. ASSUME NEW p \in stock \cup legs, p.vno # b.vno, p.inv # inv
      PROVE  \E r \in bills' : Posting(r) = p
  <2>1. PICK r \in bills : Posting(r) = p
    BY <1>1 DEF PostingsHaveBills
  <2>2. r.vno = p.vno /\ r.inv = p.inv
    BY <2>1 DEF Posting
  <2>3. r # t
    BY <1>2, <1>4, <2>2
  <2> QED
    BY <1>3, <2>1, <2>3
<1>5. ASSUME NEW l \in items, l.bill # t.id
      PROVE  \E r \in bills' : Line(r) = l
  <2>1. PICK r \in bills : Line(r) = l
    BY <1>1 DEF PostingsHaveBills
  <2>2. r.id = l.bill
    BY <2>1 DEF Line
  <2>3. r # t
    BY <1>5, <2>2
  <2> QED
    BY <1>3, <2>1, <2>3
<1> QED
  BY <1>1, <1>3, <1>4, <1>5

LEMMA DeleteKeepsPostings ==
    ASSUME PostingsHaveBills, NEW id, NEW inv, DeleteInvoice(id, inv)
    PROVE  PostingsHaveBills'
<1> DEFINE vnos == {r.vno : r \in {x \in bills : x.id = id}}
<1>1. /\ bills' = {r \in bills : r.id # id /\ r.inv # inv}
      /\ items' = {l \in items : l.bill # id /\ l.inv # inv}
      /\ stock' = {r \in stock : r.inv # inv /\ r.vno \notin vnos}
      /\ legs' = {r \in legs : r.inv # inv /\ r.vno \notin vnos}
      /\ odd' = odd
  BY DEF DeleteInvoice
<1> SUFFICES ASSUME "refused" \notin odd
             PROVE  /\ \A p \in stock' \cup legs' : \E r \in bills' : Posting(r) = p
                    /\ \A l \in items' : \E r \in bills' : Line(r) = l
  BY <1>1 DEF PostingsHaveBills
<1>2. ASSUME NEW p \in stock' \cup legs'
      PROVE  \E r \in bills' : Posting(r) = p
  <2>1. PICK r \in bills : Posting(r) = p
    BY <1>1, <1>2 DEF PostingsHaveBills
  <2>2. r.vno = p.vno /\ r.inv = p.inv
    BY <2>1 DEF Posting
  <2>3. r.id # id /\ r.inv # inv
    BY <1>1, <1>2, <2>2
  <2> QED
    BY <1>1, <2>1, <2>3
<1>3. ASSUME NEW l \in items'
      PROVE  \E r \in bills' : Line(r) = l
  <2>1. PICK r \in bills : Line(r) = l
    BY <1>1, <1>3 DEF PostingsHaveBills
  <2>2. r.id = l.bill /\ r.inv = l.inv
    BY <2>1 DEF Line
  <2> QED
    BY <1>1, <1>3, <2>1, <2>2
<1> QED
  BY <1>2, <1>3

\* Unless an edit was refused by UNIQUE and went on, every posting and every line
\* is that of a bill in the register: a save or a deletion that hits the rows of
\* another bill takes them with the bill that is gone, or leaves the bill.
THEOREM PostingsFollowBills == Spec => []PostingsHaveBills
<1>1. Init => PostingsHaveBills
  BY DEF Init, PostingsHaveBills
<1>2. BillsRegistered /\ PostingsHaveBills /\ [Next]_vars => PostingsHaveBills'
  <2> SUFFICES ASSUME BillsRegistered, PostingsHaveBills, [Next]_vars PROVE PostingsHaveBills'
    OBVIOUS
  <2>1. CASE \E fy \in Years, inv \in Numbers, deducted \in BOOLEAN : Add(fy, inv, deducted)
    BY <2>1, AddKeepsPostings
  <2>2. CASE \E fy \in Years, inv \in Numbers, deducted \in BOOLEAN, b \in bills :
               Update(b, fy, inv, deducted)
    BY <2>2, UpdateKeepsPostings
  <2>3. CASE \E b \in bills : Delete(b)
    BY <2>3, DeleteKeepsPostings DEF Delete
  <2>4. CASE \E p \in legs : \E leg \in LegIds(p) : DeleteFromLedger(p, leg)
    BY <2>4, DeleteKeepsPostings DEF DeleteFromLedger
  <2>5. CASE UNCHANGED vars
    BY <2>5 DEF vars, tables, PostingsHaveBills
  <2> QED
    BY <2>1, <2>2, <2>3, <2>4, <2>5 DEF Next
<1> QED
  BY BillsInitially, BillsStep, <1>1, <1>2, PTL DEF Spec
-----------------------------------------------------------------------------
(* Nothing posted twice *)

\* A bill replaces what shares either number with it.
LEMMA PostedAlone ==
    ASSUME PostedOnce, NEW p, NEW r, NEW deducted, p.vno = r.vno,
           legs' = {l \in legs : l.vno # p.vno /\ l.inv # p.inv} \cup {p}, Register(r, deducted)
    PROVE  PostedOnce'
<1>1. \A l, k \in legs' : l.vno = k.vno \/ l.inv = k.inv => l = k
  BY DEF PostedOnce
<1>2. \A d, e \in tds' : d.vno = e.vno => d = e
  <2> DEFINE n == [vno |-> r.vno, rev |-> r.rev]
  <2>1. tds' = tds \/ tds' = {d \in tds : d.vno # r.vno} \cup {n}
    BY DEF Register
  <2>2. n.vno = r.vno
    OBVIOUS
  <2> HIDE DEF n
  <2> QED
    BY <2>1, <2>2 DEF PostedOnce
<1> QED
  BY <1>1, <1>2 DEF PostedOnce

\* No bill has two sets of legs, and no number two lines in the register of tax,
\* with every bound and whatever was saved over what.
THEOREM BillsPostedOnce == Spec => []PostedOnce
<1>1. Init => PostedOnce
  BY DEF Init, PostedOnce
<1>2. BillsRegistered /\ PostedOnce /\ [Next]_vars => PostedOnce'
  <2> SUFFICES ASSUME BillsRegistered, PostedOnce, [Next]_vars PROVE PostedOnce'
    OBVIOUS
  <2>1. ASSUME NEW fy \in Years, NEW inv \in Numbers, NEW deducted \in BOOLEAN, Add(fy, inv, deducted)
        PROVE  PostedOnce'
    <3> DEFINE b == [id |-> entered + 1, fy |-> fy, vno |-> NextVoucherNo(fy), inv |-> inv, rev |-> saves + 1]
    <3>1. PostLegs(Posting(b)) /\ Register(b, deducted)
      BY <2>1 DEF Add
    <3>2. Posting(b).vno = b.vno
      BY DEF Posting
    <3> HIDE DEF b
    <3> QED
      BY <3>1, <3>2, PostedAlone DEF PostLegs
  <2>2. ASSUME NEW fy \in Years, NEW inv \in Numbers, NEW deducted \in BOOLEAN, NEW b \in bills,
               Update(b, fy, inv, deducted)
        PROVE  PostedOnce'
    <3> DEFINE new == Edited(b, fy, inv)
    <3>1. /\ legs' = {l \in legs : l.vno # b.vno /\ l.inv # inv} \cup {Posting(new)}
          /\ Register(new, deducted)
      BY <2>2, UpdateEffect
    <3>2. Posting(new).vno = b.vno /\ Posting(new).inv = inv /\ new.vno = b.vno
      BY DEF Posting, Edited
    <3> HIDE DEF new
    <3> QED
      BY <3>1, <3>2, PostedAlone
  <2>3. ASSUME NEW id, NEW inv, DeleteInvoice(id, inv)
        PROVE  PostedOnce'
    BY <2>3 DEF DeleteInvoice, PostedOnce
  <2>4. CASE UNCHANGED vars
    BY <2>4 DEF vars, tables, PostedOnce
  <2> QED
    BY <2>1, <2>2, <2>3, <2>4 DEF Next, Delete, DeleteFromLedger
<1> QED
  BY BillsInitially, BillsStep, <1>1, <1>2, PTL DEF Spec
-----------------------------------------------------------------------------
(* Every bill posted, as long as their numbers differ *)

\* Why it is so: no two bills share a number, and ours is of the bill's year.
Distinct ==
    odd = {} =>
        /\ \A r, s \in bills : r.inv = s.inv \/ r.vno = s.vno => r = s
        /\ \A r \in bills : r.vno[1] = r.fy
        /\ \A r \in bills : Posted(r)

LEMMA AddKeepsDistinct ==
    ASSUME BillsRegistered, Distinct, NEW fy \in Years, NEW inv \in Numbers, NEW deducted,
           Add(fy, inv, deducted)
    PROVE  Distinct'
<1> SUFFICES ASSUME odd' = {}
             PROVE  /\ \A r, s \in bills' : r.inv = s.inv \/ r.vno = s.vno => r = s
                    /\ \A r \in bills' : r.vno[1] = r.fy
                    /\ \A r \in bills' : Posted(r)'
  BY DEF Distinct
<1> DEFINE b == [id |-> entered + 1, fy |-> fy, vno |-> NextVoucherNo(fy), inv |-> inv, rev |-> saves + 1]
<1>1. /\ bills' = bills \cup {b} /\ items' = items \cup {Line(b)} /\ stock' = stock \cup {Posting(b)}
      /\ PostLegs(Posting(b)) /\ odd' = odd \cup Repeated(inv, bills)
  BY DEF Add
<1>2. b.vno = NextVoucherNo(fy) /\ b.inv = inv /\ b.fy = fy
  OBVIOUS
<1> HIDE DEF b
<1>3. odd = {} /\ \A r \in bills : r.inv # b.inv
  BY <1>1, <1>2 DEF Repeated
<1>4. b.vno[1] = b.fy /\ \A r \in bills : r.vno # b.vno
  <2>1. NextVoucherNo(fy)[1] = fy
    BY NextVoucherNoIsFresh
  <2>2. ASSUME NEW r \in bills, r.vno = NextVoucherNo(fy) PROVE FALSE
    <3>1. r.fy = fy
      BY <1>3, <2>1, <2>2 DEF Distinct
    <3>2. r.vno[2] < NextVoucherNo(fy)[2]
      BY <3>1, NextVoucherNoIsFresh
    <3>3. r.vno[2] \in Nat
      BY DEF BillsRegistered, TypeOK, Rows, VoucherNo
    <3> QED
      BY <2>2, <3>2, <3>3
  <2> QED
    BY <1>2, <2>1, <2>2
<1>5. legs' = {l \in legs : l.vno # b.vno /\ l.inv # b.inv} \cup {Posting(b)}
  BY <1>1 DEF PostLegs, Posting
<1>6. \A r \in bills : Posted(r)'
  <2> TAKE r \in bills
  <2>1. Posted(r) /\ r.vno # b.vno /\ r.inv # b.inv
    BY <1>3, <1>4 DEF Distinct
  <2>2. Posting(r).vno = r.vno /\ Posting(r).inv = r.inv
    BY DEF Posting
  <2> QED
    BY <1>1, <1>5, <2>1, <2>2 DEF Posted
<1>7. \A r \in bills' : Posted(r)'
  BY <1>1, <1>5, <1>6 DEF Posted
<1> QED
  BY <1>1, <1>3, <1>4, <1>7 DEF Distinct

LEMMA UpdateKeepsDistinct ==
    ASSUME BillsRegistered, Distinct, NEW b \in bills, NEW fy \in Years, NEW inv \in Numbers,
           NEW deducted, Update(b, fy, inv, deducted)
    PROVE  Distinct'
<1> SUFFICES ASSUME odd' = {}
             PROVE  /\ \A r, s \in bills' : r.inv = s.inv \/ r.vno = s.vno => r = s
                    /\ \A r \in bills' : r.vno[1] = r.fy
                    /\ \A r \in bills' : Posted(r)'
  BY DEF Distinct
<1> DEFINE t == Target(b, fy, inv)
           new == Edited(b, fy, inv)
<1>1. /\ \/ bills' = bills /\ "refused" \in odd'
         \/ bills' = (bills \ {t}) \cup {new} /\ Unique(bills')
      /\ items' = {l \in items : l.bill # t.id /\ l.inv # inv} \cup {Line(new)}
      /\ stock' = {s \in stock : s.vno # b.vno /\ s.inv # inv} \cup {Posting(new)}
      /\ legs' = {l \in legs : l.vno # b.vno /\ l.inv # inv} \cup {Posting(new)}
      /\ odd \subseteq odd'
      /\ odd' = {} => fy = b.fy /\ \A r \in bills : r.inv = inv => r.id = b.id
  BY UpdateEffect, Zenon
<1>2. new.vno = b.vno /\ new.inv = inv /\ new.fy = fy
  BY DEF Edited
<1>3. t \in bills /\ (t.id = b.id \/ t.inv = inv \/ t.vno = b.vno)
  BY TargetIsABill
<1> HIDE DEF t, new
<1>4. /\ odd = {} /\ fy = b.fy
      /\ bills' = (bills \ {t}) \cup {new}
      /\ \A r \in bills : r.inv = inv => r.id = b.id
  BY <1>1
<1>5. t = b
  BY <1>3, <1>4 DEF Distinct, BillsRegistered
<1>6. \A r \in bills \ {b} : r.id # b.id /\ r.inv # inv /\ r.vno # b.vno
  BY <1>4 DEF Distinct, BillsRegistered
<1>7. \A r \in bills \ {b} : Posted(r)'
  <2> TAKE r \in bills \ {b}
  <2>1. Posted(r) /\ r.id # b.id /\ r.vno # b.vno /\ r.inv # inv
    BY <1>4, <1>6 DEF Distinct
  <2>2. /\ Posting(r).vno = r.vno /\ Posting(r).inv = r.inv
        /\ Line(r).bill = r.id /\ Line(r).inv = r.inv
    BY DEF Posting, Line
  <2> QED
    BY <1>1, <1>5, <2>1, <2>2 DEF Posted
<1>8. \A r \in bills' : Posted(r)'
  BY <1>1, <1>4, <1>5, <1>7 DEF Posted
<1>9. new.vno[1] = new.fy
  BY <1>2, <1>4 DEF Distinct
<1>10. \A r, s \in bills' : r.inv = s.inv \/ r.vno = s.vno => r = s
  BY <1>2, <1>4, <1>5, <1>6 DEF Distinct
<1> QED
  BY <1>4, <1>5, <1>8, <1>9, <1>10 DEF Distinct

LEMMA DeleteKeepsDistinct ==
    ASSUME Distinct, NEW id, NEW inv, DeleteInvoice(id, inv)
    PROVE  Distinct'
<1> SUFFICES ASSUME odd' = {}
             PROVE  /\ \A r, s \in bills' : r.inv = s.inv \/ r.vno = s.vno => r = s
                    /\ \A r \in bills' : r.vno[1] = r.fy
                    /\ \A r \in bills' : Posted(r)'
  BY DEF Distinct
<1> DEFINE vnos == {r.vno : r \in {x \in bills : x.id = id}}
<1>1. /\ bills' = {r \in bills : r.id # id /\ r.inv # inv}
      /\ items' = {l \in items : l.bill # id /\ l.inv # inv}
      /\ stock' = {r \in stock : r.inv # inv /\ r.vno \notin vnos}
      /\ legs' = {r \in legs : r.inv # inv /\ r.vno \notin vnos}
      /\ odd = {}
  BY DEF DeleteInvoice
<1>2. \A r \in bills' : Posted(r)'
  <2> TAKE r \in bills'
  <2>1. Posted(r) /\ r \in bills /\ r.id # id /\ r.inv # inv
    BY <1>1 DEF Distinct
  <2>2. r.vno \notin vnos
    BY <1>1, <2>1 DEF Distinct
  <2>3. /\ Posting(r).vno = r.vno /\ Posting(r).inv = r.inv
        /\ Line(r).bill = r.id /\ Line(r).inv = r.inv
    BY DEF Posting, Line
  <2> HIDE DEF vnos
  <2> QED
    BY <1>1, <2>1, <2>2, <2>3 DEF Posted
<1> QED
  BY <1>1, <1>2 DEF Distinct

\* As long as no two bills have had one number and no bill has changed its year,
\* every bill of the register has its legs, its stock and its lines.
THEOREM DistinctBillsArePosted == Spec => []DistinctBillsPosted
<1>1. Init => Distinct
  BY DEF Init, Distinct
<1>2. BillsRegistered /\ Distinct /\ [Next]_vars => Distinct'
  <2> SUFFICES ASSUME BillsRegistered, Distinct, [Next]_vars PROVE Distinct'
    OBVIOUS
  <2>1. CASE \E fy \in Years, inv \in Numbers, deducted \in BOOLEAN : Add(fy, inv, deducted)
    BY <2>1, AddKeepsDistinct
  <2>2. CASE \E fy \in Years, inv \in Numbers, deducted \in BOOLEAN, b \in bills :
               Update(b, fy, inv, deducted)
    BY <2>2, UpdateKeepsDistinct
  <2>3. CASE \E b \in bills : Delete(b)
    BY <2>3, DeleteKeepsDistinct DEF Delete
  <2>4. CASE \E p \in legs : \E leg \in LegIds(p) : DeleteFromLedger(p, leg)
    BY <2>4, DeleteKeepsDistinct DEF DeleteFromLedger
  <2>5. CASE UNCHANGED vars
    BY <2>5 DEF vars, tables, Distinct, Posted
  <2> QED
    BY <2>1, <2>2, <2>3, <2>4, <2>5 DEF Next
<1>3. Distinct => DistinctBillsPosted
  BY DEF Distinct, DistinctBillsPosted
<1> QED
  BY BillsInitially, BillsStep, <1>1, <1>2, <1>3, PTL DEF Spec
-----------------------------------------------------------------------------
(* Forms, notes and batches *)

\* The largest member of a finite set of numbers, or 0.
LEMMA LargestOrZero ==
    ASSUME NEW S, S \subseteq Nat, IsFiniteSet(S)
    PROVE  Max(S \cup {0}) \in Nat /\ \A u \in S : u <= Max(S \cup {0})
<1> DEFINE all == S \cup {0}
<1>1. all \subseteq Nat /\ all # {}
  OBVIOUS
<1>2. IsFiniteSet(all)
  BY FS_AddElement
<1> HIDE DEF all
<1>3. PICK m \in all : \A x \in all : x <= m
  BY <1>1, <1>2, HasLargest
<1>4. \A x \in all : m >= x
  BY <1>1, <1>3
<1>5. Max(all) \in all /\ \A x \in all : Max(all) >= x
  BY <1>3, <1>4 DEF Max
<1>6. Max(all) \in Nat /\ \A x \in all : x <= Max(all)
  BY <1>1, <1>5
<1> QED
  BY <1>6 DEF all

\* What the tables hold besides their types: ids are given out once, there are
\* finitely many forms, and only a J-form moves stock, only a batch has no legs.
FormsRegistered ==
    /\ FormsTypeOK
    /\ IsFiniteSet(rows)
    /\ \A r \in rows : r.id <= formIds
    /\ \A r, s \in rows : r.id = s.id => r = s
    /\ form # "JForm" => formStock = {}
    /\ form = "Batch" => formLegs = {}

\* The next number is of the type, and past every number of the year or, of a
\* note, past every id of the type and no larger than the id it will have.
LEMMA NextFormNoIsFresh ==
    ASSUME FormsRegistered, NEW type \in Types, NEW fy \in FormYears
    PROVE  LET n == NextFormNo(type, fy)
           IN  /\ n \in FormNo /\ n[1] = type
               /\ form # "Note" => \A r \in rows : r.fy = fy => r.no[2] < n[2]
               /\ form = "Note" => /\ \A r \in rows : r.type = type => r.id < n[2]
                                   /\ n[2] <= formIds + 1
<1> DEFINE same == {x \in rows : x.type = type}
           year == {x \in rows : x.fy = fy}
           ids == {r.id : r \in same}
           nos == {r.no[2] : r \in year}
<1>1. ids \subseteq Nat /\ nos \subseteq Nat /\ formIds \in Nat
  BY DEF FormsRegistered, FormsTypeOK, FormNo
<1>2. IsFiniteSet(ids)
  <2> DEFINE f == [r \in same |-> r.id]
  <2>1. IsFiniteSet(same)
    BY FS_Subset DEF FormsRegistered
  <2>2. f \in Surjection(same, ids)
    BY DEF Surjection
  <2> HIDE DEF same, ids, f
  <2> QED
    BY <2>1, <2>2, FS_Surjection
<1>3. IsFiniteSet(nos)
  <2> DEFINE f == [r \in year |-> r.no[2]]
  <2>1. IsFiniteSet(year)
    BY FS_Subset DEF FormsRegistered
  <2>2. f \in Surjection(year, nos)
    BY DEF Surjection
  <2> HIDE DEF year, nos, f
  <2> QED
    BY <2>1, <2>2, FS_Surjection
<1>4. CASE form = "Note"
  <2>1. NextFormNo(type, fy) = <<type, Max(ids \cup {0}) + 1>>
    BY <1>4 DEF NextFormNo
  <2>2. Max(ids \cup {0}) \in Nat /\ \A u \in ids : u <= Max(ids \cup {0})
    BY <1>1, <1>2, LargestOrZero
  <2>3. Max(ids \cup {0}) <= formIds
    <3>1. \A u \in ids \cup {0} : u <= formIds
      BY <1>1 DEF FormsRegistered
    <3>2. Max(ids \cup {0}) \in ids \cup {0}
      <4> DEFINE all == ids \cup {0}
      <4>1. all \subseteq Nat /\ all # {} /\ IsFiniteSet(all)
        BY <1>1, <1>2, FS_AddElement
      <4> HIDE DEF all
      <4>2. PICK m \in all : \A x \in all : x <= m
        BY <4>1, HasLargest
      <4>3. \A x \in all : m >= x
        BY <4>1, <4>2
      <4>4. Max(all) \in all
        BY <4>2, <4>3 DEF Max
      <4> QED
        BY <4>4 DEF all
    <3> QED
      BY <3>1, <3>2
  <2>4. \A r \in rows : r.type = type => r.id \in ids
    OBVIOUS
  <2>5. \A r \in rows : r.type = type => r.id \in Nat /\ r.id <= Max(ids \cup {0})
    BY <1>1, <2>2, <2>4
  <2> DEFINE m == Max(ids \cup {0})
  <2>6. NextFormNo(type, fy) = <<type, m + 1>> /\ m \in Nat /\ m <= formIds
    BY <2>1, <2>2, <2>3
  <2> HIDE DEF m
  <2>7. <<type, m + 1>> \in FormNo
    BY <2>6 DEF FormNo
  <2>8. \A r \in rows : r.type = type => r.id < m + 1
    BY <2>5, <2>6 DEF m
  <2> QED
    BY <1>1, <1>4, <2>6, <2>7, <2>8
<1>5. CASE form # "Note"
  <2>1. NextFormNo(type, fy) = <<type, Max(nos \cup {0}) + 1>>
    BY <1>5 DEF NextFormNo
  <2>2. Max(nos \cup {0}) \in Nat /\ \A u \in nos : u <= Max(nos \cup {0})
    BY <1>1, <1>3, LargestOrZero
  <2>3. \A r \in rows : r.fy = fy => r.no[2] \in nos
    OBVIOUS
  <2>4. \A r \in rows : r.fy = fy => r.no[2] \in Nat /\ r.no[2] <= Max(nos \cup {0})
    BY <1>1, <2>2, <2>3
  <2> DEFINE m == Max(nos \cup {0})
  <2>5. NextFormNo(type, fy) = <<type, m + 1>> /\ m \in Nat
    BY <2>1, <2>2
  <2> HIDE DEF m
  <2>6. <<type, m + 1>> \in FormNo
    BY <2>5 DEF FormNo
  <2>7. \A r \in rows : r.fy = fy => r.no[2] < m + 1
    BY <2>4, <2>5 DEF m
  <2> QED
    BY <1>5, <2>5, <2>6, <2>7
<1> QED
  BY <1>4, <1>5
-----------------------------------------------------------------------------
(* What the operations do, in the form the proofs use it *)

LEMMA PostEffect ==
    ASSUME FormsRegistered, NEW p \in Entries, NEW new \in BOOLEAN, Post(p, new),
           form = "Batch" /\ new => \A h \in formHeads : h.fy # p.fy \/ h.no # p.no
    PROVE  /\ p \in formHeads' /\ formHeads' \subseteq Entries
           /\ formLegs' \subseteq Entries /\ formStock' \subseteq Entries
           /\ \A h, k \in formHeads' : h.type = k.type /\ h.fy = k.fy /\ h.no = k.no => h = k
           /\ form # "Batch" => p \in formLegs'
           /\ form = "JForm" => p \in formStock'
           /\ form # "JForm" => formStock' = formStock
           /\ form = "Batch" => formLegs' = formLegs
           /\ \A S \in {formHeads, formLegs, formStock} : Cleared(S, p) \subseteq S
           /\ Cleared(formHeads, p) \subseteq formHeads'
           /\ Cleared(formLegs, p) \subseteq formLegs'
           /\ Cleared(formStock, p) \subseteq formStock'
           /\ formHeads' \subseteq formHeads \cup {p}
           /\ form # "Batch" \/ ~ new => formHeads' = Cleared(formHeads, p) \cup {p}
           /\ form # "Batch" => formLegs' = Cleared(formLegs, p) \cup {p}
           /\ form = "JForm" => formStock' = Cleared(formStock, p) \cup {p}
<1>1. formHeads \subseteq Entries /\ formLegs \subseteq Entries /\ formStock \subseteq Entries
  BY DEF FormsRegistered, FormsTypeOK
<1>2. \A h, k \in formHeads : h.type = k.type /\ h.fy = k.fy /\ h.no = k.no => h = k
  BY DEF FormsRegistered, FormsTypeOK
<1>3. \A h, k \in formHeads' : h.type = k.type /\ h.fy = k.fy /\ h.no = k.no => h = k
  <2>1. CASE form = "Batch" /\ new
    BY <1>2, <2>1 DEF Post
  <2>2. CASE ~ (form = "Batch" /\ new)
    BY <1>2, <2>2 DEF Post, Cleared
  <2> QED
    BY <2>1, <2>2
<1> QED
  BY <1>1, <1>3 DEF Post, Cleared

LEMMA EntryTypes ==
    ASSUME NEW r, r \in [id : Nat, type : Types, fy : FormYears, no : FormNo, rev : Nat]
    PROVE  /\ Entry(r) \in Entries /\ Item(r) \in [id : Nat, rev : Nat]
           /\ Entry(r).no = r.no /\ Entry(r).fy = r.fy /\ Item(r).id = r.id
  BY DEF Entry, Entries, Item

\* What the save of a new form r does.
SavedNew(type, fy, r) ==
    /\ r \in [id : Nat, type : Types, fy : FormYears, no : FormNo, rev : Nat]
    /\ r.id = formIds + 1 /\ r.type = type /\ r.fy = fy /\ r.no = NextFormNo(type, fy)
    /\ rows' = rows \cup {r} /\ formItems' = formItems \cup {Item(r)}
    /\ Post(Entry(r), TRUE)
    /\ form = "Batch" => \A h \in formHeads : h.fy # r.fy \/ h.no # r.no
    /\ formIds' = formIds + 1 /\ formSaves' = formSaves + 1
    /\ formOdd' = formOdd \cup Oddities(r.no, rows)
    /\ form' = form

LEMMA NewFormEffect ==
    ASSUME FormsRegistered, NEW type \in Types, NEW fy \in FormYears, SaveNewForm(type, fy)
    PROVE  \E r : SavedNew(type, fy, r)
<1> DEFINE r == [id |-> formIds + 1, type |-> type, fy |-> fy, no |-> NextFormNo(type, fy),
                 rev |-> formSaves + 1]
<1>1. NextFormNo(type, fy) \in FormNo
  BY NextFormNoIsFresh
<1>2. r \in [id : Nat, type : Types, fy : FormYears, no : FormNo, rev : Nat]
  BY <1>1 DEF FormsRegistered, FormsTypeOK
<1>3. /\ r.id = formIds + 1 /\ r.type = type /\ r.fy = fy /\ r.no = NextFormNo(type, fy)
      /\ r.rev = formSaves + 1
  OBVIOUS
<1>4. /\ rows' = rows \cup {r} /\ formItems' = formItems \cup {Item(r)}
      /\ Post(Entry(r), TRUE)
      /\ form = "Batch" => \A h \in formHeads : h.fy # fy \/ h.no # r.no
      /\ formIds' = r.id /\ formSaves' = r.rev
      /\ formOdd' = formOdd \cup Oddities(r.no, rows)
      /\ form' = form
  BY Zenon DEF SaveNewForm
<1> HIDE DEF r
<1>5. SavedNew(type, fy, r)
  BY <1>2, <1>3, <1>4 DEF SavedNew
<1> QED
  BY <1>5

\* What the save of form o as r does.
SavedAgain(o, type, fy, r) ==
    /\ r \in [id : Nat, type : Types, fy : FormYears, no : FormNo, rev : Nat]
    /\ r.id = o.id /\ r.type = type /\ r.fy = fy
    /\ mandi => r.no = NextFormNo(type, fy)
    /\ ~ mandi => r.no = o.no
    /\ rows' = (rows \ {o}) \cup {r}
    /\ formItems' = {i \in formItems : i.id # o.id} \cup {Item(r)}
    /\ Post(Entry(r), FALSE)
    /\ formIds' = formIds /\ formSaves' = formSaves + 1 /\ form' = form
    /\ formOdd' = formOdd \cup Oddities(r.no, rows \ {o})
          \cup {x \in {"renumbered"} : r.no # o.no}
          \cup {x \in {"toggled"} : type # o.type}
          \cup {x \in {"moved"} : form = "Batch" /\ fy # o.fy}

LEMMA SaveFormEffect ==
    ASSUME FormsRegistered, NEW o \in rows, NEW type \in Types, NEW fy \in FormYears,
           SaveForm(o, type, fy)
    PROVE  \E r : SavedAgain(o, type, fy, r)
<1> DEFINE n == IF mandi THEN NextFormNo(type, fy) ELSE o.no
           k == formSaves + 1
           r == [o EXCEPT !.type = type, !.fy = fy, !.rev = k, !.no = n]
<1>1. o \in [id : Nat, type : Types, fy : FormYears, no : FormNo, rev : Nat] /\ k \in Nat
  BY DEF FormsRegistered, FormsTypeOK
<1>2. n \in FormNo
  BY <1>1, NextFormNoIsFresh
<1>3. /\ rows' = (rows \ {o}) \cup {r}
      /\ formItems' = {i \in formItems : i.id # o.id} \cup {Item(r)}
      /\ Post(Entry(r), FALSE)
      /\ formSaves' = r.rev
      /\ formOdd' = formOdd \cup Oddities(r.no, rows \ {o})
            \cup {x \in {"renumbered"} : r.no # o.no}
            \cup {x \in {"toggled"} : type # o.type}
            \cup {x \in {"moved"} : form = "Batch" /\ fy # o.fy}
      /\ UNCHANGED <<form, formIds>>
  BY Zenon DEF SaveForm
<1> HIDE DEF n, k
<1>4. r.id = o.id /\ r.type = type /\ r.fy = fy /\ r.rev = k /\ r.no = n
  BY <1>1
<1>5. r \in [id : Nat, type : Types, fy : FormYears, no : FormNo, rev : Nat]
  BY <1>1, <1>2
<1> HIDE DEF r
<1>6. SavedAgain(o, type, fy, r)
  BY <1>3, <1>4, <1>5 DEF SavedAgain, n, k
<1> QED
  BY <1>6
-----------------------------------------------------------------------------
(* Type correctness *)

LEMMA FormsInitially == FormsInit => FormsRegistered
<1> SUFFICES ASSUME FormsInit PROVE FormsRegistered
  OBVIOUS
<1>1. FormsTypeOK
  BY DEF FormsInit, FormsTypeOK
<1>2. IsFiniteSet(rows)
  BY FS_EmptySet DEF FormsInit
<1> QED
  BY <1>1, <1>2 DEF FormsInit, FormsRegistered

LEMMA NewFormRegistered ==
    ASSUME FormsRegistered, NEW type \in Types, NEW fy \in FormYears, SaveNewForm(type, fy)
    PROVE  FormsRegistered'
<1>1. PICK r : SavedNew(type, fy, r)
  BY NewFormEffect
<1> USE DEF SavedNew
<1>2. r.id = formIds + 1
  BY <1>1
<1>3. Entry(r) \in Entries /\ Item(r) \in [id : Nat, rev : Nat] /\ Entry(r).no = r.no /\ Entry(r).fy = r.fy
  BY <1>1, EntryTypes
<1>4. /\ formHeads' \subseteq Entries /\ formLegs' \subseteq Entries /\ formStock' \subseteq Entries
      /\ \A h, k \in formHeads' : h.type = k.type /\ h.fy = k.fy /\ h.no = k.no => h = k
      /\ form # "JForm" => formStock' = formStock
      /\ form = "Batch" => formLegs' = formLegs
  BY <1>1, <1>3, PostEffect
<1>5. Types' = Types
  BY <1>1 DEF Types
<1>6. FormsTypeOK'
  <2>1. FormNo' = FormNo /\ Entries' = Entries
    BY <1>5 DEF FormNo, Entries
  <2>2. rows' \subseteq [id : Nat, type : Types, fy : FormYears, no : FormNo, rev : Nat]
    BY <1>1 DEF FormsRegistered, FormsTypeOK
  <2>3. formItems' \subseteq [id : Nat, rev : Nat]
    BY <1>1, <1>3 DEF FormsRegistered, FormsTypeOK
  <2>4. form' \in FormKinds /\ formIds' \in Nat /\ formSaves' \in Nat
    BY <1>1 DEF FormsRegistered, FormsTypeOK
  <2>5. formOdd' \subseteq {"shared", "renumbered", "toggled", "moved", "ghost"}
    BY <1>1 DEF FormsRegistered, FormsTypeOK, Oddities
  <2> QED
    BY <1>4, <1>5, <2>1, <2>2, <2>3, <2>4, <2>5 DEF FormsTypeOK
<1>7. IsFiniteSet(rows')
  BY <1>1, FS_AddElement DEF FormsRegistered
<1>8. \A s \in rows : s.id \in Nat /\ s.id <= formIds
  BY DEF FormsRegistered, FormsTypeOK
<1>9. formIds \in Nat
  BY DEF FormsRegistered, FormsTypeOK
<1>10. \A s, t \in rows' : s.id = t.id => s = t
  BY <1>1, <1>2, <1>8, <1>9 DEF FormsRegistered
<1>11. \A s \in rows' : s.id <= formIds'
  BY <1>1, <1>2, <1>8, <1>9
<1> QED
  BY <1>1, <1>4, <1>6, <1>7, <1>10, <1>11 DEF FormsRegistered

LEMMA SaveFormRegistered ==
    ASSUME FormsRegistered, NEW o \in rows, NEW type \in Types, NEW fy \in FormYears,
           SaveForm(o, type, fy)
    PROVE  FormsRegistered'
<1>1. PICK r : SavedAgain(o, type, fy, r)
  BY SaveFormEffect
<1> USE DEF SavedAgain
<1>2. Entry(r) \in Entries /\ Item(r) \in [id : Nat, rev : Nat]
  BY <1>1, EntryTypes
<1>3. /\ formHeads' \subseteq Entries /\ formLegs' \subseteq Entries /\ formStock' \subseteq Entries
      /\ \A h, k \in formHeads' : h.type = k.type /\ h.fy = k.fy /\ h.no = k.no => h = k
      /\ form # "JForm" => formStock' = formStock
      /\ form = "Batch" => formLegs' = formLegs
  BY <1>1, <1>2, PostEffect
<1>4. Types' = Types
  BY <1>1 DEF Types
<1>5. FormsTypeOK'
  <2>1. FormNo' = FormNo /\ Entries' = Entries
    BY <1>4 DEF FormNo, Entries
  <2>2. rows' \subseteq [id : Nat, type : Types, fy : FormYears, no : FormNo, rev : Nat]
    BY <1>1 DEF FormsRegistered, FormsTypeOK
  <2>3. formItems' \subseteq [id : Nat, rev : Nat]
    BY <1>1, <1>2 DEF FormsRegistered, FormsTypeOK
  <2>4. form' \in FormKinds /\ formIds' \in Nat /\ formSaves' \in Nat
    BY <1>1 DEF FormsRegistered, FormsTypeOK
  <2>5. formOdd' \subseteq {"shared", "renumbered", "toggled", "moved", "ghost"}
    BY <1>1 DEF FormsRegistered, FormsTypeOK, Oddities
  <2> QED
    BY <1>3, <1>4, <2>1, <2>2, <2>3, <2>4, <2>5 DEF FormsTypeOK
<1>6. IsFiniteSet(rows')
  BY <1>1, FS_AddElement, FS_RemoveElement DEF FormsRegistered
<1>7. /\ \A s, t \in rows' : s.id = t.id => s = t
      /\ \A s \in rows' : s.id <= formIds'
  BY <1>1 DEF FormsRegistered
<1> QED
  BY <1>1, <1>3, <1>5, <1>6, <1>7 DEF FormsRegistered

LEMMA GhostRegistered ==
    ASSUME FormsRegistered, NEW type \in Types, NEW fy \in FormYears, NEW no,
           mandi \/ no \in FormNo, SaveGhost(no, type, fy)
    PROVE  FormsRegistered'
<1> DEFINE n == IF mandi THEN NextFormNo(type, fy) ELSE no
           p == [type |-> type, fy |-> fy, rev |-> formSaves + 1, no |-> n]
<1>1. n \in FormNo
  BY NextFormNoIsFresh
<1>2. formSaves \in Nat
  BY DEF FormsRegistered, FormsTypeOK
<1> HIDE DEF n
<1>3. p \in Entries /\ p.rev = formSaves + 1
  BY <1>1, <1>2 DEF Entries
<1>4. /\ Post(p, FALSE) /\ formSaves' = p.rev /\ formOdd' = formOdd \cup {"ghost"}
      /\ UNCHANGED <<form, rows, formItems, formIds>>
  BY DEF SaveGhost, n
<1> HIDE DEF p
<1>5. /\ formHeads' \subseteq Entries /\ formLegs' \subseteq Entries /\ formStock' \subseteq Entries
      /\ \A h, k \in formHeads' : h.type = k.type /\ h.fy = k.fy /\ h.no = k.no => h = k
      /\ form # "JForm" => formStock' = formStock
      /\ form = "Batch" => formLegs' = formLegs
  BY <1>3, <1>4, PostEffect
<1>6. Types' = Types
  BY <1>4 DEF Types
<1>7. FormsTypeOK'
  BY <1>2, <1>3, <1>4, <1>5, <1>6 DEF FormsRegistered, FormsTypeOK, FormNo, Entries
<1> QED
  BY <1>4, <1>5, <1>7 DEF FormsRegistered

LEMMA DeleteFormRegistered ==
    ASSUME FormsRegistered, NEW o \in rows, DeleteForm(o)
    PROVE  FormsRegistered'
<1>1. /\ rows' \subseteq rows /\ formItems' \subseteq formItems /\ formHeads' \subseteq formHeads
      /\ formStock' \subseteq formStock /\ formLegs' \subseteq formLegs
      /\ UNCHANGED <<form, formIds, formSaves, formOdd>>
  BY DEF DeleteForm, Unpost, Cleared
<1>2. Types' = Types
  BY <1>1 DEF Types
<1>3. FormsTypeOK'
  BY <1>1, <1>2 DEF FormsRegistered, FormsTypeOK, FormNo, Entries
<1>4. IsFiniteSet(rows')
  BY <1>1, FS_Subset DEF FormsRegistered
<1> QED
  BY <1>1, <1>3, <1>4 DEF FormsRegistered

\* The numbers a ghost is saved under.
LEMMA GhostNumbers ==
    ASSUME FormsRegistered, NEW t \in Types, NEW n \in 1 .. formIds
    PROVE  <<t, n>> \in FormNo
  BY DEF FormNo, FormsRegistered, FormsTypeOK

LEMMA FormsStep == FormsRegistered /\ [FormsNext]_formVars => FormsRegistered'
<1> SUFFICES ASSUME FormsRegistered, [FormsNext]_formVars PROVE FormsRegistered'
  OBVIOUS
<1>1. ASSUME NEW type \in Types, NEW fy \in FormYears, SaveNewForm(type, fy)
      PROVE  FormsRegistered'
  BY <1>1, NewFormRegistered
<1>2. ASSUME NEW type \in Types, NEW fy \in FormYears, NEW o \in rows, SaveForm(o, type, fy)
      PROVE  FormsRegistered'
  BY <1>2, SaveFormRegistered
<1>3. ASSUME NEW type \in Types, NEW fy \in FormYears, NEW l \in formLegs, mandi,
             SaveGhost(l.no, type, fy)
      PROVE  FormsRegistered'
  BY <1>3, GhostRegistered
<1>4. ASSUME NEW type \in Types, NEW fy \in FormYears, NEW t \in Types, NEW n \in 1 .. formIds,
             SaveGhost(<<t, n>>, type, fy)
      PROVE  FormsRegistered'
  BY <1>4, GhostRegistered, GhostNumbers
<1>5. ASSUME NEW o \in rows, DeleteForm(o)
      PROVE  FormsRegistered'
  BY <1>5, DeleteFormRegistered
<1>6. CASE UNCHANGED formVars
  BY <1>6 DEF formVars, formTables, FormsRegistered, FormsTypeOK, Types, FormNo, Entries
<1> QED
  BY <1>1, <1>2, <1>3, <1>4, <1>5, <1>6 DEF FormsNext

\* The registers hold what their columns allow, and no year has two headers of
\* one type and number, for any kind of form and any number of saves.
THEOREM FormsTypeCorrect == FormsSpec => []FormsTypeOK
<1>1. FormsRegistered => FormsTypeOK
  BY DEF FormsRegistered
<1> QED
  BY FormsInitially, FormsStep, <1>1, PTL DEF FormsSpec
-----------------------------------------------------------------------------
(* Nothing posted twice *)

LEMMA PostKeepsOnce ==
    ASSUME NumberPostedOnce, NEW p, NEW new, Post(p, new)
    PROVE  NumberPostedOnce'
<1>1. \A q, r \in formLegs' : q.no = r.no => q = r
  BY DEF NumberPostedOnce, Post, Cleared
<1>2. \A q, r \in formStock' : q.no = r.no => q = r
  BY DEF NumberPostedOnce, Post, Cleared
<1> QED
  BY <1>1, <1>2 DEF NumberPostedOnce

\* No number has two sets of legs or moves stock twice, in one year or in two,
\* with every bound and whatever is saved again, renumbered, deleted or saved
\* without a form.
THEOREM FormsPostedOnce == FormsSpec => []NumberPostedOnce
<1>1. FormsInit => NumberPostedOnce
  BY DEF FormsInit, NumberPostedOnce
<1>2. NumberPostedOnce /\ [FormsNext]_formVars => NumberPostedOnce'
  <2> SUFFICES ASSUME NumberPostedOnce, [FormsNext]_formVars PROVE NumberPostedOnce'
    OBVIOUS
  <2>1. ASSUME NEW type, NEW fy, SaveNewForm(type, fy) PROVE NumberPostedOnce'
    BY <2>1, PostKeepsOnce DEF SaveNewForm
  <2>2. ASSUME NEW o, NEW type, NEW fy, SaveForm(o, type, fy) PROVE NumberPostedOnce'
    BY <2>2, PostKeepsOnce DEF SaveForm
  <2>3. ASSUME NEW no, NEW type, NEW fy, SaveGhost(no, type, fy) PROVE NumberPostedOnce'
    BY <2>3, PostKeepsOnce DEF SaveGhost
  <2>4. ASSUME NEW o, DeleteForm(o) PROVE NumberPostedOnce'
    <3>1. formLegs' \subseteq formLegs /\ formStock' \subseteq formStock
      BY <2>4 DEF DeleteForm, Unpost, Cleared
    <3> QED
      BY <3>1 DEF NumberPostedOnce
  <2>5. CASE UNCHANGED formVars
    BY <2>5 DEF formVars, formTables, NumberPostedOnce
  <2> QED
    BY <2>1, <2>2, <2>3, <2>4, <2>5 DEF FormsNext
<1> QED
  BY <1>1, <1>2, PTL DEF FormsSpec
-----------------------------------------------------------------------------
(* Numbers differ *)

\* Why a new note's number is free: as long as no note has changed its type, a
\* note's number names its type and is no larger than its id.
Numbered ==
    /\ FormNumbersDiffer
    /\ form = "Note" /\ "toggled" \notin formOdd =>
          \A r \in rows : r.no[1] = r.type /\ r.no[2] <= r.id

LEMMA NewFormKeepsNumbers ==
    ASSUME FormsRegistered, Numbered, NEW type \in Types, NEW fy \in FormYears, SaveNewForm(type, fy)
    PROVE  Numbered'
<1>1. PICK r : SavedNew(type, fy, r)
  BY NewFormEffect
<1> USE DEF SavedNew
<1>2. "toggled" \in formOdd' => "toggled" \in formOdd
  BY DEF SaveNewForm, Oddities
<1>3. r.type = type /\ r.fy = fy /\ r.id = formIds + 1 /\ r.no = NextFormNo(type, fy)
  BY <1>1
<1>4. \A s \in rows : /\ s.no \in FormNo /\ s.no[2] \in Nat /\ s.id \in Nat
                     /\ r.no[2] \in Nat
  BY <1>3, NextFormNoIsFresh DEF FormsRegistered, FormsTypeOK, FormNo
<1>5. CASE form = "Note"
  <2>1. ASSUME "toggled" \notin formOdd, NEW s \in rows, s.no = r.no PROVE FALSE
    <3>1. s.no[1] = s.type /\ s.no[2] <= s.id
      BY <1>5, <2>1 DEF Numbered
    <3>2. r.no[1] = type
      BY <1>3, NextFormNoIsFresh
    <3>3. s.id < r.no[2]
      BY <1>3, <1>5, <2>1, <3>1, <3>2, NextFormNoIsFresh
    <3> QED
      BY <1>4, <2>1, <3>1, <3>3
  <2>2. r.no[1] = r.type /\ r.no[2] <= r.id
    BY <1>3, <1>5, NextFormNoIsFresh
  <2> QED
    BY <1>1, <1>2, <1>5, <2>1, <2>2 DEF Numbered, FormNumbersDiffer
<1>6. CASE form # "Note"
  <2>1. ASSUME NEW s \in rows, s.no = r.no PROVE s.fy # fy
    BY <1>3, <1>4, <1>6, <2>1, NextFormNoIsFresh
  <2> QED
    BY <1>1, <1>3, <1>6, <2>1 DEF Numbered, FormNumbersDiffer
<1> QED
  BY <1>5, <1>6

LEMMA SaveFormKeepsNumbers ==
    ASSUME FormsRegistered, Numbered, NEW o \in rows, NEW type \in Types, NEW fy \in FormYears,
           SaveForm(o, type, fy)
    PROVE  Numbered'
<1>1. PICK r : SavedAgain(o, type, fy, r)
  BY SaveFormEffect
<1> USE DEF SavedAgain
<1>2. /\ formOdd \subseteq formOdd'
      /\ "toggled" \notin formOdd' => type = o.type
      /\ "moved" \notin formOdd' => form # "Batch" \/ fy = o.fy
  BY <1>1
<1>3. CASE mandi
  <2>1. form # "Note"
    BY <1>3 DEF mandi
  <2>2. ASSUME NEW s \in rows, s.no = r.no PROVE s.fy # fy
    <3>1. s.no[2] \in Nat /\ r.no[2] \in Nat
      BY <1>1 DEF FormsRegistered, FormsTypeOK, FormNo
    <3> QED
      BY <1>1, <1>3, <2>1, <2>2, <3>1, NextFormNoIsFresh
  <2> QED
    BY <1>1, <1>2, <2>1, <2>2 DEF Numbered, FormNumbersDiffer
<1>4. CASE form = "Note"
  <2>1. r.no = o.no
    BY <1>1, <1>4 DEF mandi
  <2> QED
    BY <1>1, <1>2, <1>4, <2>1 DEF Numbered, FormNumbersDiffer
<1>5. CASE form = "Batch"
  <2>1. r.no = o.no
    BY <1>1, <1>5 DEF mandi
  <2> QED
    BY <1>1, <1>2, <1>5, <2>1 DEF Numbered, FormNumbersDiffer
<1>6. form \in {"JForm", "IForm", "Note", "Batch"}
  BY FormsConstants DEF FormsRegistered, FormsTypeOK
<1> QED
  BY <1>3, <1>4, <1>5, <1>6 DEF mandi

\* Two forms that are there never have one number, but for notes that changed
\* their type and batches that changed their year.
THEOREM NumbersDiffer == FormsSpec => []FormNumbersDiffer
<1>1. FormsInit => Numbered
  BY DEF FormsInit, Numbered, FormNumbersDiffer
<1>2. FormsRegistered /\ Numbered /\ [FormsNext]_formVars => Numbered'
  <2> SUFFICES ASSUME FormsRegistered, Numbered, [FormsNext]_formVars PROVE Numbered'
    OBVIOUS
  <2>1. ASSUME NEW type \in Types, NEW fy \in FormYears, SaveNewForm(type, fy)
        PROVE  Numbered'
    BY <2>1, NewFormKeepsNumbers
  <2>2. ASSUME NEW type \in Types, NEW fy \in FormYears, NEW o \in rows, SaveForm(o, type, fy)
        PROVE  Numbered'
    BY <2>2, SaveFormKeepsNumbers
  <2>3. ASSUME NEW no, NEW type, NEW fy, SaveGhost(no, type, fy) PROVE Numbered'
    <3>1. rows' = rows /\ form' = form /\ formOdd \subseteq formOdd'
      BY <2>3 DEF SaveGhost
    <3> QED
      BY <3>1 DEF Numbered, FormNumbersDiffer
  <2>4. ASSUME NEW o, DeleteForm(o) PROVE Numbered'
    <3>1. rows' \subseteq rows /\ form' = form /\ formOdd' = formOdd
      BY <2>4 DEF DeleteForm
    <3> QED
      BY <3>1 DEF Numbered, FormNumbersDiffer
  <2>5. CASE UNCHANGED formVars
    BY <2>5 DEF formVars, formTables, Numbered, FormNumbersDiffer
  <2> QED
    BY <2>1, <2>2, <2>3, <2>4, <2>5 DEF FormsNext
<1>3. Numbered => FormNumbersDiffer
  BY DEF Numbered
<1> QED
  BY FormsInitially, FormsStep, <1>1, <1>2, <1>3, PTL DEF FormsSpec
-----------------------------------------------------------------------------
(* Every form posted and nothing else, as long as numbers stay *)

\* Why it is so: no two forms share a number.
Exact ==
    {"shared", "renumbered", "ghost"} \cap formOdd = {} =>
        /\ \A r, s \in rows : r.no = s.no => r = s
        /\ \A r \in rows : FormPosted(r)
        /\ \A i \in formItems : \E r \in rows : Item(r) = i
        /\ \A p \in formHeads \cup formStock : \E r \in rows : Entry(r) = p
        /\ form # "IForm" => \A p \in formLegs : \E r \in rows : Entry(r) = p

\* A form keeps its postings when a form with another number is posted.
LEMMA OthersStayPosted ==
    ASSUME FormsRegistered, NEW p \in Entries, NEW new \in BOOLEAN, Post(p, new),
           form = "Batch" /\ new => \A h \in formHeads : h.fy # p.fy \/ h.no # p.no,
           form' = form, NEW r, FormPosted(r), Entry(r).no # p.no, Item(r) \in formItems'
    PROVE  FormPosted(r)'
<1>1. /\ Cleared(formHeads, p) \subseteq formHeads'
      /\ Cleared(formLegs, p) \subseteq formLegs'
      /\ Cleared(formStock, p) \subseteq formStock'
  BY PostEffect
<1>2. \A S : Entry(r) \in S => Entry(r) \in Cleared(S, p)
  BY DEF Cleared
<1> QED
  BY <1>1, <1>2, Zenon DEF FormPosted

\* A form is posted by its save.
LEMMA SavedIsPosted ==
    ASSUME FormsRegistered, NEW new \in BOOLEAN, NEW r, Entry(r) \in Entries, Post(Entry(r), new),
           form = "Batch" /\ new => \A h \in formHeads : h.fy # Entry(r).fy \/ h.no # Entry(r).no,
           form' = form, Item(r) \in formItems'
    PROVE  FormPosted(r)'
<1> DEFINE p == Entry(r)
<1> HIDE DEF p
<1>1. p \in Entries /\ Post(p, new)
      /\ (form = "Batch" /\ new => \A h \in formHeads : h.fy # p.fy \/ h.no # p.no)
  BY DEF p
<1>2. p \in formHeads' /\ (form # "Batch" => p \in formLegs') /\ (form = "JForm" => p \in formStock')
  BY <1>1, PostEffect
<1> QED
  BY <1>2, Zenon DEF FormPosted, p

LEMMA NewFormKeepsExact ==
    ASSUME FormsRegistered, Exact, NEW type \in Types, NEW fy \in FormYears, SaveNewForm(type, fy)
    PROVE  Exact'
<1> SUFFICES ASSUME {"shared", "renumbered", "ghost"} \cap formOdd' = {}
             PROVE  /\ \A r, s \in rows' : r.no = s.no => r = s
                    /\ \A r \in rows' : FormPosted(r)'
                    /\ \A i \in formItems' : \E r \in rows' : Item(r) = i
                    /\ \A p \in formHeads' \cup formStock' : \E r \in rows' : Entry(r) = p
                    /\ form' # "IForm" => \A p \in formLegs' : \E r \in rows' : Entry(r) = p
  BY DEF Exact, Item, Entry
<1>1. PICK r : SavedNew(type, fy, r)
  BY NewFormEffect
<1> USE DEF SavedNew
<1>2. Entry(r) \in Entries /\ Entry(r).no = r.no /\ Entry(r).fy = r.fy
  BY <1>1, EntryTypes
<1>3. \A s \in rows : Entry(s).no = s.no
  BY DEF Entry
<1>4. {"shared", "renumbered", "ghost"} \cap formOdd = {} /\ \A s \in rows : s.no # r.no
  BY <1>1 DEF Oddities
<1>5. /\ \A s, t \in rows : s.no = t.no => s = t
      /\ \A s \in rows : FormPosted(s)
      /\ \A i \in formItems : \E s \in rows : Item(s) = i
      /\ \A p \in formHeads \cup formStock : \E s \in rows : Entry(s) = p
      /\ form # "IForm" => \A p \in formLegs : \E s \in rows : Entry(s) = p
  BY <1>4 DEF Exact
<1>6. FormPosted(r)'
  BY <1>1, <1>2, SavedIsPosted
<1>7. \A s \in rows : FormPosted(s)'
  <2> TAKE s \in rows
  <2>1. FormPosted(s) /\ Entry(s).no # Entry(r).no
    BY <1>2, <1>3, <1>4, <1>5
  <2>2. Item(s) \in formItems'
    BY <1>1, <2>1 DEF FormPosted
  <2> QED
    BY <1>1, <1>2, <2>1, <2>2, OthersStayPosted
<1>8. /\ formHeads' \subseteq formHeads \cup {Entry(r)}
      /\ formStock' \subseteq formStock \cup {Entry(r)}
      /\ formLegs' \subseteq formLegs \cup {Entry(r)}
  BY <1>1 DEF Post, Cleared
<1>9. \A s, t \in rows' : s.no = t.no => s = t
  BY <1>1, <1>4, <1>5
<1>10. \A s \in rows' : FormPosted(s)'
  BY <1>1, <1>6, <1>7
<1>11. \A i \in formItems' : \E s \in rows' : Item(s) = i
  BY <1>1, <1>5
<1>12. \A p \in formHeads' \cup formStock' : \E s \in rows' : Entry(s) = p
  BY <1>1, <1>5, <1>8
<1>13. form' # "IForm" => \A p \in formLegs' : \E s \in rows' : Entry(s) = p
  BY <1>1, <1>5, <1>8
<1> QED
  BY <1>9, <1>10, <1>11, <1>12, <1>13

LEMMA SaveFormKeepsExact ==
    ASSUME FormsRegistered, Exact, NEW o \in rows, NEW type \in Types, NEW fy \in FormYears,
           SaveForm(o, type, fy)
    PROVE  Exact'
<1> SUFFICES ASSUME {"shared", "renumbered", "ghost"} \cap formOdd' = {}
             PROVE  /\ \A r, s \in rows' : r.no = s.no => r = s
                    /\ \A r \in rows' : FormPosted(r)'
                    /\ \A i \in formItems' : \E r \in rows' : Item(r) = i
                    /\ \A p \in formHeads' \cup formStock' : \E r \in rows' : Entry(r) = p
                    /\ form' # "IForm" => \A p \in formLegs' : \E r \in rows' : Entry(r) = p
  BY DEF Exact, Item, Entry
<1>1. PICK r : SavedAgain(o, type, fy, r)
  BY SaveFormEffect
<1> USE DEF SavedAgain
<1>2. Entry(r) \in Entries /\ Entry(r).no = r.no
  BY <1>1, EntryTypes
<1>3. \A s \in rows : Entry(s).no = s.no /\ Item(s).id = s.id
  BY DEF Entry, Item
<1>4. /\ {"shared", "renumbered", "ghost"} \cap formOdd = {}
      /\ r.no = o.no /\ \A s \in rows \ {o} : s.no # r.no
  BY <1>1 DEF Oddities
<1>5. /\ \A s, t \in rows : s.no = t.no => s = t
      /\ \A s \in rows : FormPosted(s)
      /\ \A i \in formItems : \E s \in rows : Item(s) = i
      /\ \A p \in formHeads \cup formStock : \E s \in rows : Entry(s) = p
      /\ form # "IForm" => \A p \in formLegs : \E s \in rows : Entry(s) = p
  BY <1>4 DEF Exact
<1>6. FormPosted(r)'
  BY <1>1, <1>2, SavedIsPosted
<1>7. \A s \in rows \ {o} : FormPosted(s)'
  <2> TAKE s \in rows \ {o}
  <2>1. FormPosted(s) /\ Entry(s).no # Entry(r).no /\ Item(s).id # o.id
    BY <1>2, <1>3, <1>4, <1>5 DEF FormsRegistered
  <2>2. Item(s) \in formItems'
    BY <1>1, <2>1 DEF FormPosted
  <2> QED
    BY <1>1, <1>2, <2>1, <2>2, OthersStayPosted
<1>8. \A p \in formHeads' \cup formStock' : p = Entry(r) \/ (p \in formHeads \cup formStock /\ p.no # o.no)
  <2>1. form # "JForm" => formStock = {}
    BY DEF FormsRegistered
  <2> QED
    BY <1>2, <1>4, <1>1, <2>1 DEF Post, Cleared
<1>9. \A p \in formLegs' : p = Entry(r) \/ (p \in formLegs /\ p.no # o.no)
  <2>1. form = "Batch" => formLegs = {}
    BY DEF FormsRegistered
  <2> QED
    BY <1>2, <1>4, <1>1, <2>1 DEF Post, Cleared
<1>10. \A s, t \in rows' : s.no = t.no => s = t
  BY <1>1, <1>4, <1>5
<1>11. \A s \in rows' : FormPosted(s)'
  BY <1>1, <1>6, <1>7
<1>12. \A i \in formItems' : \E s \in rows' : Item(s) = i
  BY <1>1, <1>3, <1>5
<1>13. \A p \in formHeads' \cup formStock' : \E s \in rows' : Entry(s) = p
  BY <1>1, <1>3, <1>5, <1>8
<1>14. form' # "IForm" => \A p \in formLegs' : \E s \in rows' : Entry(s) = p
  BY <1>1, <1>3, <1>5, <1>9
<1> QED
  BY <1>10, <1>11, <1>12, <1>13, <1>14

LEMMA DeleteKeepsExact ==
    ASSUME FormsRegistered, Exact, NEW o \in rows, DeleteForm(o)
    PROVE  Exact'
<1> SUFFICES ASSUME {"shared", "renumbered", "ghost"} \cap formOdd' = {}
             PROVE  /\ \A r, s \in rows' : r.no = s.no => r = s
                    /\ \A r \in rows' : FormPosted(r)'
                    /\ \A i \in formItems' : \E r \in rows' : Item(r) = i
                    /\ \A p \in formHeads' \cup formStock' : \E r \in rows' : Entry(r) = p
                    /\ form' # "IForm" => \A p \in formLegs' : \E r \in rows' : Entry(r) = p
  BY DEF Exact, Item, Entry
<1>1. /\ rows' = rows \ {o} /\ formItems' = {i \in formItems : i.id # o.id}
      /\ form' = form /\ formOdd' = formOdd
  BY DEF DeleteForm
<1>2. /\ \A s, t \in rows : s.no = t.no => s = t
      /\ \A s \in rows : FormPosted(s)
      /\ \A i \in formItems : \E s \in rows : Item(s) = i
      /\ \A p \in formHeads \cup formStock : \E s \in rows : Entry(s) = p
      /\ form # "IForm" => \A p \in formLegs : \E s \in rows : Entry(s) = p
  BY <1>1 DEF Exact
<1>3. \A s \in rows : Entry(s).no = s.no /\ Entry(s).fy = s.fy /\ Item(s).id = s.id
  BY DEF Entry, Item
<1>4. \A s \in rows' : FormPosted(s)'
  <2> TAKE s \in rows'
  <2>1. FormPosted(s) /\ Entry(s).no # o.no /\ Item(s).id # o.id
    BY <1>1, <1>2, <1>3 DEF FormsRegistered
  <2>2. /\ Entry(s) \in formHeads => Entry(s) \in formHeads'
        /\ Entry(s) \in formLegs => Entry(s) \in formLegs'
        /\ Entry(s) \in formStock => Entry(s) \in formStock'
        /\ Item(s) \in formItems => Item(s) \in formItems'
    BY <1>1, <2>1 DEF DeleteForm, Unpost, Cleared
  <2> QED
    BY <1>1, <2>1, <2>2, Zenon DEF FormPosted
<1>5. \A p \in formHeads' \cup formStock' :
         p \in formHeads \cup formStock /\ (p.no # o.no \/ p.fy # o.fy)
  BY DEF DeleteForm, Unpost, Cleared
<1>6. form # "IForm" => \A p \in formLegs' : p \in formLegs /\ p.no # o.no
  BY DEF DeleteForm, Unpost, Cleared
<1>7. \A p \in formHeads' \cup formStock' : \E s \in rows' : Entry(s) = p
  BY <1>1, <1>2, <1>3, <1>5
<1>8. form' # "IForm" => \A p \in formLegs' : \E s \in rows' : Entry(s) = p
  BY <1>1, <1>2, <1>3, <1>6
<1>9. \A i \in formItems' : \E s \in rows' : Item(s) = i
  BY <1>1, <1>2, <1>3
<1>10. \A s, t \in rows' : s.no = t.no => s = t
  BY <1>1, <1>2
<1> QED
  BY <1>4, <1>7, <1>8, <1>9, <1>10

\* As long as no two forms have had one number, no form has changed its number
\* and none was saved that is not there, every form is posted with its last
\* save and nothing else is, but the legs of deleted I-forms.
THEOREM PostedExactly == FormsSpec => []FormsPostedExactly
<1>1. FormsInit => Exact
  BY DEF FormsInit, Exact
<1>2. FormsRegistered /\ Exact /\ [FormsNext]_formVars => Exact'
  <2> SUFFICES ASSUME FormsRegistered, Exact, [FormsNext]_formVars PROVE Exact'
    OBVIOUS
  <2>1. ASSUME NEW type \in Types, NEW fy \in FormYears, SaveNewForm(type, fy)
        PROVE  Exact'
    BY <2>1, NewFormKeepsExact
  <2>2. ASSUME NEW type \in Types, NEW fy \in FormYears, NEW o \in rows, SaveForm(o, type, fy)
        PROVE  Exact'
    BY <2>2, SaveFormKeepsExact
  <2>3. ASSUME NEW no, NEW type, NEW fy, SaveGhost(no, type, fy) PROVE Exact'
    <3>1. "ghost" \in formOdd'
      BY <2>3 DEF SaveGhost
    <3> QED
      BY <3>1 DEF Exact
  <2>4. ASSUME NEW o \in rows, DeleteForm(o) PROVE Exact'
    BY <2>4, DeleteKeepsExact
  <2>5. CASE UNCHANGED formVars
    BY <2>5 DEF formVars, formTables, Exact, FormPosted, Entry, Item
  <2> QED
    BY <2>1, <2>2, <2>3, <2>4, <2>5 DEF FormsNext
<1>3. Exact => FormsPostedExactly
  BY DEF Exact, FormsPostedExactly
<1> QED
  BY FormsInitially, FormsStep, <1>1, <1>2, <1>3, PTL DEF FormsSpec
-----------------------------------------------------------------------------
(* The documents together *)

DocumentsInv == VouchersTypeOK /\ BillsRegistered /\ FormsRegistered /\ BankInv

\* The user writes documents of one kind and the registers of the others stay.
LEMMA DocumentsStep ==
    DocumentsInv /\ [DocumentsNext]_<<writes, voucherVars, vars, formVars, bankVars>> => DocumentsInv'
<1> SUFFICES ASSUME VouchersTypeOK, BillsRegistered, FormsRegistered, BankInv,
                    [DocumentsNext]_<<writes, voucherVars, vars, formVars, bankVars>>
             PROVE  DocumentsInv'
  BY DEF DocumentsInv
<1>1. [VouchersNext]_voucherVars /\ [Next]_vars /\ [FormsNext]_formVars /\ [BankNext]_bankVars
  BY DEF DocumentsNext
<1> QED
  BY <1>1, TypeStep, BillsStep, FormsStep, BankInvStep DEF DocumentsInv

\* Every row of a voucher, a bill, a form, a note, a batch or a statement, and every
\* row of what is posted from it, has its type, whichever the user writes: the
\* modules hold what their tables allow, and next to one another still do.
THEOREM DocumentsTypeCorrect == DocumentsSpec => []DocumentsTypeOK
<1>1. DocumentsInit => DocumentsInv
  BY TypeInit, BillsInitially, FormsInitially, BankInvInit DEF DocumentsInit, DocumentsInv
<1>2. DocumentsInv => DocumentsTypeOK
  BY TypeParts DEF DocumentsInv, DocumentsTypeOK, BillsRegistered, FormsRegistered, BankInv
<1> QED
  BY <1>1, <1>2, DocumentsStep, PTL DEF DocumentsSpec
=============================================================================
