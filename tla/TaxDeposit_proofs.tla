-------------------------- MODULE TaxDeposit_proofs --------------------------
(***************************************************************************)
(* Theorems about TaxDeposit, for every set of years, registers and challan *)
(* numbers, with and without the UNIQUE index, and for every bound.        *)
(***************************************************************************)
EXTENDS TaxDeposit, Maxima

-----------------------------------------------------------------------------
(* The largest element of a finite set of numbers *)

\* A minimal subset without a maximum would lose an element and have one.
LEMMA FiniteMax ==
    ASSUME NEW S, S \subseteq Nat, IsFiniteSet(S), S # {}
    PROVE  Max(S) \in S /\ \A x \in S : x <= Max(S)
<1>1. PICK m \in S : \A x \in S : x <= m
  BY HasLargest
<1>2. \E x \in S : \A y \in S : x >= y
  BY <1>1
<1> QED
  BY <1>2 DEF Max

\* The number of a register grows past all of a finite set of rows.
LEMMA MaxOfRows ==
    ASSUME NEW R, R \subseteq Row, IsFiniteSet(R)
    PROVE  LET m == MaxOf({s.no : s \in R})
           IN  m \in Nat /\ \A s \in R : s.no <= m
<1> DEFINE N == {s.no : s \in R}
           f == [s \in R |-> s.no]
<1>1. N \subseteq Nat
  BY DEF Row
<1>2. f \in Surjection(R, N)
  BY DEF Surjection
<1>3. IsFiniteSet(N)
  BY <1>2, FS_Surjection
<1>4. CASE N = {}
  BY <1>4 DEF MaxOf
<1>5. CASE N # {}
  <2> HIDE DEF N
  <2>1. Max(N) \in N /\ \A x \in N : x <= Max(N)
    BY <1>1, <1>3, <1>5, FiniteMax
  <2>2. MaxOf(N) = Max(N)
    BY <1>5 DEF MaxOf
  <2> QED
    BY <1>1, <2>1, <2>2 DEF N
<1> QED
  BY <1>4, <1>5

LEMMA LastYear == Max(Years) \in Years
  BY FiniteMax, TaxConstants
-----------------------------------------------------------------------------
(* Type correctness *)

SaveTask ==
    [op : {"save"}, from : {"form"} \X Kinds, kind : Kinds, post : BOOLEAN,
     no : Nat, fy : Years, id : Nat]
DeleteTask == [op : {"delete"}, from : Screens, kind : Kinds, id : Nat]
ChallanTask ==
    [op : {"saveChallan"}, from : {<<"form", "challan">>}, type : {"TDS", "TCS"},
     no : Nat, post : BOOLEAN, items : SUBSET (Kinds \X Nat)]
UndoTask == [op : {"deleteChallan"}, from : {<<"list", "challan">>}, id : Nat]
Task == SaveTask \cup DeleteTask \cup ChallanTask \cup UndoTask

\* A save of a receipt comes from its register's form, and nothing else does.
FromItsForm(t) ==
    /\ t.op = "save" => t.from = <<"form", t.kind>>
    /\ \A k \in Kinds : t.from = <<"form", k>> => t.op = "save"

\* A year is active except between the two statements that choose another.
Typed ==
    /\ TypeOK
    /\ IsFiniteSet(sources)
    /\ queue \in Seq(Task)
    /\ choice = 0 => active \in Years

LEMMA ScreenFacts ==
    /\ \A k \in Kinds : <<"form", k>> \in Screens /\ <<"list", k>> \in Screens
    /\ <<"form", "challan">> \in Screens /\ <<"list", "challan">> \in Screens
    /\ TDS \in Kinds => <<"erase", TDS>> \in Screens
    /\ "challan" \notin Kinds
  BY TaxConstants DEF Screens, ReceiptKinds, TDS

LEMMA TaskScreens == \A t \in Task : t.from \in Screens
<1> TAKE t \in Task
<1>1. CASE t \in SaveTask
  <2>1. t.from \in {"form"} \X Kinds
    BY <1>1 DEF SaveTask
  <2>2. PICK k \in Kinds : t.from = <<"form", k>>
    BY <2>1
  <2> QED
    BY <2>2, ScreenFacts
<1>2. CASE t \in DeleteTask
  BY <1>2 DEF DeleteTask
<1>3. CASE t \in ChallanTask \cup UndoTask
  BY <1>3, ScreenFacts DEF ChallanTask, UndoTask
<1> QED
  BY <1>1, <1>2, <1>3 DEF Task

LEMMA NextNoType ==
    ASSUME Typed, NEW k \in Kinds
    PROVE  NextNo(k) \in Nat
<1> DEFINE A == {r \in sources : r.kind = k}
           B == {r \in sources : r.kind = TDS /\ r.fy = active}
<1>1. A \subseteq sources /\ B \subseteq sources /\ sources \subseteq Row
  BY DEF Typed, TypeOK
<1>2. IsFiniteSet(A) /\ IsFiniteSet(B)
  BY <1>1, FS_Subset DEF Typed
<1>3. MaxOf({s.no : s \in A}) \in Nat
  BY <1>1, <1>2, MaxOfRows
<1>4. MaxOf({s.no : s \in B}) \in Nat
  BY <1>1, <1>2, MaxOfRows
<1> QED
  BY <1>3, <1>4 DEF NextNo, NextReceiptNo, NextTdsNo

LEMMA SubmitTyped ==
    ASSUME Typed, NEW s \in Screens, NEW t \in Task, Submit(s, t)
    PROVE  Typed'
<1>1. queue' \in Seq(Task)
  BY DEF Typed, Submit
<1>2. answer' \in [Screens -> {"none", "wait", "true", "false"}]
  BY DEF Typed, TypeOK, Submit
<1> QED
  BY <1>1, <1>2 DEF Typed, TypeOK, Submit, books, screens

LEMMA RunTyped ==
    ASSUME Typed, NEW t, NEW op, NEW ok \in BOOLEAN, Run(t, op, ok)
    PROVE  /\ t \in Task /\ t.op = op
           /\ queue' \in Seq(Task)
           /\ answer' \in [Screens -> {"none", "wait", "true", "false"}]
           /\ UNCHANGED <<active, choice, number, editing, picked>>
<1>1. queue \in Seq(Task) /\ queue # << >>
  BY DEF Typed, Run
<1>2. t \in Task /\ queue' \in Seq(Task)
  BY <1>1 DEF Run
<1>3. t.from \in Screens
  BY <1>2, TaskScreens
<1>4. answer' \in [Screens -> {"none", "wait", "true", "false"}]
  BY <1>3 DEF Typed, TypeOK, Run
<1> QED
  BY <1>2, <1>4 DEF Run, screens

\* Marking and releasing keep the rows of the registers.
LEMMA MarkType ==
    ASSUME sources \subseteq Row, IsFiniteSet(sources), NEW items, NEW c \in Nat
    PROVE  /\ Mark(items, c) \subseteq Row /\ IsFiniteSet(Mark(items, c))
           /\ Release(items) \subseteq Row /\ IsFiniteSet(Release(items))
<1> DEFINE f == [s \in sources |-> IF Key(s) \in items THEN [s EXCEPT !.dep = c] ELSE s]
           g == [s \in sources |-> IF Key(s) \in items THEN [s EXCEPT !.dep = 0] ELSE s]
<1>1. f \in Surjection(sources, Mark(items, c)) /\ g \in Surjection(sources, Release(items))
  BY DEF Surjection, Mark, Release
<1>2. IsFiniteSet(Mark(items, c)) /\ IsFiniteSet(Release(items))
  BY <1>1, FS_Surjection
<1>3. Mark(items, c) \subseteq Row /\ Release(items) \subseteq Row
  BY DEF Mark, Release, Row
<1> QED
  BY <1>2, <1>3

LEMMA UpdateType ==
    ASSUME sources \subseteq Row, IsFiniteSet(sources), NEW t \in SaveTask
    PROVE  UpdateTds(t) \subseteq Row /\ IsFiniteSet(UpdateTds(t))
<1> DEFINE f == [s \in sources |-> IF Key(s) = <<TDS, t.id>>
                                   THEN [s EXCEPT !.fy = t.fy, !.no = t.no] ELSE s]
<1>1. f \in Surjection(sources, UpdateTds(t))
  BY DEF Surjection, UpdateTds
<1>2. IsFiniteSet(UpdateTds(t))
  BY <1>1, FS_Surjection
<1>3. UpdateTds(t) \subseteq Row
  <2>1. t.fy \in Years /\ t.no \in Nat
    BY DEF SaveTask
  <2>2. \A s \in Row : [s EXCEPT !.fy = t.fy, !.no = t.no] \in Row
    BY <2>1 DEF Row
  <2> QED
    BY <2>2 DEF UpdateTds
<1> QED
  BY <1>2, <1>3

LEMMA InsertType ==
    ASSUME Typed, NEW kind \in Kinds, NEW no \in Nat, NEW fy \in Years, NEW gl \in Nat,
           InsertSource(kind, no, fy, gl)
    PROVE  sources' \subseteq Row /\ IsFiniteSet(sources')
<1> DEFINE r == [kind |-> kind, id |-> last.row[kind] + 1, no |-> no, fy |-> fy, gl |-> gl, dep |-> 0]
<1>1. r \in Row
  BY DEF Typed, TypeOK, Row
<1>2. sources' = sources \cup {r}
  BY DEF InsertSource
<1> QED
  BY <1>1, <1>2, FS_AddElement DEF Typed, TypeOK

LEMMA PostingType ==
    ASSUME Typed, NEW type \in {"RECEIPT", "PAYMENT", "Jrnl"}, NEW fy \in Years,
           NEW no \in Number, Posting(type, fy, no)
    PROVE  /\ headers' \subseteq [id : Nat, type : {"RECEIPT", "PAYMENT", "Jrnl"}, fy : Years, no : Number]
           /\ legs' \subseteq [by : Nat, fy : Years, no : Number]
  BY DEF Typed, TypeOK, Posting

LEMMA LabelType == TypeOK => Label \in Years
  BY LastYear DEF TypeOK, Label

-----------------------------------------------------------------------------
LEMMA TypedInit == Init => Typed
<1> SUFFICES ASSUME Init PROVE Typed
  OBVIOUS
<1>1. IsFiniteSet(sources) /\ queue \in Seq(Task)
  BY FS_EmptySet DEF Init
<1> QED
  BY <1>1 DEF Init, Typed, TypeOK

LEMMA TypedUi == Typed /\ Ui => Typed'
<1> SUFFICES ASSUME Typed, Ui PROVE Typed'
  OBVIOUS
<1>t. /\ sources \subseteq Row /\ active \in Years \cup {0} /\ choice \in Years \cup {0}
      /\ number \in [Kinds -> Nat] /\ editing \in Nat /\ picked \subseteq Kinds \X Nat
      /\ answer \in [Screens -> {"none", "wait", "true", "false"}]
      /\ challans \subseteq [id : Nat, gl : Nat, items : SUBSET (Kinds \X Nat)]
  BY DEF Typed, TypeOK
<1>1. ASSUME NEW y \in Years, SelectYear(y) PROVE Typed'
  BY <1>1, TaxConstants DEF SelectYear, Typed, TypeOK, books, screens
<1>2. CASE SelectYearEnd
  BY <1>2, <1>t DEF SelectYearEnd, Typed, TypeOK, books, screens
<1>3. ASSUME NEW k \in Kinds, NewForm(k) PROVE Typed'
  <2>1. NextNo(k) \in Nat
    BY NextNoType
  <2>2. number' \in [Kinds -> Nat] /\ editing' \in Nat
    BY <1>t, <1>3, <2>1 DEF NewForm
  <2> QED
    BY <1>3, <2>2 DEF NewForm, Typed, TypeOK, books
<1>4. ASSUME NEW s \in sources, OpenTds(s) PROVE Typed'
  <2>1. s.no \in Nat /\ s.id \in Nat
    BY <1>t DEF Row
  <2>2. number' \in [Kinds -> Nat] /\ editing' \in Nat
    BY <1>t, <1>4, <2>1 DEF OpenTds
  <2> QED
    BY <1>4, <2>2 DEF OpenTds, Typed, TypeOK, books
<1>5. ASSUME NEW s \in sources, ClickDelete(s) PROVE Typed'
  <2> DEFINE t == [op |-> "delete", from |-> <<"list", s.kind>>, kind |-> s.kind, id |-> s.id]
  <2>1. s.kind \in Kinds /\ s.id \in Nat
    BY <1>t DEF Row
  <2>2. <<"list", s.kind>> \in Screens
    BY <2>1, ScreenFacts
  <2>3. t \in Task
    BY <2>1, <2>2 DEF Task, DeleteTask
  <2>4. Submit(<<"list", s.kind>>, t)
    BY <1>5 DEF ClickDelete
  <2> QED
    BY <2>2, <2>3, <2>4, SubmitTyped
<1>6. CASE ClickErase
  <2> DEFINE t == [op |-> "delete", from |-> <<"erase", TDS>>, kind |-> TDS, id |-> editing]
  <2>1. TDS \in Kinds /\ Submit(<<"erase", TDS>>, t)
    BY <1>6 DEF ClickErase
  <2>2. <<"erase", TDS>> \in Screens
    BY <2>1, ScreenFacts
  <2>3. t \in Task
    BY <1>t, <2>1, <2>2 DEF Task, DeleteTask
  <2> QED
    BY <2>1, <2>2, <2>3, SubmitTyped
<1>7. ASSUME NEW k \in Kinds, NEW post \in BOOLEAN, ClickSave(k, post) PROVE Typed'
  <2> DEFINE t == [op |-> "save", from |-> <<"form", k>>, kind |-> k, post |-> post,
                   no |-> number[k], fy |-> active, id |-> IF k = TDS THEN editing ELSE 0]
  <2>1. Submit(<<"form", k>>, t)
    BY <1>7 DEF ClickSave
  <2>2. <<"form", k>> \in Screens
    BY ScreenFacts
  <2>3. active \in Years
    BY <1>7, <1>t DEF ClickSave, Submit, Typed
  <2>4. t \in Task
    BY <1>t, <2>3 DEF Task, SaveTask
  <2> QED
    BY <2>1, <2>2, <2>4, SubmitTyped
<1>8. ASSUME NEW type, FetchSources(type) PROVE Typed'
  <2>1. \A s \in sources : Key(s) \in Kinds \X Nat
    BY <1>t DEF Row, Key
  <2>2. picked' \subseteq Kinds \X Nat
    BY <1>8, <2>1 DEF FetchSources, Undeposited
  <2> QED
    BY <1>8, <2>2 DEF FetchSources, Typed, TypeOK, books
<1>9. ASSUME NEW type \in {TaxType(k) : k \in Kinds}, NEW n \in ChallanNos, NEW post \in BOOLEAN,
             NEW items \in SUBSET picked, ClickSaveChallan(type, n, post, items)
      PROVE Typed'
  <2> DEFINE t == [op |-> "saveChallan", from |-> <<"form", "challan">>, type |-> type,
                   no |-> n, post |-> post, items |-> items]
  <2>1. Submit(<<"form", "challan">>, t)
    BY <1>9 DEF ClickSaveChallan
  <2>2. type \in {"TDS", "TCS"} /\ n \in Nat
    BY TaxConstants DEF TaxType
  <2>3. t \in Task
    BY <1>t, <2>2 DEF Task, ChallanTask
  <2> QED
    BY <2>1, <2>3, ScreenFacts, SubmitTyped
<1>10. ASSUME NEW c \in challans, ClickDeleteChallan(c) PROVE Typed'
  <2> DEFINE t == [op |-> "deleteChallan", from |-> <<"list", "challan">>, id |-> c.id]
  <2>1. Submit(<<"list", "challan">>, t)
    BY <1>10 DEF ClickDeleteChallan
  <2>2. t \in Task
    BY <1>t DEF Task, UndoTask
  <2> QED
    BY <2>1, <2>2, ScreenFacts, SubmitTyped
<1>11. ASSUME NEW s \in Screens, Finished(s) PROVE Typed'
  <2>1. answer' \in [Screens -> {"none", "wait", "true", "false"}]
    BY <1>t, <1>11 DEF Finished
  <2>2. s[2] \in Kinds
    BY <1>11 DEF Finished, Handlers
  <2>3. NextNo(s[2]) \in Nat
    BY <2>2, NextNoType
  <2>4. number' \in [Kinds -> Nat] /\ editing' \in Nat
    BY <1>t, <1>11, <2>3 DEF Finished
  <2> QED
    BY <1>11, <2>1, <2>4 DEF Finished, Typed, TypeOK, books
<1> QED
  BY <1>1, <1>2, <1>3, <1>4, <1>5, <1>6, <1>7, <1>8, <1>9, <1>10, <1>11 DEF Ui

\* What a task of the worker leaves typed, it leaves the screens and the queue alone.
LEMMA BooksTyped ==
    ASSUME Typed, NEW t, NEW op, NEW ok \in BOOLEAN, Run(t, op, ok),
           sources' \subseteq Row, IsFiniteSet(sources'),
           challans' \subseteq [id : Nat, gl : Nat, items : SUBSET (Kinds \X Nat)],
           headers' \subseteq [id : Nat, type : {"RECEIPT", "PAYMENT", "Jrnl"}, fy : Years, no : Number],
           legs' \subseteq [by : Nat, fy : Years, no : Number],
           last' \in [voucher : Nat, challan : Nat, row : [Kinds -> Nat]]
    PROVE  Typed'
<1>1. /\ queue' \in Seq(Task)
      /\ answer' \in [Screens -> {"none", "wait", "true", "false"}]
      /\ UNCHANGED <<active, choice, number, editing, picked>>
  BY RunTyped
<1>2. /\ choice = 0 => active \in Years
      /\ active \in Years \cup {0} /\ choice \in Years \cup {0}
      /\ number \in [Kinds -> Nat] /\ editing \in Nat /\ picked \subseteq Kinds \X Nat
  BY DEF Typed, TypeOK
<1> QED
  BY <1>1, <1>2 DEF Typed, TypeOK

\* The counters after an insertion.
LEMMA LastType ==
    ASSUME Typed, NEW k \in Kinds, NEW m \in Nat, NEW n \in Nat
    PROVE  /\ [last EXCEPT !.row[k] = m, !.voucher = n] \in [voucher : Nat, challan : Nat, row : [Kinds -> Nat]]
           /\ [last EXCEPT !.challan = m, !.voucher = n] \in [voucher : Nat, challan : Nat, row : [Kinds -> Nat]]
<1>1. last \in [voucher : Nat, challan : Nat, row : [Kinds -> Nat]]
  BY DEF Typed, TypeOK
<1>2. [last.row EXCEPT ![k] = m] \in [Kinds -> Nat]
  BY <1>1
<1> QED
  BY <1>1, <1>2

LEMMA TypedReceipts == Typed /\ (SaveReceipt \/ DeleteReceipt) => Typed'
<1> SUFFICES ASSUME Typed, SaveReceipt \/ DeleteReceipt PROVE Typed'
  OBVIOUS
<1>t. /\ sources \subseteq Row /\ IsFiniteSet(sources)
      /\ challans \subseteq [id : Nat, gl : Nat, items : SUBSET (Kinds \X Nat)]
      /\ headers \subseteq [id : Nat, type : {"RECEIPT", "PAYMENT", "Jrnl"}, fy : Years, no : Number]
      /\ legs \subseteq [by : Nat, fy : Years, no : Number]
      /\ last \in [voucher : Nat, challan : Nat, row : [Kinds -> Nat]]
  BY DEF Typed, TypeOK
<1> DEFINE t == Head(queue)
<1>1. CASE SaveReceipt
  <2> DEFINE no == <<t.kind, t.no>>
             refused == t.post /\ Taken(VoucherType(t.kind), Label, no)
             gl == IF t.post THEN last.voucher + 1 ELSE 0
  <2>1. Run(t, "save", ~refused)
    BY <1>1 DEF SaveReceipt
  <2>2. t \in Task /\ t.op = "save"
    BY <2>1, RunTyped
  <2>3. t \in SaveTask
    BY <2>2 DEF Task, DeleteTask, ChallanTask, UndoTask
  <2>4. t.kind \in Kinds /\ t.no \in Nat /\ t.post \in BOOLEAN /\ t.kind \in ReceiptKinds
    BY <1>1, <2>3 DEF SaveTask, SaveReceipt
  <2>5. /\ no \in Number /\ VoucherType(t.kind) \in {"RECEIPT", "PAYMENT", "Jrnl"}
        /\ Label \in Years /\ gl \in Nat
    BY <1>t, <2>4, LabelType DEF Number, VoucherType, ReceiptKinds, TDS, Typed
  <2>6. CASE refused
    <3>1. UNCHANGED books
      BY <1>1, <2>6 DEF SaveReceipt
    <3> HIDE DEF refused, no, t
    <3> QED
      BY <1>t, <2>1, <3>1, BooksTyped DEF books
  <2>7. CASE ~ refused
    <3>1. /\ IF t.post THEN Posting(VoucherType(t.kind), Label, no) ELSE NoPosting
          /\ InsertSource(t.kind, t.no, Label, gl)
          /\ last' = [last EXCEPT !.row[t.kind] = @ + 1, !.voucher = IF t.post THEN @ + 1 ELSE @]
          /\ UNCHANGED challans
      BY <1>1, <2>7 DEF SaveReceipt
    <3> HIDE DEF t, no, refused, gl
    <3>2. sources' \subseteq Row /\ IsFiniteSet(sources')
      BY <2>4, <2>5, <3>1, InsertType
    <3>3. /\ headers' \subseteq [id : Nat, type : {"RECEIPT", "PAYMENT", "Jrnl"}, fy : Years, no : Number]
          /\ legs' \subseteq [by : Nat, fy : Years, no : Number]
      BY <1>t, <2>5, <3>1, PostingType DEF NoPosting
    <3>4. last' \in [voucher : Nat, challan : Nat, row : [Kinds -> Nat]]
      <4> DEFINE m == last.row[t.kind] + 1
                 n == IF t.post THEN last.voucher + 1 ELSE last.voucher
      <4>1. m \in Nat /\ n \in Nat
        BY <1>t, <2>4
      <4>2. last' = [last EXCEPT !.row[t.kind] = m, !.voucher = n]
        BY <3>1
      <4> HIDE DEF m, n
      <4> QED
        BY <2>4, <4>1, <4>2, LastType
    <3> QED
      BY <1>t, <2>1, <3>1, <3>2, <3>3, <3>4, BooksTyped
  <2> QED
    BY <2>6, <2>7
<1>2. CASE DeleteReceipt
  <2> DEFINE rows == {s \in sources : Key(s) = <<t.kind, t.id>>}
  <2>1. Run(t, "delete", TRUE)
    BY <1>2 DEF DeleteReceipt
  <2>2. /\ sources' = sources \ rows /\ UNCHANGED <<challans, last>>
        /\ headers' \subseteq headers /\ legs' \subseteq legs
    BY <1>2 DEF DeleteReceipt, Unposting, NoPosting
  <2>3. sources' \subseteq Row /\ IsFiniteSet(sources')
    BY <1>t, <2>2, FS_Difference
  <2> HIDE DEF t, rows
  <2> QED
    BY <1>t, <2>1, <2>2, <2>3, BooksTyped
<1> QED
  BY <1>1, <1>2

LEMMA TypedTds == Typed /\ (SaveTds \/ DeleteTds) => Typed'
<1> SUFFICES ASSUME Typed, SaveTds \/ DeleteTds PROVE Typed'
  OBVIOUS
<1>t. /\ sources \subseteq Row /\ IsFiniteSet(sources)
      /\ challans \subseteq [id : Nat, gl : Nat, items : SUBSET (Kinds \X Nat)]
      /\ headers \subseteq [id : Nat, type : {"RECEIPT", "PAYMENT", "Jrnl"}, fy : Years, no : Number]
      /\ legs \subseteq [by : Nat, fy : Years, no : Number]
      /\ last \in [voucher : Nat, challan : Nat, row : [Kinds -> Nat]]
  BY DEF Typed, TypeOK
<1> DEFINE t == Head(queue)
<1>1. CASE SaveTds
  <2> DEFINE refused == t.post /\ Guarded
             ids == {last.voucher + 1, last.voucher + 2}
  <2>1. Run(t, "save", ~refused)
    BY <1>1 DEF SaveTds
  <2>2. t \in Task /\ t.op = "save"
    BY <2>1, RunTyped
  <2>3. t \in SaveTask
    BY <2>2 DEF Task, DeleteTask, ChallanTask, UndoTask
  <2>4. t.no \in Nat /\ t.fy \in Years /\ t.post \in BOOLEAN /\ t.id \in Nat /\ TDS \in Kinds
    BY <1>1, <2>3 DEF SaveTask, SaveTds
  <2>5. CASE refused
    <3>1. UNCHANGED books
      BY <1>1, <2>5 DEF SaveTds
    <3> HIDE DEF refused, t
    <3> QED
      BY <1>t, <2>1, <3>1, BooksTyped DEF books
  <2>6. CASE ~ refused
    <3>1. /\ IF t.id # 0 THEN sources' = UpdateTds(t) ELSE InsertSource(TDS, t.no, t.fy, 0)
          /\ headers' = OtherHeaders(t.no) \cup
                (IF t.post THEN {[id |-> i, type |-> "Jrnl", fy |-> t.fy, no |-> TdsNo(t.no)] : i \in ids} ELSE {})
          /\ legs' = OtherLegs(t.no) \cup
                (IF t.post THEN {[by |-> i, fy |-> t.fy, no |-> TdsNo(t.no)] : i \in ids} ELSE {})
          /\ last' = [last EXCEPT !.row[TDS] = IF t.id = 0 THEN @ + 1 ELSE @,
                                  !.voucher = IF t.post THEN @ + 2 ELSE @]
          /\ UNCHANGED challans
      BY <1>1, <2>6 DEF SaveTds
    <3> HIDE DEF t, refused
    <3>2. sources' \subseteq Row /\ IsFiniteSet(sources')
      BY <1>t, <2>3, <2>4, <3>1, InsertType, UpdateType
    <3>3. TdsNo(t.no) \in Number /\ ids \subseteq Nat
      BY <1>t, <2>4 DEF TdsNo, Number
    <3>4. headers' \subseteq [id : Nat, type : {"RECEIPT", "PAYMENT", "Jrnl"}, fy : Years, no : Number]
      <4> HIDE DEF ids
      <4> QED
        BY <1>t, <2>4, <3>1, <3>3 DEF OtherHeaders
    <3>5. legs' \subseteq [by : Nat, fy : Years, no : Number]
      <4> HIDE DEF ids
      <4> QED
        BY <1>t, <2>4, <3>1, <3>3 DEF OtherLegs
    <3>6. last' \in [voucher : Nat, challan : Nat, row : [Kinds -> Nat]]
      <4> DEFINE m == IF t.id = 0 THEN last.row[TDS] + 1 ELSE last.row[TDS]
                 n == IF t.post THEN last.voucher + 2 ELSE last.voucher
      <4>1. m \in Nat /\ n \in Nat
        BY <1>t, <2>4
      <4>2. last' = [last EXCEPT !.row[TDS] = m, !.voucher = n]
        BY <3>1
      <4> HIDE DEF m, n
      <4> QED
        BY <2>4, <4>1, <4>2, LastType
    <3> QED
      BY <1>t, <2>1, <3>1, <3>2, <3>4, <3>5, <3>6, BooksTyped
  <2> QED
    BY <2>5, <2>6
<1>2. CASE DeleteTds
  <2> DEFINE rows == {s \in sources : Key(s) = <<TDS, t.id>>}
  <2>1. Run(t, "delete", rows # {})
    BY <1>2 DEF DeleteTds
  <2>2. /\ sources' = sources \ rows /\ UNCHANGED <<challans, last>>
        /\ headers' \subseteq headers /\ legs' \subseteq legs
    BY <1>2 DEF DeleteTds
  <2>3. sources' \subseteq Row /\ IsFiniteSet(sources')
    BY <1>t, <2>2, FS_Difference
  <2> HIDE DEF t, rows
  <2> QED
    BY <1>t, <2>1, <2>2, <2>3, BooksTyped
<1> QED
  BY <1>1, <1>2

LEMMA TypedChallans == Typed /\ (SaveChallan \/ DeleteChallan) => Typed'
<1> SUFFICES ASSUME Typed, SaveChallan \/ DeleteChallan PROVE Typed'
  OBVIOUS
<1>t. /\ sources \subseteq Row /\ IsFiniteSet(sources)
      /\ challans \subseteq [id : Nat, gl : Nat, items : SUBSET (Kinds \X Nat)]
      /\ headers \subseteq [id : Nat, type : {"RECEIPT", "PAYMENT", "Jrnl"}, fy : Years, no : Number]
      /\ legs \subseteq [by : Nat, fy : Years, no : Number]
      /\ last \in [voucher : Nat, challan : Nat, row : [Kinds -> Nat]]
  BY DEF Typed, TypeOK
<1> DEFINE t == Head(queue)
<1>1. CASE SaveChallan
  <2> DEFINE no == <<t.type, t.no>>
             refused == t.post /\ Taken("PAYMENT", Label, no)
             gl == IF t.post THEN last.voucher + 1 ELSE 0
             c == last.challan + 1
  <2>1. Run(t, "saveChallan", ~refused)
    BY <1>1 DEF SaveChallan
  <2>2. t \in Task /\ t.op = "saveChallan"
    BY <2>1, RunTyped
  <2>3. t \in ChallanTask
    BY <2>2 DEF Task, SaveTask, DeleteTask, UndoTask
  <2>4. t.type \in {"TDS", "TCS"} /\ t.no \in Nat /\ t.post \in BOOLEAN /\ t.items \subseteq Kinds \X Nat
    BY <2>3 DEF ChallanTask
  <2>5. no \in Number /\ Label \in Years /\ gl \in Nat /\ c \in Nat
    BY <1>t, <2>4, LabelType DEF Number, Typed
  <2>6. CASE refused
    <3>1. UNCHANGED books
      BY <1>1, <2>6 DEF SaveChallan
    <3> HIDE DEF refused, no, t
    <3> QED
      BY <1>t, <2>1, <3>1, BooksTyped DEF books
  <2>7. CASE ~ refused
    <3>1. /\ IF t.post THEN Posting("PAYMENT", Label, no) ELSE NoPosting
          /\ challans' = challans \cup {[id |-> c, gl |-> gl, items |-> t.items]}
          /\ sources' = Mark(t.items, c)
          /\ last' = [last EXCEPT !.challan = c, !.voucher = IF t.post THEN @ + 1 ELSE @]
      BY <1>1, <2>7 DEF SaveChallan
    <3> HIDE DEF t, no, refused, gl, c
    <3>2. sources' \subseteq Row /\ IsFiniteSet(sources')
      BY <1>t, <2>5, <3>1, MarkType
    <3>3. /\ headers' \subseteq [id : Nat, type : {"RECEIPT", "PAYMENT", "Jrnl"}, fy : Years, no : Number]
          /\ legs' \subseteq [by : Nat, fy : Years, no : Number]
      BY <1>t, <2>5, <3>1, PostingType DEF NoPosting
    <3>4. last' \in [voucher : Nat, challan : Nat, row : [Kinds -> Nat]]
      <4> DEFINE n == IF t.post THEN last.voucher + 1 ELSE last.voucher
      <4>1. n \in Nat
        BY <1>t
      <4>2. last' = [last EXCEPT !.challan = c, !.voucher = n]
        BY <3>1
      <4> HIDE DEF n
      <4> QED
        BY <1>t, <2>5, <4>1, <4>2
    <3>5. challans' \subseteq [id : Nat, gl : Nat, items : SUBSET (Kinds \X Nat)]
      BY <1>t, <2>4, <2>5, <3>1
    <3> QED
      BY <2>1, <3>2, <3>3, <3>4, <3>5, BooksTyped
  <2> QED
    BY <2>6, <2>7
<1>2. CASE DeleteChallan
  <2> DEFINE rows == {c \in challans : c.id = t.id}
  <2>1. Run(t, "deleteChallan", TRUE)
    BY <1>2 DEF DeleteChallan
  <2>2. /\ sources' = Release(UNION {c.items : c \in rows})
        /\ challans' = challans \ rows /\ UNCHANGED last
        /\ headers' \subseteq headers /\ legs' \subseteq legs
    BY <1>2 DEF DeleteChallan, Unposting, NoPosting
  <2> HIDE DEF t, rows
  <2>3. sources' \subseteq Row /\ IsFiniteSet(sources')
    BY <1>t, <2>2, MarkType
  <2> QED
    BY <1>t, <2>1, <2>2, <2>3, BooksTyped
<1> QED
  BY <1>1, <1>2

LEMMA TypedStutter == Typed /\ UNCHANGED vars => Typed'
  BY DEF Typed, TypeOK, vars, books, screens

LEMMA TypedFails == Typed /\ TaskFails => Typed'
<1> SUFFICES ASSUME Typed, TaskFails PROVE Typed'
  OBVIOUS
<1>1. PICK t, op : Run(t, op, FALSE)
  BY DEF TaskFails
<1>2. UNCHANGED books
  BY DEF TaskFails
<1> QED
  BY <1>1, <1>2, BooksTyped DEF Typed, TypeOK, books

\* Type correctness of every reachable state, whatever years, registers and
\* bounds: with it the numbers and the rows of all forms are well defined.
THEOREM TaxTypeCorrect == Spec => []TypeOK
<1>1. Init => Typed
  BY TypedInit
<1>2. Typed /\ [Next]_vars => Typed'
  BY TypedUi, TypedReceipts, TypedTds, TypedChallans, TypedFails, TypedStutter DEF Next, Worker
<1>3. Typed => TypeOK
  BY DEF Typed
<1> QED
  BY <1>1, <1>2, <1>3, PTL DEF Spec

-----------------------------------------------------------------------------
(* Deposit marks *)

\* The screens never write the books.
LEMMA UiReadsOnly == Ui => UNCHANGED books
  BY DEF Ui, SelectYear, SelectYearEnd, NewForm, OpenTds, ClickSave, ClickDelete, ClickErase,
         FetchSources, ClickSaveChallan, ClickDeleteChallan, Finished, Submit

\* Marking, releasing and editing keep the keys of the rows.
LEMMA MarkKeys ==
    ASSUME sources \subseteq Row, NEW items, NEW c
    PROVE  /\ \A s \in Mark(items, c) : \E r \in sources :
                  Key(s) = Key(r) /\ s.dep = IF Key(r) \in items THEN c ELSE r.dep
           /\ \A s \in Release(items) : \E r \in sources :
                  Key(s) = Key(r) /\ s.dep = IF Key(r) \in items THEN 0 ELSE r.dep
<1>1. \A d : \A r \in Row : LET s == [r EXCEPT !.dep = d] IN Key(s) = Key(r) /\ s.dep = d
  BY DEF Row, Key
<1>2. ASSUME NEW s \in Mark(items, c)
      PROVE  \E r \in sources : Key(s) = Key(r) /\ s.dep = IF Key(r) \in items THEN c ELSE r.dep
  <2>1. PICK r \in sources : s = IF Key(r) \in items THEN [r EXCEPT !.dep = c] ELSE r
    BY DEF Mark
  <2>2. Key(s) = Key(r) /\ s.dep = IF Key(r) \in items THEN c ELSE r.dep
    BY <1>1, <2>1
  <2> QED
    BY <2>2
<1>3. ASSUME NEW s \in Release(items)
      PROVE  \E r \in sources : Key(s) = Key(r) /\ s.dep = IF Key(r) \in items THEN 0 ELSE r.dep
  <2>1. PICK r \in sources : s = IF Key(r) \in items THEN [r EXCEPT !.dep = 0] ELSE r
    BY DEF Release
  <2>2. Key(s) = Key(r) /\ s.dep = IF Key(r) \in items THEN 0 ELSE r.dep
    BY <1>1, <2>1
  <2> QED
    BY <2>2
<1> QED
  BY <1>2, <1>3

LEMMA UpdateKeys ==
    ASSUME sources \subseteq Row, NEW t
    PROVE  \A s \in UpdateTds(t) : \E r \in sources : Key(s) = Key(r) /\ s.dep = r.dep
<1>1. \A r \in Row : LET s == [r EXCEPT !.fy = t.fy, !.no = t.no] IN Key(s) = Key(r) /\ s.dep = r.dep
  BY DEF Row, Key
<1> TAKE s \in UpdateTds(t)
<1>2. PICK r \in sources :
        s = IF Key(r) = <<TDS, t.id>> THEN [r EXCEPT !.fy = t.fy, !.no = t.no] ELSE r
  BY DEF UpdateTds
<1>3. Key(s) = Key(r) /\ s.dep = r.dep
  BY <1>1, <1>2
<1> QED
  BY <1>3

\* Saving or deleting a receipt or a TDS voucher leaves the challans alone, and
\* every row it leaves is a row there was before, with its mark, or undeposited.
LEMMA RegistersKeepMarks ==
    ASSUME Typed, SaveReceipt \/ DeleteReceipt \/ SaveTds \/ DeleteTds
    PROVE  /\ UNCHANGED challans
           /\ \A s \in sources' :
                 (\E r \in sources : Key(s) = Key(r) /\ s.dep = r.dep) \/ s.dep = 0
<1>t. sources \subseteq Row
  BY DEF Typed, TypeOK
<1>i. ASSUME NEW k, NEW n, NEW y, NEW g, InsertSource(k, n, y, g), NEW s \in sources'
      PROVE  s \in sources \/ s.dep = 0
  BY <1>i DEF InsertSource
<1>1. CASE SaveReceipt
  BY <1>1, <1>i DEF SaveReceipt, books
<1>2. CASE DeleteReceipt
  BY <1>2 DEF DeleteReceipt
<1>3. CASE SaveTds
  <2>1. UNCHANGED challans
    BY <1>3 DEF SaveTds, books
  <2>2. \/ sources' = sources
        \/ sources' = UpdateTds(Head(queue))
        \/ InsertSource(TDS, Head(queue).no, Head(queue).fy, 0)
    BY <1>3 DEF SaveTds, books
  <2> QED
    BY <1>t, <1>i, <2>1, <2>2, UpdateKeys
<1>4. CASE DeleteTds
  BY <1>4 DEF DeleteTds
<1> QED
  BY <1>1, <1>2, <1>3, <1>4

LEMMA BackedStep == Typed /\ MarkIsBacked /\ [Next]_vars => MarkIsBacked'
<1> SUFFICES ASSUME Typed, MarkIsBacked, [Next]_vars PROVE MarkIsBacked'
  OBVIOUS
<1>t. sources \subseteq Row
  BY DEF Typed, TypeOK
<1>k. ASSUME NEW r, NEW s, Key(r) = Key(s), r.dep = s.dep, r \in sources, s.dep # 0
      PROVE  \E c \in challans : c.id = s.dep /\ Key(s) \in c.items
  BY <1>k DEF MarkIsBacked
<1>1. CASE Ui \/ UNCHANGED vars
  <2>1. UNCHANGED <<sources, challans>>
    BY <1>1, UiReadsOnly DEF vars, books
  <2> QED
    BY <2>1 DEF MarkIsBacked, Key
<1>2. CASE SaveReceipt \/ DeleteReceipt \/ SaveTds \/ DeleteTds
  <2>1. /\ challans' = challans
        /\ \A s \in sources' : (\E r \in sources : Key(s) = Key(r) /\ s.dep = r.dep) \/ s.dep = 0
    BY <1>2, RegistersKeepMarks
  <2> SUFFICES ASSUME NEW s \in sources', s.dep # 0
               PROVE  \E c \in challans' : c.id = s.dep /\ Key(s) \in c.items
    BY DEF MarkIsBacked, Key
  <2> QED
    BY <2>1, <1>k
<1>3. CASE SaveChallan
  <2> DEFINE t == Head(queue)
             c == last.challan + 1
             gl == IF t.post THEN last.voucher + 1 ELSE 0
             new == [id |-> c, gl |-> gl, items |-> t.items]
  <2> SUFFICES ASSUME NEW s \in sources', s.dep # 0
               PROVE  \E d \in challans' : d.id = s.dep /\ Key(s) \in d.items
    BY DEF MarkIsBacked, Key
  <2>1. CASE UNCHANGED books
    BY <2>1, <1>k DEF books
  <2>2. CASE ~ UNCHANGED books
    <3>1. challans' = challans \cup {new} /\ sources' = Mark(t.items, c)
      BY <1>3, <2>2 DEF SaveChallan
    <3> HIDE DEF t, c, gl
    <3>2. PICK r \in sources : Key(s) = Key(r) /\ s.dep = IF Key(r) \in t.items THEN c ELSE r.dep
      BY <1>t, <3>1, MarkKeys
    <3>3. CASE Key(r) \in t.items
      <4>1. new.id = c /\ new.items = t.items
        OBVIOUS
      <4>2. new \in challans' /\ new.id = s.dep /\ Key(s) \in new.items
        BY <3>1, <3>2, <3>3, <4>1
      <4> QED
        BY <4>2
    <3>4. CASE Key(r) \notin t.items
      BY <3>1, <3>2, <3>4, <1>k
    <3> QED
      BY <3>3, <3>4
  <2> QED
    BY <2>1, <2>2
<1>4. CASE DeleteChallan
  <2> DEFINE rows == {c \in challans : c.id = Head(queue).id}
             items == UNION {c.items : c \in rows}
  <2> SUFFICES ASSUME NEW s \in sources', s.dep # 0
               PROVE  \E d \in challans' : d.id = s.dep /\ Key(s) \in d.items
    BY DEF MarkIsBacked, Key
  <2>1. sources' = Release(items) /\ challans' = challans \ rows
    BY <1>4 DEF DeleteChallan
  <2>2. PICK r \in sources : Key(s) = Key(r) /\ s.dep = IF Key(r) \in items THEN 0 ELSE r.dep
    <3> HIDE DEF items, rows
    <3> QED
      BY <1>t, <2>1, MarkKeys
  <2>3. Key(s) \notin items /\ s.dep = r.dep
    BY <2>2
  <2>4. PICK d \in challans : d.id = s.dep /\ Key(s) \in d.items
    BY <2>2, <2>3, <1>k
  <2>5. d \notin rows
    BY <2>3, <2>4
  <2> QED
    BY <2>1, <2>4, <2>5
<1>5. CASE TaskFails
  BY <1>5 DEF TaskFails, books, MarkIsBacked, Key
<1> QED
  BY <1>1, <1>2, <1>3, <1>4, <1>5 DEF Next, Worker

\* A mark is the id of a challan that exists and lists the source, also when
\* one source is deposited twice and in whatever order challans are deleted.
THEOREM MarksAreBacked == Spec => []MarkIsBacked
<1>1. Init => Typed /\ MarkIsBacked
  BY TypedInit DEF Init, MarkIsBacked
<1>2. Typed /\ MarkIsBacked /\ [Next]_vars => (Typed /\ MarkIsBacked)'
  BY BackedStep, TypedUi, TypedReceipts, TypedTds, TypedChallans, TypedFails, TypedStutter DEF Next, Worker
<1> QED
  BY <1>1, <1>2, PTL DEF Spec

-----------------------------------------------------------------------------
(* Fresh ids, and what moves a mark *)

\* Ids identify rows and never come back; challans have ids of their own.
KeysFresh ==
    /\ \A r, s \in sources : Key(r) = Key(s) => r = s
    /\ \A s \in sources : s.id <= last.row[s.kind]
    /\ \A c \in challans : c.id <= last.challan

LEMMA InsertFresh ==
    ASSUME Typed, KeysFresh, NEW k \in Kinds, NEW n, NEW y, NEW g, InsertSource(k, n, y, g)
    PROVE  /\ \A r, s \in sources' : Key(r) = Key(s) => r = s
           /\ \A s \in sources' : IF s \in sources THEN s.id <= last.row[s.kind]
                                   ELSE s.id = last.row[k] + 1 /\ s.kind = k /\ s.dep = 0
<1> DEFINE new == [kind |-> k, id |-> last.row[k] + 1, no |-> n, fy |-> y, gl |-> g, dep |-> 0]
<1>1. sources' = sources \cup {new} /\ sources \subseteq Row /\ last.row[k] \in Nat
  BY DEF InsertSource, Typed, TypeOK
<1>2. Key(new) = <<k, last.row[k] + 1>> /\ new.id = last.row[k] + 1 /\ new.kind = k /\ new.dep = 0
  BY DEF Key
<1>3. \A s \in sources : Key(s) # Key(new)
  BY <1>1, <1>2 DEF KeysFresh, Key, Row
<1> HIDE DEF new
<1> QED
  BY <1>1, <1>2, <1>3 DEF KeysFresh

LEMMA FreshStep == Typed /\ KeysFresh /\ [Next]_vars => KeysFresh'
<1> SUFFICES ASSUME Typed, KeysFresh, [Next]_vars PROVE KeysFresh'
  OBVIOUS
<1>t. /\ sources \subseteq Row /\ last \in [voucher : Nat, challan : Nat, row : [Kinds -> Nat]]
      /\ challans \subseteq [id : Nat, gl : Nat, items : SUBSET (Kinds \X Nat)]
  BY DEF Typed, TypeOK
<1>1. CASE UNCHANGED books
  BY <1>1 DEF books, KeysFresh, Key
<1>2. CASE ~ UNCHANGED books /\ (SaveReceipt \/ (SaveTds /\ Head(queue).id = 0))
  <2> DEFINE t == Head(queue)
  <2>1. t.kind \in Kinds
    <3>1. t \in Task /\ t.op = "save"
      BY <1>2, RunTyped DEF SaveReceipt, SaveTds
    <3> QED
      BY <3>1 DEF Task, SaveTask, DeleteTask, ChallanTask, UndoTask
  <2>2. \E n, y, g : InsertSource(t.kind, n, y, g)
    BY <1>2 DEF SaveReceipt, SaveTds
  <2>3. /\ last'.row = [last.row EXCEPT ![t.kind] = @ + 1] /\ last'.challan = last.challan
        /\ UNCHANGED challans
    BY <1>2, <1>t, <2>1 DEF SaveReceipt, SaveTds
  <2>4. \A s \in sources' : s.id <= last'.row[s.kind]
    <3> TAKE s \in sources'
    <3> HIDE DEF t
    <3>1. CASE s \in sources
      <4>1. s.kind \in Kinds /\ s.id \in Nat /\ s.id <= last.row[s.kind]
        BY <1>t, <3>1 DEF KeysFresh, Row
      <4> QED
        BY <1>t, <2>1, <2>3, <4>1
    <3>2. CASE s \notin sources
      BY <1>t, <2>1, <2>2, <2>3, <3>2, InsertFresh
    <3> QED
      BY <3>1, <3>2
  <2>5. \A r, s \in sources' : Key(r) = Key(s) => r = s
    BY <2>1, <2>2, InsertFresh
  <2> QED
    BY <2>3, <2>4, <2>5 DEF KeysFresh, Key
<1>3. CASE ~ UNCHANGED books /\ SaveTds /\ Head(queue).id # 0
  <2> DEFINE t == Head(queue)
             upd(s) == IF Key(s) = <<TDS, t.id>> THEN [s EXCEPT !.fy = t.fy, !.no = t.no] ELSE s
  <2>1. sources' = {upd(s) : s \in sources} /\ UNCHANGED challans
    BY <1>3 DEF SaveTds, UpdateTds
  <2>2. last'.row = last.row /\ last'.challan = last.challan
    <3>1. t.kind = TDS /\ TDS \in Kinds
      <4>1. t \in Task /\ t.op = "save" /\ t.kind = TDS
        BY <1>3, RunTyped DEF SaveTds
      <4> QED
        BY <4>1 DEF Task, SaveTask, DeleteTask, ChallanTask, UndoTask
    <3>2. PICK n : last' = [last EXCEPT !.row[TDS] = IF t.id = 0 THEN @ + 1 ELSE @, !.voucher = n]
      BY <1>3 DEF SaveTds
    <3>3. [last.row EXCEPT ![TDS] = @] = last.row
      BY <1>t, <3>1
    <3>4. last'.row = [last.row EXCEPT ![TDS] = @]
      BY <1>t, <1>3, <3>1, <3>2
    <3> QED
      BY <1>t, <3>2, <3>3, <3>4
  <2>3. \A s \in sources : Key(upd(s)) = Key(s) /\ upd(s).id = s.id /\ upd(s).kind = s.kind
    BY <1>t DEF Row, Key
  <2> HIDE DEF upd
  <2> QED
    BY <2>1, <2>2, <2>3 DEF KeysFresh, Key
<1>4. CASE DeleteReceipt \/ DeleteTds
  <2>1. sources' \subseteq sources /\ UNCHANGED <<challans, last>>
    BY <1>4 DEF DeleteReceipt, DeleteTds
  <2> QED
    BY <2>1 DEF KeysFresh, Key
<1>5. CASE ~ UNCHANGED books /\ SaveChallan
  <2> DEFINE t == Head(queue)
             c == last.challan + 1
             mark(s) == IF Key(s) \in t.items THEN [s EXCEPT !.dep = c] ELSE s
  <2>1. sources' = {mark(s) : s \in sources}
    BY <1>5 DEF SaveChallan, Mark
  <2>2. last'.row = last.row /\ last'.challan = last.challan + 1
    BY <1>5, <1>t DEF SaveChallan
  <2>3. \A d \in challans' : d \in challans \/ d.id = last.challan + 1
    BY <1>5 DEF SaveChallan
  <2>4. \A d \in challans' : d.id <= last'.challan
    BY <1>t, <2>2, <2>3 DEF KeysFresh
  <2>5. \A s \in sources : Key(mark(s)) = Key(s) /\ mark(s).id = s.id /\ mark(s).kind = s.kind
    BY <1>t DEF Row, Key
  <2> HIDE DEF mark
  <2> QED
    BY <2>1, <2>2, <2>4, <2>5 DEF KeysFresh, Key
<1>6. CASE DeleteChallan
  <2> DEFINE items == UNION {c.items : c \in {d \in challans : d.id = Head(queue).id}}
             free(s) == IF Key(s) \in items THEN [s EXCEPT !.dep = 0] ELSE s
  <2>1. sources' = {free(s) : s \in sources} /\ challans' \subseteq challans /\ UNCHANGED last
    BY <1>6 DEF DeleteChallan, Release
  <2>2. \A s \in sources : Key(free(s)) = Key(s) /\ free(s).id = s.id /\ free(s).kind = s.kind
    BY <1>t DEF Row, Key
  <2> HIDE DEF free
  <2> QED
    BY <2>1, <2>2 DEF KeysFresh, Key
<1> QED
  <2>1. CASE Ui \/ UNCHANGED vars
    BY <1>1, <2>1, UiReadsOnly DEF vars
  <2>2. CASE ~ UNCHANGED books /\ SaveReceipt
    BY <1>2, <2>2
  <2>3. CASE ~ UNCHANGED books /\ SaveTds
    BY <1>2, <1>3, <2>3
  <2>4. CASE ~ UNCHANGED books /\ Worker
    BY <1>4, <1>5, <1>6, <2>2, <2>3, <2>4 DEF Worker, TaskFails
  <2> QED
    BY <1>1, <2>1, <2>4 DEF Next

LEMMA MarksMoveStep ==
    Typed /\ KeysFresh /\ [Next]_vars =>
        [\A r \in sources, s \in sources' : Key(r) = Key(s) /\ r.dep # s.dep => challans' # challans]_vars
<1> SUFFICES ASSUME Typed, KeysFresh, [Next]_vars, NEW r \in sources, NEW s \in sources',
                    Key(r) = Key(s), r.dep # s.dep
             PROVE  challans' # challans
  BY DEF vars, books
<1>t. /\ sources \subseteq Row /\ last \in [voucher : Nat, challan : Nat, row : [Kinds -> Nat]]
      /\ challans \subseteq [id : Nat, gl : Nat, items : SUBSET (Kinds \X Nat)]
  BY DEF Typed, TypeOK
<1>u. \A q \in sources : Key(q) = Key(s) => q = r
  BY DEF KeysFresh
<1>1. CASE UNCHANGED books
  BY <1>1, <1>u DEF books
<1>2. CASE ~ UNCHANGED books /\ (SaveReceipt \/ (SaveTds /\ Head(queue).id = 0))
  <2> DEFINE t == Head(queue)
  <2>1. t.kind \in Kinds
    <3>1. t \in Task /\ t.op = "save"
      BY <1>2, RunTyped DEF SaveReceipt, SaveTds
    <3> QED
      BY <3>1 DEF Task, SaveTask, DeleteTask, ChallanTask, UndoTask
  <2>2. \E n, y, g : InsertSource(t.kind, n, y, g)
    BY <1>2 DEF SaveReceipt, SaveTds
  <2> HIDE DEF t
  <2>3. r \in sources'
    BY <2>2 DEF InsertSource
  <2> QED
    BY <2>1, <2>2, <2>3, InsertFresh
<1>3. CASE ~ UNCHANGED books /\ SaveTds /\ Head(queue).id # 0
  <2>1. s \in UpdateTds(Head(queue))
    BY <1>3 DEF SaveTds
  <2>2. PICK q \in sources : Key(s) = Key(q) /\ s.dep = q.dep
    BY <1>t, <2>1, UpdateKeys
  <2> QED
    BY <1>u, <2>2
<1>4. CASE DeleteReceipt \/ DeleteTds
  BY <1>4, <1>u DEF DeleteReceipt, DeleteTds
<1>5. CASE ~ UNCHANGED books /\ SaveChallan
  <2> DEFINE t == Head(queue)
             new == [id |-> last.challan + 1, gl |-> IF t.post THEN last.voucher + 1 ELSE 0, items |-> t.items]
  <2>1. new \in challans' /\ new.id = last.challan + 1
    BY <1>5 DEF SaveChallan
  <2>2. \A d \in challans : d.id # last.challan + 1
    BY <1>t DEF KeysFresh
  <2> QED
    BY <2>1, <2>2
<1>6. CASE DeleteChallan
  <2> DEFINE rows == {c \in challans : c.id = Head(queue).id}
             items == UNION {c.items : c \in rows}
  <2>1. sources' = Release(items) /\ challans' = challans \ rows
    BY <1>6 DEF DeleteChallan
  <2>2. PICK q \in sources : Key(s) = Key(q) /\ s.dep = IF Key(q) \in items THEN 0 ELSE q.dep
    <3> HIDE DEF items
    <3> QED
      BY <1>t, <2>1, MarkKeys
  <2>3. q = r
    BY <1>u, <2>2
  <2>4. rows # {}
    BY <2>2, <2>3
  <2> QED
    BY <2>1, <2>4
<1> QED
  <2>1. CASE Ui \/ UNCHANGED vars
    BY <1>1, <2>1, UiReadsOnly DEF vars
  <2>2. CASE ~ UNCHANGED books /\ SaveReceipt
    BY <1>2, <2>2
  <2>3. CASE ~ UNCHANGED books /\ SaveTds
    BY <1>2, <1>3, <2>3
  <2>4. CASE ~ UNCHANGED books /\ Worker
    BY <1>4, <1>5, <1>6, <2>2, <2>3, <2>4 DEF Worker, TaskFails
  <2> QED
    BY <1>1, <2>1, <2>4 DEF Next

\* Only a challan that is saved or deleted moves a deposit mark, in any mix of
\* registers and with every order of edits, deletions and challans.
THEOREM MarksMoveByChallans == Spec => MarksMoveWithChallans
<1>1. Init => Typed /\ KeysFresh
  BY TypedInit DEF Init, KeysFresh
<1>2. Typed /\ KeysFresh /\ [Next]_vars => (Typed /\ KeysFresh)'
  BY FreshStep, TypedUi, TypedReceipts, TypedTds, TypedChallans, TypedFails, TypedStutter DEF Next, Worker
<1> QED
  BY <1>1, <1>2, MarksMoveStep, PTL DEF Spec, MarksMoveWithChallans

-----------------------------------------------------------------------------
(* Numbers of receipts *)

Receipts == Kinds \cap ReceiptKinds
Form(k) == <<"form", k>>

\* At most one save of a register waits, with the number its form shows.
OneSaveWaits ==
    /\ \A i \in DOMAIN queue : FromItsForm(queue[i])
    /\ \A k \in Receipts, i \in DOMAIN queue : queue[i].from = Form(k) =>
          queue[i].no = number[k] /\ answer[Form(k)] = "wait"
    /\ \A k \in Receipts, i, j \in DOMAIN queue :
          queue[i].from = Form(k) /\ queue[j].from = Form(k) => i = j

\* Until the form hears of a save that was done, its number is above all others.
NumberIsNext ==
    \A k \in Receipts : answer[Form(k)] # "true" => \A s \in sources : s.kind = k => s.no < number[k]

\* A header with the number of a receipt is the receipt's.
HeaderHasReceipt ==
    \A h \in headers : h.no[1] \in Receipts =>
        h.id # 0 /\ \E s \in sources : s.kind = h.no[1] /\ s.no = h.no[2] /\ s.gl = h.id

Numbering ==
    OneSaveWaits /\ NumberIsNext /\ HeaderHasReceipt /\ ReceiptNumbersDiffer

LEMMA TailFacts ==
    ASSUME NEW S, NEW q \in Seq(S), q # << >>
    PROVE  /\ Head(q) = q[1] /\ 1 \in DOMAIN q
           /\ \A i \in DOMAIN Tail(q) : i \in Nat \ {0} /\ i + 1 \in DOMAIN q /\ Tail(q)[i] = q[i + 1]
<1>1. /\ Len(q) \in Nat \ {0} /\ Len(Tail(q)) = Len(q) - 1
      /\ \A i \in 1..Len(q) - 1 : Tail(q)[i] = q[i + 1]
      /\ Head(q) = q[1] /\ DOMAIN q = 1..Len(q) /\ DOMAIN Tail(q) = 1..Len(Tail(q))
  OBVIOUS
<1> QED
  BY <1>1

LEMMA AppendFacts ==
    ASSUME NEW S, NEW q \in Seq(S), NEW e \in S
    PROVE  /\ DOMAIN Append(q, e) = DOMAIN q \cup {Len(q) + 1} /\ Len(q) + 1 \notin DOMAIN q
           /\ \A i \in DOMAIN q : Append(q, e)[i] = q[i]
           /\ Append(q, e)[Len(q) + 1] = e
  OBVIOUS

LEMMA ReceiptFacts ==
    /\ TDS \notin Receipts /\ "TDS" \notin Receipts /\ "TCS" \notin Receipts
    /\ "challan" \notin Receipts /\ Receipts \subseteq Kinds
    /\ \A k \in Receipts : Form(k) \in Handlers /\ Form(k) \in Screens
  BY TaxConstants, ScreenFacts DEF Receipts, ReceiptKinds, TDS, Form, Handlers

\* A screen other than a receipt's form submits.
LEMMA SubmitKeepsNumbering ==
    ASSUME Typed, Numbering, NEW s \in Screens, NEW t \in Task, Submit(s, t),
           t.from = s, FromItsForm(t), \A k \in Receipts : s # Form(k)
    PROVE  Numbering'
<1>1. /\ queue' = Append(queue, t) /\ queue \in Seq(Task)
      /\ \A k \in Receipts : answer'[Form(k)] = answer[Form(k)]
      /\ UNCHANGED <<sources, headers, number>>
  BY ReceiptFacts DEF Submit, Typed, TypeOK, books, screens
<1>2. OneSaveWaits'
  <2>1. \A i \in DOMAIN queue' : (i \in DOMAIN queue /\ queue'[i] = queue[i]) \/ queue'[i] = t
    BY <1>1, AppendFacts
  <2>2. \A k \in Receipts, i \in DOMAIN queue' : queue'[i].from = Form(k) => i \in DOMAIN queue /\ queue'[i] = queue[i]
    BY <2>1
  <2>3. \A i \in DOMAIN queue' : FromItsForm(queue'[i])
    BY <2>1 DEF Numbering, OneSaveWaits
  <2> QED
    BY <1>1, <2>2, <2>3 DEF Numbering, OneSaveWaits, FromItsForm, Form
<1>3. NumberIsNext' /\ HeaderHasReceipt'
  BY <1>1 DEF Numbering, NumberIsNext, HeaderHasReceipt, Form
<1>4. ReceiptNumbersDiffer'
  BY <1>1 DEF Numbering, ReceiptNumbersDiffer
<1> QED
  BY <1>2, <1>3, <1>4 DEF Numbering

\* The next number of a register is above all of them.
LEMMA NextIsAbove ==
    ASSUME Typed, NEW k \in Receipts
    PROVE  NextNo(k) \in Nat /\ \A s \in sources : s.kind = k => s.no < NextNo(k)
<1> DEFINE A == {r \in sources : r.kind = k}
<1>1. A \subseteq Row /\ IsFiniteSet(A)
  BY FS_Subset DEF Typed, TypeOK
<1> DEFINE m == MaxOf({s.no : s \in A})
<1>2. m \in Nat /\ \A s \in A : s.no <= m
  BY <1>1, MaxOfRows
<1>3. NextNo(k) = m + 1
  BY ReceiptFacts DEF NextNo, NextReceiptNo
<1>4. \A s \in A : s.no \in Nat
  BY <1>1 DEF Row
<1> HIDE DEF m
<1> QED
  BY <1>2, <1>3, <1>4

LEMMA KeepsNumbering ==
    ASSUME Numbering, UNCHANGED <<queue, answer, sources, headers>>,
           \A k \in Receipts : number'[k] = number[k]
    PROVE  Numbering'
<1>1. OneSaveWaits' /\ NumberIsNext' /\ HeaderHasReceipt'
  BY DEF Numbering, OneSaveWaits, FromItsForm, NumberIsNext, HeaderHasReceipt, Form
<1>2. ReceiptNumbersDiffer'
  BY DEF Numbering, ReceiptNumbersDiffer
<1> QED
  BY <1>1, <1>2 DEF Numbering

LEMMA NewFormKeepsNumbering ==
    ASSUME Typed, Numbering, NEW k \in Receipts, NewForm(k)
    PROVE  Numbering'
<1>1. /\ UNCHANGED <<queue, answer, sources, headers>> /\ answer[Form(k)] = "none"
      /\ number' = [number EXCEPT ![k] = NextNo(k)] /\ number \in [Kinds -> Nat]
  BY DEF NewForm, Receipts, Form, books, Typed, TypeOK
<1>2. \A j \in Receipts : j \in Kinds /\ number'[j] = IF j = k THEN NextNo(k) ELSE number[j]
  BY <1>1, ReceiptFacts
<1>3. \A s \in sources : s.kind = k => s.no < NextNo(k)
  BY NextIsAbove
<1>4. \A i \in DOMAIN queue : queue[i].from # Form(k)
  BY <1>1 DEF Numbering, OneSaveWaits
<1>5. OneSaveWaits'
  BY <1>1, <1>2, <1>4 DEF Numbering, OneSaveWaits, FromItsForm, Form
<1>6. NumberIsNext'
  BY <1>1, <1>2, <1>3 DEF Numbering, NumberIsNext, Form
<1>7. HeaderHasReceipt' /\ ReceiptNumbersDiffer'
  BY <1>1 DEF Numbering, HeaderHasReceipt, ReceiptNumbersDiffer
<1> QED
  BY <1>5, <1>6, <1>7 DEF Numbering

LEMMA ClickSaveKeepsNumbering ==
    ASSUME Typed, Numbering, NEW k \in Receipts, NEW post \in BOOLEAN, ClickSave(k, post)
    PROVE  Numbering'
<1> DEFINE t == [op |-> "save", from |-> <<"form", k>>, kind |-> k, post |-> post,
                 no |-> number[k], fy |-> active, id |-> IF k = TDS THEN editing ELSE 0]
<1>1. Submit(Form(k), t) /\ answer[Form(k)] = "none"
  BY DEF ClickSave, Form, Receipts
<1>2. t \in Task /\ FromItsForm(t) /\ t.from = Form(k) /\ t.no = number[k]
  <2>1. active \in Years /\ number[k] \in Nat /\ editing \in Nat /\ k \in Kinds
    BY <1>1, ReceiptFacts DEF Submit, Typed, TypeOK
  <2> QED
    BY <2>1 DEF Task, SaveTask, FromItsForm, Form
<1> HIDE DEF t
<1>3. /\ queue' = Append(queue, t) /\ queue \in Seq(Task)
      /\ answer' = [answer EXCEPT ![Form(k)] = "wait"] /\ UNCHANGED <<sources, headers, number>>
  BY <1>1 DEF Submit, Typed, books, screens
<1>4. \A j \in Receipts : answer'[Form(j)] = IF j = k THEN "wait" ELSE answer[Form(j)]
  BY <1>3, ReceiptFacts DEF Typed, TypeOK, Form
<1>5. \A i \in DOMAIN queue : queue[i].from # Form(k)
  BY <1>1 DEF Numbering, OneSaveWaits
<1>6. \A i \in DOMAIN queue' :
        (i \in DOMAIN queue /\ queue'[i] = queue[i]) \/ (i = Len(queue) + 1 /\ queue'[i] = t)
  BY <1>2, <1>3, AppendFacts
<1>7. OneSaveWaits'
  <2>1. \A i \in DOMAIN queue' : FromItsForm(queue'[i])
    BY <1>2, <1>6 DEF Numbering, OneSaveWaits
  <2>2. \A j \in Receipts, i \in DOMAIN queue' : queue'[i].from = Form(j) =>
          queue'[i].no = number'[j] /\ answer'[Form(j)] = "wait"
    <3> TAKE j \in Receipts, i \in DOMAIN queue'
    <3>1. CASE i \in DOMAIN queue /\ queue'[i] = queue[i]
      BY <1>3, <1>4, <1>5, <3>1 DEF Numbering, OneSaveWaits
    <3>2. CASE queue'[i] = t
      BY <1>2, <1>3, <1>4, <3>2 DEF Form
    <3> QED
      BY <1>6, <3>1, <3>2
  <2>3. \A j \in Receipts, i, l \in DOMAIN queue' :
          queue'[i].from = Form(j) /\ queue'[l].from = Form(j) => i = l
    <3>1. \A j \in Receipts : Form(j) = Form(k) => j = k
      BY DEF Form
    <3> QED
      BY <1>2, <1>5, <1>6, <3>1 DEF Numbering, OneSaveWaits
  <2> QED
    BY <2>1, <2>2, <2>3 DEF OneSaveWaits, FromItsForm, Form
<1>8. NumberIsNext'
  BY <1>1, <1>3, <1>4 DEF Numbering, NumberIsNext, Form
<1>9. HeaderHasReceipt' /\ ReceiptNumbersDiffer'
  BY <1>3 DEF Numbering, HeaderHasReceipt, ReceiptNumbersDiffer
<1> QED
  BY <1>7, <1>8, <1>9 DEF Numbering

LEMMA FinishedKeepsNumbering ==
    ASSUME Typed, Numbering, NEW f \in Screens, Finished(f)
    PROVE  Numbering'
<1>1. /\ f \in Handlers /\ answer[f] \in {"true", "false"} /\ f[2] \in Kinds
      /\ answer' = [answer EXCEPT ![f] = "none"] /\ UNCHANGED <<queue, sources, headers>>
      /\ number' = IF answer[f] = "true" THEN [number EXCEPT ![f[2]] = NextNo(f[2])] ELSE number
      /\ number \in [Kinds -> Nat]
  BY DEF Finished, Handlers, books, Typed, TypeOK
<1>2. \A k \in Receipts : answer'[Form(k)] = IF f = Form(k) THEN "none" ELSE answer[Form(k)]
  BY <1>1, ReceiptFacts DEF Typed, TypeOK
<1>3. \A k \in Receipts : f # Form(k) => number'[k] = number[k]
  <2> SUFFICES ASSUME NEW k \in Receipts, f # Form(k) PROVE number'[k] = number[k]
    OBVIOUS
  <2>1. f[2] # k
    BY <1>1, ReceiptFacts DEF Handlers, Screens, Form
  <2> QED
    BY <1>1, <2>1, ReceiptFacts
<1>4. \A k \in Receipts : f = Form(k) =>
        number'[k] = IF answer[f] = "true" THEN NextNo(k) ELSE number[k]
  BY <1>1, ReceiptFacts DEF Form
<1>5. \A k \in Receipts, i \in DOMAIN queue : queue[i].from = Form(k) => f # Form(k)
  BY <1>1 DEF Numbering, OneSaveWaits
<1>6. OneSaveWaits'
  BY <1>1, <1>2, <1>3, <1>5 DEF Numbering, OneSaveWaits, FromItsForm, Form
<1>7. NumberIsNext'
  <2> SUFFICES ASSUME NEW k \in Receipts, answer'[Form(k)] # "true",
                      NEW s \in sources', s.kind = k
               PROVE  s.no < number'[k]
    BY DEF NumberIsNext, Form
  <2>1. CASE f # Form(k)
    BY <1>1, <1>2, <1>3, <2>1 DEF Numbering, NumberIsNext
  <2>2. CASE f = Form(k) /\ answer[f] = "true"
    BY <1>1, <1>4, <2>2, NextIsAbove
  <2>3. CASE f = Form(k) /\ answer[f] # "true"
    BY <1>1, <1>4, <2>3 DEF Numbering, NumberIsNext
  <2> QED
    BY <2>1, <2>2, <2>3
<1>8. HeaderHasReceipt' /\ ReceiptNumbersDiffer'
  BY <1>1 DEF Numbering, HeaderHasReceipt, ReceiptNumbersDiffer
<1> QED
  BY <1>6, <1>7, <1>8 DEF Numbering

LEMMA UiKeepsNumbering == Typed /\ Numbering /\ Ui => Numbering'
<1> SUFFICES ASSUME Typed, Numbering, Ui PROVE Numbering'
  OBVIOUS
<1>t. sources \subseteq Row /\ number \in [Kinds -> Nat] /\ editing \in Nat
  BY DEF Typed, TypeOK
<1>1. ASSUME NEW y \in Years, SelectYear(y) PROVE Numbering'
  BY <1>1, KeepsNumbering DEF SelectYear, books, screens
<1>2. CASE SelectYearEnd
  BY <1>2, KeepsNumbering DEF SelectYearEnd, books, screens
<1>3. ASSUME NEW k \in Kinds, NewForm(k) PROVE Numbering'
  <2>1. CASE k \in Receipts
    BY <1>3, <2>1, NewFormKeepsNumbering
  <2>2. CASE k \notin Receipts
    <3>1. \A j \in Receipts : number'[j] = number[j]
      BY <1>3, <1>t, <2>2, ReceiptFacts DEF NewForm
    <3> QED
      BY <1>3, <3>1, KeepsNumbering DEF NewForm, books
  <2> QED
    BY <2>1, <2>2
<1>4. ASSUME NEW s \in sources, OpenTds(s) PROVE Numbering'
  <2>1. \A j \in Receipts : number'[j] = number[j]
    BY <1>4, <1>t, ReceiptFacts DEF OpenTds
  <2> QED
    BY <1>4, <2>1, KeepsNumbering DEF OpenTds, books
<1>5. ASSUME NEW s \in sources, ClickDelete(s) PROVE Numbering'
  <2> DEFINE t == [op |-> "delete", from |-> <<"list", s.kind>>, kind |-> s.kind, id |-> s.id]
  <2>1. <<"list", s.kind>> \in Screens /\ s.kind \in Kinds /\ s.id \in Nat
    BY <1>t, ScreenFacts DEF Row
  <2>2. t \in Task /\ FromItsForm(t)
    BY <2>1 DEF Task, DeleteTask, FromItsForm
  <2>3. Submit(<<"list", s.kind>>, t) /\ t.from = <<"list", s.kind>>
    BY <1>5 DEF ClickDelete
  <2>4. \A k \in Receipts : <<"list", s.kind>> # Form(k)
    BY DEF Form
  <2> HIDE DEF t
  <2> QED
    BY <2>1, <2>2, <2>3, <2>4, SubmitKeepsNumbering
<1>6. CASE ClickErase
  <2> DEFINE t == [op |-> "delete", from |-> <<"erase", TDS>>, kind |-> TDS, id |-> editing]
  <2>1. TDS \in Kinds /\ Submit(<<"erase", TDS>>, t) /\ t.from = <<"erase", TDS>>
    BY <1>6 DEF ClickErase
  <2>2. <<"erase", TDS>> \in Screens
    BY <2>1, ScreenFacts
  <2>3. t \in Task /\ FromItsForm(t)
    BY <1>t, <2>1, <2>2 DEF Task, DeleteTask, FromItsForm
  <2>4. \A k \in Receipts : <<"erase", TDS>> # Form(k)
    BY DEF Form
  <2> HIDE DEF t
  <2> QED
    BY <2>1, <2>2, <2>3, <2>4, SubmitKeepsNumbering
<1>7. ASSUME NEW k \in Kinds, NEW post \in BOOLEAN, ClickSave(k, post) PROVE Numbering'
  <2>1. CASE k \in Receipts
    BY <1>7, <2>1, ClickSaveKeepsNumbering
  <2>2. CASE k \notin Receipts
    <3> DEFINE t == [op |-> "save", from |-> <<"form", k>>, kind |-> k, post |-> post,
                     no |-> number[k], fy |-> active, id |-> IF k = TDS THEN editing ELSE 0]
    <3>1. Submit(<<"form", k>>, t) /\ t.from = <<"form", k>>
      BY <1>7 DEF ClickSave
    <3>2. active \in Years /\ number[k] \in Nat /\ <<"form", k>> \in Screens
      BY <3>1, <1>t, ScreenFacts DEF Submit, Typed
    <3>3. t \in Task /\ FromItsForm(t)
      BY <1>t, <3>2 DEF Task, SaveTask, FromItsForm
    <3>4. \A j \in Receipts : <<"form", k>> # Form(j)
      BY <2>2 DEF Form
    <3> HIDE DEF t
    <3> QED
      BY <3>1, <3>2, <3>3, <3>4, SubmitKeepsNumbering
  <2> QED
    BY <2>1, <2>2
<1>8. ASSUME NEW type, FetchSources(type) PROVE Numbering'
  BY <1>8, KeepsNumbering DEF FetchSources, books
<1>9. ASSUME NEW type \in {TaxType(k) : k \in Kinds}, NEW n \in ChallanNos, NEW post \in BOOLEAN,
             NEW items \in SUBSET picked, ClickSaveChallan(type, n, post, items)
      PROVE Numbering'
  <2> DEFINE t == [op |-> "saveChallan", from |-> <<"form", "challan">>, type |-> type,
                   no |-> n, post |-> post, items |-> items]
  <2>1. Submit(<<"form", "challan">>, t) /\ t.from = <<"form", "challan">>
    BY <1>9 DEF ClickSaveChallan
  <2>2. type \in {"TDS", "TCS"} /\ n \in Nat /\ picked \subseteq Kinds \X Nat
    BY TaxConstants DEF TaxType, Typed, TypeOK
  <2>3. t \in Task /\ FromItsForm(t)
    BY <2>2, ScreenFacts DEF Task, ChallanTask, FromItsForm
  <2>4. \A k \in Receipts : <<"form", "challan">> # Form(k)
    BY ReceiptFacts DEF Form
  <2> HIDE DEF t
  <2> QED
    BY <2>1, <2>3, <2>4, ScreenFacts, SubmitKeepsNumbering
<1>10. ASSUME NEW c \in challans, ClickDeleteChallan(c) PROVE Numbering'
  <2> DEFINE t == [op |-> "deleteChallan", from |-> <<"list", "challan">>, id |-> c.id]
  <2>1. Submit(<<"list", "challan">>, t) /\ t.from = <<"list", "challan">>
    BY <1>10 DEF ClickDeleteChallan
  <2>2. c.id \in Nat
    BY DEF Typed, TypeOK
  <2>3. t \in Task /\ FromItsForm(t)
    BY <2>2 DEF Task, UndoTask, FromItsForm
  <2>4. \A k \in Receipts : <<"list", "challan">> # Form(k)
    BY DEF Form
  <2> HIDE DEF t
  <2> QED
    BY <2>1, <2>3, <2>4, ScreenFacts, SubmitKeepsNumbering
<1>11. ASSUME NEW s \in Screens, Finished(s) PROVE Numbering'
  BY <1>11, FinishedKeepsNumbering
<1> QED
  BY <1>1, <1>2, <1>3, <1>4, <1>5, <1>6, <1>7, <1>8, <1>9, <1>10, <1>11 DEF Ui

\* What the end of any task does to the queue and the answers.
LEMMA RunNumbering ==
    ASSUME Typed, Numbering, NEW t, NEW op, NEW ok \in BOOLEAN, Run(t, op, ok)
    PROVE  /\ OneSaveWaits' /\ UNCHANGED number /\ FromItsForm(t)
           /\ \A k \in Receipts :
                 IF t.from = Form(k)
                 THEN /\ answer'[Form(k)] = IF ok THEN "true" ELSE "false"
                      /\ t.no = number[k] /\ answer[Form(k)] = "wait"
                 ELSE answer'[Form(k)] = answer[Form(k)]
<1>1. /\ queue \in Seq(Task) /\ queue # << >> /\ t = Head(queue) /\ queue' = Tail(queue)
      /\ answer \in [Screens -> {"none", "wait", "true", "false"}] /\ UNCHANGED number
  BY DEF Run, Typed, TypeOK, screens
<1>2. /\ t = queue[1] /\ 1 \in DOMAIN queue
      /\ \A i \in DOMAIN queue' : i \in Nat \ {0} /\ i + 1 \in DOMAIN queue /\ queue'[i] = queue[i + 1]
  BY <1>1, TailFacts
<1>3. t.from \in Screens
  BY <1>1, TaskScreens
<1>4. \A k \in Receipts : t.from = Form(k) => \A i \in DOMAIN queue' : queue'[i].from # Form(k)
  <2> SUFFICES ASSUME NEW k \in Receipts, t.from = Form(k), NEW i \in DOMAIN queue', queue'[i].from = Form(k)
               PROVE  FALSE
    OBVIOUS
  <2>1. i + 1 = 1
    BY <1>2 DEF Numbering, OneSaveWaits
  <2> QED
    BY <1>2, <2>1
<1>5. answer' = IF \E i \in DOMAIN queue' : queue'[i].from = t.from THEN answer
                ELSE [answer EXCEPT ![t.from] = IF t.from \notin Handlers THEN "none"
                                                ELSE IF ok THEN "true" ELSE "false"]
  BY <1>1 DEF Run
<1>6. \A k \in Receipts :
        answer'[Form(k)] = IF t.from = Form(k) THEN (IF ok THEN "true" ELSE "false") ELSE answer[Form(k)]
  BY <1>1, <1>3, <1>4, <1>5, ReceiptFacts
<1>7. \A k \in Receipts : t.from = Form(k) => t.no = number[k] /\ answer[Form(k)] = "wait"
  BY <1>2 DEF Numbering, OneSaveWaits
<1>8. OneSaveWaits'
  <2>1. \A i \in DOMAIN queue' : FromItsForm(queue'[i])
    BY <1>2 DEF Numbering, OneSaveWaits
  <2>2. \A k \in Receipts, i \in DOMAIN queue' : queue'[i].from = Form(k) =>
          queue'[i].no = number'[k] /\ answer'[Form(k)] = "wait"
    <3> SUFFICES ASSUME NEW k \in Receipts, NEW i \in DOMAIN queue', queue'[i].from = Form(k)
                 PROVE  queue'[i].no = number'[k] /\ answer'[Form(k)] = "wait"
      OBVIOUS
    <3>1. queue[i + 1].no = number[k] /\ answer[Form(k)] = "wait" /\ queue'[i] = queue[i + 1]
      BY <1>2 DEF Numbering, OneSaveWaits
    <3>2. t.from # Form(k)
      BY <1>4
    <3> QED
      BY <1>1, <1>6, <3>1, <3>2
  <2>3. \A k \in Receipts, i, j \in DOMAIN queue' :
          queue'[i].from = Form(k) /\ queue'[j].from = Form(k) => i = j
    <3> SUFFICES ASSUME NEW k \in Receipts, NEW i \in DOMAIN queue', NEW j \in DOMAIN queue',
                        queue'[i].from = Form(k), queue'[j].from = Form(k)
                 PROVE  i = j
      OBVIOUS
    <3>1. i + 1 = j + 1
      BY <1>2 DEF Numbering, OneSaveWaits
    <3> QED
      BY <1>2, <3>1
  <2> QED
    BY <2>1, <2>2, <2>3 DEF OneSaveWaits, FromItsForm, Form
<1> QED
  BY <1>1, <1>2, <1>6, <1>7, <1>8 DEF Numbering, OneSaveWaits

\* A task that no receipt form submitted, keeps the receipts it leaves and
\* takes their headers with those it deletes.
LEMMA OtherRunKeepsNumbering ==
    ASSUME Typed, Numbering, NEW t, NEW op, NEW ok \in BOOLEAN, Run(t, op, ok),
           \A k \in Receipts : t.from # Form(k),
           \A s \in sources' : s.kind \in Receipts => \E r \in sources : Key(r) = Key(s) /\ r.no = s.no,
           HeaderHasReceipt', sources' \subseteq Row
    PROVE  Numbering'
<1>1. OneSaveWaits' /\ UNCHANGED number /\ \A k \in Receipts : answer'[Form(k)] = answer[Form(k)]
  BY RunNumbering
<1>2. \A s \in sources' : s.kind \in Receipts =>
        \E r \in sources : r.kind = s.kind /\ r.id = s.id /\ r.no = s.no
  BY DEF Key
<1>3. NumberIsNext'
  BY <1>1, <1>2 DEF Numbering, NumberIsNext, Form
<1>4. ReceiptNumbersDiffer'
  <2> SUFFICES ASSUME NEW r \in sources', NEW s \in sources', r.kind \in ReceiptKinds,
                      r.kind = s.kind, r.no = s.no
               PROVE  r.id = s.id
    BY DEF ReceiptNumbersDiffer
  <2>1. r.kind \in Receipts
    BY DEF Receipts, Row
  <2> QED
    BY <1>2, <2>1 DEF Numbering, ReceiptNumbersDiffer
<1> QED
  BY <1>1, <1>3, <1>4 DEF Numbering

\* No header has the number a waiting form shows, so that it is not refused.
LEMMA SaveReceiptKeepsNumbering == Typed /\ Typed' /\ KeysFresh /\ Numbering /\ SaveReceipt => Numbering'
<1> SUFFICES ASSUME Typed, Typed', KeysFresh, Numbering, SaveReceipt PROVE Numbering'
  OBVIOUS
<1> DEFINE t == Head(queue)
           k == t.kind
           no == <<t.kind, t.no>>
           refused == t.post /\ Taken(VoucherType(t.kind), Label, no)
           gl == IF t.post THEN last.voucher + 1 ELSE 0
<1>1. Run(t, "save", ~refused) /\ k \in ReceiptKinds
  BY DEF SaveReceipt
<1>2. t \in Task /\ t.op = "save" /\ FromItsForm(t)
  BY <1>1, RunTyped, RunNumbering
<1>3. t.from = Form(k) /\ k \in Receipts /\ t.post \in BOOLEAN /\ t.no \in Nat
  BY <1>1, <1>2 DEF Task, SaveTask, DeleteTask, ChallanTask, UndoTask, FromItsForm, Form, Receipts
<1>4. /\ OneSaveWaits' /\ UNCHANGED number /\ t.no = number[k] /\ answer[Form(k)] = "wait"
      /\ answer'[Form(k)] = IF ~ refused THEN "true" ELSE "false"
      /\ \A j \in Receipts : j # k => answer'[Form(j)] = answer[Form(j)]
  <2>1. \A j \in Receipts : j # k => t.from # Form(j)
    BY <1>3 DEF Form
  <2> HIDE DEF t, refused
  <2> QED
    BY <1>1, <1>3, <2>1, RunNumbering
<1>5. sources \subseteq Row /\ \A s \in sources : s.kind = k => s.no < t.no
  BY <1>3, <1>4 DEF Typed, TypeOK, Numbering, NumberIsNext
<1>6. \A h \in headers : h.no # no
  <2> SUFFICES ASSUME NEW h \in headers, h.no = no PROVE FALSE
    OBVIOUS
  <2>1. PICK s \in sources : s.kind = k /\ s.no = t.no
    BY <1>3 DEF Numbering, HeaderHasReceipt
  <2> QED
    BY <1>3, <1>5, <2>1 DEF Row
<1>7. ~ refused
  BY <1>6 DEF Taken
<1>8. /\ IF t.post THEN Posting(VoucherType(t.kind), Label, no) ELSE NoPosting
      /\ InsertSource(t.kind, t.no, Label, gl)
  BY <1>7 DEF SaveReceipt
<1> DEFINE new == [kind |-> k, id |-> last.row[k] + 1, no |-> t.no, fy |-> Label, gl |-> gl, dep |-> 0]
<1>9. /\ sources' = sources \cup {new} /\ new.kind = k /\ new.no = t.no /\ new.gl = gl
  BY <1>8 DEF InsertSource
<1>10. NumberIsNext'
  <2>1. answer'[Form(k)] = "true"
    BY <1>4, <1>7
  <2> HIDE DEF t, gl, new
  <2> QED
    BY <1>4, <1>9, <2>1 DEF Numbering, NumberIsNext, Form
<1>11. HeaderHasReceipt'
  <2> SUFFICES ASSUME NEW h \in headers', h.no[1] \in Receipts
               PROVE  h.id # 0 /\ \E s \in sources' : s.kind = h.no[1] /\ s.no = h.no[2] /\ s.gl = h.id
    BY DEF HeaderHasReceipt
  <2>1. CASE h \in headers
    BY <1>9, <2>1 DEF Numbering, HeaderHasReceipt
  <2>2. CASE h \notin headers
    <3>1. t.post
      BY <1>8, <2>2 DEF NoPosting
    <3>2. h.id = last.voucher + 1 /\ h.no = no
      BY <1>8, <2>2, <3>1 DEF Posting
    <3>3. h.id = new.gl /\ h.no[1] = new.kind /\ h.no[2] = new.no
      BY <1>9, <3>1, <3>2
    <3>4. h.id # 0
      BY <3>2 DEF Typed, TypeOK
    <3> QED
      BY <1>9, <3>3, <3>4
  <2> QED
    BY <2>1, <2>2
<1>12. ReceiptNumbersDiffer'
  <2> HIDE DEF t, gl, new
  <2>1. \A s \in sources : s.kind = k => s.no # t.no
    BY <1>3, <1>5 DEF Row
  <2> QED
    BY <1>9, <2>1 DEF Numbering, ReceiptNumbersDiffer
<1> QED
  BY <1>4, <1>10, <1>11, <1>12 DEF Numbering

\* A task that fails leaves the books, and a receipt form with its number.
LEMMA FailKeepsNumbering == Typed /\ Numbering /\ TaskFails => Numbering'
<1> SUFFICES ASSUME Typed, Numbering, TaskFails PROVE Numbering'
  OBVIOUS
<1>1. PICK t, op : Run(t, op, FALSE)
  BY DEF TaskFails
<1>2. UNCHANGED <<sources, headers>>
  BY DEF TaskFails, books
<1>3. /\ OneSaveWaits' /\ UNCHANGED number
      /\ \A k \in Receipts : answer'[Form(k)] # "true" => answer[Form(k)] # "true"
  BY <1>1, RunNumbering
<1> QED
  BY <1>2, <1>3 DEF Numbering, NumberIsNext, HeaderHasReceipt, ReceiptNumbersDiffer, Form

\* Deleting a receipt takes its header along, and no other receipt's.
LEMMA DeleteReceiptKeepsNumbering == Typed /\ Typed' /\ KeysFresh /\ Numbering /\ DeleteReceipt => Numbering'
<1> SUFFICES ASSUME Typed, Typed', KeysFresh, Numbering, DeleteReceipt PROVE Numbering'
  OBVIOUS
<1> DEFINE t == Head(queue)
           rows == {s \in sources : Key(s) = <<t.kind, t.id>>}
           row == CHOOSE s \in rows : TRUE
<1>1. Run(t, "delete", TRUE) /\ sources' = sources \ rows /\ sources' \subseteq Row
  BY DEF DeleteReceipt, Typed, TypeOK
<1>2. \A k \in Receipts : t.from # Form(k)
  <2>1. t.op = "delete" /\ FromItsForm(t)
    <3> HIDE DEF t
    <3> QED
      BY <1>1, RunTyped, RunNumbering
  <2> QED
    BY <2>1, ReceiptFacts DEF FromItsForm, Form
<1>3. \A s \in rows : s = row
  BY DEF KeysFresh
<1>4. \A h \in headers' : h \in headers /\ \A s \in rows : s.gl # 0 => h.id # s.gl
  BY <1>3 DEF DeleteReceipt, Unposting, NoPosting
<1>5. HeaderHasReceipt'
  <2> SUFFICES ASSUME NEW h \in headers', h.no[1] \in Receipts
               PROVE  h.id # 0 /\ \E s \in sources' : s.kind = h.no[1] /\ s.no = h.no[2] /\ s.gl = h.id
    BY DEF HeaderHasReceipt
  <2>1. PICK s \in sources : s.kind = h.no[1] /\ s.no = h.no[2] /\ s.gl = h.id
    BY <1>4 DEF Numbering, HeaderHasReceipt
  <2>2. h.id # 0
    BY <1>4 DEF Numbering, HeaderHasReceipt
  <2>3. s \notin rows
    BY <1>4, <2>1, <2>2
  <2> QED
    BY <1>1, <2>1, <2>2, <2>3
<1> QED
  BY <1>1, <1>2, <1>5, OtherRunKeepsNumbering

\* The postings of TDS vouchers carry numbers of their own.
LEMMA TdsKeepsNumbering == Typed /\ Typed' /\ Numbering /\ (SaveTds \/ DeleteTds) => Numbering'
<1> SUFFICES ASSUME Typed, Typed', Numbering, SaveTds \/ DeleteTds PROVE Numbering'
  OBVIOUS
<1> DEFINE t == Head(queue)
<1>1. PICK op, ok : ok \in BOOLEAN /\ Run(t, op, ok) /\ t.kind = TDS
  BY DEF SaveTds, DeleteTds
<1>2. \A k \in Receipts : t.from # Form(k)
  <2>1. FromItsForm(t)
    BY <1>1, RunNumbering
  <2> QED
    BY <1>1, <2>1, ReceiptFacts DEF FromItsForm, Form
<1>3. sources' \subseteq Row /\ sources \subseteq Row
  BY DEF Typed, TypeOK
<1>4. \A s \in sources' : s.kind \in Receipts => s \in sources
  <2>1. CASE UNCHANGED sources
    BY <2>1
  <2>2. CASE DeleteTds
    BY <2>2 DEF DeleteTds
  <2>3. CASE sources' = UpdateTds(t)
    <3> SUFFICES ASSUME NEW s \in sources', s.kind \in Receipts PROVE s \in sources
      OBVIOUS
    <3>1. PICK r \in sources :
            s = IF Key(r) = <<TDS, t.id>> THEN [r EXCEPT !.fy = t.fy, !.no = t.no] ELSE r
      BY <2>3 DEF UpdateTds
    <3>2. r.kind = TDS => s.kind = TDS
      BY <1>3, <3>1 DEF Row
    <3>3. Key(r) # <<TDS, t.id>>
      BY <3>2, ReceiptFacts DEF Key
    <3> QED
      BY <3>1, <3>3
  <2>4. CASE InsertSource(TDS, t.no, t.fy, 0)
    <3> DEFINE new == [kind |-> TDS, id |-> last.row[TDS] + 1, no |-> t.no, fy |-> t.fy, gl |-> 0, dep |-> 0]
    <3>1. sources' = sources \cup {new} /\ new.kind = TDS
      BY <2>4 DEF InsertSource
    <3> HIDE DEF new
    <3> QED
      BY <3>1, ReceiptFacts
  <2> QED
    BY <2>1, <2>2, <2>3, <2>4 DEF SaveTds, books
<1>5. \A s \in sources : s.kind \in Receipts => s \in sources'
  <2>1. CASE UNCHANGED sources
    BY <2>1
  <2>2. CASE DeleteTds
    BY <2>2, ReceiptFacts DEF DeleteTds, Key
  <2>3. CASE sources' = UpdateTds(t)
    <3> SUFFICES ASSUME NEW s \in sources, s.kind \in Receipts PROVE s \in sources'
      OBVIOUS
    <3>1. Key(s) # <<TDS, t.id>>
      BY ReceiptFacts DEF Key
    <3> QED
      BY <2>3, <3>1 DEF UpdateTds
  <2>4. CASE InsertSource(TDS, t.no, t.fy, 0)
    BY <2>4 DEF InsertSource
  <2> QED
    BY <2>1, <2>2, <2>3, <2>4 DEF SaveTds, books
<1>6. \A h \in headers' : h.no[1] \in Receipts => h \in headers
  <2>1. CASE UNCHANGED headers \/ headers' \subseteq headers
    BY <2>1
  <2>2. CASE SaveTds /\ ~ UNCHANGED headers
    <3>1. \A h \in headers' : h \in headers \/ h.no = TdsNo(t.no)
      BY <2>2 DEF SaveTds, OtherHeaders, books
    <3> QED
      BY <3>1, ReceiptFacts DEF TdsNo
  <2> QED
    BY <2>1, <2>2 DEF DeleteTds
<1>7. HeaderHasReceipt'
  BY <1>5, <1>6 DEF Numbering, HeaderHasReceipt
<1>8. \A s \in sources' : s.kind \in Receipts => \E r \in sources : Key(r) = Key(s) /\ r.no = s.no
  BY <1>4
<1> HIDE DEF t
<1> QED
  BY <1>1, <1>2, <1>3, <1>7, <1>8, OtherRunKeepsNumbering

\* Marking and releasing change nothing but the mark.
Same(r, s) == r.kind = s.kind /\ r.id = s.id /\ r.no = s.no /\ r.gl = s.gl

LEMMA MarkRows ==
    ASSUME sources \subseteq Row, NEW items, NEW c, NEW S, S = Mark(items, c) \/ S = Release(items)
    PROVE  /\ \A s \in S : \E r \in sources : Same(r, s)
           /\ \A r \in sources : \E s \in S : Same(r, s)
<1>1. \A d : \A r \in sources : Same(r, [r EXCEPT !.dep = d]) /\ Same(r, r)
  BY DEF Row, Same
<1>2. CASE S = Mark(items, c)
  <2>1. S = {IF Key(s) \in items THEN [s EXCEPT !.dep = c] ELSE s : s \in sources}
    BY <1>2 DEF Mark
  <2>2. \A s \in sources : Same(s, IF Key(s) \in items THEN [s EXCEPT !.dep = c] ELSE s)
    BY <1>1
  <2> QED
    BY <2>1, <2>2
<1>3. CASE S = Release(items)
  <2>1. S = {IF Key(s) \in items THEN [s EXCEPT !.dep = 0] ELSE s : s \in sources}
    BY <1>3 DEF Release
  <2>2. \A s \in sources : Same(s, IF Key(s) \in items THEN [s EXCEPT !.dep = 0] ELSE s)
    BY <1>1
  <2> QED
    BY <2>1, <2>2
<1> QED
  BY <1>2, <1>3

\* The postings of challans carry other numbers too.
LEMMA ChallanKeepsNumbering ==
    Typed /\ Typed' /\ KeysFresh /\ Numbering /\ (SaveChallan \/ DeleteChallan) => Numbering'
<1> SUFFICES ASSUME Typed, Typed', KeysFresh, Numbering, SaveChallan \/ DeleteChallan PROVE Numbering'
  OBVIOUS
<1> DEFINE t == Head(queue)
<1>1. PICK op, ok : ok \in BOOLEAN /\ Run(t, op, ok) /\ op \in {"saveChallan", "deleteChallan"}
  BY DEF SaveChallan, DeleteChallan
<1>2. t \in Task /\ t.op = op
  BY <1>1, RunTyped
<1>3. \A k \in Receipts : t.from # Form(k)
  BY <1>1, <1>2, ReceiptFacts DEF Task, SaveTask, DeleteTask, ChallanTask, UndoTask, Form
<1>4. sources' \subseteq Row /\ sources \subseteq Row
  BY DEF Typed, TypeOK
<1>5. /\ \A s \in sources' : \E r \in sources : Same(r, s)
      /\ \A r \in sources : \E s \in sources' : Same(r, s)
  <2>1. CASE UNCHANGED sources
    BY <2>1 DEF Same
  <2>2. CASE ~ UNCHANGED sources
    <3>1. \E items, c : sources' = Mark(items, c) \/ sources' = Release(items)
      BY <2>2 DEF SaveChallan, DeleteChallan, books
    <3> QED
      BY <1>4, <3>1, MarkRows
  <2> QED
    BY <2>1, <2>2
<1>6. \A h \in headers' : h.no[1] \in Receipts => h \in headers
  <2>1. CASE headers' \subseteq headers
    BY <2>1
  <2>2. CASE ~ (headers' \subseteq headers)
    <3>1. SaveChallan /\ Posting("PAYMENT", Label, <<t.type, t.no>>)
      BY <2>2 DEF SaveChallan, DeleteChallan, NoPosting, Unposting, books
    <3>2. t.type \in {"TDS", "TCS"}
      <4>1. Run(t, "saveChallan", ~ (t.post /\ Taken("PAYMENT", Label, <<t.type, t.no>>)))
        BY <3>1 DEF SaveChallan
      <4>2. t \in Task /\ t.op = "saveChallan"
        BY <4>1, RunTyped
      <4> QED
        BY <4>2 DEF Task, SaveTask, DeleteTask, ChallanTask, UndoTask
    <3> QED
      BY <3>1, <3>2, ReceiptFacts DEF Posting
  <2> QED
    BY <2>1, <2>2
<1>7. HeaderHasReceipt'
  BY <1>5, <1>6 DEF Numbering, HeaderHasReceipt, Same
<1>8. \A s \in sources' : s.kind \in Receipts => \E r \in sources : Key(r) = Key(s) /\ r.no = s.no
  BY <1>5 DEF Same, Key
<1> HIDE DEF t
<1> QED
  BY <1>1, <1>3, <1>4, <1>7, <1>8, OtherRunKeepsNumbering

LEMMA NumberingInit == Init => KeysFresh /\ Numbering
<1> SUFFICES ASSUME Init PROVE KeysFresh /\ Numbering
  OBVIOUS
<1>1. sources = {} /\ challans = {} /\ headers = {} /\ queue = << >>
  BY DEF Init
<1>2. OneSaveWaits
  <2>1. DOMAIN queue = {}
    BY <1>1
  <2> QED
    BY <2>1 DEF OneSaveWaits
<1> QED
  BY <1>1, <1>2 DEF KeysFresh, Numbering, NumberIsNext, HeaderHasReceipt, ReceiptNumbersDiffer

TaxInv == Typed /\ KeysFresh /\ Numbering

LEMMA NumberingStep == TaxInv /\ [Next]_vars => TaxInv'
<1> SUFFICES ASSUME TaxInv, [Next]_vars PROVE TaxInv'
  OBVIOUS
<1>1. Typed /\ KeysFresh /\ Numbering
  BY DEF TaxInv
<1>2. Typed'
  BY <1>1, TypedUi, TypedReceipts, TypedTds, TypedChallans, TypedFails, TypedStutter DEF Next, Worker
<1>3. KeysFresh'
  BY <1>1, FreshStep
<1>4. Numbering'
  <2>1. CASE UNCHANGED vars
    <3>1. UNCHANGED <<queue, answer, sources, headers, number>>
      BY <2>1 DEF vars, books, screens
    <3> QED
      BY <1>1, <3>1, KeepsNumbering
  <2>2. CASE Ui
    BY <1>1, <2>2, UiKeepsNumbering
  <2>3. CASE Worker
    BY <1>1, <1>2, <2>3, SaveReceiptKeepsNumbering, DeleteReceiptKeepsNumbering,
       TdsKeepsNumbering, ChallanKeepsNumbering, FailKeepsNumbering DEF Worker
  <2> QED
    BY <2>1, <2>2, <2>3 DEF Next
<1> QED
  BY <1>2, <1>3, <1>4 DEF TaxInv

\* No two receipts of a register carry one number, although the form computes
\* it on another connection than the one that stores it.
THEOREM ReceiptNumbersUnique == Spec => []ReceiptNumbersDiffer
<1>1. Init => TaxInv
  BY TypedInit, NumberingInit DEF TaxInv
<1>2. TaxInv => ReceiptNumbersDiffer
  BY DEF TaxInv, Numbering
<1> QED
  BY <1>1, <1>2, NumberingStep, PTL DEF Spec

\* A save that waits has the number its form shows, which is above every number
\* of the register; and a header with that number would have its receipt.
LEMMA NumbersAreFree == TaxInv => ReceiptNotRefused
<1> SUFFICES ASSUME Typed, Numbering, NEW i \in DOMAIN queue,
                    queue[i].op = "save", queue[i].kind \in ReceiptKinds,
                    NEW h \in headers, h.no = <<queue[i].kind, queue[i].no>>
             PROVE  FALSE
  BY DEF TaxInv, ReceiptNotRefused, Taken
<1> DEFINE t == queue[i]
           k == t.kind
<1>1. t \in SaveTask
  <2>1. t \in Task
    BY DEF Typed
  <2> QED
    BY <2>1 DEF Task, DeleteTask, ChallanTask, UndoTask
<1>2. k \in Receipts /\ t.no \in Nat
  BY <1>1 DEF SaveTask, Receipts
<1>3. t.no = number[k] /\ answer[Form(k)] = "wait"
  BY <1>2 DEF Numbering, OneSaveWaits, FromItsForm, Form
<1>4. PICK s \in sources : s.kind = k /\ s.no = t.no
  BY <1>2 DEF Numbering, HeaderHasReceipt
<1>5. s.no < t.no
  BY <1>2, <1>3, <1>4 DEF Numbering, NumberIsNext
<1> QED
  BY <1>2, <1>4, <1>5

\* The UNIQUE index of the books never refuses a receipt: the headers that have
\* a receipt's number are its own.
THEOREM ReceiptsAreAccepted == Spec => []ReceiptNotRefused
<1>1. Init => TaxInv
  BY TypedInit, NumberingInit DEF TaxInv
<1> QED
  BY <1>1, NumbersAreFree, NumberingStep, PTL DEF Spec

-----------------------------------------------------------------------------
(* What was posted is owned *)

\* The id of a header is never given again, and zero is the id of none.
HeadersFresh ==
    /\ \A h \in headers : h.id # 0 /\ h.id <= last.voucher
    /\ \A g, h \in headers : g.id = h.id => g = h
    /\ \A s \in sources : s.gl <= last.voucher
    /\ \A c \in challans : c.gl <= last.voucher

\* A header belongs to one receipt or to one challan; TDS vouchers keep no id.
OwnersDiffer ==
    /\ \A s \in sources : s.kind = TDS => s.gl = 0
    /\ \A r, s \in sources : r.gl # 0 /\ r.gl = s.gl => Key(r) = Key(s)
    /\ \A c, d \in challans : c.id = d.id \/ (c.gl # 0 /\ c.gl = d.gl) => c = d
    /\ \A s \in sources, c \in challans : s.gl # 0 => s.gl # c.gl

\* What a receipt posted carries the receipt's number.
SourcesOwn ==
    \A s \in sources : s.gl # 0 =>
        /\ \E h \in headers : h.id = s.gl /\ h.no = <<s.kind, s.no>>
        /\ \E l \in legs : l.by = s.gl /\ l.no = <<s.kind, s.no>>

ChallansOwn ==
    \A c \in challans : c.gl # 0 => \E h \in headers : h.id = c.gl /\ h.no[1] \in {"TDS", "TCS"}

LegsOwned == \A l \in legs : \E h \in headers : h.id = l.by /\ h.no = l.no

HeadersOwned ==
    \A h \in headers :
        /\ h.type = "Jrnl" <=> h.no[1] = TDS
        /\ h.type = "Jrnl" \/ (\E s \in sources : s.gl = h.id) \/ (\E c \in challans : c.gl = h.id)

Owned ==
    HeadersFresh /\ OwnersDiffer /\ SourcesOwn /\ ChallansOwn /\ LegsOwned /\ HeadersOwned

\* Row s is what became of row r: the number of a row that posted nothing may differ.
Alike(r, s) ==
    r.kind = s.kind /\ r.id = s.id /\ r.gl = s.gl /\ (r.gl # 0 => r.no = s.no)

\* The books of vouchers stay as they are, and so do the rows that posted.
LEMMA OwnedQuiet ==
    ASSUME Typed, Owned, UNCHANGED <<headers, legs>>, last'.voucher = last.voucher,
           \A s \in sources' : s.gl = 0 \/ \E r \in sources : Alike(r, s),
           \A r \in sources : r.gl # 0 => \E s \in sources' : Alike(r, s),
           \A c \in challans' : c \in challans \/ c.gl = 0,
           \A c, d \in challans' : c.id = d.id => c = d,
           \A c \in challans : c.gl # 0 => c \in challans'
    PROVE  Owned'
<1>t. last.voucher \in Nat
  BY DEF Typed, TypeOK
<1>1. HeadersFresh'
  BY <1>t DEF Owned, HeadersFresh, Alike
<1>2. OwnersDiffer'
  BY DEF Owned, OwnersDiffer, Alike, Key
<1>3. SourcesOwn'
  <2> SUFFICES ASSUME NEW s \in sources', s.gl # 0
               PROVE  /\ \E h \in headers' : h.id = s.gl /\ h.no = <<s.kind, s.no>>
                      /\ \E l \in legs' : l.by = s.gl /\ l.no = <<s.kind, s.no>>
    BY DEF SourcesOwn
  <2>1. PICK r \in sources : Alike(r, s)
    OBVIOUS
  <2>2. r.gl = s.gl /\ r.kind = s.kind /\ r.no = s.no
    BY <2>1 DEF Alike
  <2> QED
    BY <2>2 DEF Owned, SourcesOwn
<1>4. ChallansOwn' /\ LegsOwned'
  BY DEF Owned, ChallansOwn, LegsOwned
<1>5. HeadersOwned'
  <2>1. \A h \in headers : h.id # 0
    BY DEF Owned, HeadersFresh
  <2> QED
    BY <2>1 DEF Owned, HeadersOwned, Alike
<1> QED
  BY <1>1, <1>2, <1>3, <1>4, <1>5 DEF Owned

\* A receipt posts behind a header of its own.
LEMMA OwnedReceipt ==
    ASSUME Typed, Owned, last'.voucher = last.voucher + 1, UNCHANGED challans,
           NEW type, type # "Jrnl", NEW fy, NEW new, new.kind # TDS, new.gl = last.voucher + 1,
           Posting(type, fy, <<new.kind, new.no>>), sources' = sources \cup {new}
    PROVE  Owned'
<1>t. /\ last.voucher \in Nat /\ \A h \in headers : h.id \in Nat
      /\ \A s \in sources : s.gl \in Nat
      /\ \A c \in challans : c.gl \in Nat
  BY DEF Typed, TypeOK, Row
<1> DEFINE head == [id |-> last.voucher + 1, type |-> type, fy |-> fy, no |-> <<new.kind, new.no>>]
           leg == [by |-> last.voucher + 1, fy |-> fy, no |-> <<new.kind, new.no>>]
<1>1. /\ headers' = headers \cup {head} /\ legs' = legs \cup {leg}
      /\ head.id = new.gl /\ head.type # "Jrnl" /\ head.no = <<new.kind, new.no>> /\ head.no[1] # TDS
      /\ leg.by = new.gl /\ leg.no = head.no
  BY DEF Posting
<1> HIDE DEF head, leg
<1>2. HeadersFresh'
  <2>1. \A h \in headers : h.id # head.id
    BY <1>1, <1>t DEF Owned, HeadersFresh
  <2> QED
    BY <1>1, <1>t, <2>1 DEF Owned, HeadersFresh
<1>3. OwnersDiffer'
  <2>1. \A s \in sources : s.gl # new.gl
    BY <1>t DEF Owned, HeadersFresh
  <2>2. \A c \in challans : c.gl # new.gl
    BY <1>t DEF Owned, HeadersFresh
  <2> QED
    BY <2>1, <2>2 DEF Owned, OwnersDiffer
<1>4. SourcesOwn'
  BY <1>1 DEF Owned, SourcesOwn
<1>5. ChallansOwn' /\ LegsOwned'
  BY <1>1 DEF Owned, ChallansOwn, LegsOwned
<1>6. HeadersOwned'
  BY <1>1 DEF Owned, HeadersOwned
<1> QED
  BY <1>2, <1>3, <1>4, <1>5, <1>6 DEF Owned

\* A challan posts behind a header of its own.
LEMMA OwnedChallan ==
    ASSUME Typed, Owned, last'.voucher = last.voucher + 1,
           \A s \in sources' : \E r \in sources : Alike(r, s),
           \A r \in sources : \E s \in sources' : Alike(r, s),
           NEW type, type # "Jrnl", NEW fy, NEW no, no[1] \in {"TDS", "TCS"},
           NEW new, new.gl = last.voucher + 1, \A c \in challans : c.id # new.id,
           Posting(type, fy, no), challans' = challans \cup {new}
    PROVE  Owned'
<1>t. /\ last.voucher \in Nat /\ \A h \in headers : h.id \in Nat
      /\ \A s \in sources : s.gl \in Nat
      /\ \A c \in challans : c.gl \in Nat
  BY DEF Typed, TypeOK, Row
<1> DEFINE head == [id |-> last.voucher + 1, type |-> type, fy |-> fy, no |-> no]
           leg == [by |-> last.voucher + 1, fy |-> fy, no |-> no]
<1>1. /\ headers' = headers \cup {head} /\ legs' = legs \cup {leg}
      /\ head.id = new.gl /\ head.type # "Jrnl" /\ head.no = no /\ no[1] # TDS
      /\ leg.by = new.gl /\ leg.no = head.no
  BY DEF Posting, TDS
<1> HIDE DEF head, leg
<1>2. HeadersFresh'
  <2>1. \A h \in headers : h.id # head.id
    BY <1>1, <1>t DEF Owned, HeadersFresh
  <2>2. \A s \in sources' : s.gl \in Nat /\ s.gl <= last.voucher
    BY <1>t DEF Owned, HeadersFresh, Alike
  <2> QED
    BY <1>1, <1>t, <2>1, <2>2 DEF Owned, HeadersFresh
<1>3. OwnersDiffer'
  <2>1. \A s \in sources' : s.gl # new.gl
    BY <1>t DEF Owned, HeadersFresh, Alike
  <2>2. \A c \in challans : c.gl # new.gl
    BY <1>t DEF Owned, HeadersFresh
  <2> QED
    BY <2>1, <2>2 DEF Owned, OwnersDiffer, Alike, Key
<1>4. SourcesOwn'
  <2> SUFFICES ASSUME NEW s \in sources', s.gl # 0
               PROVE  /\ \E h \in headers' : h.id = s.gl /\ h.no = <<s.kind, s.no>>
                      /\ \E l \in legs' : l.by = s.gl /\ l.no = <<s.kind, s.no>>
    BY DEF SourcesOwn
  <2>1. PICK r \in sources : Alike(r, s)
    OBVIOUS
  <2>2. r.gl = s.gl /\ r.kind = s.kind /\ r.no = s.no
    BY <2>1 DEF Alike
  <2>3. /\ \E h \in headers : h.id = r.gl /\ h.no = <<r.kind, r.no>>
        /\ \E l \in legs : l.by = r.gl /\ l.no = <<r.kind, r.no>>
    BY <2>2 DEF Owned, SourcesOwn
  <2> QED
    BY <1>1, <2>2, <2>3
<1>5. ChallansOwn' /\ LegsOwned'
  BY <1>1 DEF Owned, ChallansOwn, LegsOwned
<1>6. HeadersOwned'
  BY <1>1 DEF Owned, HeadersOwned, Alike
<1> QED
  BY <1>2, <1>3, <1>4, <1>5, <1>6 DEF Owned

\* A header goes with its owner, and the legs that go with it are nobody else's
\* but another challan's.
LEMMA OwnedUnposting ==
    ASSUME Owned, UNCHANGED last, NEW head \in headers, head.type # "Jrnl", Unposting(head.id),
           \A s \in sources' : \E r \in sources : Alike(r, s),
           \A s \in sources' : s.gl # 0 => s.gl # head.id /\ <<s.kind, s.no>> # head.no,
           \A r \in sources : r.gl # 0 /\ r.gl # head.id => \E s \in sources' : Alike(r, s),
           challans' \subseteq challans,
           \A c \in challans' : c.gl # 0 => c.gl # head.id,
           \A c \in challans : c.gl # 0 /\ c.gl # head.id => c \in challans'
    PROVE  Owned'
<1>1. /\ headers' = {h \in headers : h.id # head.id}
      /\ legs' = {l \in legs : l.no # head.no}
  <2>1. {h.no : h \in {x \in headers : x.id = head.id}} = {head.no}
    BY DEF Owned, HeadersFresh
  <2> QED
    BY <2>1 DEF Unposting
<1>2. HeadersFresh'
  BY <1>1 DEF Owned, HeadersFresh, Alike
<1>3. OwnersDiffer'
  BY DEF Owned, OwnersDiffer, Alike, Key
<1>4. SourcesOwn'
  <2> SUFFICES ASSUME NEW s \in sources', s.gl # 0
               PROVE  /\ \E h \in headers' : h.id = s.gl /\ h.no = <<s.kind, s.no>>
                      /\ \E l \in legs' : l.by = s.gl /\ l.no = <<s.kind, s.no>>
    BY DEF SourcesOwn
  <2>1. PICK r \in sources : Alike(r, s)
    OBVIOUS
  <2>2. r.gl = s.gl /\ r.kind = s.kind /\ r.no = s.no
    BY <2>1 DEF Alike
  <2>3. /\ \E h \in headers : h.id = r.gl /\ h.no = <<r.kind, r.no>>
        /\ \E l \in legs : l.by = r.gl /\ l.no = <<r.kind, r.no>>
    BY <2>2 DEF Owned, SourcesOwn
  <2>4. s.gl # head.id /\ <<s.kind, s.no>> # head.no
    OBVIOUS
  <2> QED
    BY <1>1, <2>2, <2>3, <2>4
<1>5. ChallansOwn'
  BY <1>1 DEF Owned, ChallansOwn
<1>6. LegsOwned'
  <2> SUFFICES ASSUME NEW l \in legs' PROVE \E h \in headers' : h.id = l.by /\ h.no = l.no
    BY DEF LegsOwned
  <2>1. PICK h \in headers : h.id = l.by /\ h.no = l.no
    BY <1>1 DEF Owned, LegsOwned
  <2>2. h.id # head.id
    BY <1>1, <2>1 DEF Owned, HeadersFresh
  <2> QED
    BY <1>1, <2>1, <2>2
<1>7. HeadersOwned'
  <2> SUFFICES ASSUME NEW h \in headers'
               PROVE  /\ h.type = "Jrnl" <=> h.no[1] = TDS
                      /\ \/ h.type = "Jrnl"
                         \/ \E s \in sources' : s.gl = h.id
                         \/ \E c \in challans' : c.gl = h.id
    BY DEF HeadersOwned
  <2>1. h \in headers /\ h.id # head.id /\ h.id # 0
    BY <1>1 DEF Owned, HeadersFresh
  <2> QED
    BY <2>1 DEF Owned, HeadersOwned, Alike
<1> QED
  BY <1>2, <1>3, <1>4, <1>5, <1>6, <1>7 DEF Owned

\* The postings with a number of nos go, and some come behind the headers ids.
Rewrites(nos, no, y, ids) ==
    /\ headers' = {h \in headers : h.no \notin nos} \cup
                     {[id |-> i, type |-> "Jrnl", fy |-> y, no |-> no] : i \in ids}
    /\ legs' = {l \in legs : l.no \notin nos} \cup {[by |-> i, fy |-> y, no |-> no] : i \in ids}

\* Saving or deleting TDS vouchers clears and writes postings with numbers of
\* their own series only.
LEMMA OwnedTds ==
    ASSUME Typed, Owned, last'.voucher \in Nat, UNCHANGED challans,
           \A s \in sources' : s.gl = 0 \/ \E r \in sources : Alike(r, s),
           \A r \in sources : r.gl # 0 => \E s \in sources' : Alike(r, s),
           NEW nos, \A x \in nos : x[1] = TDS, NEW no, no[1] = TDS, NEW y,
           NEW ids, ids \subseteq (last.voucher + 1)..last'.voucher, last.voucher <= last'.voucher,
           Rewrites(nos, no, y, ids)
    PROVE  Owned'
<1>t. /\ last.voucher \in Nat /\ \A h \in headers : h.id \in Nat
      /\ \A s \in sources : s.gl \in Nat
      /\ \A c \in challans : c.gl \in Nat
      /\ ids \subseteq Nat /\ \A i \in ids : last.voucher < i /\ i <= last'.voucher
  BY DEF Typed, TypeOK, Row
<1>1. \A h \in headers' : \/ h \in headers /\ h.no \notin nos
                          \/ h.id \in ids /\ h.type = "Jrnl" /\ h.no = no /\ h.fy = y
  BY DEF Rewrites
<1>2. \A h \in headers : h.no \notin nos => h \in headers'
  BY DEF Rewrites
<1>3. \A i \in ids : \E h \in headers' : h.id = i /\ h.no = no
  <2> TAKE i \in ids
  <2> DEFINE h == [id |-> i, type |-> "Jrnl", fy |-> y, no |-> no]
  <2>1. h \in headers' /\ h.id = i /\ h.no = no
    BY DEF Rewrites
  <2> QED
    BY <2>1
<1>4. \A l \in legs' : (l \in legs /\ l.no \notin nos) \/ (l.by \in ids /\ l.no = no)
  BY DEF Rewrites
<1>5. \A l \in legs : l.no \notin nos => l \in legs'
  BY DEF Rewrites
<1>6. HeadersFresh'
  <2>1. \A g, h \in headers' : g.id = h.id => g = h
    <3> SUFFICES ASSUME NEW g \in headers', NEW h \in headers', g.id = h.id PROVE g = h
      OBVIOUS
    <3>1. CASE g \in headers /\ h \in headers
      BY <3>1 DEF Owned, HeadersFresh
    <3>2. CASE g \in headers /\ h \notin headers
      BY <1>1, <1>t, <3>2 DEF Owned, HeadersFresh
    <3>3. CASE g \notin headers /\ h \in headers
      BY <1>1, <1>t, <3>3 DEF Owned, HeadersFresh
    <3>4. CASE g \notin headers /\ h \notin headers
      <4>1. \E i \in ids : g = [id |-> i, type |-> "Jrnl", fy |-> y, no |-> no]
        BY <3>4 DEF Rewrites
      <4>2. \E i \in ids : h = [id |-> i, type |-> "Jrnl", fy |-> y, no |-> no]
        BY <3>4 DEF Rewrites
      <4> QED
        BY <4>1, <4>2
    <3> QED
      BY <3>1, <3>2, <3>3, <3>4
  <2>2. \A h \in headers' : h.id # 0 /\ h.id <= last'.voucher
    <3> SUFFICES ASSUME NEW h \in headers' PROVE h.id # 0 /\ h.id <= last'.voucher
      OBVIOUS
    <3>1. CASE h \in headers
      BY <1>t, <3>1 DEF Owned, HeadersFresh
    <3>2. CASE h.id \in ids
      <4>1. \A i \in ids : i # 0 /\ i <= last'.voucher
        BY <1>t
      <4> QED
        BY <3>2, <4>1
    <3> QED
      BY <1>1, <3>1, <3>2
  <2>3. \A s \in sources' : s.gl \in Nat /\ s.gl <= last'.voucher
    <3> SUFFICES ASSUME NEW s \in sources' PROVE s.gl \in Nat /\ s.gl <= last'.voucher
      OBVIOUS
    <3>1. CASE s.gl = 0
      BY <3>1
    <3>2. CASE \E r \in sources : Alike(r, s)
      BY <1>t, <3>2 DEF Owned, HeadersFresh, Alike
    <3> QED
      BY <3>1, <3>2
  <2>4. \A c \in challans' : c.gl <= last'.voucher
    BY <1>t DEF Owned, HeadersFresh
  <2> QED
    BY <2>1, <2>2, <2>3, <2>4 DEF HeadersFresh
<1>7. OwnersDiffer'
  BY DEF Owned, OwnersDiffer, Alike, Key
<1>8. SourcesOwn'
  <2> SUFFICES ASSUME NEW s \in sources', s.gl # 0
               PROVE  /\ \E h \in headers' : h.id = s.gl /\ h.no = <<s.kind, s.no>>
                      /\ \E l \in legs' : l.by = s.gl /\ l.no = <<s.kind, s.no>>
    BY DEF SourcesOwn
  <2>1. PICK r \in sources : Alike(r, s)
    OBVIOUS
  <2>2. r.gl = s.gl /\ r.kind = s.kind /\ r.no = s.no
    BY <2>1 DEF Alike
  <2>3. /\ \E h \in headers : h.id = r.gl /\ h.no = <<r.kind, r.no>>
        /\ \E l \in legs : l.by = r.gl /\ l.no = <<r.kind, r.no>>
    BY <2>2 DEF Owned, SourcesOwn
  <2>4. r.kind # TDS
    BY <2>2 DEF Owned, OwnersDiffer
  <2>5. <<r.kind, r.no>> \notin nos
    BY <2>4
  <2> QED
    BY <1>2, <1>5, <2>2, <2>3, <2>5
<1>9. ChallansOwn'
  <2> SUFFICES ASSUME NEW c \in challans, c.gl # 0
               PROVE  \E h \in headers' : h.id = c.gl /\ h.no[1] \in {"TDS", "TCS"}
    BY DEF ChallansOwn
  <2>1. PICK h \in headers : h.id = c.gl /\ h.no[1] \in {"TDS", "TCS"}
    BY DEF Owned, ChallansOwn
  <2>2. h.no \notin nos
    BY <2>1 DEF TDS
  <2> QED
    BY <1>2, <2>1, <2>2
<1>10. LegsOwned'
  <2> SUFFICES ASSUME NEW l \in legs' PROVE \E h \in headers' : h.id = l.by /\ h.no = l.no
    BY DEF LegsOwned
  <2>1. CASE l \in legs /\ l.no \notin nos
    BY <1>2, <2>1 DEF Owned, LegsOwned
  <2>2. CASE l.by \in ids /\ l.no = no
    <3>1. \E h \in headers' : h.id = l.by /\ h.no = no
      BY <1>3, <2>2
    <3> QED
      BY <2>2, <3>1
  <2> QED
    BY <1>4, <2>1, <2>2
<1>11. HeadersOwned'
  <2> SUFFICES ASSUME NEW h \in headers'
               PROVE  /\ h.type = "Jrnl" <=> h.no[1] = TDS
                      /\ \/ h.type = "Jrnl"
                         \/ \E s \in sources' : s.gl = h.id
                         \/ \E c \in challans' : c.gl = h.id
    BY DEF HeadersOwned
  <2>1. CASE h \in headers
    <3>1. h.id # 0
      BY <2>1 DEF Owned, HeadersFresh
    <3> QED
      BY <2>1, <3>1 DEF Owned, HeadersOwned, Alike
  <2> QED
    BY <1>1, <2>1
<1> QED
  BY <1>6, <1>7, <1>8, <1>9, <1>10, <1>11 DEF Owned

LEMMA OwnedBooks == Owned /\ UNCHANGED books => Owned'
  BY DEF books, Owned, HeadersFresh, OwnersDiffer, SourcesOwn, ChallansOwn, LegsOwned, HeadersOwned, Key

LEMMA SaveReceiptKeepsOwned == Typed /\ Owned /\ SaveReceipt => Owned'
<1> SUFFICES ASSUME Typed, Owned, SaveReceipt PROVE Owned'
  OBVIOUS
<1> DEFINE t == Head(queue)
           no == <<t.kind, t.no>>
           gl == IF t.post THEN last.voucher + 1 ELSE 0
           new == [kind |-> t.kind, id |-> last.row[t.kind] + 1, no |-> t.no, fy |-> Label, gl |-> gl, dep |-> 0]
<1>1. t.kind \in ReceiptKinds /\ t.kind # TDS
  BY DEF SaveReceipt, ReceiptKinds, TDS
<1>2. CASE UNCHANGED books
  BY <1>2, OwnedBooks
<1>3. CASE ~ UNCHANGED books
  <2>1. /\ IF t.post THEN Posting(VoucherType(t.kind), Label, no) ELSE NoPosting
        /\ sources' = sources \cup {new} /\ UNCHANGED challans
        /\ last' = [last EXCEPT !.row[t.kind] = @ + 1, !.voucher = IF t.post THEN @ + 1 ELSE @]
    BY <1>3 DEF SaveReceipt, InsertSource
  <2>2. new.kind = t.kind /\ new.no = t.no /\ new.gl = gl
    OBVIOUS
  <2>3. last'.voucher = IF t.post THEN last.voucher + 1 ELSE last.voucher
    BY <2>1 DEF Typed, TypeOK
  <2>4. CASE t.post
    <3>1. VoucherType(t.kind) # "Jrnl" /\ gl = last.voucher + 1
      BY <1>1, <2>4 DEF VoucherType
    <3> HIDE DEF new, t, gl
    <3>2. Posting(VoucherType(t.kind), Label, <<new.kind, new.no>>)
      BY <2>1, <2>2, <2>4
    <3> QED
      BY <1>1, <2>1, <2>2, <2>3, <2>4, <3>1, <3>2, OwnedReceipt
  <2>5. CASE ~ t.post
    <3>1. UNCHANGED <<headers, legs>> /\ new.gl = 0 /\ last'.voucher = last.voucher
      BY <2>1, <2>3, <2>5 DEF NoPosting
    <3> HIDE DEF new, t, gl
    <3>2. \A c, d \in challans' : c.id = d.id => c = d
      BY <2>1 DEF Owned, OwnersDiffer
    <3>3. \A s \in sources' : s.gl = 0 \/ \E r \in sources : Alike(r, s)
      BY <2>1, <3>1 DEF Alike
    <3>4. \A r \in sources : \E s \in sources' : Alike(r, s)
      BY <2>1 DEF Alike
    <3> QED
      BY <2>1, <3>1, <3>2, <3>3, <3>4, OwnedQuiet
  <2> QED
    BY <2>4, <2>5
<1> QED
  BY <1>2, <1>3

LEMMA DeleteReceiptKeepsOwned ==
    Typed /\ KeysFresh /\ ReceiptNumbersDiffer /\ Owned /\ DeleteReceipt => Owned'
<1> SUFFICES ASSUME Typed, KeysFresh, ReceiptNumbersDiffer, Owned, DeleteReceipt PROVE Owned'
  OBVIOUS
<1> DEFINE t == Head(queue)
           rows == {s \in sources : Key(s) = <<t.kind, t.id>>}
           row == CHOOSE s \in rows : TRUE
<1>1. /\ t.kind \in ReceiptKinds /\ t.kind # TDS
      /\ sources' = sources \ rows /\ UNCHANGED <<challans, last>>
  BY DEF DeleteReceipt, ReceiptKinds, TDS
<1>2. \A s \in rows : s = row /\ s \in sources /\ s.kind = t.kind
  BY DEF KeysFresh, Key
<1>3. CASE \E s \in rows : s.gl # 0
  <2>1. row \in sources /\ row \in rows /\ row.gl # 0 /\ row.kind = t.kind /\ Unposting(row.gl)
    BY <1>2, <1>3 DEF DeleteReceipt
  <2>2. PICK head \in headers : head.id = row.gl /\ head.no = <<row.kind, row.no>>
    BY <2>1 DEF Owned, SourcesOwn
  <2>3. head.type # "Jrnl"
    BY <1>1, <2>1, <2>2 DEF Owned, HeadersOwned
  <2>4. \A s \in sources' : s.gl # 0 => s.gl # head.id /\ <<s.kind, s.no>> # head.no
    <3> SUFFICES ASSUME NEW s \in sources', s.gl # 0
                 PROVE  s.gl # head.id /\ <<s.kind, s.no>> # head.no
      OBVIOUS
    <3>1. s \in sources /\ Key(s) # Key(row)
      BY <1>1, <2>1
    <3>2. s.gl # head.id
      BY <2>1, <2>2, <3>1 DEF Owned, OwnersDiffer
    <3>3. CASE <<s.kind, s.no>> = head.no
      <4>1. s.kind = row.kind /\ s.no = row.no
        BY <2>2, <3>3
      <4>2. s.id = row.id
        BY <1>1, <2>1, <3>1, <4>1 DEF ReceiptNumbersDiffer
      <4> QED
        BY <3>1, <4>1, <4>2 DEF Key
    <3> QED
      BY <3>2, <3>3
  <2>5. \A c \in challans : c.gl # head.id
    BY <2>1, <2>2 DEF Owned, OwnersDiffer
  <2>6. \A r \in sources : r.gl # 0 /\ r.gl # head.id => \E s \in sources' : Alike(r, s)
    <3> SUFFICES ASSUME NEW r \in sources, r.gl # head.id PROVE r \in sources' /\ Alike(r, r)
      OBVIOUS
    <3>1. r # row
      BY <2>2
    <3> QED
      BY <1>1, <1>2, <3>1 DEF Alike
  <2>7. \A s \in sources' : \E r \in sources : Alike(r, s)
    BY <1>1 DEF Alike
  <2> HIDE DEF row, rows, t
  <2> QED
    BY <1>1, <2>1, <2>2, <2>3, <2>4, <2>5, <2>6, <2>7, OwnedUnposting
<1>4. CASE \A s \in rows : s.gl = 0
  <2>1. UNCHANGED <<headers, legs>>
    BY <1>4 DEF DeleteReceipt, NoPosting
  <2>2. \A c, d \in challans' : c.id = d.id => c = d
    BY <1>1 DEF Owned, OwnersDiffer
  <2>3. \A s \in sources' : s.gl = 0 \/ \E r \in sources : Alike(r, s)
    BY <1>1 DEF Alike
  <2>4. \A r \in sources : r.gl # 0 => \E s \in sources' : Alike(r, s)
    <3> SUFFICES ASSUME NEW r \in sources, r.gl # 0 PROVE r \in sources' /\ Alike(r, r)
      OBVIOUS
    <3> QED
      BY <1>1, <1>4 DEF Alike
  <2> HIDE DEF row, rows, t
  <2> QED
    BY <1>1, <2>1, <2>2, <2>3, <2>4, OwnedQuiet
<1> QED
  BY <1>3, <1>4

LEMMA TdsKeepsOwned == Typed /\ Typed' /\ Owned /\ (SaveTds \/ DeleteTds) => Owned'
<1> SUFFICES ASSUME Typed, Typed', Owned, SaveTds \/ DeleteTds PROVE Owned'
  OBVIOUS
<1> DEFINE t == Head(queue)
<1>t. last.voucher \in Nat /\ last'.voucher \in Nat /\ sources \subseteq Row
  BY DEF Typed, TypeOK
<1>1. CASE UNCHANGED books
  BY <1>1, OwnedBooks
<1>2. CASE SaveTds /\ ~ UNCHANGED books
  <2> DEFINE ids == IF t.post THEN {last.voucher + 1, last.voucher + 2} ELSE {}
             nos == {TdsNo(t.no)}
             no == TdsNo(t.no)
  <2>1. /\ headers' = OtherHeaders(t.no) \cup
               (IF t.post THEN {[id |-> i, type |-> "Jrnl", fy |-> t.fy, no |-> no] :
                                    i \in {last.voucher + 1, last.voucher + 2}}
                          ELSE {})
        /\ legs' = OtherLegs(t.no) \cup
               (IF t.post THEN {[by |-> i, fy |-> t.fy, no |-> no] :
                                    i \in {last.voucher + 1, last.voucher + 2}} ELSE {})
        /\ UNCHANGED challans
    BY <1>2 DEF SaveTds
  <2>2. Rewrites(nos, no, t.fy, ids)
    <3>1. CASE t.post
      BY <2>1, <3>1 DEF OtherHeaders, OtherLegs, Rewrites
    <3>2. CASE ~ t.post
      BY <2>1, <3>2 DEF OtherHeaders, OtherLegs, Rewrites
    <3> QED
      BY <3>1, <3>2
  <2>3. last'.voucher = IF t.post THEN last.voucher + 2 ELSE last.voucher
    BY <1>2 DEF SaveTds, Typed, TypeOK
  <2>4. ids \subseteq (last.voucher + 1)..last'.voucher /\ last.voucher <= last'.voucher
    BY <1>t, <2>3
  <2>5. no[1] = TDS /\ \A x \in nos : x[1] = TDS
    BY DEF TdsNo
  <2>6. /\ \A s \in sources' : s.gl = 0 \/ \E r \in sources : Alike(r, s)
        /\ \A r \in sources : r.gl # 0 => \E s \in sources' : Alike(r, s)
    <3>1. CASE sources' = UpdateTds(t)
      <4> DEFINE upd(s) == IF Key(s) = <<TDS, t.id>> THEN [s EXCEPT !.fy = t.fy, !.no = t.no] ELSE s
      <4>1. \A s \in sources : Alike(s, upd(s))
        <5> TAKE s \in sources
        <5>1. CASE Key(s) = <<TDS, t.id>>
          <6>1. s.gl = 0
            BY <5>1 DEF Owned, OwnersDiffer, Key
          <6> QED
            BY <1>t, <5>1, <6>1 DEF Alike, Row
        <5>2. CASE Key(s) # <<TDS, t.id>>
          BY <5>2 DEF Alike
        <5> QED
          BY <5>1, <5>2
      <4>2. sources' = {upd(s) : s \in sources}
        BY <3>1 DEF UpdateTds
      <4> HIDE DEF upd, t
      <4> QED
        BY <4>1, <4>2
    <3>2. CASE InsertSource(TDS, t.no, t.fy, 0)
      <4> DEFINE new == [kind |-> TDS, id |-> last.row[TDS] + 1, no |-> t.no, fy |-> t.fy, gl |-> 0, dep |-> 0]
      <4>1. sources' = sources \cup {new} /\ new.gl = 0
        BY <3>2 DEF InsertSource
      <4> HIDE DEF new
      <4> QED
        BY <4>1 DEF Alike
    <3> QED
      BY <1>2, <3>1, <3>2 DEF SaveTds
  <2> HIDE DEF ids, nos, no, t
  <2> QED
    BY <1>t, <2>1, <2>2, <2>4, <2>5, <2>6, OwnedTds
<1>3. CASE DeleteTds
  <2> DEFINE rows == {s \in sources : Key(s) = <<TDS, t.id>>}
             nos == {TdsNo(s.no) : s \in rows}
             ids == {}
  <2>1. /\ Rewrites(nos, TdsNo(0), 0, ids)
        /\ sources' = sources \ rows /\ UNCHANGED <<challans, last>>
    BY <1>3 DEF DeleteTds, Rewrites
  <2>2. TdsNo(0)[1] = TDS /\ \A x \in nos : x[1] = TDS
    BY DEF TdsNo
  <2>3. \A s \in rows : s.gl = 0
    BY DEF Owned, OwnersDiffer, Key
  <2>4. \A s \in sources' : s.gl = 0 \/ \E r \in sources : Alike(r, s)
    BY <2>1 DEF Alike
  <2>5. \A r \in sources : r.gl # 0 => \E s \in sources' : Alike(r, s)
    <3> SUFFICES ASSUME NEW r \in sources, r.gl # 0 PROVE r \in sources' /\ Alike(r, r)
      OBVIOUS
    <3> QED
      BY <2>1, <2>3 DEF Alike
  <2>6. ids \subseteq (last.voucher + 1)..last'.voucher /\ last.voucher <= last'.voucher
    BY <1>t, <2>1
  <2> HIDE DEF nos, rows, ids
  <2> QED
    BY <1>t, <2>1, <2>2, <2>4, <2>5, <2>6, OwnedTds
<1> QED
  BY <1>1, <1>2, <1>3

LEMMA ChallanKeepsOwned == Typed /\ KeysFresh /\ Owned /\ (SaveChallan \/ DeleteChallan) => Owned'
<1> SUFFICES ASSUME Typed, KeysFresh, Owned, SaveChallan \/ DeleteChallan PROVE Owned'
  OBVIOUS
<1> DEFINE t == Head(queue)
<1>t. last.voucher \in Nat /\ last.challan \in Nat /\ sources \subseteq Row
  BY DEF Typed, TypeOK
<1>1. CASE UNCHANGED books
  BY <1>1, OwnedBooks
<1>2. ASSUME NEW items, NEW c, sources' = Mark(items, c) \/ sources' = Release(items)
      PROVE  /\ \A s \in sources' : \E r \in sources : Alike(r, s)
             /\ \A r \in sources : \E s \in sources' : Alike(r, s)
  <2>1. \A r, s : Same(r, s) => Alike(r, s)
    BY DEF Same, Alike
  <2>2. /\ \A s \in sources' : \E r \in sources : Same(r, s)
        /\ \A r \in sources : \E s \in sources' : Same(r, s)
    BY <1>2, <1>t, MarkRows
  <2> QED
    BY <2>1, <2>2
<1>3. CASE SaveChallan /\ ~ UNCHANGED books
  <2> DEFINE no == <<t.type, t.no>>
             c == last.challan + 1
             new == [id |-> c, gl |-> IF t.post THEN last.voucher + 1 ELSE 0, items |-> t.items]
  <2>1. /\ IF t.post THEN Posting("PAYMENT", Label, no) ELSE NoPosting
        /\ challans' = challans \cup {new} /\ sources' = Mark(t.items, c)
        /\ last'.voucher = IF t.post THEN last.voucher + 1 ELSE last.voucher
    BY <1>3 DEF SaveChallan, Typed, TypeOK
  <2>2. new.id = last.challan + 1 /\ new.gl = IF t.post THEN last.voucher + 1 ELSE 0
    OBVIOUS
  <2>3. t.type \in {"TDS", "TCS"}
    <3>1. Run(t, "saveChallan", ~ (t.post /\ Taken("PAYMENT", Label, no)))
      BY <1>3 DEF SaveChallan
    <3>2. t \in Task /\ t.op = "saveChallan"
      BY <3>1, RunTyped
    <3> QED
      BY <3>2 DEF Task, SaveTask, DeleteTask, ChallanTask, UndoTask
  <2>4. /\ \A s \in sources' : \E r \in sources : Alike(r, s)
        /\ \A r \in sources : \E s \in sources' : Alike(r, s)
    BY <1>2, <2>1
  <2>5. \A d \in challans : d.id # new.id
    <3>1. \A d \in challans : d.id \in Nat /\ d.id <= last.challan
      BY DEF Typed, TypeOK, KeysFresh
    <3> HIDE DEF new
    <3> QED
      BY <1>t, <2>2, <3>1
  <2>6. no[1] \in {"TDS", "TCS"}
    BY <2>3
  <2> HIDE DEF new, no, t
  <2>7. CASE t.post
    BY <2>1, <2>2, <2>4, <2>5, <2>6, <2>7, OwnedChallan
  <2>8. CASE ~ t.post
    <3>1. UNCHANGED <<headers, legs>> /\ new.gl = 0 /\ last'.voucher = last.voucher
      BY <2>1, <2>2, <2>8 DEF NoPosting
    <3>2. \A d, e \in challans' : d.id = e.id => d = e
      BY <2>1, <2>5 DEF Owned, OwnersDiffer
    <3> QED
      BY <2>1, <2>4, <3>1, <3>2, OwnedQuiet
  <2> QED
    BY <2>7, <2>8
<1>4. CASE DeleteChallan
  <2> DEFINE rows == {c \in challans : c.id = t.id}
             row == CHOOSE c \in rows : TRUE
  <2>1. /\ sources' = Release(UNION {c.items : c \in rows})
        /\ challans' = challans \ rows /\ UNCHANGED last
    BY <1>4 DEF DeleteChallan
  <2>2. /\ \A s \in sources' : \E r \in sources : Alike(r, s)
        /\ \A r \in sources : \E s \in sources' : Alike(r, s)
    <3> HIDE DEF rows
    <3> QED
      BY <1>2, <2>1
  <2>3. \A c \in rows : c = row /\ c \in challans
    BY DEF Owned, OwnersDiffer
  <2>4. CASE \E c \in rows : c.gl # 0
    <3>1. row \in challans /\ row \in rows /\ row.gl # 0 /\ Unposting(row.gl)
      BY <1>4, <2>3, <2>4 DEF DeleteChallan
    <3>2. PICK head \in headers : head.id = row.gl /\ head.no[1] \in {"TDS", "TCS"}
      BY <3>1 DEF Owned, ChallansOwn
    <3>3. head.type # "Jrnl"
      BY <3>2 DEF Owned, HeadersOwned, TDS
    <3>4. \A c \in challans : c.gl = head.id => c = row
      BY <3>1, <3>2 DEF Owned, OwnersDiffer
    <3>5. \A s \in sources' : s.gl # 0 => s.gl # head.id /\ <<s.kind, s.no>> # head.no
      <4> SUFFICES ASSUME NEW s \in sources', s.gl # 0
                   PROVE  s.gl # head.id /\ <<s.kind, s.no>> # head.no
        OBVIOUS
      <4>1. PICK r \in sources : Alike(r, s)
        BY <2>2
      <4>2. r.gl = s.gl /\ r.kind = s.kind /\ r.gl # 0
        BY <4>1 DEF Alike
      <4>3. r.gl # head.id
        BY <3>1, <3>2, <4>2 DEF Owned, OwnersDiffer
      <4>4. s.kind \in Kinds
        BY <1>t, <4>2 DEF Row
      <4>5. <<s.kind, s.no>>[1] \notin {"TDS", "TCS"}
        BY <4>4, TaxConstants DEF ReceiptKinds, TDS
      <4> QED
        BY <3>2, <4>2, <4>3, <4>5
    <3>6. /\ challans' \subseteq challans
          /\ \A c \in challans' : c.gl # head.id
          /\ \A c \in challans : c.gl # head.id => c \in challans'
      BY <2>1, <2>3, <3>1, <3>2, <3>4
    <3> HIDE DEF row, rows, t
    <3> QED
      BY <2>1, <2>2, <3>1, <3>2, <3>3, <3>5, <3>6, OwnedUnposting
  <2>5. CASE \A c \in rows : c.gl = 0
    <3>1. UNCHANGED <<headers, legs>>
      BY <1>4, <2>5 DEF DeleteChallan, NoPosting
    <3>2. \A c, d \in challans' : c.id = d.id => c = d
      BY <2>1 DEF Owned, OwnersDiffer
    <3>3. \A c \in challans : c.gl # 0 => c \in challans'
      BY <2>1, <2>5
    <3>4. \A c \in challans' : c \in challans
      BY <2>1
    <3> HIDE DEF row, rows, t
    <3> QED
      BY <2>1, <2>2, <3>1, <3>2, <3>3, <3>4, OwnedQuiet
  <2> QED
    BY <2>4, <2>5
<1> QED
  BY <1>1, <1>3, <1>4

LEMMA OwnedStep == TaxInv /\ Owned /\ [Next]_vars => Owned'
<1> SUFFICES ASSUME TaxInv, Owned, [Next]_vars PROVE Owned'
  OBVIOUS
<1>1. Typed /\ KeysFresh /\ ReceiptNumbersDiffer /\ Typed'
  BY NumberingStep DEF TaxInv, Numbering
<1>2. CASE UNCHANGED vars \/ Ui \/ TaskFails
  BY <1>2, UiReadsOnly, OwnedBooks DEF vars, TaskFails
<1>3. CASE SaveReceipt \/ DeleteReceipt
  BY <1>1, <1>3, SaveReceiptKeepsOwned, DeleteReceiptKeepsOwned
<1>4. CASE SaveTds \/ DeleteTds
  BY <1>1, <1>4, TdsKeepsOwned
<1>5. CASE SaveChallan \/ DeleteChallan
  BY <1>1, <1>5, ChallanKeepsOwned
<1> QED
  BY <1>2, <1>3, <1>4, <1>5 DEF Next, Worker

\* What receipts and challans posted is in the books as long as they are, and no
\* longer: the deletions, which clear the legs by number whatever their year,
\* take no other owner's header and leave no leg without its header.
THEOREM PostingsAreOwned == Spec => []PostingsOwned
<1>1. Init => TaxInv /\ Owned
  <2> SUFFICES ASSUME Init PROVE TaxInv /\ Owned
    OBVIOUS
  <2>1. TaxInv
    BY TypedInit, NumberingInit DEF TaxInv
  <2>2. sources = {} /\ challans = {} /\ headers = {} /\ legs = {}
    BY DEF Init
  <2> QED
    BY <2>1, <2>2 DEF Owned, HeadersFresh, OwnersDiffer, SourcesOwn, ChallansOwn, LegsOwned, HeadersOwned
<1>2. TaxInv /\ Owned /\ [Next]_vars => (TaxInv /\ Owned)'
  BY NumberingStep, OwnedStep
<1>3. TaxInv /\ Owned => PostingsOwned
  BY DEF Owned, SourcesOwn, ChallansOwn, LegsOwned, HeadersOwned, PostingsOwned
<1> QED
  BY <1>1, <1>2, <1>3, PTL DEF Spec
=============================================================================
