----------------------------- MODULE TaxDeposit -----------------------------
(***************************************************************************)
(* The withheld-tax registers: TCS receipts, advances under 194-Q, TDS     *)
(* vouchers, the challans that deposit the tax, and what all of them post  *)
(* in the books.                                                           *)
(*                                                                         *)
(* Every save and every deletion is a task of the database worker: the     *)
(* screen takes a snapshot of its form, the worker runs the task as one    *)
(* transaction in the order of submission (see DbWorker), and the screen's *)
(* watcher handles the answer later.  Between the three steps the user can *)
(* work on other screens, or on the form that waits.                       *)
(*                                                                         *)
(* The legs of one voucher are one member of `legs`: every DELETE of this  *)
(* code takes all of them or none.  Amounts are left out, the trial        *)
(* balance is FyClose's subject.  `transactions.voucher_id` does not       *)
(* exist: the field `by` of a leg is history, no action reads it.          *)
(***************************************************************************)
EXTENDS Naturals, FiniteSets, Sequences, FiniteSetsExt

CONSTANTS
    Years,      \* financial_years, by id
    Kinds,      \* the registers in use
    ChallanNos, \* the numbers a user types for a challan
    Guarded,    \* the UNIQUE index on vouchers(type, year, number) exists
    Fails,      \* a transaction may fail
    MaxReceipts,\* bound on the ids of a register of receipts
    MaxTds,     \* bound on the ids of TDS vouchers
    MaxPosts,   \* bound on the headers a TDS voucher may be posted behind
    MaxChallans,\* bound on the ids of challans
    MaxTasks    \* bound on the tasks submitted and not yet handled by their form

ReceiptKinds == {"TCS_RECEIPT", "ADVANCE_194Q"}
TDS == "TDS_VOUCHER"

ASSUME TaxConstants ==
    /\ Years \subseteq Nat \ {0} /\ IsFiniteSet(Years) /\ Years # {}
    /\ Kinds \subseteq ReceiptKinds \cup {TDS}
    /\ ChallanNos \subseteq Nat
    /\ Guarded \in BOOLEAN /\ Fails \in BOOLEAN
    /\ MaxReceipts \in Nat /\ MaxTds \in Nat /\ MaxPosts \in Nat
    /\ MaxChallans \in Nat /\ MaxTasks \in Nat

\* A form that saves, a list that deletes, and the Delete button of the TDS
\* form: each has a watcher of its own and waits for one task.
Screens == ({"form", "list"} \X (Kinds \cup {"challan"})) \cup {<<"erase", k>> : k \in Kinds \cap {TDS}}

\* The screens whose finished handler changes the form.
Handlers == {s \in Screens : s[1] # "list" /\ s[2] \in Kinds}

VARIABLES
    active,   \* the year with is_active = 1; 0: none
    choice,   \* the year the user is activating; 0: none
    sources,  \* rows of tcs_receipt_vouchers, advance_payments_194q, tds_vouchers
    challans, \* tax_deposit_challans with their tax_deposit_challan_items
    headers,  \* vouchers
    legs,     \* transactions
    last,     \* sqlite_sequence: the last id of each table
    number,   \* the number the form of a register shows
    editing,  \* m_editVoucherId of the TDS form
    picked,   \* m_undepositedVouchers of the challan form
    queue,    \* tasks posted to the worker and not yet run
    answer    \* of each screen's last task: "none", "wait", "true", "false"

books == <<sources, challans, headers, legs, last>>
screens == <<number, editing, picked>>
vars == <<active, choice, books, screens, queue, answer>>
-----------------------------------------------------------------------------
(* Rows and numbers *)

Key(s) == <<s.kind, s.id>>

TaxType(kind) == IF kind = "TCS_RECEIPT" THEN "TCS" ELSE "TDS"

\* The year a save reads inside its transaction: the active one, else the last.
Label == IF active # 0 THEN active ELSE Max(Years)

\* The highest number a register has given, in all years or in one.
MaxOf(S) == IF S = {} THEN 0 ELSE Max(S)
NextReceiptNo(kind) == MaxOf({s.no : s \in {r \in sources : r.kind = kind}}) + 1
NextTdsNo == MaxOf({s.no : s \in {r \in sources : r.kind = TDS /\ r.fy = active}}) + 1
NextNo(kind) == IF kind = TDS THEN NextTdsNo ELSE NextReceiptNo(kind)

Undeposited(type) ==
    {Key(s) : s \in {r \in sources : r.dep = 0 /\ TaxType(r.kind) = type}}

VoucherType(kind) ==
    CASE kind = "TCS_RECEIPT" -> "RECEIPT"
      [] kind = TDS -> "Jrnl"
      [] OTHER -> "PAYMENT"

\* The UNIQUE index refuses a header of this type, year and number.
Taken(type, fy, no) ==
    Guarded /\ \E h \in headers : h.type = type /\ h.fy = fy /\ h.no = no

\* One header and its legs; no = <<series, number>>.
Posting(type, fy, no) ==
    /\ headers' = headers \cup {[id |-> last.voucher + 1, type |-> type, fy |-> fy, no |-> no]}
    /\ legs' = legs \cup {[by |-> last.voucher + 1, fy |-> fy, no |-> no]}

\* Mutant of Unposting: the legs are forgotten.
UnpostingHeader(gl) ==
    /\ headers' = {h \in headers : h.id # gl}
    /\ UNCHANGED legs

\* Mutant of Unposting: the header is forgotten.
UnpostingLegs(gl) ==
    /\ legs' = {l \in legs : \A h \in headers : h.id = gl => l.no # h.no}
    /\ UNCHANGED headers

\* The legs go by number, whatever their year; the header goes by id.
Unposting(gl) ==
    LET nos == {h.no : h \in {x \in headers : x.id = gl}}
    IN  /\ headers' = {h \in headers : h.id # gl}
        /\ legs' = {l \in legs : l.no \notin nos}

NoPosting == UNCHANGED <<headers, legs>>
-----------------------------------------------------------------------------
Init ==
    /\ active \in Years
    /\ choice = 0
    /\ sources = {} /\ challans = {} /\ headers = {} /\ legs = {}
    /\ last = [voucher |-> 0, challan |-> 0, row |-> [k \in Kinds |-> 0]]
    /\ number = [k \in Kinds |-> 1]
    /\ editing = 0
    /\ picked = {}
    /\ queue = << >>
    /\ answer = [s \in Screens |-> "none"]
-----------------------------------------------------------------------------
(* The UI thread: years *)

\* FiscalYearHelper::setActiveFiscalYear is two statements that commit one by
\* one; the UI thread does nothing else between them.
SelectYear(y) ==
    /\ choice = 0
    /\ active' = 0
    /\ choice' = y
    /\ UNCHANGED <<books, screens, queue, answer>>

SelectYearEnd ==
    /\ choice # 0
    /\ active' = choice
    /\ choice' = 0
    /\ UNCHANGED <<books, screens, queue, answer>>

-----------------------------------------------------------------------------
(* The UI thread: forms *)

\* A screen that submits again watches the new task only.
Submit(screen, task) ==
    /\ choice = 0
    /\ Len(queue) + Cardinality({s \in Screens : answer[s] \in {"true", "false"}}) < MaxTasks
    /\ queue' = Append(queue, task)
    /\ answer' = [answer EXCEPT ![screen] = "wait"]
    /\ UNCHANGED <<active, choice, books, screens>>

\* The rows the waiting saves of a form will add at most.
Waiting(kind) == Cardinality({i \in DOMAIN queue : queue[i].from = <<"form", kind>>})

\* Opening a form, or New: refused while a save of a receipt form is pending.
NewForm(kind) ==
    /\ choice = 0
    /\ kind \in ReceiptKinds => answer[<<"form", kind>>] = "none"
    /\ number' = [number EXCEPT ![kind] = NextNo(kind)]
    /\ editing' = IF kind = TDS THEN 0 ELSE editing
    /\ UNCHANGED <<active, choice, books, picked, queue, answer>>

\* Only the TDS form opens a stored row.
OpenTds(s) ==
    /\ choice = 0
    /\ s \in sources /\ s.kind = TDS
    /\ number' = [number EXCEPT ![TDS] = s.no]
    /\ editing' = s.id
    /\ UNCHANGED <<active, choice, books, picked, queue, answer>>

\* Mutant of ClickSave: a receipt form that takes a click while it saves.
ClickSaveAgain(kind, post) ==
    /\ last.row[kind] + Waiting(kind) < (IF kind = TDS THEN MaxTds ELSE MaxReceipts)
    /\ Submit(<<"form", kind>>,
              [op |-> "save", from |-> <<"form", kind>>, kind |-> kind, post |-> post,
               no |-> number[kind], fy |-> active, id |-> 0])

\* The receipt forms refuse a second save while one is pending.  The TDS form
\* disables its buttons, but not their shortcuts.  The date of a TDS voucher
\* lies in the year that is active at the click and gives the label; the others
\* carry no year.
ClickSave(kind, post) ==
    /\ kind \in ReceiptKinds => answer[<<"form", kind>>] = "none"
    /\ \/ kind = TDS /\ editing # 0
       \/ last.row[kind] + Waiting(kind) < (IF kind = TDS THEN MaxTds ELSE MaxReceipts)
    /\ kind = TDS /\ post => last.voucher < MaxPosts
    /\ Submit(<<"form", kind>>,
              [op |-> "save", from |-> <<"form", kind>>, kind |-> kind, post |-> post,
               no |-> number[kind], fy |-> active, id |-> IF kind = TDS THEN editing ELSE 0])

\* A list deletes a row it shows, one at a time.
ClickDelete(s) ==
    /\ s \in sources
    /\ answer[<<"list", s.kind>>] = "none"
    /\ Submit(<<"list", s.kind>>,
              [op |-> "delete", from |-> <<"list", s.kind>>, kind |-> s.kind, id |-> s.id])

\* The TDS form deletes the row it edits.
ClickErase ==
    /\ TDS \in Kinds
    /\ editing # 0
    /\ Submit(<<"erase", TDS>>,
              [op |-> "delete", from |-> <<"erase", TDS>>, kind |-> TDS, id |-> editing])

\* fetchUndepositedVouchers, from setTaxType or the Fetch button.
FetchSources(type) ==
    /\ choice = 0
    /\ picked' = Undeposited(type)
    /\ UNCHANGED <<active, choice, books, number, editing, queue, answer>>

\* The list is of one tax type; the user unticks what he likes and may type
\* any number.  Without a tick the challan pays interest only.
ClickSaveChallan(type, n, post, items) ==
    /\ answer[<<"form", "challan">>] = "none"
    /\ last.challan < MaxChallans
    /\ items \subseteq picked
    /\ \A k \in picked : TaxType(k[1]) = type
    /\ Submit(<<"form", "challan">>,
              [op |-> "saveChallan", from |-> <<"form", "challan">>, type |-> type,
               no |-> n, post |-> post, items |-> items])

ClickDeleteChallan(c) ==
    /\ answer[<<"list", "challan">>] = "none"
    /\ c \in challans
    /\ Submit(<<"list", "challan">>,
              [op |-> "deleteChallan", from |-> <<"list", "challan">>, id |-> c.id])

\* onSaveFinished, onDeleteFinished: a form that saved (or erased) is reset and
\* shows the next number.  The challan form keeps what it shows.
Finished(screen) ==
    /\ choice = 0
    /\ screen \in Handlers /\ answer[screen] \in {"true", "false"}
    /\ answer' = [answer EXCEPT ![screen] = "none"]
    /\ IF answer[screen] = "true"
       THEN /\ number' = [number EXCEPT ![screen[2]] = NextNo(screen[2])]
            /\ editing' = IF screen[2] = TDS THEN 0 ELSE editing
       ELSE UNCHANGED <<number, editing>>
    /\ UNCHANGED <<active, choice, books, picked, queue>>
-----------------------------------------------------------------------------
(* The worker: one transaction per task *)

\* Task t at the head of the queue is answered ok, to nobody if its screen has
\* submitted another one since.  A screen whose handler only redraws is ready
\* for its next task at once.
Run(t, op, ok) ==
    /\ queue # << >>
    /\ t = Head(queue)
    /\ t.op = op
    /\ queue' = Tail(queue)
    /\ answer' = IF \E i \in DOMAIN Tail(queue) : Tail(queue)[i].from = t.from THEN answer
                 ELSE [answer EXCEPT ![t.from] = IF t.from \notin Handlers THEN "none"
                                                 ELSE IF ok THEN "true" ELSE "false"]
    /\ UNCHANGED <<active, choice, screens>>

\* Mutant of InsertSource: the label is the active year, without a fallback.
InsertSourceActive(kind, no, fy, gl) ==
    sources' = sources \cup
        {[kind |-> kind, id |-> last.row[kind] + 1, no |-> no, fy |-> active, gl |-> gl, dep |-> 0]}

\* A new row of a register: undeposited, under the next id of its table.
InsertSource(kind, no, fy, gl) ==
    sources' = sources \cup
        {[kind |-> kind, id |-> last.row[kind] + 1, no |-> no, fy |-> fy, gl |-> gl, dep |-> 0]}

\* saveTcsIn, and the transaction of AdvancePayment194QWidget::onSaveClicked.
SaveReceipt ==
    LET t == Head(queue)
        no == <<t.kind, t.no>>
        refused == t.post /\ Taken(VoucherType(t.kind), Label, no)
    IN  /\ Run(t, "save", ~refused)
        /\ t.kind \in ReceiptKinds
        /\ IF refused
           THEN UNCHANGED books
           ELSE /\ IF t.post THEN Posting(VoucherType(t.kind), Label, no) ELSE NoPosting
                /\ InsertSource(t.kind, t.no, Label, IF t.post THEN last.voucher + 1 ELSE 0)
                /\ last' = [last EXCEPT !.row[t.kind] = @ + 1,
                                        !.voucher = IF t.post THEN @ + 1 ELSE @]
                /\ UNCHANGED challans

\* deleteTcsIn, and the list of advances: nobody asks whether the row is
\* deposited, and a row that is gone is no failure.
DeleteReceipt ==
    LET t == Head(queue)
        rows == {s \in sources : Key(s) = <<t.kind, t.id>>}
    IN  /\ Run(t, "delete", TRUE)
        /\ t.kind \in ReceiptKinds
        /\ sources' = sources \ rows
        /\ IF \E s \in rows : s.gl # 0
           THEN Unposting((CHOOSE s \in rows : TRUE).gl)
           ELSE NoPosting
        /\ UNCHANGED <<challans, last>>

\* The number of a TDS voucher alone identifies what it posted, and what its
\* clean-up leaves, whatever the year.
TdsNo(n) == <<TDS, n>>
OtherHeaders(n) == {h \in headers : h.no # TdsNo(n)}

\* Mutant of OtherLegs: the old legs stay.
OtherLegsKept(n) == legs

OtherLegs(n) == {l \in legs : l.no # TdsNo(n)}

\* Mutant of UpdateTds: the edit writes the whole row anew.
UpdateTdsWhole(t) ==
    {IF Key(s) = <<TDS, t.id>> THEN [s EXCEPT !.fy = t.fy, !.no = t.no, !.dep = 0] ELSE s : s \in sources}

\* An edit writes every column of the form, and not the deposit mark; a row
\* that is gone is no failure.
UpdateTds(t) ==
    {IF Key(s) = <<TDS, t.id>> THEN [s EXCEPT !.fy = t.fy, !.no = t.no] ELSE s : s \in sources}

\* TdsModel::save_tds_voucher_in.  The row is updated or inserted, the postings of its number are cleared and, if asked
\* for, written again: a header for each of at least two legs, all of the same
\* type, year and number.  The UNIQUE index refuses the second of them, the
\* error stays with the transaction and the worker rolls it back.
SaveTds ==
    LET t == Head(queue)
        refused == t.post /\ Guarded
        ids == {last.voucher + 1, last.voucher + 2}
    IN  /\ Run(t, "save", ~refused)
        /\ t.kind = TDS
        /\ IF refused
           THEN UNCHANGED books
           ELSE /\ IF t.id # 0
                   THEN sources' = UpdateTds(t)
                   ELSE InsertSource(TDS, t.no, t.fy, 0)
                /\ headers' = OtherHeaders(t.no) \cup
                      (IF t.post THEN {[id |-> i, type |-> "Jrnl", fy |-> t.fy, no |-> TdsNo(t.no)] : i \in ids}
                                 ELSE {})
                /\ legs' = OtherLegs(t.no) \cup
                      (IF t.post THEN {[by |-> i, fy |-> t.fy, no |-> TdsNo(t.no)] : i \in ids} ELSE {})
                /\ last' = [last EXCEPT !.row[TDS] = IF t.id = 0 THEN @ + 1 ELSE @,
                                        !.voucher = IF t.post THEN @ + 2 ELSE @]
                /\ UNCHANGED challans

\* TdsModel::delete_tds_voucher_in: false when the row is gone.
DeleteTds ==
    LET t == Head(queue)
        rows == {s \in sources : Key(s) = <<TDS, t.id>>}
        nos == {TdsNo(s.no) : s \in rows}
    IN  /\ Run(t, "delete", rows # {})
        /\ t.kind = TDS
        /\ sources' = sources \ rows
        /\ headers' = {h \in headers : h.no \notin nos}
        /\ legs' = {l \in legs : l.no \notin nos}
        /\ UNCHANGED <<challans, last>>

\* Each ticked source gets an item and the challan's id, whether or not
\* another challan has it by now, and an item even if it is gone.
Mark(items, c) ==
    {IF Key(s) \in items THEN [s EXCEPT !.dep = c] ELSE s : s \in sources}

\* saveChallanIn.
SaveChallan ==
    LET t == Head(queue)
        no == <<t.type, t.no>>
        refused == t.post /\ Taken("PAYMENT", Label, no)
        c == last.challan + 1
    IN  /\ Run(t, "saveChallan", ~refused)
        /\ IF refused
           THEN UNCHANGED books
           ELSE /\ IF t.post THEN Posting("PAYMENT", Label, no) ELSE NoPosting
                /\ challans' = challans \cup
                      {[id |-> c, gl |-> IF t.post THEN last.voucher + 1 ELSE 0, items |-> t.items]}
                /\ sources' = Mark(t.items, c)
                /\ last' = [last EXCEPT !.challan = c,
                                        !.voucher = IF t.post THEN @ + 1 ELSE @]

\* Mutant of Release: the marks stay.
ReleaseNothing(items) == sources

\* Every source of the challan's items is released, whichever challan it
\* carries by now.
Release(items) ==
    {IF Key(s) \in items THEN [s EXCEPT !.dep = 0] ELSE s : s \in sources}

\* deleteChallanIn; a challan that is gone is no failure.
DeleteChallan ==
    LET t == Head(queue)
        rows == {c \in challans : c.id = t.id}
    IN  /\ Run(t, "deleteChallan", TRUE)
        /\ sources' = Release(UNION {c.items : c \in rows})
        /\ challans' = challans \ rows
        /\ IF \E c \in rows : c.gl # 0
           THEN Unposting((CHOOSE c \in rows : TRUE).gl)
           ELSE NoPosting
        /\ UNCHANGED last

\* The transaction does not begin, because the other connection holds the file
\* for longer than the worker waits, or one of its statements fails and
\* everything is rolled back.
TaskFails ==
    /\ Fails
    /\ queue # << >>
    /\ Run(Head(queue), Head(queue).op, FALSE)
    /\ UNCHANGED books
-----------------------------------------------------------------------------
Ui ==
    \/ \E y \in Years : SelectYear(y)
    \/ SelectYearEnd
    \/ \E k \in Kinds : NewForm(k)
    \/ \E s \in sources : OpenTds(s) \/ ClickDelete(s)
    \/ ClickErase
    \/ \E k \in Kinds, post \in BOOLEAN : ClickSave(k, post)
    \/ \E type \in {TaxType(k) : k \in Kinds} : FetchSources(type)
    \/ \E type \in {TaxType(k) : k \in Kinds}, n \in ChallanNos, post \in BOOLEAN,
          items \in SUBSET picked : ClickSaveChallan(type, n, post, items)
    \/ \E c \in challans : ClickDeleteChallan(c)
    \/ \E screen \in Screens : Finished(screen)

Worker ==
    \/ SaveReceipt \/ DeleteReceipt
    \/ SaveTds \/ DeleteTds
    \/ SaveChallan \/ DeleteChallan
    \/ TaskFails

Next == Ui \/ Worker

Spec == Init /\ [][Next]_vars
-----------------------------------------------------------------------------
Row == [kind : Kinds, id : Nat, no : Nat, fy : Years, gl : Nat, dep : Nat]
Number == (Kinds \cup {"TDS", "TCS"}) \X Nat

\* Every table and every form holds what its columns and fields can hold.
TypeOK ==
    /\ active \in Years \cup {0} /\ choice \in Years \cup {0}
    /\ sources \subseteq Row
    /\ challans \subseteq [id : Nat, gl : Nat, items : SUBSET (Kinds \X Nat)]
    /\ headers \subseteq [id : Nat, type : {"RECEIPT", "PAYMENT", "Jrnl"}, fy : Years, no : Number]
    /\ legs \subseteq [by : Nat, fy : Years, no : Number]
    /\ last \in [voucher : Nat, challan : Nat, row : [Kinds -> Nat]]
    /\ number \in [Kinds -> Nat] /\ editing \in Nat /\ picked \subseteq Kinds \X Nat
    /\ answer \in [Screens -> {"none", "wait", "true", "false"}]

\* A source is marked deposited only by a challan that exists and lists it:
\* deleteChallanIn and saveChallanIn keep the registers and the items in step
\* although they never look at one another's marks.
MarkIsBacked ==
    \A s \in sources : s.dep # 0 => \E c \in challans : c.id = s.dep /\ Key(s) \in c.items

\* Only saving or deleting a challan changes the deposit mark of a source:
\* editing a deposited TDS voucher, which rewrites the row and its postings,
\* neither releases it nor deposits it.
MarksMoveWithChallans ==
    [][\A r \in sources, s \in sources' :
          Key(r) = Key(s) /\ r.dep # s.dep => challans' # challans]_vars

\* What receipts and challans posted is in the books as long as they are, and
\* no longer: the deletions by number take nobody else's legs, over any number
\* of years.  (A challan's number is typed: its legs can go with another
\* year's challan of that number, its header cannot.)
PostingsOwned ==
    /\ \A s \in sources : s.gl # 0 => (\E h \in headers : h.id = s.gl) /\ (\E l \in legs : l.by = s.gl)
    /\ \A c \in challans : c.gl # 0 => \E h \in headers : h.id = c.gl
    /\ \A l \in legs : \E h \in headers : h.id = l.by
    /\ \A h \in headers : h.type # "Jrnl" =>
          (\E s \in sources : s.gl = h.id) \/ (\E c \in challans : c.gl = h.id)

\* Two receipts of a register never carry one number: the form computes it on
\* the UI connection while the worker may still hold the save before it
\* (tcs_receipt_voucher_widget.cpp, "receipt_no not committed yet").
ReceiptNumbersDiffer ==
    \A r, s \in sources :
        r.kind \in ReceiptKinds /\ r.kind = s.kind /\ r.no = s.no => r.id = s.id

\* The number a receipt is saved under is free in the books too, as long as the
\* save waits and whatever is saved, deleted or fails before it: the UNIQUE index
\* never refuses a receipt.
ReceiptNotRefused ==
    \A i \in DOMAIN queue :
        LET t == queue[i]
        IN  t.op = "save" /\ t.kind \in ReceiptKinds =>
                ~ Taken(VoucherType(t.kind), Label, <<t.kind, t.no>>)
=============================================================================
