------------------------------ MODULE Vouchers ------------------------------
(***************************************************************************)
(* Voucher entry: the journal, cash and cheque screens over VouchersModel, *)
(* the deletion of a row of a statement, and the repair of numbers.        *)
(*                                                                         *)
(* A voucher is a row of `vouchers` (its header) and rows of               *)
(* `transactions` (its legs) that are tied by number and type only.  Each  *)
(* table counts its own ids.  Every save posts one debit and one credit    *)
(* leg, whatever the form showed; amounts and parties are left out.  A     *)
(* date is the financial year it falls in.  Several instances of the       *)
(* program may have the file open; in each, one screen is open at a time   *)
(* and a call of the model is one step, its SQL being one transaction of   *)
(* the UI thread's connection.                                             *)
(***************************************************************************)
EXTENDS Naturals, Sequences, FiniteSets

CONSTANTS
    EntryYears, \* financial years
    Families,   \* the series the screens number in: see DisplayName
    Instances,  \* running instances of the program
    NoForm,     \* no voucher screen is open
    Files,      \* what a file may hold when it is opened: its vouchers, oldest first
    MaxHeader,  \* bound on the ids of headers
    MaxLeg      \* bound on the ids of legs

\* save_multi_row_voucher: the raw type is the family, voucher_type its display
\* name; cash and cheque payments share one.
DisplayName == [Pymt |-> "Payment", Rcpt |-> "Receipt",
                ChPt |-> "Payment", ChRt |-> "Receipt", Jrnl |-> "Journal"]

\* setVoucherMode: the other mode of the same screen.
OtherMode == [Pymt |-> "Rcpt", Rcpt |-> "Pymt",
              ChPt |-> "ChRt", ChRt |-> "ChPt", Jrnl |-> "Jrnl"]

\* "{yyYY}/{family}-{n}"
Number == [year : EntryYears, family : Families, n : Nat \ {0}]
Voucher == [no : Number, year : EntryYears, raw : Families]

\* A header, a leg and a form are vouchers with fields of their own.
VoucherOf(x) == [no |-> x.no, year |-> x.year, raw |-> x.raw]

ASSUME ConstantsAssumption ==
    /\ Families \subseteq DOMAIN DisplayName
    /\ MaxHeader \in Nat /\ MaxLeg \in Nat
    /\ Files \subseteq Seq(Voucher)

VARIABLES
    headers,     \* vouchers: the rows
    voucherLegs, \* transactions: the rows
    nextHeader,  \* the AUTOINCREMENT counters
    nextLeg,
    unique,      \* uq_vouchers_type_fy_no exists; otherwise a plain index does
    locked,      \* the locked years
    entry,       \* the voucher screen of each instance
    book,        \* history: the vouchers the users have asked for
    touched      \* history: a voucher was altered, deleted or renumbered

voucherTables == <<headers, voucherLegs, nextHeader, nextLeg>>
voucherVars == <<headers, voucherLegs, nextHeader, nextLeg, unique, locked, entry, book, touched>>

Header(id, v) == [id |-> id, no |-> v.no, year |-> v.year, raw |-> v.raw]
Leg(id, v) == [id |-> id, no |-> v.no, year |-> v.year, raw |-> v.raw]

Form(id, v) == [id |-> id, no |-> v.no, year |-> v.year, raw |-> v.raw]

\* The legs of one save have consecutive ids, the debit first.
Partner(id) == IF id % 2 = 1 THEN id + 1 ELSE id - 1

\* Mutant: the credit leg could not be written and nobody looked.
DebitFrom(id, v) == {Leg(id, v)}

LegsFrom(id, v) == {Leg(id, v), Leg(id + 1, v)}

SameType(x, y) == DisplayName[x.raw] = DisplayName[y.raw]

\* The key of the index: voucher_type, financial_year, voucher_no.
SameKey(x, y) == SameType(x, y) /\ x.year = y.year /\ x.no = y.no

\* Headers that are not the oldest with their key.
Extras(H) == {h \in H : \E g \in H : g.id < h.id /\ SameKey(g, h)}
-----------------------------------------------------------------------------
(* Numbering *)

\* get_next_voucher_no counts the rows of the year with the family's aliases,
\* by type or by number; the aliases of the cheque families include the display
\* name they share with cash.
Counted(h, s, y) ==
    /\ h.year = y
    /\ \/ h.raw = s
       \/ h.no.family = s
       \/ s \in {"ChPt", "ChRt"} /\ DisplayName[h.raw] = DisplayName[s]

\* Mutant: the number last given out.
LastNo(s, y) ==
    LET used == {0} \cup {h.no.n : h \in {g \in headers : Counted(g, s, y)}}
        last == CHOOSE n \in used : \A u \in used : u <= n
    IN  [year |-> y, family |-> s, n |-> IF last = 0 THEN 1 ELSE last]

NextNo(s, y) ==
    LET used == {0} \cup {h.no.n : h \in {g \in headers : Counted(g, s, y)}}
        last == CHOOSE n \in used : \A u \in used : u <= n
    IN  [year |-> y, family |-> s, n |-> last + 1]

\* Mutant: there is no guard.
NeverTaken(id, v) == FALSE

\* The index refuses a header with key v and another id.
Taken(id, v) == unique /\ \E h \in headers : h.id # id /\ SameKey(h, v)

VouchersInit ==
    \E F \in Files :
        /\ headers = {Header(k, F[k]) : k \in DOMAIN F}
        /\ voucherLegs = UNION {LegsFrom(2 * k - 1, F[k]) : k \in DOMAIN F}
        /\ nextHeader = Len(F) + 1
        /\ nextLeg = 2 * Len(F) + 1
        /\ unique = (Extras(headers) = {})
        /\ locked = {}
        /\ entry = [i \in Instances |-> NoForm]
        /\ book = {F[k] : k \in DOMAIN F}
        /\ touched = (F # <<>>)
-----------------------------------------------------------------------------
(* The screens *)

Screens == UNCHANGED <<voucherTables, unique, locked, book, touched>>

\* resetForm, and updateFiscalYearAndVoucherNo for the date and mode the user picks:
\* the number is shown now and saved as it is shown.  Picking others is leaving the
\* form and opening it again.
OpenNew(i, s, y) ==
    LET v == [no |-> NextNo(s, y), year |-> y, raw |-> s]
    IN  /\ entry[i] = NoForm
        /\ entry' = [entry EXCEPT ![i] = Form(0, v)]
        /\ Screens

\* loadVoucherForEditing from a row of a statement or of the day book: the id the
\* form keeps is the id of a leg.
Load(i, l) ==
    /\ entry[i] = NoForm
    /\ entry' = [entry EXCEPT ![i] = Form(l.id, VoucherOf(l))]
    /\ Screens

Leave(i) ==
    /\ entry[i] # NoForm
    /\ entry' = [entry EXCEPT ![i] = NoForm]
    /\ Screens
-----------------------------------------------------------------------------
(* save_multi_row_voucher; a save that is refused changes nothing *)

Writable(y) == y \notin locked   \* writeBlockReason is empty

\* A voucher without id: header and legs are inserted.
SaveNew(i) ==
    LET f == entry[i]
        v == VoucherOf(f)
    IN  /\ f # NoForm /\ f.id = 0
        /\ nextHeader <= MaxHeader /\ nextLeg < MaxLeg
        /\ Writable(f.year)
        /\ ~ Taken(nextHeader, v)
        /\ headers' = headers \cup {Header(nextHeader, v)}
        /\ nextHeader' = nextHeader + 1
        /\ voucherLegs' = voucherLegs \cup LegsFrom(nextLeg, v)
        /\ nextLeg' = nextLeg + 2
        /\ entry' = [entry EXCEPT ![i] = NoForm]
        /\ book' = book \cup {v}
        /\ UNCHANGED <<unique, locked, touched>>

\* Mutant: the lock of the date it is moved from is read.
SaveEditOldDate(i, s, y) ==
    LET f == entry[i]
        v == [no |-> f.no, year |-> y, raw |-> s]
        target == {h \in headers : h.id = f.id}
        numbers == {f.no} \cup {h.no : h \in target}
    IN  /\ f # NoForm /\ f.id # 0
        /\ s \in {f.raw, OtherMode[f.raw]}
        /\ nextLeg < MaxLeg
        /\ Writable(f.year)
        /\ target # {} => ~ Taken(f.id, v)
        /\ headers' = (headers \ target) \cup {Header(h.id, v) : h \in target}
        /\ voucherLegs' = {l \in voucherLegs : ~ (l.no \in numbers /\ SameType(l, v))}
                   \cup LegsFrom(nextLeg, v)
        /\ nextLeg' = nextLeg + 2
        /\ entry' = [entry EXCEPT ![i] = NoForm]
        /\ book' = (book \ {VoucherOf(f)}) \cup {v}
        /\ touched' = TRUE
        /\ UNCHANGED <<nextHeader, unique, locked>>

\* A voucher with an id, saved with date y and mode s (onDateChanged and
\* setVoucherMode leave its number alone): the header with that id is overwritten,
\* if there is one, and the legs under its number and under the form's are deleted,
\* if they have the type that is saved now.
SaveEdit(i, s, y) ==
    LET f == entry[i]
        v == [no |-> f.no, year |-> y, raw |-> s]
        target == {h \in headers : h.id = f.id}
        numbers == {f.no} \cup {h.no : h \in target}
    IN  /\ f # NoForm /\ f.id # 0
        /\ s \in {f.raw, OtherMode[f.raw]}
        /\ nextLeg < MaxLeg
        /\ Writable(y)
        /\ target # {} => ~ Taken(f.id, v)
        /\ headers' = (headers \ target) \cup {Header(h.id, v) : h \in target}
        /\ voucherLegs' = {l \in voucherLegs : ~ (l.no \in numbers /\ SameType(l, v))}
                   \cup LegsFrom(nextLeg, v)
        /\ nextLeg' = nextLeg + 2
        /\ entry' = [entry EXCEPT ![i] = NoForm]
        /\ book' = (book \ {VoucherOf(f)}) \cup {v}
        /\ touched' = TRUE
        /\ UNCHANGED <<nextHeader, unique, locked>>
-----------------------------------------------------------------------------
(* delete_voucher *)

\* The user means voucher v; the header with the id goes, with the legs under its
\* number that have its type.
Erase(id, v) ==
    /\ \E h \in headers :
          /\ h.id = id
          /\ Writable(h.year)
          /\ headers' = headers \ {h}
          /\ voucherLegs' = {l \in voucherLegs : ~ (l.no = h.no /\ SameType(l, h))}
    /\ book' = book \ {v}
    /\ touched' = TRUE
    /\ UNCHANGED <<nextHeader, nextLeg, unique, locked>>

\* From the screen.
DeleteVoucher(i) ==
    /\ entry[i] # NoForm /\ entry[i].id # 0
    /\ Erase(entry[i].id, VoucherOf(entry[i]))
    /\ entry' = [entry EXCEPT ![i] = NoForm]

\* VoucherOps::deleteEntry on a row: get_voucher finds the newest leg with its
\* number, in the active year before any other.
DeleteRow(i, row) ==
    /\ entry[i] = NoForm
    /\ \E l \in voucherLegs :
          /\ l.no = row.no
          /\ \A k \in voucherLegs : k.no = l.no /\ k.year = l.year => k.id <= l.id
          /\ Erase(l.id, VoucherOf(row))
    /\ UNCHANGED entry
-----------------------------------------------------------------------------
(* Numbering repair and the guard *)

\* One pass of onRenumberClicked: a header that is not the oldest with its number
\* gets a fresh one, and so do all legs under the old number.
Renumber(i, h) ==
    LET fresh == NextNo(h.no.family, h.year)
        moved == {l \in voucherLegs : l.no = h.no /\ l.year = h.year /\ SameType(l, h)}
        anew(x) == [x EXCEPT !.no = fresh]
    IN  /\ entry[i] = NoForm
        /\ h \in Extras(headers)
        /\ headers' = (headers \ {h}) \cup {anew(h)}
        /\ voucherLegs' = (voucherLegs \ moved) \cup {anew(l) : l \in moved}
        /\ book' = book \cup {VoucherOf(anew(h))}
        /\ touched' = TRUE
        /\ UNCHANGED <<nextHeader, nextLeg, unique, locked, entry>>

\* ensureTablesExist, when an instance opens the file: without duplicates the
\* guard comes back.
Heal ==
    /\ ~ unique
    /\ Extras(headers) = {}
    /\ unique' = TRUE
    /\ UNCHANGED <<voucherTables, locked, entry, book, touched>>

\* A year is closed, or locked by hand.
Lock(y) ==
    /\ Writable(y)
    /\ locked' = locked \cup {y}
    /\ UNCHANGED <<voucherTables, unique, entry, book, touched>>
-----------------------------------------------------------------------------
Screen(i) ==
    \/ \E s \in Families, y \in EntryYears : OpenNew(i, s, y) \/ SaveEdit(i, s, y)
    \/ \E l \in voucherLegs : Load(i, l) \/ DeleteRow(i, l)
    \/ Leave(i)
    \/ SaveNew(i) \/ DeleteVoucher(i)
    \/ \E h \in headers : Renumber(i, h)

VouchersNext ==
    \/ \E i \in Instances : Screen(i)
    \/ Heal
    \/ \E y \in EntryYears : Lock(y)

VouchersSpec == VouchersInit /\ [][VouchersNext]_voucherVars
-----------------------------------------------------------------------------
(* Properties *)

Row == [id : Nat \ {0}, no : Number, year : EntryYears, raw : Families]
FormType == [id : Nat, no : Number, year : EntryYears, raw : Families]

\* Every variable has its type; the counters are past every id in use, so that no
\* id is given out twice.
VouchersTypeOK ==
    /\ headers \subseteq Row
    /\ voucherLegs \subseteq Row
    /\ nextHeader \in Nat \ {0} /\ \A h \in headers : h.id < nextHeader
    /\ nextLeg \in Nat \ {0} /\ \A l \in voucherLegs : l.id < nextLeg
    /\ \A x, y \in headers : x.id = y.id => x = y
    /\ \A x, y \in voucherLegs : x.id = y.id => x = y
    /\ unique \in BOOLEAN /\ touched \in BOOLEAN
    /\ locked \subseteq EntryYears
    /\ entry \in [Instances -> FormType \cup {NoForm}]
    /\ book \subseteq Voucher

\* "Sum of Dr = sum of Cr per voucher": the debit and the credit of a save have
\* one number, year and type for as long as one of them exists, although legs are
\* deleted and renumbered by number and type and never by voucher.
SavesAreWhole ==
    \A l \in voucherLegs : \E k \in voucherLegs : k.id = Partner(l.id) /\ VoucherOf(k) = VoucherOf(l)

\* As long as vouchers are only entered, by any number of instances whose forms
\* show numbers the others may have taken, the file holds what was entered: each
\* voucher once, one header and its two legs.
EntryIsExact ==
    ~ touched =>
        /\ {VoucherOf(h) : h \in headers} = book
        /\ {VoucherOf(l) : l \in voucherLegs} = book
        /\ \A g, h \in headers : VoucherOf(g) = VoucherOf(h) => g = h
        /\ \A k, l \in voucherLegs : VoucherOf(k) = VoucherOf(l) => k.id \in {l.id, Partner(l.id)}

\* A voucher can be moved out of a locked year, since the lock is checked on the
\* new date only, but no header and no leg ever comes into one.
LockedYearGainsNothing ==
    [][/\ \A h \in headers' : h.year \in locked =>
              \E g \in headers : g.id = h.id /\ g.year = h.year
       /\ \A l \in voucherLegs' : l.year \in locked =>
              \E k \in voucherLegs : k.id = l.id /\ k.year = l.year]_voucherVars

\* A pass of the repair takes one posting out of the duplicates and makes no new
\* one, whatever the numbers in the year look like, so the repair comes to its end.
RepairConverges ==
    [][\A i \in Instances, h \in headers :
          Renumber(i, h) => Cardinality(Extras(headers')) < Cardinality(Extras(headers))]_voucherVars

\* "Invoice lookups must run on numbers, never on a transactions-leg id that can
\* collide with a different invoice's id and open/delete the wrong voucher": the
\* headers are the vouchers the users asked for.
BooksAsAsked == {VoucherOf(h) : h \in headers} = book
=============================================================================
