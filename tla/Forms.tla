------------------------------- MODULE Forms -------------------------------
(***************************************************************************)
(* J-forms, I-forms, debit and credit notes and manufacturing batches:     *)
(* JFormModel, IFormModel, DebitCreditNoteController, ManufacturingModel.  *)
(*                                                                         *)
(* Each keeps a register, the items of its rows, a header in `vouchers`,   *)
(* legs in `transactions` (a batch has none) and, for a J-form, rows in    *)
(* `stock_transactions`.  The number is the program's own, the screens     *)
(* show it read-only, and the postings are found again by the number and   *)
(* the type of voucher alone.  The four types share no row, so `form` is   *)
(* the one that is used.                                                   *)
(*                                                                         *)
(* Party, date and amounts are abstracted to `rev`, which tells one save   *)
(* from another.  A save of a note is not one transaction in the code: the *)
(* UI thread is alone with these tables and nothing fails half-way here.   *)
(***************************************************************************)
EXTENDS Integers, FiniteSets, FiniteSetsExt

CONSTANTS
    FormKinds,    \* some of "JForm", "IForm", "Note", "Batch"
    FormYears,
    MaxForms,     \* bound on the ids of forms
    MaxFormSaves  \* bound on the saves

ASSUME FormsConstants ==
    /\ FormKinds \subseteq {"JForm", "IForm", "Note", "Batch"}
    /\ MaxForms \in Nat /\ MaxFormSaves \in Nat

VARIABLES
    form,       \* the kind of form that is used
    rows,       \* jform_vouchers, iform_vouchers, debit_credit_notes, manufacturing_batches
    formItems,  \* their items: a save is one member
    formHeads,  \* vouchers of the type
    formStock,  \* stock_transactions of the type: a save is one member
    formLegs,   \* transactions of the type: a save is one member
    formIds,    \* the last id of a row
    formSaves,  \* history: the saves so far
    formOdd     \* history: "shared", a form was saved under a number another
                \* form had; "renumbered", an edit changed a number; "toggled",
                \* an edit changed the type of a note; "moved", a batch changed
                \* its year; "ghost", a form was saved that is not there

formTables == <<rows, formItems, formHeads, formStock, formLegs>>
formVars == <<form, formTables, formIds, formSaves, formOdd>>

mandi == form \in {"JForm", "IForm"}

Types == IF form = "Note" THEN {"Credit Note", "Debit Note"} ELSE {form}

\* A number is <<type, n>>: "CN-0001" names the type it was made for.
Entry(r) == [type |-> r.type, fy |-> r.fy, no |-> r.no, rev |-> r.rev]

Item(r) == [id |-> r.id, rev |-> r.rev]

\* Mutant: the forms of the year are counted.
NextFormNoByCount(type, fy) == <<type, Cardinality({r \in rows : r.type = type /\ r.fy = fy}) + 1>>

\* Mutant: the largest number is given out again.
NextFormNoHighest(type, fy) == <<type, Max({r.no[2] : r \in {x \in rows : x.fy = fy}} \cup {0})>>

\* Forms and batches count in the year, notes from the last id of their type.
NextFormNo(type, fy) ==
    LET used == IF form = "Note" THEN {r.id : r \in {x \in rows : x.type = type}}
                ELSE {r.no[2] : r \in {x \in rows : x.fy = fy}}
    IN  <<type, Max(used \cup {0}) + 1>>

FormsInit ==
    /\ form \in FormKinds
    /\ rows = {} /\ formItems = {} /\ formHeads = {} /\ formStock = {} /\ formLegs = {}
    /\ formIds = 0
    /\ formSaves = 0
    /\ formOdd = {}
-----------------------------------------------------------------------------
(* Postings *)

\* Mutant: what another year posted under the number stays.
ClearedInYear(S, p) == {x \in S : x.no # p.no \/ x.fy # p.fy}

\* "Clear any prior postings for this voucher number (idempotent re-save)", of
\* any year.
Cleared(S, p) == {x \in S : x.no # p.no}

\* A new batch clears nothing; UNIQUE (type, year, number) would refuse it.
Post(p, new) ==
    /\ formHeads' = (IF form = "Batch" /\ new THEN formHeads ELSE Cleared(formHeads, p)) \cup {p}
    /\ formLegs' = IF form = "Batch" THEN formLegs ELSE Cleared(formLegs, p) \cup {p}
    /\ formStock' = IF form = "JForm" THEN Cleared(formStock, p) \cup {p} ELSE formStock

\* What has to be said of a save.
Oddities(no, others) == {x \in {"shared"} : \E r \in others : r.no = no}

\* save_jform_voucher, save_iform_voucher, saveNote, add_manufacturing_voucher:
\* a new form
SaveNewForm(type, fy) ==
    LET r == [id |-> formIds + 1, type |-> type, fy |-> fy, no |-> NextFormNo(type, fy),
              rev |-> formSaves + 1]
    IN  /\ formIds < MaxForms /\ formSaves < MaxFormSaves
        /\ form = "Batch" => \A h \in formHeads : h.fy # fy \/ h.no # r.no
        /\ rows' = rows \cup {r}
        /\ formItems' = formItems \cup {Item(r)}
        /\ Post(Entry(r), TRUE)
        /\ formIds' = r.id
        /\ formSaves' = r.rev
        /\ formOdd' = formOdd \cup Oddities(r.no, rows)
        /\ UNCHANGED form

\* The same on form o.  The screens of J-forms and I-forms do not pass the
\* number on, and the save takes the next one.
SaveForm(o, type, fy) ==
    LET r == [o EXCEPT !.type = type, !.fy = fy, !.rev = formSaves + 1,
                       !.no = IF mandi THEN NextFormNo(type, fy) ELSE o.no]
    IN  /\ formSaves < MaxFormSaves
        /\ rows' = (rows \ {o}) \cup {r}
        /\ formItems' = {i \in formItems : i.id # o.id} \cup {Item(r)}
        /\ Post(Entry(r), FALSE)
        /\ formSaves' = r.rev
        /\ formOdd' = formOdd \cup Oddities(r.no, rows \ {o})
              \cup {x \in {"renumbered"} : r.no # o.no}
              \cup {x \in {"toggled"} : type # o.type}
              \cup {x \in {"moved"} : form = "Batch" /\ fy # o.fy}
        /\ UNCHANGED <<form, formIds>>

\* The screen can hold the id of no form: that of a bill or of a stock row,
\* found for legs whose form has another number by now, or that of a note
\* deleted in the day book, from where the screen is entered without loading.
\* The UPDATE changes no row and succeeds, the items miss their foreign key,
\* and the postings are made.
SaveGhost(no, type, fy) ==
    LET p == [type |-> type, fy |-> fy, rev |-> formSaves + 1,
              no |-> IF mandi THEN NextFormNo(type, fy) ELSE no]
    IN  /\ formSaves < MaxFormSaves
        /\ Post(p, FALSE)
        /\ formSaves' = p.rev
        /\ formOdd' = formOdd \cup {"ghost"}
        /\ UNCHANGED <<form, rows, formItems, formIds>>

\* Legs that lead to no form by their number, taken as an id and as a number.
Lost(l) == \A r \in rows : r.id # l.no[2] /\ r.no # l.no

\* Mutant: no deletion looks for legs.
UnpostLegsStay(o) ==
    /\ formHeads' = {h \in formHeads : h.no # o.no}
    /\ formStock' = {s \in formStock : s.no # o.no}
    /\ UNCHANGED formLegs

\* The header of an I-form goes by number and date, its legs stay.
Unpost(o) ==
    /\ formHeads' = IF form = "IForm" THEN {h \in formHeads : h.no # o.no \/ h.fy # o.fy}
                    ELSE Cleared(formHeads, o)
    /\ formLegs' = IF form = "IForm" THEN formLegs ELSE Cleared(formLegs, o)
    /\ formStock' = Cleared(formStock, o)

\* delete_jform_voucher, delete_iform_voucher, deleteNote; batches cannot be
\* deleted.
DeleteForm(o) ==
    /\ form # "Batch"
    /\ rows' = rows \ {o}
    /\ formItems' = {i \in formItems : i.id # o.id}
    /\ Unpost(o)
    /\ UNCHANGED <<form, formIds, formSaves, formOdd>>
-----------------------------------------------------------------------------
FormsNext ==
    \/ \E type \in Types, fy \in FormYears :
          \/ SaveNewForm(type, fy)
          \/ \E o \in rows : SaveForm(o, type, fy)
          \/ mandi /\ \E l \in formLegs : Lost(l) /\ SaveGhost(l.no, type, fy)
          \/ /\ form = "Note" /\ formLegs # {}
             /\ \E t \in Types, n \in 1 .. formIds :
                   (\A r \in rows : r.no # <<t, n>>) /\ SaveGhost(<<t, n>>, type, fy)
    \/ \E o \in rows : DeleteForm(o)

FormsSpec == FormsInit /\ [][FormsNext]_formVars
-----------------------------------------------------------------------------
FormNo == Types \X (Nat \ {0})
Entries == [type : Types, fy : FormYears, no : FormNo, rev : Nat]

\* Every table holds what its columns and its index allow.
FormsTypeOK ==
    /\ rows \subseteq [id : Nat, type : Types, fy : FormYears, no : FormNo, rev : Nat]
    /\ formItems \subseteq [id : Nat, rev : Nat]
    /\ formHeads \subseteq Entries /\ formLegs \subseteq Entries /\ formStock \subseteq Entries
    /\ form \in FormKinds /\ formIds \in Nat /\ formSaves \in Nat
    /\ formOdd \subseteq {"shared", "renumbered", "toggled", "moved", "ghost"}
    /\ \A h, k \in formHeads : h.type = k.type /\ h.fy = k.fy /\ h.no = k.no => h = k

\* No number is posted twice, in one year or in two, whatever was saved again,
\* renumbered, deleted or saved without a form.
NumberPostedOnce ==
    \A S \in {formLegs, formStock} : \A p, q \in S : p.no = q.no => p = q

FormPosted(r) ==
    /\ Item(r) \in formItems /\ Entry(r) \in formHeads
    /\ form # "Batch" => Entry(r) \in formLegs
    /\ form = "JForm" => Entry(r) \in formStock

\* As long as no two forms have had one number and no form has changed its
\* number, every form is posted with its last save, and nothing else is; the
\* legs of a deleted I-form are the exception.
FormsPostedExactly ==
    {"shared", "renumbered", "ghost"} \cap formOdd = {} =>
        /\ \A r \in rows : FormPosted(r)
        /\ \A i \in formItems : \E r \in rows : Item(r) = i
        /\ \A p \in formHeads \cup formStock : \E r \in rows : Entry(r) = p
        /\ form # "IForm" => \A p \in formLegs : \E r \in rows : Entry(r) = p

\* Two forms that are there never have one number: forms in a year, whatever is
\* edited; batches in a year unless one was moved into it; notes at all, unless
\* the type of one was changed.
FormNumbersDiffer ==
    \A r, s \in rows : r.no = s.no =>
        \/ r = s
        \/ form # "Note" /\ r.fy # s.fy
        \/ "moved" \in formOdd \/ "toggled" \in formOdd
=============================================================================
