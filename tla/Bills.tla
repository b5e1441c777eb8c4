------------------------------- MODULE Bills -------------------------------
(***************************************************************************)
(* PurchaseModel and SalesModel: bills and what they leave in five tables. *)
(*                                                                         *)
(* A bill has an id, a voucher number and an invoice number.  The first    *)
(* number is ours.  The second is the supplier's own on a purchase, which  *)
(* other suppliers and other years use as well; on a sale it is one of our *)
(* series, proposed or typed over, and UNIQUE in a year.  Header, stock    *)
(* and legs are found again by either number, and no table says which bill *)
(* a row belongs to.  A header can also be hit by the id of a bill, and a  *)
(* bill by the id of a leg.                                                *)
(*                                                                         *)
(* The two models are one program with other names; `kind` is the one that *)
(* is used.  Party, date and amounts are abstracted to `rev`, which tells  *)
(* one save from another.  Each method is one transaction of the UI        *)
(* thread; one that rolls back leaves no trace and is left out.            *)
(***************************************************************************)
EXTENDS Integers, FiniteSets, FiniteSetsExt

CONSTANTS
    Years,
    Kinds,       \* "Purchase", "Sales" or both
    Numbers,     \* invoice numbers
    LegsPerBill, \* the legs of one bill
    MaxOthers,   \* bound on the vouchers of other types the file holds
    MaxBills,    \* bound on the ids of bills
    MaxSaves     \* bound on the saves

ASSUME BillsConstants ==
    /\ Kinds \subseteq {"Purchase", "Sales"}
    /\ LegsPerBill \in Nat \ {0}
    /\ MaxOthers \in Nat /\ MaxBills \in Nat /\ MaxSaves \in Nat

VARIABLES
    kind,    \* the model that is used
    bills,   \* purchase_invoices, sales_invoices
    items,   \* purchase_invoice_items, sales_invoice_items: a save is one member
    heads,   \* vouchers of its type
    stock,   \* stock_transactions of its type: a save is one member
    legs,    \* transactions of its type: a save is one member
    tds,     \* tds_vouchers of type 194Q
    others,  \* vouchers of other types entered before the first bill
    entered, \* the last id of a bill
    saves,   \* history: the saves so far
    odd      \* history: "repeat", a bill was given a number another bill had;
             \* "move", one was moved to another year; "refused", an edit was
             \* refused by UNIQUE

tables == <<bills, items, heads, stock, legs, tds>>
vars == <<kind, tables, others, entered, saves, odd>>

\* The lines of a bill.
Line(r) == [bill |-> r.id, inv |-> r.inv, rev |-> r.rev]

\* Its stock rows and legs, under both numbers; ours, "2627/Purc-3", is <<the
\* year, 3>>.
Posting(r) == [fy |-> r.fy, vno |-> r.vno, inv |-> r.inv, rev |-> r.rev]

\* Both tables count up together.
HeadId(bill) == others + bill

\* Every save inserts its legs under the next ids.
LegIds(p) == {LegsPerBill * (others + p.rev - 1) + i : i \in 1 .. LegsPerBill}

\* LIMIT 1 without an order: no index serves these conditions, the table is
\* scanned in the order of its ids.
FirstById(S) == CHOOSE r \in S : \A s \in S : r.id <= s.id

\* Mutant: the bills of the year are counted.
NextVoucherNoByCount(fy) == <<fy, Cardinality({r \in bills : r.fy = fy}) + 1>>

\* Mutant: the highest number is given out again.
NextVoucherNoHighest(fy) == <<fy, Max({r.vno[2] : r \in {x \in bills : x.fy = fy}} \cup {0})>>

\* get_next_voucher_no: above every number of the year in bills and headers.
NextVoucherNo(fy) ==
    LET used == {r.vno[2] : r \in {x \in bills \cup heads : x.fy = fy}}
    IN  <<fy, Max(used \cup {0}) + 1>>

Init ==
    /\ kind \in Kinds
    /\ bills = {} /\ items = {} /\ heads = {} /\ stock = {} /\ legs = {} /\ tds = {}
    /\ others \in 0 .. MaxOthers
    /\ entered = 0
    /\ saves = 0
    /\ odd = {}

\* UNIQUE (financial_year, invoice_no) of sales_invoices.
Unique(S) ==
    kind = "Sales" => \A r, s \in S : r.fy = s.fy /\ r.inv = s.inv => r.id = s.id

\* What has to be said of a bill that gets the number inv.
Repeated(inv, S) == {x \in {"repeat"} : \E r \in S : r.inv = inv}
-----------------------------------------------------------------------------
(* What add and update write besides the bill and its header *)

\* Mutant: the old legs are found by our number only.
PostLegsByVoucherNo(p) == legs' = {l \in legs : l.vno # p.vno} \cup {p}

\* "Delete existing transaction splits if any for idempotency", of any year and
\* party, then insert.
PostLegs(p) == legs' = {l \in legs : l.vno # p.vno /\ l.inv # p.inv} \cup {p}

\* Tax deducted under 194-Q from a purchase is registered under our number.
Register(p, deducted) ==
    tds' = IF deducted /\ kind = "Purchase"
           THEN {d \in tds : d.vno # p.vno} \cup {[vno |-> p.vno, rev |-> p.rev]}
           ELSE tds

\* add_purchase_invoice_full, add_sales_invoice_full
Add(fy, inv, deducted) ==
    LET b == [id |-> entered + 1, fy |-> fy, vno |-> NextVoucherNo(fy), inv |-> inv, rev |-> saves + 1]
    IN  /\ entered < MaxBills /\ saves < MaxSaves
        /\ Unique(bills \cup {b})
        /\ bills' = bills \cup {b}
        /\ items' = items \cup {Line(b)}
        /\ heads' = heads \cup {[b EXCEPT !.id = HeadId(b.id)]}
        /\ stock' = stock \cup {Posting(b)}
        /\ PostLegs(Posting(b))
        /\ Register(b, deducted)
        /\ entered' = b.id
        /\ saves' = b.rev
        /\ odd' = odd \cup Repeated(inv, bills)
        /\ UNCHANGED <<kind, others>>
-----------------------------------------------------------------------------
(* update_purchase_invoice_full, update_sales_invoice_full *)

\* The row that is overwritten: the first of those with the id, or with one of
\* the numbers in the new year.
Target(b, fy, inv) ==
    FirstById({r \in bills : r.id = b.id \/ (r.fy = fy /\ (r.inv = inv \/ r.vno = b.vno))})

\* The header that is overwritten, when there is one and UNIQUE (type, year,
\* number) allows it.  Without one the INSERT leaves out account_type, which is
\* NOT NULL, and nobody looks at the result of either statement.
Rehead(t, new) ==
    LET found == {h \in heads : h.inv = new.inv \/ h.vno = new.vno \/ h.id = t.id}
        h == FirstById(found)
        taken == \E k \in heads \ {h} : k.fy = new.fy /\ k.vno = new.vno
    IN  heads' = IF found = {} \/ taken THEN heads
                 ELSE (heads \ {h}) \cup {[new EXCEPT !.id = h.id]}

\* Mutant: what the invoice number finds stays.
RestockByVoucherNo(p) == stock' = {s \in stock : s.vno # p.vno} \cup {p}

Restock(p) == stock' = {s \in stock : s.vno # p.vno /\ s.inv # p.inv} \cup {p}

\* Bill b on the screen is saved, perhaps with another number or in another year.
\* Nobody looks whether UNIQUE has refused the bill: the rest is written all the
\* same.
Update(b, fy, inv, deducted) ==
    LET t == Target(b, fy, inv)
        new == [id |-> t.id, fy |-> fy, vno |-> b.vno, inv |-> inv, rev |-> saves + 1]
        refused == ~ Unique((bills \ {t}) \cup {new})
    IN  /\ saves < MaxSaves
        /\ bills' = IF refused THEN bills ELSE (bills \ {t}) \cup {new}
        /\ items' = {l \in items : l.bill # t.id /\ l.inv # inv} \cup {Line(new)}
        /\ Rehead(t, new)
        /\ Restock(Posting(new))
        /\ PostLegs(Posting(new))
        /\ Register(new, deducted)
        /\ saves' = new.rev
        /\ odd' = odd \cup Repeated(inv, {r \in bills : r.id # b.id})
                      \cup {x \in {"move"} : fy # b.fy} \cup {x \in {"refused"} : refused}
        /\ UNCHANGED <<kind, others, entered>>
-----------------------------------------------------------------------------
(* delete_purchase_invoice, delete_sales_invoice *)

\* The bill of the id, every bill of the invoice number, and what either
\* number finds; the register of tax keeps its line.
DeleteInvoice(id, inv) ==
    LET vnos == {r.vno : r \in {x \in bills : x.id = id}}
        Kept(S) == {r \in S : r.inv # inv /\ r.vno \notin vnos}
    IN  /\ bills' = {r \in bills : r.id # id /\ r.inv # inv}
        /\ items' = {l \in items : l.bill # id /\ l.inv # inv}
        /\ heads' = Kept(heads)
        /\ stock' = Kept(stock)
        /\ legs' = Kept(legs)
        /\ UNCHANGED <<kind, tds, others, entered, saves, odd>>

\* On the voucher screen and in the register.
Delete(b) == DeleteInvoice(b.id, b.inv)

\* In a ledger statement, whose rows are legs: the id is the leg's.
DeleteFromLedger(p, leg) == DeleteInvoice(leg, p.inv)
-----------------------------------------------------------------------------
Next ==
    \/ \E fy \in Years, inv \in Numbers, deducted \in BOOLEAN :
          \/ Add(fy, inv, deducted)
          \/ \E b \in bills : Update(b, fy, inv, deducted)
    \/ \E b \in bills : Delete(b)
    \/ \E p \in legs : \E leg \in LegIds(p) : DeleteFromLedger(p, leg)

Spec == Init /\ [][Next]_vars
-----------------------------------------------------------------------------
VoucherNo == Years \X (Nat \ {0})
Postings == [fy : Years, vno : VoucherNo, inv : Numbers, rev : Nat]
Rows == [id : Nat, fy : Years, vno : VoucherNo, inv : Numbers, rev : Nat]

\* Every table holds what its columns and its index allow.
TypeOK ==
    /\ bills \subseteq Rows /\ heads \subseteq Rows
    /\ items \subseteq [bill : Nat, inv : Numbers, rev : Nat]
    /\ stock \subseteq Postings /\ legs \subseteq Postings
    /\ tds \subseteq [vno : VoucherNo, rev : Nat]
    /\ others \in Nat /\ entered \in Nat /\ saves \in Nat
    /\ kind \in Kinds /\ odd \subseteq {"repeat", "move", "refused"}
    /\ Unique(bills)

\* No money, no stock and no line without a bill: unless an edit was refused,
\* every posting and every line is that of the last save of a bill in the
\* register, also when a save or a deletion has hit the rows of other bills.
PostingsHaveBills ==
    "refused" \notin odd =>
        /\ \A p \in stock \cup legs : \E b \in bills : Posting(b) = p
        /\ \A l \in items : \E b \in bills : Line(b) = l

\* A bill is never posted or taxed twice: no two sets of legs share either
\* number, and a voucher number has one line in the register of tax.
PostedOnce ==
    /\ \A l, k \in legs : l.vno = k.vno \/ l.inv = k.inv => l = k
    /\ \A d, e \in tds : d.vno = e.vno => d = e

Posted(b) == Line(b) \in items /\ Posting(b) \in stock /\ Posting(b) \in legs

\* As long as no two bills have had one number and no bill has changed its year,
\* every bill is posted, whatever is saved, deleted and deleted by mistake.
DistinctBillsPosted == odd = {} => \A b \in bills : Posted(b)

\* "The same number legitimately repeats across suppliers/FYs": every bill is
\* posted.
EveryBillPosted == \A b \in bills : Posted(b)
=============================================================================
