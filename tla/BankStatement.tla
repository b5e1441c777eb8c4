--------------------------- MODULE BankStatement ---------------------------
(***************************************************************************)
(* The import of bank statements: BankStatementController, its table of    *)
(* rows, and the screen.                                                   *)
(*                                                                         *)
(* A statement is a sequence of movements of one bank ledger.  Loading it  *)
(* marks the movements the books have already, by date, amount and side;   *)
(* the user ticks rows, picks accounts and a ledger, and posts what is     *)
(* ticked.  The books are looked at when the statement is loaded and not   *)
(* when it is posted.                                                      *)
(*                                                                         *)
(* Date and amount are one value, `what`.  Which ledger a narration finds, *)
(* and what is learned from the user's choices, is left open: any or none. *)
(* So is the filter: a button can meet any part of the rows.  Numbers are  *)
(* the subject of Vouchers.                                                *)
(***************************************************************************)
EXTENDS Integers, Sequences, FiniteSets, FiniteSetsExt

CONSTANTS
    Accounts,    \* names of ledgers
    NoLedger,    \* an account, or the text of the ledger box, that is empty
    Statements,  \* what the files hold: the ledger detected, and its movements
    Typed,       \* what the user enters, in a row or in the ledger box
    MaxLost,     \* bound on the legs of one posting that cannot be written
    MaxMoves     \* bound on the ids of vouchers

Sides == {"Dr", "Cr"}
Movement == [what : Nat, dir : {"deposit", "withdrawal"}]

ASSUME BankAssumption ==
    /\ NoLedger \notin Accounts
    /\ Statements \subseteq [bank : Accounts, moves : Seq(Movement)]
    /\ Typed \subseteq Accounts \cup {NoLedger}
    /\ MaxLost \in Nat /\ MaxMoves \in Nat

VARIABLES
    bankHeads,  \* vouchers; `from`, `dir` and `again` are history: the ledger, the
                \* direction and the mark of the row it was posted from
    bankLegs,   \* transactions
    bankIds,    \* the last id of a voucher
    bankLedger, \* m_bankLedgerName; NoLedger without rows, when nothing reads it
    allRows     \* m_allRows; `from` and `by` are history: the ledger the row was
                \* checked against, and the voucher it was found to repeat

bankTables == <<bankHeads, bankLegs, bankIds>>
bankVars == <<bankTables, bankLedger, allRows>>

Text == Accounts \cup {NoLedger}

\* The legs of a voucher, of which those in `sides` were written.
LegsOf(id, dr, cr, what, sides) ==
    {[by |-> id, side |-> s, what |-> what,
      party |-> IF s = "Dr" THEN dr ELSE cr,
      opposing |-> IF s = "Dr" THEN cr ELSE dr] : s \in sides}

BankInit ==
    /\ bankHeads = {} /\ bankLegs = {} /\ bankIds = 0
    /\ bankLedger = NoLedger
    /\ allRows = <<>>
-----------------------------------------------------------------------------
(* The check for duplicates *)

\* Mutant: the opposing account is not looked at.
LegMatchesParty(l, m, bank) ==
    /\ l.what = m.what
    /\ l.party = bank /\ l.side = (IF m.dir = "deposit" THEN "Dr" ELSE "Cr")

\* A deposit is a debit of the bank, seen from either leg of its voucher.
LegMatches(l, m, bank) ==
    /\ l.what = m.what
    /\ \/ l.party = bank /\ l.side = (IF m.dir = "deposit" THEN "Dr" ELSE "Cr")
       \/ l.opposing = bank /\ l.side = (IF m.dir = "deposit" THEN "Cr" ELSE "Dr")

Oldest(L) ==
    CHOOSE l \in L : \A k \in L : l.by < k.by \/ (l.by = k.by /\ (l.side = "Dr" \/ k = l))

\* The legs the first j movements are matched with, each with the oldest leg that
\* is left.
Matched(s) ==
    LET used[j \in 0..Len(s.moves)] ==
          IF j = 0 THEN {}
          ELSE LET free == {l \in bankLegs : LegMatches(l, s.moves[j], s.bank)} \ used[j - 1]
               IN  used[j - 1] \cup (IF free = {} THEN {} ELSE {Oldest(free)})
    IN  used

\* The party of a duplicate is recovered from the leg it was found by.
Recovered(found, bank, guess) ==
    LET others == {l.opposing : l \in found} \cup {l.party : l \in found}
    IN  IF others \subseteq {bank} THEN guess ELSE CHOOSE a \in others : a # bank

\* matchPartyFast: any ledger, or none, for each movement.
NarrationsFind(s) == [DOMAIN s.moves -> Text]

\* matchPartiesAndDuplicates, with the ledgers the narrations find.
Checked(s, guess) ==
    LET used == Matched(s) IN
    [j \in DOMAIN s.moves |->
        LET found == used[j] \ used[j - 1]
            m == s.moves[j]
            other == Recovered(found, s.bank, guess[j])
        IN  [move |-> m,
             from |-> s.bank,
             dr |-> IF m.dir = "deposit" THEN s.bank ELSE other,
             cr |-> IF m.dir = "deposit" THEN other ELSE s.bank,
             duplicate |-> found # {},
             selected |-> found = {} /\ other # NoLedger,
             by |-> IF found = {} THEN 0 ELSE (CHOOSE l \in found : TRUE).by]]

\* setBankLedger: a new name goes into the rows, the marks stay.
Rewritten(text) ==
    IF text = bankLedger THEN allRows
    ELSE [j \in DOMAIN allRows |->
            IF allRows[j].move.dir = "deposit" THEN [allRows[j] EXCEPT !.dr = text]
            ELSE [allRows[j] EXCEPT !.cr = text]]
-----------------------------------------------------------------------------
(* The screen *)

\* onSelectFileClicked.  The ledger detected in the file takes the place of the
\* one in the box, which the box does not learn.
LoadStatement ==
    \E s \in Statements :
        \E guess \in NarrationsFind(s) :
            /\ bankLedger' = s.bank
            /\ allRows' = Checked(s, guess)
            /\ UNCHANGED bankTables

\* A file that cannot be parsed leaves the rows of the last one.
LoadFails(text) ==
    /\ allRows # <<>>
    /\ bankLedger' = text
    /\ allRows' = Rewritten(text)
    /\ UNCHANGED bankTables

\* The box of a row.
Tick(j) ==
    /\ allRows' = [allRows EXCEPT ![j].selected = ~ @]
    /\ UNCHANGED <<bankTables, bankLedger>>

\* onSelectAllToggled, on the rows the filter shows.
SelectAll(shown, selected) ==
    /\ allRows' = [j \in DOMAIN allRows |->
                     IF j \in shown THEN [allRows[j] EXCEPT !.selected = selected]
                     ELSE allRows[j]]
    /\ UNCHANGED <<bankTables, bankLedger>>

DeselectDuplicates ==
    /\ allRows' = [j \in DOMAIN allRows |->
                     IF allRows[j].duplicate THEN [allRows[j] EXCEPT !.selected = FALSE]
                     ELSE allRows[j]]
    /\ UNCHANGED <<bankTables, bankLedger>>

\* A new account selects the row, a duplicate too.
PickAccount(j, side, text) ==
    /\ text # (IF side = "Dr" THEN allRows[j].dr ELSE allRows[j].cr)
    /\ allRows' = [allRows EXCEPT ![j] =
                     IF side = "Dr" THEN [@ EXCEPT !.dr = text, !.selected = TRUE]
                     ELSE [@ EXCEPT !.cr = text, !.selected = TRUE]]
    /\ UNCHANGED <<bankTables, bankLedger>>

\* resetForm, when the screen is opened.
OpenScreen ==
    /\ allRows' = <<>>
    /\ bankLedger' = NoLedger
    /\ UNCHANGED bankTables
-----------------------------------------------------------------------------
(* onPostSelectedClicked *)

SelectedIn(rows) == {j \in DOMAIN rows : rows[j].selected}

\* The rows are not touched but for the ledger when an account is missing or a
\* header is refused: everything is rolled back.
PostRefused(text) ==
    /\ SelectedIn(allRows) # {}
    /\ bankLedger' = text
    /\ allRows' = Rewritten(text)
    /\ UNCHANGED bankTables

\* Each selected row becomes a voucher, in their order.  Whether its legs and the
\* COMMIT succeed is not looked at.  The statement is loaded again, which detects
\* the ledger, and the form is reset.
PostSelected(text) ==
    LET rows == Rewritten(text)
        chosen == SelectedIn(rows)
        id(j) == bankIds + Cardinality({k \in chosen : k <= j})
    IN  /\ chosen # {}
        /\ \A j \in chosen : rows[j].dr # NoLedger /\ rows[j].cr # NoLedger
        /\ bankIds + Cardinality(chosen) <= MaxMoves
        /\ bankHeads' = bankHeads \cup
             {[id |-> id(j), dr |-> rows[j].dr, cr |-> rows[j].cr, what |-> rows[j].move.what,
               from |-> rows[j].from, dir |-> rows[j].move.dir,
               again |-> rows[j].duplicate] : j \in chosen}
        /\ \E lost \in SUBSET (chosen \X Sides) :
              /\ Cardinality(lost) <= MaxLost
              /\ bankLegs' = bankLegs \cup UNION
                   {LegsOf(id(j), rows[j].dr, rows[j].cr, rows[j].move.what,
                           {side \in Sides : <<j, side>> \notin lost}) : j \in chosen}
        /\ bankIds' = bankIds + Cardinality(chosen)
        /\ bankLedger' = NoLedger
        /\ allRows' = <<>>
-----------------------------------------------------------------------------
(* What other screens and other instances do to the books meanwhile *)

EnterVoucher(dr, cr, what) ==
    /\ dr # cr
    /\ bankIds < MaxMoves
    /\ bankIds' = bankIds + 1
    /\ bankHeads' = bankHeads \cup
         {[id |-> bankIds', dr |-> dr, cr |-> cr, what |-> what,
           from |-> NoLedger, dir |-> "none", again |-> FALSE]}
    /\ bankLegs' = bankLegs \cup LegsOf(bankIds', dr, cr, what, Sides)
    /\ UNCHANGED <<bankLedger, allRows>>

RemoveVoucher(h) ==
    /\ bankHeads' = bankHeads \ {h}
    /\ bankLegs' = {l \in bankLegs : l.by # h.id}
    /\ UNCHANGED <<bankIds, bankLedger, allRows>>
-----------------------------------------------------------------------------
Whats == UNION {{s.moves[j].what : j \in DOMAIN s.moves} : s \in Statements}

RowStep ==
    \/ \E j \in DOMAIN allRows :
          \/ Tick(j)
          \/ \E side \in Sides, text \in Typed : PickAccount(j, side, text)
    \/ \E shown \in SUBSET DOMAIN allRows, selected \in BOOLEAN : SelectAll(shown, selected)
    \/ DeselectDuplicates

BankNext ==
    \/ LoadStatement
    \/ RowStep
    \/ OpenScreen
    \/ \E text \in Typed :
          \/ LoadFails(text)
          \/ PostRefused(text)
          \/ PostSelected(text)
    \/ \E dr, cr \in Accounts, what \in Whats : EnterVoucher(dr, cr, what)
    \/ \E h \in bankHeads : RemoveVoucher(h)

BankSpec == BankInit /\ [][BankNext]_bankVars
-----------------------------------------------------------------------------
(* Properties *)

\* Rows, vouchers and legs have their types; a leg is one of its voucher's.
BankTypeOK ==
    /\ bankIds \in 0..MaxMoves
    /\ bankHeads \subseteq [id : 1..bankIds, dr : Accounts, cr : Accounts, what : Whats,
                            from : Text, dir : {"deposit", "withdrawal", "none"}, again : BOOLEAN]
    /\ \A g, h \in bankHeads : g.id = h.id => g = h
    /\ \A l \in bankLegs : \E h \in bankHeads :
          l \in LegsOf(h.id, h.dr, h.cr, h.what, Sides)
    /\ bankLedger \in Text
    /\ \A j \in DOMAIN allRows : allRows[j] \in
          [move : Movement, from : Accounts, dr : Text, cr : Text,
           duplicate : BOOLEAN, selected : BOOLEAN, by : 0..bankIds]

\* Vouchers posted from rows that were not marked, which move the ledger the rows
\* were checked against and show it in at least one leg.
PostedFrom(bank, m) ==
    {h \in bankHeads :
        /\ h.from = bank /\ ~ h.again
        /\ h.what = m.what /\ h.dir = m.dir
        /\ IF m.dir = "deposit" THEN h.dr = bank /\ h.cr # bank ELSE h.cr = bank /\ h.dr # bank
        /\ \E l \in bankLegs : l.by = h.id}

Times(s, m) == Cardinality({j \in DOMAIN s.moves : s.moves[j] = m})

\* "Never auto-select duplicates for posting": however often statements that
\* overlap are loaded and posted, with vouchers entered and deleted meanwhile and
\* legs lost, a movement is posted to the ledger it belongs to no more often than
\* a statement shows it, unless the user selects a row that is marked.
NotOverposted ==
    \A s \in Statements : \A j \in DOMAIN s.moves :
        LET m == s.moves[j] IN
        Cardinality(PostedFrom(s.bank, m)) <=
            Max({Times(t, m) : t \in {u \in Statements : u.bank = s.bank}})

\* "1-to-1 match against existing DB records": a voucher of the books excuses one
\* row of a statement.
MatchedOneToOne ==
    \A j, k \in DOMAIN allRows :
        j # k /\ allRows[j].duplicate /\ allRows[k].duplicate => allRows[j].by # allRows[k].by
=============================================================================
