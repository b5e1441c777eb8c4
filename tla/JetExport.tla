----------------------------- MODULE JetExport -----------------------------
(***************************************************************************)
(* The exporter of the books to a Bahi-Khata file (exportViaLibMdb): it    *)
(* inserts the ledgers and the legs that the file has not, and adds what   *)
(* it inserted to the balances the ledgers bear.  It never takes anything  *)
(* out of the file, and runs again over what earlier exports have left.    *)
(*                                                                         *)
(* The dialog is modal, so that the books stand still; closing it waits a  *)
(* minute and then ends the thread, so that an export can be cut at any    *)
(* point.                                                                  *)
(*                                                                         *)
(* A voucher has two legs, and the vouchers of a year bear one date: those *)
(* of other dates never meet.  Journals, contra vouchers and TDS vouchers  *)
(* all go to the file as journals.  Names of parties are unique.  Company, *)
(* groups, openings, stock, transport and the register of TDS are left     *)
(* out, and so is the ODBC engine.                                         *)
(***************************************************************************)
EXTENDS Integers, Sequences, FiniteSets, FiniteSetsExt

CONSTANTS
    Imported,    \* the legacy codes of the parties the firm was imported with, by id
    MaxParties,  \* bound on the parties
    BookYears,   \* financial years
    Series,      \* series of vouchers: "Jrnl" and "TDS"
    VoucherNos,  \* numbers of vouchers, in each series and year
    MaxChanges,  \* bound on the saves and deletions of vouchers
    MaxExports,  \* bound on the exports
    MaxFaults    \* bound on what fails

ASSUME ExportConstants ==
    /\ Imported \in Seq(Nat \ {0}) /\ IsInjective(Imported)
    /\ BookYears \subseteq Nat /\ VoucherNos \subseteq Nat \ {0}
    /\ Series \subseteq {"Jrnl", "TDS"}
    /\ {MaxParties, MaxChanges, MaxExports, MaxFaults} \subseteq Nat

VARIABLES
    parties,  \* the legacy code of every party, by id; 0 is NULL
    book,     \* the vouchers, by the ids of their legs
    ledgers,  \* the ledgers of the file by code: party, balance, moved to another page
    txRows,   \* the rows of its Transactions: of each leg, how often it is there
    run,      \* the export that is under way
    touched,  \* history: the groups altered, or exported blindly, with legs in the file
    stale,    \* history: the codes whose balance missed something
    count     \* history: changes, exports and faults so far

exportVars == <<parties, book, ledgers, txRows, run, touched, stale, count>>

Idle == [years |-> {}, todo |-> {}, seen |-> {}, deltas |-> [c \in {} |-> 0], refused |-> FALSE, on |-> FALSE]

ExportInit ==
    /\ parties = Imported
    /\ book = [id \in {} |-> 0]
    /\ ledgers = [c \in {} |-> 0]
    /\ txRows = [r \in {} |-> 0]
    /\ run = Idle
    /\ touched = {} /\ stale = {}
    /\ count = [changes |-> 0, exports |-> 0, faults |-> 0]

Spend(what, n) == count' = [count EXCEPT ![what] = @ + n]
CanFail == count.faults < MaxFaults
-----------------------------------------------------------------------------
(* What an export makes of the books *)

\* COALESCE(legacy_id, id): the code of a party's ledger in the file.
LedgerCode(p) == IF parties[p] # 0 THEN parties[p] ELSE p

\* ac_code of a leg.  A journal stores a legacy code or NULL, a TDS voucher the
\* legacy code or the id; every other way to the code ends at the same NULL.
AcCode(series, p) == IF parties[p] = 0 /\ series = "Jrnl" THEN 0 ELSE LedgerCode(p)

Codes == {LedgerCode(p) : p \in DOMAIN parties}

\* Of two parties with one code the later row stays in partyMap.
Owner(c) == Max({p \in DOMAIN parties : LedgerCode(p) = c})

\* Vouchers of every series that have one number, date and year are one group.
Group(v) == <<v.fy, v.no>>

\* The groups of these years.
GroupsOf(years) == {Group(v) : v \in {w \in Range(book) : w.fy \in years}}

IdsOf(g) == {id \in DOMAIN book : Group(book[id]) = g}

\* The legs of a group, sorted by (row_no, id), get row numbers anew.
RowOf(id, side) ==
    LET ids == IdsOf(Group(book[id]))
    IN  Cardinality({i \in ids : i <= id}) + IF side = "Dr" THEN 0 ELSE Cardinality(ids)

\* A leg as it is compared with the file: its key is its signature.
LegOf(id, side) ==
    LET v == book[id]
    IN  [group |-> Group(v), side |-> side, row |-> RowOf(id, side), amount |-> v.amount,
         code |-> AcCode(v.series, IF side = "Dr" THEN v.dr ELSE v.cr)]

LegsOf(g) == {LegOf(id, side) : id \in IdsOf(g), side \in {"Dr", "Cr"}}

Legs(years) == UNION {LegsOf(g) : g \in GroupsOf(years)}

\* The groups go by date, then by their first leg, the legs of a group by row.
Sooner(leg, other) ==
    LET First(l) == Min(IdsOf(l.group))
    IN  \/ leg.group[1] < other.group[1]
        \/ leg.group[1] = other.group[1] /\ First(leg) < First(other)
        \/ leg.group = other.group /\ leg.row < other.row

FirstOf(legs) == CHOOSE leg \in legs : \A other \in legs : ~ Sooner(other, leg)

Signed(leg) == IF leg.side = "Dr" THEN leg.amount ELSE -leg.amount

RowsOf(g) == {r \in DOMAIN txRows : r.group = g}
-----------------------------------------------------------------------------
(* The books, between exports *)

\* Legs are deleted by their number: that of a journal has the year in it, that
\* of a TDS voucher has not.
Hit(v, w) == w.series = v.series /\ w.no = v.no /\ (v.series = "TDS" \/ w.fy = v.fy)

\* The file is another one: what it has of a group is not altered with it.
Touch(groups) == touched' = touched \cup {g \in groups : RowsOf(g) # {}}

\* Of v the ids in new are written, one or none.
Change(v, new) ==
    /\ ~ run.on /\ count.changes < MaxChanges
    /\ book' = [id \in {i \in DOMAIN book : ~ Hit(v, book[i])} \cup new |-> IF id \in new THEN v ELSE book[id]]
    /\ Touch({Group(v)} \cup {Group(w) : w \in {u \in Range(book) : Hit(v, u)}})
    /\ Spend("changes", 1)
    /\ UNCHANGED <<parties, ledgers, txRows, run, stale>>

\* A voucher is written, or written again: its legs get new ids.
SaveVoucher(v) == v.dr # v.cr /\ Change(v, {Max(DOMAIN book \cup {0}) + 1})

EraseVoucher(v) == v \in Range(book) /\ Change(v, {})

\* A party created on its screen (add_ledger_extended) has no legacy code; ids go up.
NewParty ==
    /\ ~ run.on /\ Len(parties) < MaxParties
    /\ parties' = Append(parties, 0)
    /\ UNCHANGED <<book, ledgers, txRows, run, touched, stale, count>>
-----------------------------------------------------------------------------
(* An export *)

\* Mutant: the legs of the file are not looked at.
NothingSeen(blind) == {}

\* The signatures of the file; none, if its rows cannot be read.
Seen(blind) == IF blind THEN {} ELSE DOMAIN txRows

\* No year at all: masters only.
Scopes == {{}, BookYears} \cup {{y} : y \in BookYears}

\* Ledgers that are in the file stay as they are, and the others are inserted,
\* where an insertion can be refused.  Then the rows of the file are read.  When
\* the ledgers cannot be read nothing is done.
StartExport(years, refused, blind) ==
    LET new == Codes \ DOMAIN ledgers
        faults == IF refused # {} \/ blind THEN 1 ELSE 0
        Fresh(c) == [party |-> Owner(c), balance |-> 0, moved |-> FALSE]
    IN  /\ ~ run.on /\ count.exports < MaxExports
        /\ refused \subseteq new /\ (faults = 1 => CanFail)
        /\ ledgers' = [c \in DOMAIN ledgers \cup (new \ refused) |->
                        IF c \in DOMAIN ledgers THEN ledgers[c] ELSE Fresh(c)]
        /\ run' = [years |-> years, todo |-> Legs(years), seen |-> Seen(blind),
                   deltas |-> [c \in Codes |-> 0], refused |-> FALSE, on |-> TRUE]
        /\ touched' = IF blind THEN touched \cup {r.group : r \in DOMAIN txRows} ELSE touched
        /\ count' = [count EXCEPT !.exports = @ + 1, !.faults = @ + faults]
        /\ UNCHANGED <<parties, book, txRows, stale>>

\* "Signed per-ledger deltas (Dr-positive) for Ledgers.CurrentBalance."
Noted(deltas, leg) == IF leg.code > 0 THEN [deltas EXCEPT ![leg.code] = @ + Signed(leg)] ELSE deltas

\* Transactions, and one row more.
WithRow(leg) ==
    [r \in DOMAIN txRows \cup {leg} |->
        (IF r \in DOMAIN txRows THEN txRows[r] ELSE 0) + IF r = leg THEN 1 ELSE 0]

\* The next leg, and the run without it.
NextLeg == FirstOf(run.todo)
Later == run.todo \ {NextLeg}

\* Mutant: the balances move for legs the file had.
SkipNotingLeg ==
    /\ run.todo # {} /\ NextLeg \in run.seen
    /\ run' = [run EXCEPT !.todo = Later, !.deltas = Noted(@, NextLeg)]
    /\ UNCHANGED <<parties, book, ledgers, txRows, touched, stale, count>>

SkipLeg ==
    /\ run.todo # {} /\ NextLeg \in run.seen
    /\ run' = [run EXCEPT !.todo = Later]
    /\ UNCHANGED <<parties, book, ledgers, txRows, touched, stale, count>>

InsertLeg ==
    /\ run.todo # {} /\ NextLeg \notin run.seen
    /\ txRows' = WithRow(NextLeg)
    /\ run' = [run EXCEPT !.todo = Later, !.seen = @ \cup {NextLeg}, !.deltas = Noted(@, NextLeg)]
    /\ UNCHANGED <<parties, book, ledgers, touched, stale, count>>

\* insertRowData fails, for want of a page or, the row written, at an index.
\* The leg is passed over.
RefuseLeg(written) ==
    /\ run.todo # {} /\ NextLeg \notin run.seen /\ CanFail
    /\ txRows' = IF written THEN WithRow(NextLeg) ELSE txRows
    /\ run' = [run EXCEPT !.todo = Later, !.refused = ~ written \/ @]
    /\ stale' = IF written THEN stale \cup {NextLeg.code} ELSE stale
    /\ Spend("faults", 1)
    /\ UNCHANGED <<parties, book, ledgers, touched>>

Due == {c \in DOMAIN run.deltas : run.deltas[c] # 0}

\* applyLedgerBalanceDeltas, and the end.  A ledger whose row was moved is
\* passed over.  A text that has outgrown its page moves the row.
UpdateBalances(done, grown) ==
    LET able == {c \in Due \cap DOMAIN ledgers : ~ ledgers[c].moved}
        faults == IF done # able THEN 1 ELSE 0
    IN  /\ run.on /\ run.todo = {}
        /\ done \subseteq able /\ grown \subseteq done /\ (faults = 1 => CanFail)
        /\ ledgers' = [c \in DOMAIN ledgers |->
                        IF c \in done THEN [ledgers[c] EXCEPT !.balance = @ + run.deltas[c],
                                                              !.moved = c \in grown]
                        ELSE ledgers[c]]
        /\ stale' = stale \cup (Due \ done)
        /\ run' = Idle
        /\ Spend("faults", faults)
        /\ UNCHANGED <<parties, book, txRows, touched>>

\* The dialog is closed, or the process dies.
CutExport ==
    /\ run.on /\ CanFail
    /\ stale' = stale \cup Due
    /\ run' = Idle
    /\ Spend("faults", 1)
    /\ UNCHANGED <<parties, book, ledgers, txRows, touched>>

Vouchers ==
    [series : Series, fy : BookYears, no : VoucherNos, dr : DOMAIN parties, cr : DOMAIN parties, amount : {1}]

ExportNext ==
    \/ \E v \in Vouchers : SaveVoucher(v) \/ EraseVoucher(v)
    \/ NewParty
    \/ \E years \in Scopes, refused \in SUBSET Codes, blind \in BOOLEAN : StartExport(years, refused, blind)
    \/ SkipLeg \/ InsertLeg
    \/ \E written \in BOOLEAN : RefuseLeg(written)
    \/ \E done \in SUBSET Codes : \E grown \in SUBSET done : UpdateBalances(done, grown)
    \/ CutExport

ExportSpec == ExportInit /\ [][ExportNext]_exportVars
-----------------------------------------------------------------------------
(* Properties *)

\* Ledgers are of parties that have their code, rows are whole legs, and an
\* export is over before the books go on.
ExportTypeOK ==
    /\ Range(book) \subseteq Vouchers
    /\ \A c \in DOMAIN ledgers : LedgerCode(ledgers[c].party) = c /\ ledgers[c].balance \in Int
    /\ txRows \in [DOMAIN txRows -> Nat \ {0}]
    /\ \A r \in DOMAIN txRows : r.code \in Codes \cup {0} /\ r.row \in 1 .. 2 * Cardinality(Series)
    /\ run.on => DOMAIN run.deltas = Codes /\ \A leg \in run.todo : leg.group[1] \in run.years
    /\ touched \subseteq BookYears \X VoucherNos /\ stale \subseteq Codes \cup {0}

\* When no leg was refused, every leg of the years asked for is in the file once
\* its legs are through, whatever earlier exports were cut or refused; and nothing
\* else is there of a group, unless it was altered after legs of it had been
\* exported, or the file could not be read.
ExportIsExact ==
    run.on /\ run.todo = {} /\ ~ run.refused =>
        \A g \in GroupsOf(run.years) :
            /\ LegsOf(g) \subseteq RowsOf(g)
            /\ g \notin touched => RowsOf(g) = LegsOf(g) /\ \A leg \in LegsOf(g) : txRows[leg] = 1

\* What the rows of a code come to.
Posted(c) ==
    MapThenFoldSet(+, 0, LAMBDA r : txRows[r] * Signed(r), LAMBDA rows : CHOOSE r \in rows : TRUE,
                   {r \in DOMAIN txRows : r.code = c})

\* The exporter must apply each leg it inserts to the balance of its ledger "or
\* balances/reports stay stale": between exports the balance of a ledger is the
\* sum of its rows, unless an update of it was lost.
BalancesFollow ==
    ~ run.on => \A c \in DOMAIN ledgers \ stale : ledgers[c].balance = Posted(c)
=============================================================================
