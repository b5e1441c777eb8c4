------------------------------- MODULE FyClose -------------------------------
(***************************************************************************)
(* The year-end close of the books: FyCloseEngine::closeYear and           *)
(* reopenYear, the year lock, and the write paths that run beside them.    *)
(*                                                                         *)
(* A date is abstracted to the financial year it falls in: 1..LastYear.    *)
(* The closing voucher is dated the last day of its year, a reversal is    *)
(* dated today.  Money is an integer (paise).  The ledgers of one class    *)
(* of the chart of accounts are represented by one ledger of that class:   *)
(* the classes are those ProfitLossCalculator::calculate tells apart, with *)
(* three ledgers of the balance sheet.  `soft_closed` behaves as `open` on *)
(* every path modelled here and no screen sets it: a year is open or       *)
(* locked.                                                                 *)
(***************************************************************************)
EXTENDS Integers, FiniteSets

CONSTANTS
    LastYear,   \* the financial years are 1..LastYear
    Postings,   \* the user's journals: <<debit ledger, credit ledger, amount>>
    MaxNo,      \* journal numbers of one year's series
    MaxBooks,   \* bound on the journals in the books when the user saves one more
    MaxChanges, \* bound on the edits and deletions of journals
    MaxPaid,    \* bound on what challans pay out of the bank in one year
    Writers,    \* the write paths that run: see WriterSet
    Faults      \* what may go wrong: see FaultSet

BalanceSheet == {"capital", "cash", "duties"}
Nominal == {"trading", "direct", "pl", "income", "expense"}
Ledgers == BalanceSheet \cup Nominal

WriterSet == {"journal", "edit", "delete", "challan", "lock"}
FaultSet == {"crash", "busy"}

ASSUME ConstantsAssumption ==
    /\ LastYear \in Nat \ {0}
    /\ MaxNo \in Nat
    /\ MaxBooks \in Nat
    /\ MaxChanges \in Nat
    /\ MaxPaid \in Nat
    /\ Postings \subseteq Ledgers \X Ledgers \X (Nat \ {0})
    /\ Writers \subseteq WriterSet
    /\ Faults \subseteq FaultSet

Years == 1..LastYear
NoKey == -1      \* there is no fy_close_voucher/<fy> setting
NoVoucher == 0   \* the setting is the empty string: closed without a journal

VARIABLES
    bal,       \* transactions: bal[y][a] = debits less credits of ledger a up to the end of y
    vouchers,  \* the headers of the journals
    legs,      \* their legs in transactions: a debit and a credit leg each
    status,    \* financial_years.status
    key,       \* app_settings fy_close_voucher/<fy>
    snap,      \* fy_opening_balances: 0 where there is no row
    today,     \* the year of the current date
    changes,   \* how many edits and deletions there were: for the bound alone
    job        \* the close or reopen the UI thread is in

vars == <<bal, vouchers, legs, status, key, snap, today, changes, job>>
books == <<bal, vouchers, legs>>

Idle == [op |-> "idle", year |-> 1, net |-> 0]
-----------------------------------------------------------------------------
(* Ledger arithmetic *)

Pos(x) == IF x > 0 THEN x ELSE 0

\* A debit leg on dr and a credit leg on cr, dated in year y.
Post(b, y, dr, cr, amt) ==
    [k \in 0..LastYear |->
        IF k < y THEN b[k]
        ELSE [a \in Ledgers |-> b[k][a] + (IF a = dr THEN amt ELSE 0)
                                        - (IF a = cr THEN amt ELSE 0)]]

\* A credit leg alone.
PostCredit(b, y, cr, amt) ==
    [k \in 0..LastYear |->
        IF k < y THEN b[k]
        ELSE [a \in Ledgers |-> b[k][a] - (IF a = cr THEN amt ELSE 0)]]

\* Debits less credits of ledger a dated in year y.
Turnover(b, y, a) == b[y][a] - b[y - 1][a]

Sum(f) == f["capital"] + f["cash"] + f["duties"] + f["trading"] + f["direct"]
          + f["pl"] + f["income"] + f["expense"]

\* signedTrialDiff over the dates of year y.
TrialDiff(b, y) == Sum(b[y]) - Sum(b[y - 1])

\* Profit (positive) or loss of year y as calculate() derives it: the trading,
\* direct-expense and Profit & Loss ledgers by the year's turnover, income and
\* expense ledgers by their balance since the books began.
NetDiff(b, y) ==
    - Turnover(b, y, "trading") - Pos(Turnover(b, y, "direct")) - Turnover(b, y, "pl")
    + Pos(- b[y]["income"]) - b[y]["expense"]

NetProfit(b, y) == Pos(NetDiff(b, y))

\* Mutant: the series runs one number past its end.
NextNoPastEnd(y) ==
    LET used == {0} \cup {v.no[2] : v \in {w \in vouchers : w.fy = y}}
    IN  {n \in 1..MaxNo + 1 : n - 1 \in used /\ \A u \in used : u < n}

\* claimVoucherNo.  A number is the year it was minted in and a count: one more
\* than the largest count among the headers labelled with the year, whatever year
\* their numbers were minted in; the set is empty when the series has none left.
NextNo(y) ==
    LET used == {0} \cup {v.no[2] : v \in {w \in vouchers : w.fy = y}}
    IN  {n \in 1..MaxNo : n - 1 \in used /\ \A u \in used : u < n}

\* A header.  `ref` and `of`, which no step reads, say what put it there and which
\* close a reversal takes back.
Journal(no, y, yr, ref, of) == [no |-> no, fy |-> y, yr |-> yr, ref |-> ref, of |-> of]

\* Its debit and credit leg.  `by` is the write that put them there: the save, close
\* or reopen that inserted the header too, the legs a reopen mirrors from an edit, or
\* an edit.  No step reads more of it than that pairs of different writes differ.
Leg(no, y, yr, dr, cr, amt, by) ==
    [no |-> no, fy |-> y, yr |-> yr, dr |-> dr, cr |-> cr, amt |-> amt, by |-> by]

LegsUnder(no) == {l \in legs : l.no = no}

\* The one pair of a set with at most one, posted.
PostPair(b, pairs) ==
    IF pairs = {} THEN b
    ELSE LET l == CHOOSE x \in pairs : TRUE IN Post(b, l.yr, l.dr, l.cr, l.amt)

\* The pairs under one number, posted: no write puts a second pair under a number.
PostAll(b, pairs) ==
    PostPair(PostPair(PostPair(b, {l \in pairs : l.by = "edit"}),
                      {l \in pairs : l.by = "mirror"}),
             {l \in pairs : l.by \notin {"edit", "mirror"}})

\* Mutant: only the debit legs of the number go.
UnpostedOneLeg(b, pairs) ==
    IF pairs = {} THEN b
    ELSE LET l == CHOOSE x \in pairs : TRUE IN PostCredit(b, l.yr, l.dr, l.amt)

\* The balances without the pairs under one number.
Unposted(b, pairs) == PostAll(b, {[l EXCEPT !.dr = l.cr, !.cr = l.dr] : l \in pairs})

Writable(yr) == status[yr] = "open"   \* writeBlockReason is empty
-----------------------------------------------------------------------------
Init ==
    /\ bal = [y \in 0..LastYear |-> [a \in Ledgers |-> 0]]
    /\ vouchers = {}
    /\ legs = {}
    /\ status = [y \in Years |-> "open"]
    /\ key = [y \in Years |-> NoKey]
    /\ snap = [y \in 2..LastYear + 1 |-> [a \in BalanceSheet |-> 0]]
    /\ today = 1
    /\ changes = 0
    /\ job = Idle

(* The write paths beside the close *)

\* save_multi_row_voucher without an id: a new journal dated in year y.
SaveJournal(y, p) ==
    /\ "journal" \in Writers /\ job = Idle
    /\ Cardinality(vouchers) <= MaxBooks
    /\ Writable(y)
    /\ \E n \in NextNo(y) :
          /\ vouchers' = vouchers \cup {Journal(<<y, n>>, y, y, "user", 0)}
          /\ legs' = legs \cup {Leg(<<y, n>>, y, y, p[1], p[2], p[3], "user")}
    /\ bal' = Post(bal, y, p[1], p[2], p[3])
    /\ UNCHANGED <<status, key, snap, today, changes, job>>

\* What the id of a form that edits names: a header, or none, as the form takes it
\* from a leg.  The number the form shows, and the rows it was filled with.
SomeHeader == {{}} \cup {{h} : h \in vouchers}
Numbers == {v.no : v \in vouchers} \cup {l.no : l \in legs}
Rows(no) == Postings \cup {<<l.dr, l.cr, l.amt>> : l \in LegsUnder(no)}

\* The pairs under number `no` and under the header's number, where there is one,
\* give way to the pair p, dated in y.
Rewritten(target, no, y, p) ==
    \E old \in IF target = {} THEN {no} ELSE {h.no : h \in target} :
        /\ legs' = (legs \ (LegsUnder(old) \cup LegsUnder(no)))
                   \cup {Leg(no, y, y, p[1], p[2], p[3], "edit")}
        /\ bal' = Post(Unposted(Unposted(bal, LegsUnder(old)), LegsUnder(no) \ LegsUnder(old)),
                       y, p[1], p[2], p[3])

\* Mutant: the lock of the date the voucher is moved from is read.
EditJournalOldDate(y) ==
    /\ "edit" \in Writers /\ job = Idle /\ changes < MaxChanges
    /\ \E target \in SomeHeader, no \in Numbers :
          /\ \A h \in target : Writable(h.yr)
          /\ target # {} => \A g \in vouchers \ target : ~ (g.fy = y /\ g.no = no)
          /\ vouchers' = (vouchers \ target) \cup {Journal(no, y, y, "user", 0) : h \in target}
          /\ \E p \in Rows(no) : Rewritten(target, no, y, p)
    /\ changes' = changes + 1
    /\ UNCHANGED <<status, key, snap, today, job>>

\* save_multi_row_voucher with an id, dated in year y, the only one whose lock is
\* read.  The header with that id is overwritten, to the number the form shows,
\* unless UNIQUE refuses it; the legs under either number go, of whatever year,
\* and the form's rows come in under the label of the new date.
EditJournal(y) ==
    /\ "edit" \in Writers /\ job = Idle /\ changes < MaxChanges
    /\ Writable(y)
    /\ \E target \in SomeHeader, no \in Numbers :
          /\ target # {} => \A g \in vouchers \ target : ~ (g.fy = y /\ g.no = no)
          /\ vouchers' = (vouchers \ target) \cup {Journal(no, y, y, "user", 0) : h \in target}
          /\ \E p \in Rows(no) : Rewritten(target, no, y, p)
    /\ changes' = changes + 1
    /\ UNCHANGED <<status, key, snap, today, job>>

\* delete_voucher: any header, those of closing vouchers and reversals included, with
\* the legs under its number, of whatever year.
DeleteVoucher(v) ==
    /\ "delete" \in Writers /\ job = Idle /\ changes < MaxChanges
    /\ Writable(v.yr)
    /\ vouchers' = vouchers \ {v}
    /\ legs' = legs \ LegsUnder(v.no)
    /\ bal' = Unposted(bal, LegsUnder(v.no))
    /\ changes' = changes + 1
    /\ UNCHANGED <<status, key, snap, today, job>>

\* saveChallanIn, on the database worker's thread and connection, whatever the
\* UI thread is doing.  The date is the user's, the year's lock is not read.
\* The interest leg is left out when no interest ledger is set; the bank is
\* credited with the full amount all the same.
SaveChallan(y, tax, interest, hasLedger) ==
    /\ "challan" \in Writers
    /\ Turnover(bal, y, "cash") - tax - interest >= - MaxPaid
    /\ bal' = LET paid == Post(bal, y, "duties", "cash", tax)
              IN  IF hasLedger THEN Post(paid, y, "expense", "cash", interest)
                  ELSE PostCredit(paid, y, "cash", interest)
    /\ UNCHANGED <<vouchers, legs, status, key, snap, today, changes, job>>

\* The lock button of the close dialog: refused while the trial does not balance.
LockYear(y) ==
    /\ "lock" \in Writers /\ job = Idle
    /\ status[y] = "open"
    /\ TrialDiff(bal, y) = 0
    /\ status' = [status EXCEPT ![y] = "locked"]
    /\ UNCHANGED <<bal, vouchers, legs, key, snap, today, changes, job>>

\* The calendar reaches the next financial year.
NextYear ==
    /\ job = Idle /\ today < LastYear
    /\ today' = today + 1
    /\ UNCHANGED <<bal, vouchers, legs, status, key, snap, changes, job>>
-----------------------------------------------------------------------------
(* closeYear *)

\* Mutant: the setting of an earlier close is not looked at.
CloseReadNoKeyCheck(y) ==
    /\ job = Idle
    /\ status[y] = "open"
    /\ TrialDiff(bal, y) = 0
    /\ \E l \in legs : l.yr = y
    /\ job' = [op |-> "close", year |-> y, net |-> NetProfit(bal, y)]
    /\ UNCHANGED <<bal, vouchers, legs, status, key, snap, today, changes>>

\* The checks, and the net read outside any transaction.  The trial cannot be
\* read when the year has no transactions at all.
CloseRead(y) ==
    /\ job = Idle
    /\ key[y] = NoKey
    /\ status[y] = "open"
    /\ TrialDiff(bal, y) = 0
    /\ \/ \E l \in legs : l.yr = y
       \/ \E a \in Ledgers : Turnover(bal, y, a) # 0
    /\ job' = [op |-> "close", year |-> y, net |-> NetProfit(bal, y)]
    /\ UNCHANGED <<bal, vouchers, legs, status, key, snap, today, changes>>

\* Mutant: the openings are taken before the closing journal is posted.
ClosePostSnapshotFirst ==
    LET y == job.year IN
    /\ job.op = "close"
    /\ \E n \in IF job.net = 0 THEN {NoVoucher} ELSE NextNo(y) :
          /\ vouchers' = vouchers \cup
                 {Journal(<<y, n>>, y, y, "close", 0) : k \in {n} \ {NoVoucher}}
          /\ legs' = legs \cup
                 {Leg(<<y, n>>, y, y, "pl", "capital", job.net, "close") : k \in {n} \ {NoVoucher}}
          /\ key' = [key EXCEPT ![y] = n]
    /\ bal' = Post(bal, y, "pl", "capital", job.net)
    /\ snap' = [snap EXCEPT ![y + 1] = [a \in BalanceSheet |-> bal[y][a]]]
    /\ status' = [status EXCEPT ![y] = "locked"]
    /\ job' = Idle
    /\ UNCHANGED <<today, changes>>

\* The one transaction of the close: journal, openings of the next year, lock
\* and setting.  A net of zero posts no journal.
ClosePost ==
    LET y == job.year IN
    /\ job.op = "close"
    /\ \E n \in IF job.net = 0 THEN {NoVoucher} ELSE NextNo(y) :
          /\ vouchers' = vouchers \cup
                 {Journal(<<y, n>>, y, y, "close", 0) : k \in {n} \ {NoVoucher}}
          /\ legs' = legs \cup
                 {Leg(<<y, n>>, y, y, "pl", "capital", job.net, "close") : k \in {n} \ {NoVoucher}}
          /\ key' = [key EXCEPT ![y] = n]
    /\ bal' = Post(bal, y, "pl", "capital", job.net)
    /\ snap' = [snap EXCEPT ![y + 1] = [a \in BalanceSheet |-> bal'[y][a]]]
    /\ status' = [status EXCEPT ![y] = "locked"]
    /\ job' = Idle
    /\ UNCHANGED <<today, changes>>

\* No free number, or a statement of the transaction failed: rolled back.
CloseFail ==
    /\ job.op = "close"
    /\ \/ job.net > 0 /\ NextNo(job.year) = {}
       \/ "busy" \in Faults
    /\ job' = Idle
    /\ UNCHANGED <<bal, vouchers, legs, status, key, snap, today, changes>>
-----------------------------------------------------------------------------
(* reopenYear: three commits, unlock, reversal, setting.  A fault is a process *)
(* that dies between two of them, or a write that finds the database locked by *)
(* the worker's connection for longer than the busy timeout.                   *)

ReopenUnlock(y) ==
    /\ job = Idle
    /\ status[y] = "locked"          \* the button is enabled for locked years
    /\ key[y] # NoKey
    /\ status' = [status EXCEPT ![y] = "open"]
    /\ job' = [Idle EXCEPT !.op = IF key[y] = NoVoucher THEN "clear" ELSE "reverse",
                           !.year = y]
    /\ UNCHANGED <<bal, vouchers, legs, key, snap, today, changes>>

\* The number the setting of year y holds; the number the rerun check looks for, the
\* text "REV-<n>", is not one of the series.
ClosingNo(y) == <<y, key[y]>>
RevNo(no) == <<no[1], - no[2]>>
ReversalExists(y) == \E v \in vouchers : v.fy = y /\ v.no = RevNo(ClosingNo(y))

\* The voucher the setting names, by number and year label.
ClosingHeader(y) == {v \in vouchers : v.fy = y /\ v.no = ClosingNo(y)}
ClosingLegs(y) == {l \in legs : l.fy = y /\ l.no = ClosingNo(y)}

\* Mutant: the reversal repeats the sides of the closing voucher.
MirrorSameSides(l, no, y, yr) ==
    Leg(no, y, yr, l.dr, l.cr, l.amt, IF l.by = "edit" THEN "mirror" ELSE "reversal")

\* A pair with its sides swapped, under number no of year y, dated in yr.
Mirror(l, no, y, yr) ==
    Leg(no, y, yr, l.cr, l.dr, l.amt, IF l.by = "edit" THEN "mirror" ELSE "reversal")

\* Every pair under the number is mirrored, dated today.
ReopenReverse ==
    LET y == job.year IN
    /\ job.op = "reverse"
    /\ IF ReversalExists(y) THEN UNCHANGED books
       ELSE /\ Writable(today)
            /\ ClosingLegs(y) # {} /\ ClosingHeader(y) # {}
            /\ \E n \in NextNo(y) :
                 \E mirrored \in {{Mirror(l, <<y, n>>, y, today) : l \in ClosingLegs(y)}} :
                   /\ vouchers' = vouchers \cup {Journal(<<y, n>>, y, today, "reversal", key[y])}
                   /\ legs' = legs \cup mirrored
                   /\ bal' = PostAll(bal, mirrored)
    /\ job' = [job EXCEPT !.op = "clear"]
    /\ UNCHANGED <<status, key, snap, today, changes>>

\* Mutant: a refusal leaves the year unlocked.
ReopenAbortUnlocked ==
    LET y == job.year IN
    /\ job.op = "reverse" /\ ~ ReversalExists(y)
    /\ ~ Writable(today) \/ NextNo(y) = {} \/ "busy" \in Faults
    /\ job' = Idle
    /\ UNCHANGED <<bal, vouchers, legs, status, key, snap, today, changes>>

\* Every refusal after the unlock locks the year again; whether that worked is
\* not looked at.
ReopenAbort ==
    LET y == job.year IN
    /\ job.op = "reverse" /\ ~ ReversalExists(y)
    /\ \/ ~ Writable(today)
       \/ NextNo(y) = {}
       \/ ClosingLegs(y) = {} \/ ClosingHeader(y) = {}
       \/ "busy" \in Faults
    /\ \/ status' = [status EXCEPT ![y] = "locked"]
       \/ "busy" \in Faults /\ UNCHANGED status
    /\ job' = Idle
    /\ UNCHANGED <<bal, vouchers, legs, key, snap, today, changes>>

\* The setting is deleted; whether that worked is not looked at either.
ReopenClear ==
    /\ job.op = "clear"
    /\ \/ key' = [key EXCEPT ![job.year] = NoKey]
       \/ "busy" \in Faults /\ UNCHANGED key
    /\ job' = Idle
    /\ UNCHANGED <<bal, vouchers, legs, status, snap, today, changes>>

\* The process dies: what was committed stays.
Crash ==
    /\ "crash" \in Faults
    /\ job # Idle
    /\ job' = Idle
    /\ UNCHANGED <<bal, vouchers, legs, status, key, snap, today, changes>>
-----------------------------------------------------------------------------
Next ==
    \/ \E y \in Years, p \in Postings : SaveJournal(y, p)
    \/ \E y \in Years : EditJournal(y)
    \/ \E v \in vouchers : DeleteVoucher(v)
    \/ \E y \in Years, interest \in {0, 1}, hasLedger \in BOOLEAN :
          SaveChallan(y, 1, interest, hasLedger)
    \/ \E y \in Years : LockYear(y)
    \/ NextYear
    \/ \E y \in Years : CloseRead(y)
    \/ ClosePost
    \/ CloseFail
    \/ \E y \in Years : ReopenUnlock(y)
    \/ ReopenReverse
    \/ ReopenAbort
    \/ ReopenClear
    \/ Crash

Spec == Init /\ [][Next]_vars
-----------------------------------------------------------------------------
(* Properties *)

VoucherType ==
    [no : Years \X (1..MaxNo), fy : Years, yr : Years, ref : {"user", "close", "reversal"},
     of : 0..MaxNo]

LegType ==
    [no : Years \X (1..MaxNo), fy : Years, yr : Years, dr : Ledgers, cr : Ledgers, amt : Nat,
     by : {"user", "close", "reversal", "mirror", "edit"}]

\* Every variable has its type: in particular a number is never minted past
\* the series and the setting names a number of the series.
TypeOK ==
    /\ bal \in [0..LastYear -> [Ledgers -> Int]]
    /\ vouchers \subseteq VoucherType
    /\ legs \subseteq LegType
    /\ status \in [Years -> {"open", "locked"}]
    /\ key \in [Years -> NoKey..MaxNo]
    /\ snap \in [2..LastYear + 1 -> [BalanceSheet -> Int]]
    /\ today \in Years
    /\ changes \in 0..MaxChanges
    /\ job \in [op : {"idle", "close", "reverse", "clear"}, year : Years, net : Nat]

\* The trial balances at every date: no sequence of postings, deletions,
\* closes, reversals and their failures leaves a leg without its opposite.
\* It is what lets closeYear and the lock button go ahead at all.
Balanced == \A y \in 0..LastYear : Sum(bal[y]) = 0

\* What the year lock gives: while a year is locked no header and no leg dated in
\* it is added or changed, and its turnover stays unless a leg of it goes.  Legs
\* and headers may go: an edit reads only the lock of the new date, and deletes,
\* like a deletion, the legs of its numbers in every year.
LockedYearOnlyLoses ==
    [][\A y \in Years : status[y] = "locked" =>
          /\ {v \in vouchers' : v.yr = y} \subseteq vouchers
          /\ {l \in legs' : l.yr = y} \subseteq legs
          /\ {l \in legs : l.yr = y} \subseteq legs' =>
                 \A a \in Ledgers : Turnover(bal', y, a) = Turnover(bal, y, a)]_vars

\* The closing voucher of year y as the close posted it.
ClosingStands(y) ==
    /\ \E v \in ClosingHeader(y) : v.yr = y /\ v.ref = "close"
    /\ \E l \in ClosingLegs(y) :
          l.yr = y /\ l.dr = "pl" /\ l.cr = "capital" /\ l.by = "close"

\* The setting fy_close_voucher/<fy> between two operations: where it exists the
\* year is locked, and the number it holds names the closing voucher of that year
\* as it was posted, or nothing any more.  An edit or a deletion may take the
\* voucher away, but none, and no number minted twice, puts another in its place:
\* reopenYear, which trusts the number, reverses the close or refuses.
KeyMeansClosed ==
    job = Idle =>
        \A y \in Years : key[y] # NoKey =>
            /\ status[y] = "locked"
            /\ key[y] # NoVoucher => ClosingStands(y) \/ ClosingLegs(y) = {}

\* A close is all or nothing: the step that records it locks the year, leaves
\* no profit of the year untransferred, and gives the next year openings that
\* equal the balances with the closing journal in them.
CloseIsComplete ==
    [][\A y \in Years : key[y] = NoKey /\ key'[y] # NoKey =>
          /\ status'[y] = "locked"
          /\ NetDiff(bal', y) <= 0
          /\ \A a \in BalanceSheet : snap'[y + 1][a] = bal'[y][a]]_vars

\* Through crashes between the commits of a reopen, failed transactions and
\* challans posted behind the UI thread's back: a closing voucher nothing has
\* reversed is the one its year's setting names.  No profit is transferred a
\* second time while a first transfer stands, and what stands can be reversed.
LiveClosingIsRecorded ==
    \A v \in vouchers : v.ref = "close" =>
        \/ key[v.fy] = v.no[2]
        \/ \E r \in vouchers : r.ref = "reversal" /\ r.fy = v.fy /\ r.of = v.no[2]

\* What reopenYear's comment claims, "Skip when a reversal already exists
\* (rerun-safe)": a closing voucher is reversed once at most.
ReversedAtMostOnce ==
    \A v \in vouchers : v.ref = "close" =>
        Cardinality({r \in vouchers : r.ref = "reversal" /\ r.fy = v.fy /\ r.of = v.no[2]}) <= 1
-----------------------------------------------------------------------------
(* The life of a year as FyLifecycle promises it *)

\* A reopen takes effect when its reversal commits.  A close is what the setting
\* says while the number it holds has one pair of legs; it is mixed with another
\* voucher where it took a number that legs had strayed under, and gone when they
\* are deleted.
Life(y) ==
    IF job.op = "clear" /\ job.year = y THEN "open"
    ELSE IF key[y] = NoKey THEN status[y]
    ELSE IF key[y] = NoVoucher THEN "closed"
    ELSE IF ClosingLegs(y) = {} THEN "gone"
    ELSE IF \A l, m \in ClosingLegs(y) : l = m THEN "closed"
    ELSE "mixed"

\* The profit of year y that stands transferred to capital.
Carried(y) ==
    IF Life(y) = "closed" /\ key[y] # NoVoucher
    THEN (CHOOSE l \in ClosingLegs(y) : TRUE).amt
    ELSE 0

Lifecycle == INSTANCE FyLifecycle WITH
    life <- [y \in Years |-> Life(y)],
    carried <- [y \in Years |-> Carried(y)],
    transferred <- bal[LastYear]["pl"]

\* Close and reopen, with their several commits and their refusals, implement the
\* abstract life cycle, whatever the user saves, edits and deletes: a close
\* transfers the profit once, a reopen takes back exactly that, and a closed year
\* whose closing voucher an edit or a deletion has removed is never reopened.
ImplementsLifecycle == Lifecycle!Spec
=============================================================================
