# Trillion: TLA+ models of the accounting core

Trillion (the sources call it MahadevERP) is a desktop accounting program for
rice mills and traders: C++ and Qt, one SQLite file per firm.  This directory
holds TLA+ models of the parts where an error is expensive and a unit test
hardly reaches, TLC configurations that check them on small instances, and
proofs of their main invariants for every value of the constants.

## The system

| Component | Source (under `src/`) | State | Interacts with |
|---|---|---|---|
| Year-end close | `engine/fy_close_engine`, `engine/fiscal_year_helper`, `widgets/close_year_dialog` | `financial_years.status`, `app_settings fy_close_voucher/<fy>`, `fy_opening_balances` | posts a journal, reads the net profit, locks the year; every write path asks it whether a date is writable |
| Profit and loss | `engine/profit_loss_calculator`, `models/account_classifier` | none | reads `transactions` and the chart of accounts |
| Voucher entry | `models/vouchers_model`, journal, cash and cheque widgets | `vouchers` (headers), `transactions` (legs), the form being edited | claims numbers, posts, edits, deletes on the UI thread's connection |
| Numbering | `engine/voucher_numbering.h`, `widgets/numbering_repair_dialog`, `engine/bill_series` | the UNIQUE index on numbers, the repair dialog | vouchers, bills |
| Bills, forms and notes | `models/purchase_model`, `sales_model`, `jform_model`, `iform_model`, `debit_credit_note_controller`, `manufacturing_model` and their widgets | a register, its items, headers, legs, stock rows per type of document | UI thread's connection, beside the vouchers |
| Bank statements | `models/bank_statement_controller`, `widgets/bank_statement_import_widget` | the rows of a statement with their marks and ticks, the ledger box | reads and posts vouchers on the UI thread's connection |
| Database worker | `services/db_worker` | a thread, its connection, a queue, futures | started, restarted and stopped by the UI thread; tasks from anywhere |
| Database service | `services/db_service` | the worker | reads fall back to the UI connection when the worker is down, transactions are refused |
| Tax deposits | `models/tax_challan_controller`, `tds_model`, `tcs_receipt_voucher_controller` | challans, items, deposit marks, their vouchers | transactions on the worker's connection |
| Database manager | `database_manager` | the UI thread's connection, the schema, the numbering guard | everyone |
| Firms | `models/firm_manager`, `widgets/edit_firm_dialog`, `main.cpp` | registry, active firm | switches the UI connection, then the worker |
| Day book | `widgets/day_book_widget`, `widgets/main_window` | the dirty mark, the query under way, the rows shown | queries the worker, opens and deletes documents |
| Jet 4 writer | `engine/jet4_btree`, `jet4_writer`, `tools/financial_engine_cli` | pages of a Microsoft Access file | one thread, one file |
| Exporter | `engine/bahi_khata_exporter`, `widgets/bahi_khata_export_dialog` | the tables of the other program's file, the signatures and deltas of one export | reads the books, writes through the Jet 4 writer, on a thread of its dialog |
| Pipelines, stock, interest, GST, reports, migration, other screens, printing | `engine/`, `models/`, `widgets/`, `printing/` | none or their own files | read the ledgers |

What is hard here:

- two connections write the same file, the UI thread's and the worker's, and
  the checks of one are not inside the transaction of the other;
- the year-end close and its reopening take several commits, and the process
  can stop between two of them;
- locks are data: every write path has to ask for them, at the right date;
- the worker object changes threads, with blocking events in both directions;
- identity of a document is a text number shared by header, stock and legs,
  while the screens carry integer ids of several tables;
- a statement is compared with the books when it is loaded and posted, as the
  user ticked it, later;
- an index of an Access file is a tree of linked pages written one by one.

`PROJECT.json` lists every component with what is modelled of it, and each
hazard at its line with the properties that would catch it going wrong.

## Modules

| Module | What it is |
|---|---|
| `FyClose` | `closeYear`, `reopenYear`, the year lock, and the write paths beside them |
| `FyLifecycle` | abstract: the life of a year, open, locked by hand or closed, and the profit transferred |
| `MCFyClose` | journals for the small instances |
| `FyClose_proofs` | proofs about `FyClose` |
| `DbWorker` | the worker object: threads, affinity, queue, connection, transactions, futures |
| `TaskService` | abstract: one answer per task, yes exactly with the write |
| `MCDbWorker` | tasks and files for the small instances |
| `TaxDeposit` | the withheld-tax registers, the challans that deposit the tax, and their postings, on the worker |
| `TaxDeposit_proofs` | proofs about `TaxDeposit` |
| `FirmSession`, `MCFirmSession` | extends `DbWorker`: firms opened, created, imported and edited over both connections, and the day book |
| `DbWorker_proofs` | proofs about `DbWorker`, the refinement included, and on them about `FirmSession` |
| `Vouchers`, `MCVouchers` | voucher entry by several instances of the program, numbers, their guard and their repair |
| `Bills` | purchase and sales bills and what they leave in five tables |
| `Forms` | J-forms, I-forms, notes, manufacturing batches |
| `BankStatement`, `MCBankStatement` | the import of bank statements: the check for duplicates, the rows, posting |
| `MCDocuments` | `Vouchers`, `Bills`, `Forms` and `BankStatement` side by side |
| `Documents_proofs` | proofs about `Vouchers`, `Bills`, `Forms` and `BankStatement`, and the types of `MCDocuments` |
| `Jet4Index` | one index of an Access table: its B-tree as rows come, change and go |
| `JetExport` | the export of the books into such a file, again and again |
| `JetFiles`, `MCJetFiles` | `Jet4Index` and `JetExport` side by side |
| `JetExport_proofs` | proofs about `JetExport`, the sums over finite sets they need included |
| `Jet4Tree_proofs` | what search, walk, split and removal make of a B-tree, call by call |
| `Jet4Index_proofs` | proofs about `Jet4Index` and `JetFiles`: the calls of an operation end, and rows and entries keep together |
| `Maxima` | a set of numbers has a least one, a finite set a largest, for the proofs of every module that numbers |

### FyClose

| Variable | In the program |
|---|---|
| `bal` | `transactions`, as the balance of each ledger at the end of each year |
| `vouchers` | the headers of journals: number, year label (`financial_year`), year of the date; and what put it there, which no step reads |
| `legs` | the rows of `transactions` of journals, a debit and a credit leg as one pair: number, label, year of the date, ledgers, amount |
| `status` | `financial_years.status` (`soft_closed` behaves as `open` on every path here and no screen sets it) |
| `key` | the setting `fy_close_voucher/<fy>`: none, empty (closed without a journal) or a number |
| `snap` | `fy_opening_balances` |
| `today` | the year of `QDate::currentDate()` |
| `changes` | how many journals were edited and deleted, for a bound alone |
| `job` | where the UI thread is inside `closeYear` or `reopenYear` |

A date is the year it falls in; a ledger stands for its class in the chart of
accounts, because `ProfitLossCalculator::calculate` and the snapshot tell
classes apart and nothing else; money is an integer.  The net profit is
computed as the code computes it: trading ledgers, direct expenses and the
Profit & Loss group by the turnover of the year, income and expense ledgers by
their balance since the books began, and never below zero, so that a loss is
closed without a journal although the engine has a branch for it.  Stock is
absent: its valuations are zero.

`closeYear` is two steps, because the net is read before `BEGIN` and the
worker can commit between the two: `CloseRead`, then `ClosePost` (the
transaction) or `CloseFail` (rolled back).  `reopenYear` is a step per commit:
`ReopenUnlock`, then `ReopenReverse` or `ReopenAbort` (which locks again), then
`ReopenClear`.  `Crash` stops the process between them.  With "busy" in
`Faults` a write may find the database locked by the other connection for
longer than its timeout; the results the code ignores (the relock, the deletion
of the setting) are ignored in the model too.

The other actions are the write paths, selected by the constant `Writers`:
`SaveJournal` (a new journal), `EditJournal`, `DeleteVoucher`, `SaveChallan`
(worker thread, no look at the lock, an interest leg that may be missing),
`LockYear`, and the calendar.  `EditJournal` is `save_multi_row_voucher` with an
id: the lock of the new date is the only one read, the header with that id is
overwritten with the number the form shows, the label and the date, and every
leg under its old number or the new one goes, of whatever year, closing vouchers
and reversals included.  The id is that of any header or of none, because the
form takes it from a leg (`get_journal_voucher`), and its rows are those under
the number or others; an id that hits a header of another type is left to
`Vouchers`.  A number therefore stays what it was minted as, a year and a count,
when its header moves to another year; the series there goes on after its count,
and the series it left may mint it again.  Headers and legs are kept apart for
this: a number can have legs without a header, or the legs of two vouchers.

### DbWorker

| Variable | In the program |
|---|---|
| `thread`, `path` | `m_thread` is set, `m_dbPath` |
| `db`, `open`, `dirty`, `stored` | `m_db` and what SQLite knows: the file it is on, a transaction nobody will end, its writes, what is committed |
| `affinity`, `queue` | the thread the object belongs to and its posted events; `moveToThread` takes the queue along |
| `loop` | the worker thread: off, opening the file, running its event loop |
| `ui` | where the UI thread is inside `start`, `restart` or `stop` |
| `fut`, `asked` | each task's future, and the file the worker was on when it was submitted |

`start` is `Start` (or `Stop` first, when the worker is on another file), then
`BeginThread`, then `OpenOnThread`, `OpenFails` or `HandshakeTimeout`, then
`Publish`.  `stop` is `Stop`, the blocking event `RunStop`, and `Join`.
`restart` is `Stop(f)` and the start that follows.  The UI thread submits in
one step, since it is the thread that stops; another thread in two
(`ThreadCheck`, `ThreadPost`), with anything in between.  Each task is one event, run to its end
by the loop its object belongs to; its SQL is abstracted to what SQLite can
answer.  A read that fails half-way is answered as a complete one in the code
(`DbTx::query` ends its loop at any result that is not a row); the model does
not tell complete answers from partial ones.

### TaxDeposit

| Variable | In the program |
|---|---|
| `active`, `choice` | `financial_years.is_active`; the year `setActiveFiscalYear` is about to activate |
| `sources` | rows of `tcs_receipt_vouchers`, `advance_payments_194q`, `tds_vouchers`: number, year, `voucher_id`, the deposit mark (`is_deposited` and `challan_id` are always written together) |
| `challans` | `tax_deposit_challans` with their `tax_deposit_challan_items` |
| `headers`, `legs` | `vouchers`, `transactions` |
| `last` | `sqlite_sequence`: ids are never given twice |
| `number`, `editing`, `picked` | what a form shows: the number, the row it edits, the sources it fetched |
| `queue`, `answer` | tasks posted to the worker; each screen's watcher |

A save or a deletion is three steps.  The screen takes a snapshot and submits
(`ClickSave`, `ClickDelete`, `ClickErase`, `ClickSaveChallan`,
`ClickDeleteChallan`); the worker runs the transaction, in the order of
submission (`SaveReceipt`, `DeleteReceipt`, `SaveTds`, `DeleteTds`,
`SaveChallan`, `DeleteChallan`); the watcher handles the answer (`Finished`).
What the worker promises between the three is `DbWorker`'s subject; here it is
a queue.  Everything else the UI thread does (`SelectYear`, `NewForm`,
`OpenTds`, `FetchSources`) can come in between, so that a task is run on rows
that are not those its form saw.

Choices that a reader of the code may want to check:

- The handlers of the lists and of the challan form only redraw: their answer
  is merged with the run.  The challan form keeps its number and its list after
  a save, since only the synchronous `saveChallan` resets the controller.
- A challan's number is a line edit: the model takes it from `ChallanNos`, not
  from the count the form proposes.  Amounts and the period of the fetch are
  left out: the period is taken to be wide.
- The receipt forms refuse a second save while one waits.  The TDS form
  disables its buttons and not its Ctrl+S and Ctrl+D shortcuts: the model lets
  it save again, and two TDS vouchers may then carry one number.
- Only the TDS form opens stored rows; `loadVoucher` of the other two has no
  caller.  Saving a TDS row that was deleted meanwhile answers true, erasing it a
  second time answers false, as `UPDATE` and the check of the row do.
- Between the two statements of `setActiveFiscalYear` no year is active, and a
  receipt the worker saves then falls back to the last year.
- A posted TDS voucher writes one header per leg, two at least, all with one type,
  year and number.  With the UNIQUE index the second is refused, and the whole
  transaction with it: in the model `Guarded` decides between the two.
- `TaskFails`, when `Fails` allows it, is any other failure of a transaction: it
  answers false and leaves the books.  A COMMIT that fails and is answered true
  is `DbWorker`'s finding and left out here.

### FirmSession

| Variable | In the program |
|---|---|
| the variables of `DbWorker` | the worker of `DbService` |
| `writer`, `writerPath` | `DatabaseManager::m_db`, `m_dbPath` |
| `active` | `FirmManager::m_activeFirmId` |
| `call` | what goes on when `DbService::start` or `restart` comes back |
| `view`, `isDirty` | the view on the screen, the day book's mark |
| `flight`, `answer`, `told` | the query the day book waits for and what it has read, the saves whose screens were told |

A firm is named by its file.  Opening a firm moves the writer, then the reader;
the calls of `DbWorker` take their steps in between, while the UI thread's own
handlers run only when it is back in its event loop (`Idle`).  Reads fall back
to the writer's connection when the worker is down, transactions are refused.
The double query on entering the day book is modelled as one.  `main` with both
a file and a firm on its command line, the content an import writes and the
registry file are left out.

### Vouchers

| Variable | In the program |
|---|---|
| `headers`, `voucherLegs`, `nextHeader`, `nextLeg` | `vouchers`, `transactions`, their `sqlite_sequence` |
| `unique` | `uq_vouchers_type_fy_no` exists; otherwise a plain index does |
| `locked` | the locked years |
| `entry` | the voucher screen of each instance: the id, number, year and type it holds |

A call of `VouchersModel` is one step, being one transaction of the UI
connection; several instances of the program interleave.  The ids are those the
code passes: a screen opened on a row holds the id of a leg and uses it as the id
of a header.  A save deletes legs by number and type; locking a year, the
healing of the index at a start (`Heal`) and the repair dialog (`Renumber`) are
actions.  Amounts and parties
are left out.

### Bills and Forms

`Bills` is the purchase and the sales model, one program with other names;
`Forms` the four other documents, which share their shape.  Each has a register
(`bills`, `rows`), its items, headers, stock and legs, and one action per save,
edit and deletion.  A save is marked by `rev`, so that postings of an older save
can be told from those of the last.  The postings of a save are one member of a
table.  Rows are matched as the SQL matches them: by voucher number, by invoice
number, by the id of another table.  `odd` and `formOdd` record what has to be
said of a history (a number used twice, a document moved to another year, an
edit refused by UNIQUE) for the properties to speak of the files in which it has
not happened.  Which form a row of the day book opens or deletes is looked up by
number as an id first; the model lets it be any form.  The empty invoice number in the edit of a
sale is left out.

### BankStatement

| Variable | In the program |
|---|---|
| `bankHeads`, `bankLegs`, `bankIds` | `vouchers`, `transactions`, the last id |
| `bankLedger` | `m_bankLedgerName`, what the controller takes for the bank |
| `allRows` | `m_allRows`: a movement, its two accounts, its mark and its tick |

Loading a statement (`LoadStatement`) detects its ledger and matches each
movement with the oldest leg of the books not used before (`Matched`,
`Checked`); the user ticks rows, picks accounts, presses the two buttons; and
`PostSelected` writes a voucher per row, in one transaction, without looking at
the results of its legs or of COMMIT.  Other screens and instances enter and
delete vouchers in between.  Date and amount are one value.  The account that a
narration suggests is any or none, and a button meets any part of the rows, as
the filter may leave it: that abstracts the learned aliases, the matching of
names and the filter.  The ledger is not remembered while there are no rows,
when nothing reads it.  What the box holds is an input (`Typed`), since the box
does not follow the ledger that is detected.  The numbers of the vouchers are
the subject of `Vouchers`.

### Jet4Index

`rows` are the keys of the rows by slot, `pages` the pages of the index with
their level, links, tail and entries; `InsertRow`, `ReindexRow`, `RetireRow` and
`RepairIndex` are the operations of `jet4_writer` and of the command line, over
the search, insertion, split, removal and repair of dividers of `BTreeEngine`.
A page holds `PageSize` entries instead of 3616 bytes, so that a list is one
entry too long at most and its two halves fit: `splitPage`, which halves again
as long as bytes do not fit, makes two pages.

What the code does in loops and by recursion are functions over the levels of the
tree, the pages of a walk or the entries of a list (`FindLeaf`, `SubtreeMax`,
`Walk`, `EraseRowRefs`, `RepairedPages`).  `insertIntoPage`, `splitPage`,
`propagateMaxChange` and `removeIndexPage` end in calls of one another: in the
model each answers with the pages it has written and the calls it ends with, and
`Run` makes these calls, two a level at most, until none is left or one refuses.
The removed pages are collected in `gone`, because the code unlinks a page from its
neighbours after the calls for its parents have returned, and not at all when one
of them refuses.  The sort of an unsorted list in `splitPage`, a divider that is
there twice and an entry that is there twice are left out: the proofs show that
lists are sorted and that entries and children are there once.  The healing
branch of `propagateMaxChange`, for files damaged by older versions, is there and never
taken, for the same reason.

The repair compares each entry with the entry of a row it has not read, so that
in an index of texts it puts the empty key everywhere; `MaxRepair` says whether
the index is one of texts.

### JetExport

| Variable | In the program |
|---|---|
| `parties` | `parties.legacy_id`, by `id` |
| `book` | vouchers with their two legs in `transactions`, by the ids of their legs |
| `ledgers` | the rows of `Ledgers`: code, cached `CurrentBalance`, moved to an overflow page |
| `txRows` | the rows of `Transactions`, as the signature compares them, and how often each is there, since a leg can be there twice |
| `run` | the export under way: the legs to come, of which the first is always the next one, `existingTxSignatures`, `balDeltas` |
| `touched`, `stale` | history: groups that changed, or were exported blindly, after legs of them had been exported; codes whose balance missed something |

An export is a step for the ledgers and the reading of the file
(`StartExport`), one per leg (`SkipLeg`, `InsertLeg`, `RefuseLeg`) and one for
the balances (`UpdateBalances`); it can be cut before each (`CutExport`: the
dialog's thread is terminated, or the process ends).  The dialog is modal: the books change between
exports only (a write that waits in the worker's queue when it opens is left
out).  A ledger that is refused, legs that are refused before or after
their row is written, a file whose rows cannot be read and ledgers that cannot be
written are faults; an update that moves a ledger's row to another page is not
one, and may happen at any update.  A journal and a TDS voucher stand for all
series that go to the file as `Jrnl` (`normalizeTxType`).

## Runs

| Run | Checks | Shows |
|---|---|---|
| `fy_books` | `TypeOK`, `Balanced`, `KeyMeansClosed`, `LockedYearOnlyLoses`, `ImplementsLifecycle`, `CloseIsComplete` | two years, every journal edited, re-dated and deleted, no faults: close and reopen implement the abstract life of a year, and a locked year loses vouchers at most |
| `fy_faults` | `LiveClosingIsRecorded` | crashes, refused writes, challans behind the UI thread's back |
| `fy_reopen_rerun` | `ReversedAtMostOnce`, violated | the rerun check of `reopenYear` never finds a reversal |
| `db_worker` | `TypeOK`, `StopDrains`, `WritesStayOnFile`, `ImplementsTaskService`, `EveryTaskAnswered`, `UiReturns` | opens and BEGINs that fail, handshakes that time out |
| `firm_session` | `SessionTypeOK`, `ReaderFollowsWriter`, `ReadsSeeTheirFirm`, `StoredWasReported` | firms switched while the day book reads and vouchers are saved, with every fault, failing COMMITs too |
| `tax_deposit` | `TypeOK`, `MarkIsBacked`, `PostingsOwned`, `ReceiptNumbersDiffer`, `ReceiptNotRefused` | receipts and challans over two years, guarded by the UNIQUE index, transactions that fail |
| `tax_tds` | `PostingsOwned`, `MarksMoveWithChallans` | TDS vouchers saved, edited, saved twice, erased and deposited, without the index |
| `voucher_ids` | `BooksAsAsked`, violated | the id of a leg is used as the id of a header |
| `documents` | `DocumentsTypeOK`, `SavesAreWhole`, `EntryIsExact`, `LockedYearGainsNothing`, `RepairConverges`, `PostingsHaveBills`, `PostedOnce`, `DistinctBillsPosted`, `NumberPostedOnce`, `FormsPostedExactly`, `FormNumbersDiffer`, `NotOverposted` | vouchers of two instances over a new file and a migrated one with a duplicate; or bills of two years and two kinds; or each of the four forms; or statements of two ledgers |
| `bills_repeat` | `EveryBillPosted`, violated | a second bill with the number of a first takes its legs |
| `bank_pairs` | `MatchedOneToOne`, violated | one voucher excuses two equal movements of a statement |
| `jet_files` | `FilesTypeOK`, `IndexServes`, `ExportIsExact`, `BalancesFollow` | rows inserted, re-keyed, retired and repaired under an index of up to three levels; the books exported twice, with refusals, cuts and changes in between |

The four violated properties are what a comment of the code says of it; the
findings in `PROJECT.json` quote each one.

Bounds.  Two years are enough for a close, a second close and a reversal dated
in the other year.  The numbers of a series (`MaxNo`) run out in the runs, so
the refusals for want of a number happen.  `MaxBooks` bounds the journals
already in the books when the user saves one more, `MaxPaid` what challans pay
in a year; the close and the reversal are not bounded by them.  `MaxChanges` is
two in `fy_books`, edits and deletions together: two edits leave legs under a
number that a close then mints again, and an edit and a deletion take a closing
voucher away before and after its year is reopened.  One sale is enough there:
it gives years with a profit, with nothing, and, once an edit has moved it, with
a loss; `ClosesAreComplete` is proved for journals over all ledgers.
For the worker two files and three tasks (a transaction and a statement of the
UI thread, a transaction of another) let a task be submitted on one file, a
restart move to the other, and a task of another thread land behind the stop;
`firm_session` has a query, a statement and a transaction of the UI thread, and
its two files are symmetric.  For the registers two receipts, two challans and
two tasks in flight let a number be computed while the save before it waits, a
source be deposited twice, and a challan be deleted while another one over its
sources is queued.  `tax_tds` has one year: the clean-up of a TDS voucher does
not read it, and two years exceed the time a run may take.  Advances under
194-Q have the shape of TCS receipts and are in no run; the proofs cover them.
For the vouchers there are the two types of one screen, so that the toggle between them
meets a number of the other, and three headers with six legs, so that ids of
the two tables collide; its two instances are symmetric.  Three bills with two
legs each let the id of a leg name another bill, and with the numbers of two
years a number repeat across years and suppliers; four saves let a bill be
altered after another took its number.  `documents` writes vouchers, bills, one
kind of form or statements, which share no row that another reads: the type of
voucher is in every condition.  Of statements there are two ledgers and one
amount that passes through both, once in and out of the first and once out of the
second, so that a transfer shows in two statements and each leg of its voucher
can answer for the other; two vouchers and one lost leg let a statement be
loaded, posted and loaded again over books that miss something.  Lost legs are
those of one posting (`MaxLost`).  Five rows of two keys under two entries a
page give an index of three levels with duplicates across pages, tails,
removals of every level and refused erasures; repairs are bounded by three rows.
`MCJetFiles` takes states that differ only in the numbers of the pages as one
(its VIEW numbers them in the order of the tree): no operation looks at the
number of a page but to follow it, a new page may get any free one, and no
property names one.  The index and the export share no state and `JetFiles`
runs one or the other.  For the export two parties, an imported one with the
code 3 and a new one, let a ledger be inserted late and a leg be without a code;
a journal and a TDS voucher of one number share a group in either of two
years; two exports and two changes let a group be exported, altered and
exported again, or a year added, and two faults let an export that was cut be
refused a leg when it is repeated.  A code that two parties share takes three
parties or an imported code of 2, and is in no run.

The year-end runs disable the deadlock check because the books may really come
to rest: every year locked by hand, the calendar at its bound.  The runs of the
registers, vouchers, documents and Access files disable it because the user may stop
when the bounds stop him; `db_worker` and `firm_session` because after a handshake timeout the
UI thread may wait for a deleted thread.

Fairness.  `DbWorker!FairSpec` is weakly fair to each thread: the UI thread
inside a call that can go on, the worker thread opening its file or being given
up after ten seconds, the two event loops, and a thread that has checked and is
about to post.  That is what the operating system's scheduler and Qt's loops
give.  Nothing makes anyone start, stop or submit, or an open succeed.  After a
handshake timeout the object can belong to a deleted thread, its tasks wait for
ever and a later stop hangs, so both liveness properties except that state.
The other modules claim no liveness: nothing makes a user go on, and that every
task is answered is `DbWorker`'s property.

## Proofs

| Theorem | Property | Assumes |
|---|---|---|
| `TypeCorrect` | `TypeOK` of the year-end close | |
| `BooksBalance` | `Balanced` | no challans |
| `LockOnlyLoses` | `LockedYearOnlyLoses` | no challans |
| `KeyIsTrue` | `KeyMeansClosed` | no faults |
| `OneLiveClosing` | `LiveClosingIsRecorded` | no edits or deletions; faults and challans allowed |
| `ClosesAreComplete` | `CloseIsComplete` | no challans |
| `LifecycleImplemented` | `ImplementsLifecycle` | no faults |
| `OnlyClosesTransfer` | `NoRewrite`, which no run checks | no faults, edits, deletions or journals on Profit & Loss |
| `WorkerTypeCorrect` | `TypeOK` of the worker | |
| `RunsOnItsPath` | `RunningOnPath`, which no run checks | |
| `StopWaitsForTasks` | `StopDrains` | |
| `WritesReachTheirFile` | `WritesStayOnFile` | |
| `CommitsAreReported` | `StoredWasReported` | |
| `WorkerImplementsService` | `ImplementsTaskService` | no COMMIT fails |
| `SessionTypeCorrect` | `SessionTypeOK` | |
| `ReaderKeepsWithWriter` | `ReaderFollowsWriter` | |
| `QueriesSeeTheirFirm` | `ReadsSeeTheirFirm` | |
| `SavesAreReported` | `StoredWasReported`, of a session | |
| `SavesStayWithFirm` | `WritesStayOnFile`, of a session | |
| `TaxTypeCorrect` | `TypeOK` of the registers | |
| `MarksAreBacked` | `MarkIsBacked` | |
| `MarksMoveByChallans` | `MarksMoveWithChallans` | |
| `ReceiptNumbersUnique` | `ReceiptNumbersDiffer` | |
| `ReceiptsAreAccepted` | `ReceiptNotRefused` | |
| `PostingsAreOwned` | `PostingsOwned` | |
| `VoucherTypeCorrect` | `VouchersTypeOK`, a part of `DocumentsTypeOK` | |
| `VoucherSavesAreWhole` | `SavesAreWhole` | |
| `VoucherEntryIsExact` | `EntryIsExact` | |
| `VoucherLockedYearGainsNothing` | `LockedYearGainsNothing` | |
| `VoucherRepairConverges` | `RepairConverges` | |
| `BillsTypeCorrect` | `TypeOK` of the bills | |
| `PostingsFollowBills` | `PostingsHaveBills` | |
| `BillsPostedOnce` | `PostedOnce` | |
| `DistinctBillsArePosted` | `DistinctBillsPosted` | |
| `FormsTypeCorrect` | `FormsTypeOK` | |
| `FormsPostedOnce` | `NumberPostedOnce` | |
| `NumbersDiffer` | `FormNumbersDiffer` | |
| `PostedExactly` | `FormsPostedExactly` | |
| `BankTypeCorrect` | `BankTypeOK`, a part of `DocumentsTypeOK` | |
| `NeverOverposted` | `NotOverposted` | finitely many statements |
| `DocumentsTypeCorrect` | `DocumentsTypeOK` | |
| `ExportTypeCorrect` | `ExportTypeOK`, a part of `FilesTypeOK` | |
| `ExportsAreExact` | `ExportIsExact` | |
| `BalancesAreSums` | `BalancesFollow` | |
| `FilesTypeCorrect` | `FilesTypeOK` | |
| `IndexAlwaysServes` | `IndexServes` | |

They hold for every value of the constants, files, numbers, years, instances and
bounds, under the named assumptions each module states of its constants.  The
assumption "no challans" is `"challan" \notin Writers`: a challan may be dated
in a locked year and may leave out a leg, so the three properties are false with
them.

Arguments.  `Balanced` is preserved because every other step adds or takes a
debit and a credit of the same dates.  That the balances lose exactly the pairs
that are deleted rests on the model's reading of `legs`: under a number there is
at most one pair of a save, close or reopen, one of an edit and one a reopen
mirrored from an edit.  `BooksInvariant` proves it (`OnePerClass`), from the fact
that a header stays with its saved pair (`SavedHeld`), so that `claimVoucherNo`
counts it.  `LockedYearOnlyLoses` needs no invariant but the types: whatever is
added is dated in the one year whose lock was read.

`KeyMeansClosed` is not inductive: `KeyInv` says what the setting means in every
state, in the middle of a reopen too; `JobInv` says what each stage of
`closeYear` and `reopenYear` may rely on.  The argument is that an edit or a
deletion treats the legs under a number together: it takes all of them, or
leaves them and their header alone (`KeptOrLost`), and what it adds is labelled
with a year that is open and has no setting.  So the voucher a setting names is
never replaced, only lost.  `LiveClosingIsRecorded` adds `LiveInv`: while a reopen
is between its commits, what the setting and the reversals are; an edit can turn a
closing voucher into any journal, and it is proved without them.
`CloseIsComplete` needs `NetInv`: without challans nothing posts between the read
of the net and the transaction, so the net in `job` is the net of the books.

The refinement of `FyLifecycle` maps a year to closed when its setting exists,
no reopen has yet reversed its journal, and the number in the setting has one
pair of legs; to mixed when it has several, because the close minted a number
under which an edit had left legs; and to gone when it has none.  `LifeInv` is
the types, `KeyInv`, `JobInv`, and that a year is unlocked between the commits of
its reopen; with it a reversal takes back exactly what the close transferred.
The step of a close maps to `Close` or `CloseMixed`, the reversal to `Reopen` or
`ReopenMixed`, a lock to `Lock`, an edit, a deletion and a journal on Profit &
Loss to `Rewrite`, which may make closed years lose their voucher but never opens
one, the rest to a stutter.  After a crash between the reversal and the deletion
of the setting the year counts as closed again with nothing transferred, which is
why faults are excluded; `OnlyClosesTransfer` says what is left when nobody else
touches that ledger: then no year is ever mixed or gone.

For the worker, `ThreadInv` ties the stage of the UI thread to affinity, loop,
connection and the blocking event in the queue; `QueueInv` says that a waiting
task is in the queue exactly once, in order, and that a UI task is never behind
the stop event; `UiInv` that a waiting UI task belongs to the file the handle
is on; `StoreInv` that what is stored or dirty was answered true.  Together they
are inductive.  The refinement maps each run of a task to `Perform` or `Refuse`
and every other step to a submission, a refusal or a stutter; it needs
`StoreInv`, and that without failing COMMITs no transaction stays open.

For the session nearly every step is a step of the worker or leaves the worker
alone, so that the worker's invariants hold of it (`KeptInv`).  `FollowInv` is why
the reader follows the writer: a call to the worker is on the file the writer has
just been sent to, and the writer stays there, or is closed, until the call
returns.  `ReadInv` is about the query on its way: it was asked of the file the
handle is on, and what was saved there when it was sent is there until it is
performed, since nothing is ever taken out of a file.

For the registers `Typed` adds to the types that the tables are finite, so that
the largest number of a register exists (`HasLargest`, by the well-foundedness
of the strict subset), and that a year is active whenever nobody is changing
it.  `KeysFresh` says that ids are unique and not reused, which makes
`MarkIsBacked` and `MarksMoveWithChallans` inductive: a new challan's id is no
older one's.  `Numbering` is what the unique numbers need and neither property
says: each receipt form has at most one save in flight (`OneSaveWaits`); the
number it shows is above every number of its register until it is told that
its save was done (`NumberIsNext`), so that deletions, which may lower the
largest number, do no harm; and each header with a receipt's number is the header of a receipt
that still exists (`HeaderHasReceipt`), so that the UNIQUE index has nothing to
refuse (`NumbersAreFree`), and a save that failed can be tried again under its
number.  `Owned` is `PostingsOwned` made inductive: a deletion clears headers by
their id and legs by number, in every year, so the invariant has to say that an
id is one owner's, that a leg carries the number of its header, and whose numbers
a receipt's, a challan's and a TDS voucher's are; then a deletion by number takes
the legs of its own header, or of headers whose rows do not need them.

For the vouchers the types say that ids are unique and below the counters, and
a debit's and a credit's ids are a pair.  `SavesAreWhole` needs no more, since
each step that takes or changes a leg does so for all legs of its number and
type.  `EntryIsExact` is proved with `ExactInv`: the types, that legs come in
pairs, and that the UNIQUE index is there until something is touched;
`RepairConverges` needs that the new number is free in its year
(`NextNoIsFresh`, by `HasLargest`).

For the bills `Registered` adds to the types that the tables are finite, so that
the next number exists (`NextVoucherNoIsFresh`) and a match by `LIMIT 1` finds a
row (`FirstIsOne`).  `PostingsHaveBills` is inductive with it, because an edit or
a deletion that takes a bill out of the register takes everything that carries
either of its numbers.  `DistinctBillsPosted` needs `Distinct`: until
something odd happens no two bills share a number, and a bill's voucher number
is of its year, so the next number of a year is no other bill's.

For the forms `Registered` says that ids are given once and that only some kinds
have stock and legs; `Numbered` that, while no note has changed its type, its
number is no larger than its id, so that the number after the largest id is
free; `Exact` that forms whose numbers never changed differ in them, which
makes clearing by number the same as clearing by form.

For the statements nothing compares the rows with the books between the check and
the posting, so `NotOverposted` is not inductive.  `Room` is: the rows that are
not marked, and what was posted of the same movement before, are together no more than
the statement shows.  The check establishes it, since a row is left unmarked only when
each voucher posted from its movement was found by another row, and by one of its own
(`PostedAreMarked`, an injection from vouchers to rows); the screen and the other
writers of the books preserve it; posting turns it into the bound.  The match
itself is recursive over the movements: `MatchedIs` shows that the recursion has a
solution, by the smallest number of movements for which it would have none.

For the export `ExportIsExact` rests on three statements about every moment of an
export.  `ThroughInv`: the legs of its years that are no longer to come are in the
file, unless one was refused.  `LegsInv`: what the file has of a group that was left
alone is a leg of the group as it is now, once; a change leaves other groups alone,
down to their row numbers, because ids only go up and rows are numbered within a
group (`ChangeBooks`).  `SeenInv`: a row that the export has not seen is no leg to
come, unless the file was unreadable; without it nothing would keep a leg whose
insertion failed after its row was written from being inserted again.
`BalancesFollow` is not inductive, since balances move once at the end and rows one by
one.  `BalanceInv` is: the balance of every code, that of a ledger that is not in
the file counting as nothing, and the delta the export keeps for it come to the
sum of its rows.  That sum is a fold that takes the rows in an unspecified order; that it
exists, is a number, does not depend on the order and moves by one leg when one leg is
inserted (`SumExists`, `SumType`, `SumTakes`, `SumAgrees`, `TotalMoves`) is shown by
smallest counterexamples, over sizes or strict subsets.

The four kinds of documents share no row, so the invariants of their modules
together are one of `MCDocuments`.

For the index the B-tree that `IndexTypeOK` describes is not there while an operation
is under way, and `IndexServes` says nothing of single pages.  The argument has four parts.

1. What a B-tree gives.  `Shaped` is the tree without the order of its entries:
   pages have their types, are linked both ways and hung once.  With sorted entries
   and exact dividers every page but the last of its level is bounded by its divider
   and every page begins behind the end of the one before, so that the search for an entry
   goes to the one leaf whose range it is in, and the walk from the first leaf
   passes every leaf once, in order: it shows the set of entries of the leaves, `Indexed`.
2. One call.  Between two calls the tree is a B-tree with one stale divider at
   most, whose page's new entries are in the hands of the next call: `Pending` (a list
   is to be written to a page of the path), `Passing` (a page has a new largest
   entry that its parent does not know) or `Done`.  For each of the four operators, and in
   `splitPage` for a root and for another page, a lemma shows that the call leads
   from one of the first two to one of the three, and leaves the set of entries
   as it was asked.
3. The calls end.  An insertion into a page is followed by a call for its parent, or by
   the propagation of its new largest entry and then a call for its parent, so that two
   calls a level are enough (`RunIs`, `RunDone`).  A removal makes pages empty from the leaf
   up to the first node that keeps a child; it is refused exactly when that chain meets a node
   whose last divider goes and whose tail stays, which is `TailStays`, and then
   nothing has been written, because a tail is cleared only in a node that keeps a divider, where the
   removal ends.
   When it is not refused, unlinking the whole chain at once leaves a B-tree.
   `LeafInsertFacts` and `EraseEntryFacts` say what one insertion and one erasure do:
   the tree stays a B-tree whose pages fit, and its entries are those before, with one
   more or one less.  `EraseRowFacts` and `RepairFacts` follow by going through a walk's entries.
4. Rows and entries.  `IndexInv` is inductive: `IndexTypeOK`, every entry of the tree is
   that of a row with its key (or the empty one, after a repair) or of a ghost
   (`EntriesInv`), and every row has one (`RowsInv`).  `IndexServes` follows by part 1.

The recursive functions of the index are shown to exist as the match of statements is,
by the smallest number for which they would have no value.

Only model-checked: the two liveness properties of the worker, `EveryTaskAnswered`
and `UiReturns` (and ENABLED, behind every fairness condition), which this prover does
not do.  Every other property of a passing run is stated by a theorem.

## Not modelled

- Stock valuations in the net, `soft_closed`, the creation of the next
  financial year inside the close (the years exist), ledgers that are missing or
  not under Capital (a refusal that changes nothing), the audit log.
- `stop()` called from the worker thread itself, which the code calls misuse and no
  caller does; a read that failed half-way and is answered as a complete one.
- The amounts of the tax registers, the calculations of their forms, the rows of
  `TDSDeductions`, which only the export reads, and the way a
  TDS form whose party or amount is missing is refused before it submits.
- `--firm` together with `--db`, what an import writes, the registry file.
- The parsers of bank statements, the accounts found from narrations and the
  aliases learned from corrections: any or none is found in the model.
- The series of bills, which only propose a number; postings of salaries, bank
  entries and sauda; the content of documents.
- Access files: several indexes of a table, entries of different sizes, usage
  maps, the layout of rows, failing I/O; `ensureRowIndexed` and
  `resurrectDeletedSlot`, which nothing calls.
- The exporter's company, groups, openings, stock, transport and TDS tables, the shapes of
  its rows, and its ODBC engine, which runs on Windows where the driver is installed.
- What `PROJECT.json` lists as not modelled, with the reason there: reports, tax
  exports and imports compute on doubles and texts without state of their own,
  screens and printing are presentation.  They are most of the program's lines,
  so that the share of the source these models map is small.

## Behaviour worth knowing

The models follow the code where it may surprise, and the properties are stated
so that they hold of it.  Year end:

- the cumulative income and expense of closed years enter the next year's net
  again, since ledgers are summed since the books began
  (`profit_loss_calculator.cpp:290`), so a profit is transferred twice;
- a loss is closed without a journal: the net is never negative;
- a year locked with the lock button has no setting and cannot be reopened by the
  dialog; a reversal is dated today and can fall into another year than its close;
- the snapshot of openings survives a reopen, and is served again when the year
  before is locked by hand, whatever was posted meanwhile
  (`fiscal_year_helper.cpp:717-728`, `:786`);
- `fiscal_year_helper.h:129-131` asks every mutating path to check the lock;
  challans, receipts, TDS vouchers, bills, forms, notes and batches do not, and
  an edit checks the new date only, so that a voucher, a closing voucher too, can
  be moved out of a locked year (`vouchers_model.cpp:836`, `:943`);
- a year whose closing voucher has been edited or deleted away stays closed for
  good: its setting remains, so that it cannot be closed again, and every reopen
  finds no voucher and locks it again (`fy_close_engine.cpp:301`, `:318`);
- a voucher moved to another year keeps its number, which its old year may mint
  again; an edit or a deletion of either then takes the legs of both, and a
  close that gets such a number can be reversed together with the other's legs;
- a challan whose interest has no ledger credits the bank without a debit
  (`tax_challan_controller.cpp:484`), and the trial that gates the close no longer balances.

Worker and firms:

- the result of COMMIT is ignored (`db_worker.cpp:415`): what was answered true
  need not be stored, and a transaction may stay open;
- `execUnchecked` that fails rolls the whole transaction back after all: the
  save of a TDS voucher on a file with the UNIQUE index fails this way;
- after a handshake timeout a later start succeeds on a thread the object does not
  belong to, and the stop after it waits for ever;
- rows of an old query can fill the day book after a switch and clear its mark;
- after a failed open the firm dialog leaves the writer closed, or on another file
  than the active firm; two new firms with one slug share a file.

Tax registers: a challan saved again from the list its form still shows deposits
the sources a second time, and deleting either releases them; two TDS vouchers
can get one number; the clean-up of one takes another year's postings of its
number.

Documents:

- a bill entered with another bill's number takes its legs (the finding); a header
  may stay as an older save left it; a bill moved to another year keeps its number,
  which that year's series may give out again; a line in the register of withheld
  tax stays after its bill;
- an edit of a sale that UNIQUE refuses goes on and posts;
- altering a J-form or an I-form takes the next number and leaves the old
  postings, although `jform_model.cpp:206-207` calls the save idempotent; a form
  clears the postings of its number in every year; a deleted I-form leaves its legs;
- a note that changes its type sets its number free, and `deleteNote` deletes the
  transactions of its number of either type; a screen can save a form that is
  no longer there, and posts it;
- cash, cheque and journal vouchers are opened by the id of a leg (the finding), and
  rows of the ledger statement delete bills by the id of a leg.

Bank statements:

- one voucher excuses two equal movements (the finding);
- the ledger box does not follow the ledger detected in a file: posting rewrites the
  rows to what the box holds, and the same file loaded again, checked against the
  detected ledger, does not know those vouchers;
- picking an account ticks a duplicate (`bank_statement_controller.cpp:76`), and so
  does the box that selects all;
- the results of the legs and of COMMIT are ignored (`:1177`, `:1199`), no lock
  of a year is asked, and what another instance posts after the file was loaded is
  not seen;
- the screen looks for `postedCount` and `error`, which the controller does not
  answer with, and always says that none was posted.

Access files:

- an entry that is the last one below the only divider of a node with a tail cannot be
  erased, although `jet4_btree.h:80-84` promises the removal; `reindexRowData` refuses
  the row after it has erased its entries in earlier indexes ("Fails cleanly",
  `jet4_writer.h:60-62`); a row that was moved to an overflow page is refused
  by every later call, so that its cached balance goes stale;
- an export never removes a leg: legs of vouchers that were altered or deleted stay.
  Row numbers are handed out anew among the vouchers of one number, date and
  year, and are part of a leg's signature (`bahi_khata_exporter.cpp:2548-2563`, `:2592`), so
  that a second voucher there makes legs be inserted a second time;
- an export that is cut before its balances, a ledger that cannot be written and a
  ledger whose row was moved stay short for ever, since the next export skips the
  legs that are there (`:2593`, `:312`, `:2754`); rows that cannot be read count as no rows (`:2353`);
- journals of a party created in the program go to account code 0 while its ledger
  has its id as code, which may be another party's legacy code (`:2127-2133`, `:2380-2389`);
- the repair ignores a refused erasure, and in an index of texts replaces every
  entry by that of the empty key (`financial_engine_cli.cpp:1782-1841`).

## Plan

The modules above are built.  What is left, in this order:

1. `LockedYearOnlyLoses` with challans, as a run that is violated, in the place of
   a weaker run.
2. Algorithms against reference definitions: gaps of a bill series, FIFO stock
   valuation, interest over a statement, the matching of the GST reconciler.
