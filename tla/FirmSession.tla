---------------------------- MODULE FirmSession ----------------------------
(***************************************************************************)
(* A session with several firms: FirmManager, the two connections to the   *)
(* firm's file and the day book.                                           *)
(*                                                                         *)
(* The UI thread writes through the connection of DatabaseManager and      *)
(* reads through the worker of DbService (DbWorker, extended here), which  *)
(* falls back to the first when the worker is down.  Opening, creating,    *)
(* importing and editing a firm move both, one after the other; the answer *)
(* of a query that was under way is handled when the UI thread is back in  *)
(* its event loop.  A firm is named by its file.  Here "read" tasks are    *)
(* the day book's queries, "exec" tasks what the UI thread writes itself,  *)
(* "transact" tasks the saves it hands to the worker.                      *)
(***************************************************************************)
EXTENDS DbWorker

CONSTANT NoTask

ASSUME SessionAssumption == NoTask \notin Tasks /\ UiTasks = Tasks

VARIABLES
    writer,      \* the file of DatabaseManager's m_db, NoFile for a null handle
    writerPath,  \* its m_dbPath
    active,      \* the file of m_activeFirmId
    call,        \* what goes on when DbService::start or restart comes back
    view,        \* the view on the screen
    isDirty,     \* the day book is marked
    flight,      \* the query whose finish the day book waits for
    answer,      \* what that query has read: a file and what was saved in it
    told,        \* the saves whose screens have been told
    asOf         \* history: where the query was sent, and what was saved there

book == <<isDirty, flight, answer, told, asOf>>
writing == <<writer, writerPath>>
worker == vars
session == <<writing, active, call, view, book>>
allVars == <<vars, session>>

Views == {"launch", "selector", "import", "dashboard", "voucher", "daybook"}
NoCall == [op |-> "none", firm |-> NoFile]
Content(f) == [file |-> f, saved |-> IF f = NoFile THEN {} ELSE stored[f]]
NoRows == [file |-> NoFile, saved |-> {}]

\* The UI thread is in its event loop.
Idle == call = NoCall /\ ui = UiIdle

SessionInit ==
    /\ Init
    /\ writer = NoFile /\ writerPath = NoFile
    /\ active \in Files \cup {NoFile}   \* loadRegistry: the firm of the last session
    /\ call = NoCall
    /\ view = "launch"
    /\ isDirty = TRUE
    /\ flight = NoTask /\ answer = NoRows /\ asOf = NoRows
    /\ told = {}
-----------------------------------------------------------------------------
(* The two connections *)

\* initDatabase after closeDatabase: the path is kept when the open fails.
SwitchDatabase(f) ==
    /\ writer' \in {f} \cup (IF "open" \in Faults THEN {NoFile} ELSE {})
    /\ writerPath' = f

\* DbService::restart, up to the point where it waits.
Restart(f) == Stop(f) \/ Start(f)

\* main: the firm of the last session, or the file named by --db, if there is one.
\* The worker stays down with MAHADEV_SYNC_DB.
Launch ==
    /\ view = "launch" /\ Idle
    /\ view' = "selector"
    /\ \/ UNCHANGED <<worker, writing, call>>
       \/ \E f \in Files :
             /\ SwitchDatabase(f)
             /\ \/ writer' = f /\ Start(f) /\ call' = [op |-> "start", firm |-> f]
                \/ UNCHANGED <<worker, call>>
    /\ UNCHANGED <<active, book>>

\* Mutant: the worker is left where it is.
SwitchFirmWriterOnly(f) ==
    /\ view = "selector" /\ Idle
    /\ SwitchDatabase(f)
    /\ IF writer' = f THEN call' = [op |-> "open", firm |-> f] ELSE UNCHANGED call
    /\ UNCHANGED <<worker, active, view, book>>

\* switch_to_firm: only when the writer is open does the worker follow.
SwitchFirm(f) ==
    /\ view = "selector" /\ Idle
    /\ SwitchDatabase(f)
    /\ IF writer' = f THEN Restart(f) /\ call' = [op |-> "open", firm |-> f]
                      ELSE UNCHANGED <<worker, call>>
    /\ UNCHANGED <<active, view, book>>

\* create_new_firm and prepare_firm_for_import go on without the writer.
MakeFirm(f, op) ==
    /\ view = "selector" /\ Idle
    /\ SwitchDatabase(f)
    /\ Restart(f)
    /\ call' = [op |-> op, firm |-> f]
    /\ UNCHANGED <<active, view, book>>

\* Mutant: the worker is restarted also when no file was open before.
EditFirmBackToNothing(f) ==
    /\ view = "selector" /\ Idle
    /\ writerPath # f
    /\ SwitchDatabase(writerPath)
    /\ Restart(writerPath)
    /\ call' = [op |-> "edit", firm |-> writerPath]
    /\ UNCHANGED <<active, view, book>>

\* EditFirmDialog, when it loads and when it saves: withFirmDb goes to the firm's
\* file and back to the path it found, which is empty before any file was opened.
EditFirm(f) ==
    /\ view = "selector" /\ Idle
    /\ writerPath # f
    /\ \/ /\ "open" \in Faults \/ writerPath = NoFile
          /\ writer' = NoFile /\ writerPath' = f
          /\ UNCHANGED <<worker, call>>
       \/ /\ writerPath # NoFile
          /\ SwitchDatabase(writerPath)
          /\ Restart(writerPath)
          /\ call' = [op |-> "edit", firm |-> writerPath]
    /\ UNCHANGED <<active, view, book>>

\* The rest of the handler, whether the worker came up or not.  An opened firm
\* marks every statement and shows the dashboard; an imported one does neither
\* before "Open Company Now".
CallEnd ==
    /\ call # NoCall /\ ui = UiIdle
    /\ call' = NoCall
    /\ active' = IF call.op \in {"open", "import"} THEN call.firm ELSE active
    /\ isDirty' = (isDirty \/ call.op = "open")
    /\ view' = IF call.op = "open" THEN "dashboard" ELSE IF call.op = "import" THEN "import" ELSE view
    /\ UNCHANGED <<worker, writing, flight, answer, told, asOf>>

\* The last page of the import: "Open Company Now", or Close.
ImportDone ==
    /\ view = "import" /\ Idle
    /\ \/ view' = "dashboard" /\ isDirty' = TRUE
       \/ view' = "selector" /\ UNCHANGED isDirty
    /\ UNCHANGED <<worker, writing, active, call, flight, answer, told, asOf>>
-----------------------------------------------------------------------------
(* The day book *)

\* DbService::query and QFutureWatcher::setFuture: the watcher forgets the query
\* it waited for.
Load(t) ==
    /\ KindOf[t] = "read" /\ fut[t] = "new"
    /\ flight' = t
    /\ IF IsRunning
       THEN /\ UiSubmit(t)
            /\ answer' = NoRows
            /\ asOf' = Content(IF writer = NoFile THEN path ELSE writer)
       ELSE /\ fut' = [fut EXCEPT ![t] = "value"]
            /\ answer' = Content(writer)
            /\ asOf' = Content(writer)
            /\ UNCHANGED <<thread, path, connection, affinity, queue, loop, ui, asked>>

NoLoad == UNCHANGED <<worker, flight, answer, asOf>>

\* navigateToView: the day book loads when it is entered from the dashboard or
\* marked, and keeps its rows otherwise.
Navigate(v) ==
    /\ Idle
    /\ \/ view = "selector" /\ v = "dashboard" /\ active # NoFile
       \/ view = "dashboard" /\ v \in {"selector", "voucher", "daybook"}
       \/ view = "voucher" /\ v \in {"dashboard", "daybook"}
       \/ view = "daybook" /\ v \in {"dashboard", "voucher"}
    /\ view' = v
    /\ IF v = "daybook" /\ (isDirty \/ view = "dashboard") THEN \E t \in Tasks : Load(t) ELSE NoLoad
    /\ UNCHANGED <<writing, active, call, isDirty, told>>

Refresh ==
    /\ view = "daybook" /\ Idle
    /\ \E t \in Tasks : Load(t)
    /\ UNCHANGED <<writing, active, call, view, isDirty, told>>

\* onDayBookQueryReady: without an answer the last rows stay, and the mark.  The
\* task is free for the next query.
QueryReady ==
    /\ Idle
    /\ flight # NoTask /\ fut[flight] \in Resolved
    /\ flight' = NoTask
    /\ fut' = [fut EXCEPT ![flight] = "new"]
    /\ asked' = [asked EXCEPT ![flight] = NoFile]
    /\ isDirty' = (isDirty /\ fut[flight] = "empty")
    /\ answer' = NoRows /\ asOf' = NoRows
    /\ UNCHANGED <<thread, path, connection, affinity, queue, loop, ui>>
    /\ UNCHANGED <<writing, active, call, view, told>>
-----------------------------------------------------------------------------
(* Saves *)

\* A voucher saved on the UI thread's connection.  It is refused without one, or
\* while the worker's is inside a transaction on the file.
Save(t) ==
    /\ view = "voucher" /\ Idle
    /\ KindOf[t] = "exec" /\ fut[t] = "new"
    /\ \/ /\ writer # NoFile /\ ~ (open /\ db = writer)
          /\ fut' = [fut EXCEPT ![t] = "true"]
          /\ asked' = [asked EXCEPT ![t] = writer]
          /\ stored' = [stored EXCEPT ![writer] = @ \cup {t}]
          /\ told' = told \cup {t} /\ isDirty' = TRUE
       \/ /\ fut' = [fut EXCEPT ![t] = "empty"]
          /\ UNCHANGED <<asked, stored, told, isDirty>>
    /\ UNCHANGED <<thread, path, db, open, dirty, affinity, queue, loop, ui>>
    /\ UNCHANGED <<writing, active, call, view, flight, answer, asOf>>

\* DbService::transact, refused when the worker is down.
Transact(t) ==
    /\ view = "voucher" /\ Idle
    /\ KindOf[t] = "transact"
    /\ UiSubmit(t)
    /\ UNCHANGED session

\* The screen's watcher: every mutation that succeeded marks the statements.
Saved(t) ==
    /\ Idle
    /\ KindOf[t] = "transact" /\ fut[t] = "true" /\ t \notin told
    /\ told' = told \cup {t}
    /\ isDirty' = TRUE
    /\ UNCHANGED <<worker, writing, active, call, view, flight, answer, asOf>>
-----------------------------------------------------------------------------
\* The steps of the worker and of the calls the UI thread waits in; a query that
\* is performed reads the file the handle is open on.
WorkerStep ==
    /\ \/ UiCall \/ OpenOnThread \/ OpenFails \/ HandshakeTimeout
       \/ WorkerLoop
       \/ call = NoCall /\ UiLoop
    /\ IF flight # NoTask /\ fut[flight] = "waiting" /\ fut'[flight] = "value"
       THEN answer' = Content(db) ELSE UNCHANGED answer
    /\ UNCHANGED <<writing, active, call, view, isDirty, flight, told, asOf>>

SessionNext ==
    \/ Launch
    \/ \E f \in Files : SwitchFirm(f) \/ MakeFirm(f, "open") \/ MakeFirm(f, "import") \/ EditFirm(f)
    \/ CallEnd \/ ImportDone
    \/ \E v \in Views : Navigate(v)
    \/ Refresh \/ QueryReady
    \/ \E t \in Tasks : Save(t) \/ Transact(t) \/ Saved(t)
    \/ WorkerStep

SessionSpec == SessionInit /\ [][SessionNext]_allVars
-----------------------------------------------------------------------------
(* Properties *)

Rows == [file : Files \cup {NoFile}, saved : SUBSET Tasks]

\* Every variable of the session has its type.
SessionTypeOK ==
    /\ TypeOK
    /\ writer \in Files \cup {NoFile} /\ writerPath \in Files \cup {NoFile}
    /\ active \in Files \cup {NoFile}
    /\ call \in [op : {"start", "open", "import", "edit"}, firm : Files] \cup {NoCall}
    /\ view \in Views
    /\ isDirty \in BOOLEAN
    /\ flight \in Tasks \cup {NoTask}
    /\ answer \in Rows /\ asOf \in Rows
    /\ told \subseteq Tasks

\* "Keep the isolated reader on the same file as the writer": when the UI thread is
\* back in its event loop the worker is down, or on the file of the writer's
\* connection, or the writer has none, whatever opens and restarts have failed.
ReaderFollowsWriter ==
    Idle /\ thread /\ writer # NoFile => path = writer /\ db = writer

\* The rows a query brings are those of the file that was open when it was sent,
\* with everything saved there until then, whatever firm is opened before it is
\* performed or its answer is handled.
ReadsSeeTheirFirm ==
    flight # NoTask /\ fut[flight] = "value" =>
        answer.file = asOf.file /\ asOf.saved \subseteq answer.saved
=============================================================================
