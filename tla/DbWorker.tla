------------------------------ MODULE DbWorker ------------------------------
(***************************************************************************)
(* DbWorker: the object that owns a SQLite connection on a thread of its   *)
(* own, started, moved to another file and stopped by the UI thread, and   *)
(* given tasks by the UI thread and by others.                             *)
(*                                                                         *)
(* The object has an event queue; the thread it has affinity to runs the   *)
(* events, and moveToThread takes the queue along.  A task is one event,   *)
(* its SQL is abstracted to the outcomes SQLite can give it, and what it   *)
(* writes to the task itself.                                              *)
(***************************************************************************)
EXTENDS Naturals, Sequences

CONSTANTS
    Files,       \* database files
    NoFile,
    Tasks,
    KindOf,      \* what a task is: see Kinds
    UiTasks,     \* the tasks of the UI thread; every other has a thread of its own
    StopCall,    \* the blocking event stop() posts
    HomeCall,    \* the blocking event a failed start() posts
    Faults       \* what may go wrong: see FaultSet

Kinds == {"read", "exec", "transact"}
FaultSet == {"open", "timeout", "begin", "commit"}

ASSUME ConstantsAssumption ==
    /\ NoFile \notin Files
    /\ KindOf \in [Tasks -> Kinds]
    /\ UiTasks \subseteq Tasks
    /\ StopCall \notin Tasks /\ HomeCall \notin Tasks /\ StopCall # HomeCall
    /\ Faults \subseteq FaultSet

VARIABLES
    thread,    \* m_thread is set
    path,      \* m_dbPath
    db,        \* the file of m_db, NoFile for a null handle
    open,      \* the connection is inside a transaction no task will end
    dirty,     \* what was written inside it
    stored,    \* what is committed in each file
    affinity,  \* the thread of the object: "ui", "worker" or a deleted one, "dead"
    queue,     \* the events posted to the object
    loop,      \* the worker thread: "off", "opening", "running"
    ui,        \* where the UI thread is, and the file it is starting on
    fut,       \* the tasks' futures
    asked      \* the file the worker was on when the task was submitted

connection == <<db, open, dirty, stored>>
futures == <<fut, asked>>
vars == <<thread, path, db, open, dirty, stored, affinity, queue, loop, ui, fut, asked>>

UiIdle == [at |-> "idle", next |-> NoFile]

IsRunning == thread /\ loop # "off" /\ db # NoFile

\* What a future is resolved to: "empty" is a future without result, which a
\* transaction's never is.
AnswersOf == [read |-> {"value", "empty"}, exec |-> {"true", "empty"},
              transact |-> {"true", "false"}]
Resolved == {"value", "true", "false", "empty"}

\* Mutant: a transaction is refused as any other task is.
RefusalEmpty(t) == "empty"

\* The answer of a task that was not performed.
Refusal(t) == IF KindOf[t] = "transact" THEN "false" ELSE "empty"

Init ==
    /\ thread = FALSE
    /\ path = NoFile
    /\ db = NoFile
    /\ open = FALSE
    /\ dirty = {}
    /\ stored = [f \in Files |-> {}]
    /\ affinity = "ui"
    /\ queue = <<>>
    /\ loop = "off"
    /\ ui = UiIdle
    /\ fut = [t \in Tasks |-> "new"]
    /\ asked = [t \in Tasks |-> NoFile]
-----------------------------------------------------------------------------
(* start, restart and stop, on the UI thread *)

\* Mutant: the event overtakes the tasks already posted.
StopJumpsQueue(next) ==
    /\ ui = UiIdle
    /\ thread
    /\ thread' = FALSE
    /\ queue' = <<StopCall>> \o queue
    /\ ui' = [at |-> "stopping", next |-> next]
    /\ UNCHANGED <<path, connection, affinity, loop, futures>>

\* stop() takes m_thread away, then waits for its event to be run.  A start on
\* another file and every restart stop first; next is the file they go on with.
Stop(next) ==
    /\ ui = UiIdle
    /\ thread
    /\ thread' = FALSE
    /\ queue' = Append(queue, StopCall)
    /\ ui' = [at |-> "stopping", next |-> next]
    /\ UNCHANGED <<path, connection, affinity, loop, futures>>

\* A start when the worker is down.
Start(f) ==
    /\ ui = UiIdle
    /\ ~ thread
    /\ ui' = [at |-> "begin", next |-> f]
    /\ UNCHANGED <<thread, path, connection, affinity, queue, loop, futures>>

\* A new thread; the object moves to it, unless it has affinity to a thread
\* other than this one.
BeginThread ==
    /\ ui.at = "begin"
    /\ affinity' = IF affinity = "ui" THEN "worker" ELSE affinity
    /\ loop' = "opening"
    /\ ui' = [ui EXCEPT !.at = "opening"]
    /\ UNCHANGED <<thread, path, connection, queue, futures>>

\* openOnThread: the started signal is delivered directly on the new thread.
OpenOnThread ==
    /\ loop = "opening"
    /\ db' = ui.next
    /\ open' = FALSE /\ dirty' = {}
    /\ loop' = "running"
    /\ ui' = [ui EXCEPT !.at = "opened"]
    /\ UNCHANGED <<thread, path, stored, affinity, queue, futures>>

\* Mutant: nothing is posted that would bring the object home.
OpenFailsAway ==
    /\ "open" \in Faults
    /\ loop = "opening"
    /\ loop' = "running"
    /\ ui' = [at |-> "returning", next |-> NoFile]
    /\ UNCHANGED <<thread, path, connection, affinity, queue, futures>>

\* The file cannot be opened: start() sends the object home and joins.
OpenFails ==
    /\ "open" \in Faults
    /\ loop = "opening"
    /\ loop' = "running"
    /\ queue' = Append(queue, HomeCall)
    /\ ui' = [at |-> "returning", next |-> NoFile]
    /\ UNCHANGED <<thread, path, connection, affinity, futures>>

\* The handshake takes longer than 10 s: start() quits and joins the thread,
\* which still finishes its open, and gives up.  Its moveToThread is not called
\* from the object's thread and does nothing.
HandshakeTimeout ==
    /\ "timeout" \in Faults
    /\ loop = "opening"
    /\ \/ db' = ui.next /\ open' = FALSE /\ dirty' = {}
       \/ UNCHANGED <<db, open, dirty>>
    /\ loop' = "off"
    /\ affinity' = "dead"
    /\ ui' = UiIdle
    /\ UNCHANGED <<thread, path, stored, queue, futures>>

\* The handshake is done: the worker is published.
Publish ==
    /\ ui.at = "opened"
    /\ thread' = TRUE
    /\ path' = ui.next
    /\ ui' = UiIdle
    /\ UNCHANGED <<connection, affinity, queue, loop, futures>>

\* The blocking event has been run: quit, join, delete the thread.
Join ==
    /\ ui.at = "joining"
    /\ loop' = "off"
    /\ path' = NoFile
    /\ ui' = IF ui.next = NoFile THEN UiIdle ELSE [ui EXCEPT !.at = "begin"]
    /\ UNCHANGED <<thread, connection, affinity, queue, futures>>
-----------------------------------------------------------------------------
(* Submitting a task *)

\* Mutant: the task is posted to a worker that is down.
UiSubmitUnchecked(t) ==
    /\ t \in UiTasks /\ fut[t] = "new"
    /\ ui = UiIdle
    /\ fut' = [fut EXCEPT ![t] = "waiting"]
    /\ asked' = [asked EXCEPT ![t] = path]
    /\ queue' = Append(queue, t)
    /\ UNCHANGED <<thread, path, connection, affinity, loop, ui>>

\* postTask and asyncTransact on the UI thread, which runs stop() itself.
UiSubmit(t) ==
    /\ t \in UiTasks /\ fut[t] = "new"
    /\ ui = UiIdle
    /\ IF IsRunning
       THEN /\ fut' = [fut EXCEPT ![t] = "waiting"]
            /\ asked' = [asked EXCEPT ![t] = path]
            /\ queue' = Append(queue, t)
       ELSE /\ fut' = [fut EXCEPT ![t] = Refusal(t)]
            /\ UNCHANGED <<asked, queue>>
    /\ UNCHANGED <<thread, path, connection, affinity, loop, ui>>

\* The same on another thread: isRunning is read first ...
ThreadCheck(t) ==
    /\ t \notin UiTasks /\ fut[t] = "new"
    /\ IF IsRunning
       THEN /\ fut' = [fut EXCEPT ![t] = "checked"]
            /\ asked' = [asked EXCEPT ![t] = path]
       ELSE /\ fut' = [fut EXCEPT ![t] = Refusal(t)]
            /\ UNCHANGED asked
    /\ UNCHANGED <<thread, path, connection, affinity, queue, loop, ui>>

\* ... and the event posted when the answer may be stale.
ThreadPost(t) ==
    /\ fut[t] = "checked"
    /\ fut' = [fut EXCEPT ![t] = "waiting"]
    /\ queue' = Append(queue, t)
    /\ UNCHANGED <<thread, path, connection, affinity, loop, ui, asked>>
-----------------------------------------------------------------------------
(* Running an event *)

Resolve(t, result) ==
    /\ fut' = [fut EXCEPT ![t] = result]
    /\ queue' = Tail(queue)
    /\ UNCHANGED <<thread, path, db, affinity, loop, ui, asked>>

\* A write outside a transaction is committed with its statement; inside the
\* one that was left open it is not.
Write(t) ==
    IF open THEN dirty' = dirty \cup {t} /\ UNCHANGED <<open, stored>>
    ELSE stored' = [stored EXCEPT ![db] = @ \cup {t}] /\ UNCHANGED <<open, dirty>>

\* The handle is null: a task that arrived after a stop.
RunRefused(t) ==
    /\ db = NoFile
    /\ Resolve(t, Refusal(t))
    /\ UNCHANGED <<open, dirty, stored>>

\* runQuery, runScalar
RunRead(t) ==
    /\ db # NoFile /\ KindOf[t] = "read"
    /\ \E result \in {"value", "empty"} : Resolve(t, result)
    /\ UNCHANGED <<open, dirty, stored>>

\* runExec
RunExec(t) ==
    /\ db # NoFile /\ KindOf[t] = "exec"
    /\ \/ Resolve(t, "true") /\ Write(t)
       \/ Resolve(t, "empty") /\ UNCHANGED <<open, dirty, stored>>

\* Mutant: the functor runs although there is no transaction.
BeginFailsRuns(t) ==
    /\ db # NoFile /\ KindOf[t] = "transact"
    /\ open \/ "begin" \in Faults
    /\ Resolve(t, "false")
    /\ Write(t)

\* Mutant: the future is resolved before the commit, which then fails.
CommitsLate(t) ==
    /\ db # NoFile /\ KindOf[t] = "transact" /\ ~ open
    /\ Resolve(t, "true")
    /\ UNCHANGED <<open, dirty, stored>>

\* asyncTransact, BEGIN IMMEDIATE fails: another connection holds the lock, or
\* this one is inside a transaction already.
BeginFails(t) ==
    /\ db # NoFile /\ KindOf[t] = "transact"
    /\ open \/ "begin" \in Faults
    /\ Resolve(t, "false")
    /\ UNCHANGED <<open, dirty, stored>>

\* The functor returned false, threw, or left an error behind: ROLLBACK.
RollsBack(t) ==
    /\ db # NoFile /\ KindOf[t] = "transact" /\ ~ open
    /\ Resolve(t, "false")
    /\ UNCHANGED <<open, dirty, stored>>

Commits(t) ==
    /\ db # NoFile /\ KindOf[t] = "transact" /\ ~ open
    /\ Resolve(t, "true")
    /\ Write(t)

\* COMMIT fails and its result is not looked at.  SQLite either keeps the
\* transaction open or has rolled it back.
CommitFails(t) ==
    /\ "commit" \in Faults
    /\ db # NoFile /\ KindOf[t] = "transact" /\ ~ open
    /\ Resolve(t, "true")
    /\ \/ open' = TRUE /\ dirty' = {t}
       \/ UNCHANGED <<open, dirty>>
    /\ UNCHANGED stored

RunTask(t) ==
    \/ RunRefused(t) \/ RunRead(t) \/ RunExec(t)
    \/ BeginFails(t) \/ RollsBack(t) \/ Commits(t) \/ CommitFails(t)

\* Mutant: the events behind it are removed.
RunStopDropsQueue ==
    /\ Head(queue) = StopCall
    /\ queue' = <<>>
    /\ affinity' = "ui"
    /\ db' = NoFile /\ open' = FALSE /\ dirty' = {}
    /\ ui' = [ui EXCEPT !.at = "joining"]
    /\ UNCHANGED <<thread, path, stored, loop, futures>>

\* stop()'s event: the object moves to the caller's thread and closes the
\* handle; what is behind it in the queue moves along.
RunStop ==
    /\ Head(queue) = StopCall
    /\ queue' = Tail(queue)
    /\ affinity' = "ui"
    /\ db' = NoFile /\ open' = FALSE /\ dirty' = {}
    /\ ui' = [ui EXCEPT !.at = "joining"]
    /\ UNCHANGED <<thread, path, stored, loop, futures>>

RunHome ==
    /\ Head(queue) = HomeCall
    /\ queue' = Tail(queue)
    /\ affinity' = "ui"
    /\ ui' = [ui EXCEPT !.at = "joining"]
    /\ UNCHANGED <<thread, path, connection, loop, futures>>

\* The event loops: the worker thread's, and the UI thread's when it is in none
\* of the calls above.
WorkerLoop ==
    /\ affinity = "worker" /\ loop = "running"
    /\ queue # <<>>
    /\ RunStop \/ RunHome \/ \E t \in Tasks : Head(queue) = t /\ RunTask(t)

UiLoop ==
    /\ affinity = "ui" /\ ui = UiIdle
    /\ queue # <<>>
    /\ \E t \in Tasks : Head(queue) = t /\ RunTask(t)
-----------------------------------------------------------------------------
\* What the UI thread does once it is inside start() or stop().
UiCall == BeginThread \/ Publish \/ Join

Next ==
    \/ \E f \in Files \cup {NoFile} : Stop(f)
    \/ \E f \in Files : Start(f)
    \/ UiCall
    \/ OpenOnThread \/ OpenFails \/ HandshakeTimeout
    \/ \E t \in Tasks : UiSubmit(t) \/ ThreadCheck(t) \/ ThreadPost(t)
    \/ WorkerLoop
    \/ UiLoop

Spec == Init /\ [][Next]_vars

\* The operating system runs every thread that can run, so a call that can
\* return does, and both event loops take the next event.  Nothing makes
\* anyone start, stop or submit.
Fairness ==
    /\ WF_vars(UiCall)
    /\ WF_vars(OpenOnThread \/ OpenFails \/ HandshakeTimeout)
    /\ WF_vars(WorkerLoop)
    /\ WF_vars(UiLoop)
    /\ \A t \in Tasks : WF_vars(ThreadPost(t))

FairSpec == Spec /\ Fairness
-----------------------------------------------------------------------------
(* Properties *)

\* Every variable has its type, and every answer the type its caller reads: a
\* transaction's future always holds a Boolean.
TypeOK ==
    /\ thread \in BOOLEAN
    /\ path \in Files \cup {NoFile}
    /\ db \in Files \cup {NoFile}
    /\ open \in BOOLEAN
    /\ dirty \subseteq Tasks
    /\ stored \in [Files -> SUBSET Tasks]
    /\ affinity \in {"ui", "worker", "dead"}
    /\ queue \in Seq(Tasks \cup {StopCall, HomeCall})
    /\ loop \in {"off", "opening", "running"}
    /\ ui \in [at : {"idle", "stopping", "begin", "opening", "opened", "returning", "joining"},
               next : Files \cup {NoFile}]
    /\ fut \in [Tasks -> {"new", "checked", "waiting"} \cup Resolved]
    /\ \A t \in Tasks : fut[t] \in Resolved => fut[t] \in AnswersOf[KindOf[t]]
    /\ asked \in [Tasks -> Files \cup {NoFile}]

\* While the worker counts as running its handle is open on the file dbPath()
\* names: the only state in which another thread's isRunning() may read m_db.
RunningOnPath == thread => db = path /\ path # NoFile

\* "Blocks until queued tasks finish": when stop() or restart() has come back,
\* no task the UI thread posted before it is still unresolved.
StopDrains ==
    ui = UiIdle /\ ~ thread => \A t \in UiTasks : fut[t] # "waiting"

\* A write of the UI thread reaches the file the worker was on when it was
\* submitted and no other, whatever restarts and failed starts come between.
WritesStayOnFile ==
    \A t \in UiTasks, f \in Files : t \in stored[f] => f = asked[t]

\* With every fault: what is committed has been reported as done, so a task
\* that was refused, failed or is still waiting has left nothing in any file.
StoredWasReported ==
    \A f \in Files : \A t \in stored[f] : fut[t] = "true"

Answer(future) ==
    CASE future \in {"new", "checked"} -> "new"
      [] future = "waiting" -> "waiting"
      [] future \in {"value", "true"} -> "yes"
      [] OTHER -> "no"

TS == INSTANCE TaskService WITH
    Writes <- {t \in Tasks : KindOf[t] # "read"},
    reply <- [t \in Tasks |-> Answer(fut[t])],
    applied <- UNION {stored[f] : f \in Files}

\* With every COMMIT that is reached succeeding, the worker is the service its
\* callers expect: one answer per task, and yes exactly with the write.
ImplementsTaskService == TS!Spec

\* No future hangs: a task that was posted is answered, also one that another
\* thread posted after a stop; unless a handshake has timed out, after which the
\* queue belongs to no thread.
EveryTaskAnswered ==
    \A t \in Tasks : fut[t] = "waiting" ~> fut[t] \in Resolved \/ affinity = "dead"

\* start, restart and stop come back, "never a hang", unless a handshake has
\* timed out.
UiReturns == ui # UiIdle ~> ui = UiIdle \/ affinity = "dead"
=============================================================================
