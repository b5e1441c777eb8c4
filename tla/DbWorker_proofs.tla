--------------------------- MODULE DbWorker_proofs ---------------------------
(***************************************************************************)
(* Theorems about DbWorker, for every set of files and tasks, and about    *)
(* FirmSession: nearly every step of a session is one of the worker's or   *)
(* leaves it alone, so that what is proved of the worker is reused.        *)
(***************************************************************************)
EXTENDS FirmSession, TLAPS

Events == Tasks \cup {StopCall, HomeCall}

UiType ==
    [at : {"idle", "stopping", "begin", "opening", "opened", "returning", "joining"},
     next : Files \cup {NoFile}]

FutType == [Tasks -> {"new", "checked", "waiting"} \cup Resolved]

Answered == \A t \in Tasks : fut[t] \in Resolved => fut[t] \in AnswersOf[KindOf[t]]

LEMMA RefusalType ==
    \A t \in Tasks : Refusal(t) \in {"false", "empty"} /\ Refusal(t) \in AnswersOf[KindOf[t]]
  BY ConstantsAssumption DEF Refusal, AnswersOf, Kinds

LEMMA AnswerKinds ==
    ASSUME NEW t \in Tasks
    PROVE  /\ KindOf[t] \in Kinds /\ AnswersOf[KindOf[t]] \subseteq Resolved
           /\ KindOf[t] = "read" => AnswersOf[KindOf[t]] = {"value", "empty"}
           /\ KindOf[t] = "exec" => AnswersOf[KindOf[t]] = {"true", "empty"}
           /\ KindOf[t] = "transact" => AnswersOf[KindOf[t]] = {"true", "false"}
  BY ConstantsAssumption DEF AnswersOf, Kinds, Resolved

\* A future that is posted, or answered as its task may be, keeps the types.
LEMMA FutureSet ==
    ASSUME TypeOK, NEW t \in Tasks,
           NEW r \in {"waiting", "checked"} \cup AnswersOf[KindOf[t]],
           fut' = [fut EXCEPT ![t] = r]
    PROVE  fut' \in FutType /\ Answered'
<1>1. fut \in FutType /\ Answered
  BY DEF TypeOK, FutType, Answered
<1>2. r \in {"waiting", "checked"} \cup Resolved
  BY AnswerKinds
<1>3. \A x \in Tasks : fut'[x] = IF x = t THEN r ELSE fut[x]
  BY <1>1 DEF FutType
<1>4. Answered'
  BY <1>1, <1>3 DEF Answered, Resolved
<1> QED
  BY <1>1, <1>2, <1>4 DEF FutType

LEMMA WorkerTypeInit == Init => TypeOK
<1> SUFFICES ASSUME Init PROVE TypeOK
  OBVIOUS
<1>1. queue \in Seq(Tasks \cup {StopCall, HomeCall})
  BY DEF Init
<1> QED
  BY <1>1 DEF Init, TypeOK, UiIdle, Resolved

\* An event is taken from the queue: what every one of them leaves alone, and
\* what it does to the connection and to its future.
RunsTask(t) ==
    /\ Head(queue) = t
    /\ queue' = Tail(queue)
    /\ UNCHANGED <<thread, path, db, affinity, loop, ui, asked>>
    /\ \E r \in AnswersOf[KindOf[t]] : fut' = [fut EXCEPT ![t] = r]
    /\ \/ /\ fut' = [fut EXCEPT ![t] = "true"]
          /\ db # NoFile /\ KindOf[t] # "read"
          /\ \/ ~ open /\ stored' = [stored EXCEPT ![db] = @ \cup {t}] /\ UNCHANGED <<open, dirty>>
             \/ open /\ dirty' = dirty \cup {t} /\ UNCHANGED <<open, stored>>
       \/ /\ fut' = [fut EXCEPT ![t] = "true"]
          /\ "commit" \in Faults
          /\ open' = TRUE /\ dirty' = {t} /\ UNCHANGED stored
       \/ /\ fut' = [fut EXCEPT ![t] = "true"]
          /\ "commit" \in Faults
          /\ UNCHANGED <<open, dirty, stored>>
       \/ /\ \E r \in {"empty", "false"} : fut' = [fut EXCEPT ![t] = r]
          /\ UNCHANGED <<open, dirty, stored>>
       \/ /\ KindOf[t] = "read" /\ fut' = [fut EXCEPT ![t] = "value"]
          /\ UNCHANGED <<open, dirty, stored>>

LEMMA RunTaskRuns ==
    ASSUME NEW t \in Tasks, Head(queue) = t, RunTask(t)
    PROVE  RunsTask(t)
<1> USE AnswerKinds
<1>1. CASE RunRefused(t)
  BY <1>1, RefusalType DEF RunRefused, Resolve, RunsTask
<1>2. CASE RunRead(t)
  BY <1>2 DEF RunRead, Resolve, RunsTask
<1>3. CASE RunExec(t)
  BY <1>3 DEF RunExec, Resolve, Write, RunsTask
<1>4. CASE BeginFails(t) \/ RollsBack(t)
  BY <1>4 DEF BeginFails, RollsBack, Resolve, RunsTask
<1>5. CASE Commits(t)
  BY <1>5 DEF Commits, Resolve, Write, RunsTask
<1>6. CASE CommitFails(t)
  BY <1>6 DEF CommitFails, Resolve, RunsTask
<1> QED
  BY <1>1, <1>2, <1>3, <1>4, <1>5, <1>6 DEF RunTask

LEMMA LoopRuns ==
    ASSUME UiLoop \/ WorkerLoop
    PROVE  /\ queue # <<>>
           /\ \/ WorkerLoop /\ RunStop
              \/ WorkerLoop /\ RunHome
              \/ \E t \in Tasks : RunsTask(t)
  BY RunTaskRuns DEF UiLoop, WorkerLoop

LEMMA WorkerTypeStep == TypeOK /\ [Next]_vars => TypeOK'
<1> SUFFICES ASSUME TypeOK, [Next]_vars PROVE TypeOK'
  OBVIOUS
<1> USE ConstantsAssumption
<1>t. queue \in Seq(Events) /\ ui \in UiType /\ fut \in FutType
  BY DEF TypeOK, Events, UiType, FutType
<1>u. UiIdle \in UiType
  BY DEF UiIdle, UiType
<1>1. ASSUME NEW f \in Files \cup {NoFile}, Stop(f) PROVE TypeOK'
  <2>1. Append(queue, StopCall) \in Seq(Events)
    BY <1>t DEF Events
  <2>2. queue' \in Seq(Events) /\ ui' \in UiType
    BY <1>1, <2>1 DEF Stop, UiType
  <2> QED
    BY <1>1, <2>2 DEF Stop, TypeOK, connection, futures, Events, UiType
<1>2. ASSUME NEW f \in Files, Start(f) PROVE TypeOK'
  BY <1>2 DEF Start, TypeOK, connection, futures
<1>3. CASE BeginThread
  BY <1>3 DEF BeginThread, TypeOK, connection, futures
<1>4. CASE Publish
  <2>1. ui.next \in Files \cup {NoFile}
    BY <1>t DEF UiType
  <2> QED
    BY <1>4, <1>u, <2>1 DEF Publish, TypeOK, connection, futures, UiType
<1>5. CASE Join
  <2>1. ui' \in UiType
    BY <1>5, <1>t, <1>u DEF Join, UiType
  <2> QED
    BY <1>5, <2>1 DEF Join, TypeOK, connection, futures, UiType
<1>6. CASE OpenOnThread
  <2>1. ui.next \in Files \cup {NoFile} /\ ui' \in UiType
    BY <1>6, <1>t DEF OpenOnThread, UiType
  <2> QED
    BY <1>6, <2>1 DEF OpenOnThread, TypeOK, futures, UiType
<1>7. CASE OpenFails
  <2>1. Append(queue, HomeCall) \in Seq(Events)
    BY <1>t DEF Events
  <2>2. queue' \in Seq(Events) /\ ui' \in UiType
    BY <1>7, <2>1 DEF OpenFails, UiType
  <2> QED
    BY <1>7, <2>2 DEF OpenFails, TypeOK, connection, futures, Events, UiType
<1>8. CASE HandshakeTimeout
  <2>1. ui.next \in Files \cup {NoFile}
    BY <1>t DEF UiType
  <2>2. db' \in Files \cup {NoFile} /\ open' \in BOOLEAN /\ dirty' \subseteq Tasks
    BY <1>8, <2>1 DEF HandshakeTimeout, TypeOK
  <2> QED
    BY <1>8, <1>u, <2>2 DEF HandshakeTimeout, TypeOK, futures, UiType
<1>9. ASSUME NEW t \in Tasks, UiSubmit(t) PROVE TypeOK'
  <2>1. Append(queue, t) \in Seq(Events)
    BY <1>t DEF Events
  <2>2. queue' \in Seq(Events)
    BY <1>9, <1>t, <2>1 DEF UiSubmit
  <2>3. fut' \in FutType /\ Answered'
    <3>1. PICK r \in {"waiting", Refusal(t)} : fut' = [fut EXCEPT ![t] = r]
      BY <1>9 DEF UiSubmit
    <3> QED
      BY <3>1, RefusalType, FutureSet
  <2>4. asked' \in [Tasks -> Files \cup {NoFile}]
    BY <1>9 DEF UiSubmit, TypeOK
  <2> QED
    BY <1>9, <2>2, <2>3, <2>4 DEF UiSubmit, TypeOK, connection, Events, FutType, Answered
<1>10. ASSUME NEW t \in Tasks, ThreadCheck(t) PROVE TypeOK'
  <2>1. fut' \in FutType /\ Answered'
    <3>1. PICK r \in {"checked", Refusal(t)} : fut' = [fut EXCEPT ![t] = r]
      BY <1>10 DEF ThreadCheck
    <3> QED
      BY <3>1, RefusalType, FutureSet
  <2>2. asked' \in [Tasks -> Files \cup {NoFile}]
    BY <1>10 DEF ThreadCheck, TypeOK
  <2> QED
    BY <1>10, <2>1, <2>2 DEF ThreadCheck, TypeOK, connection, FutType, Answered
<1>11. ASSUME NEW t \in Tasks, ThreadPost(t) PROVE TypeOK'
  <2>1. Append(queue, t) \in Seq(Events)
    BY <1>t DEF Events
  <2>2. fut' \in FutType /\ Answered'
    BY <1>11, FutureSet DEF ThreadPost
  <2> QED
    BY <1>11, <2>1, <2>2 DEF ThreadPost, TypeOK, connection, Events, FutType, Answered
<1>12. CASE UiLoop \/ WorkerLoop
  <2>1. Tail(queue) \in Seq(Events)
    BY <1>12, <1>t, LoopRuns
  <2>2. CASE RunStop
    BY <2>1, <2>2 DEF RunStop, TypeOK, Events, futures
  <2>3. CASE RunHome
    BY <2>1, <2>3 DEF RunHome, TypeOK, Events, connection, futures
  <2>4. ASSUME NEW t \in Tasks, RunsTask(t) PROVE TypeOK'
    <3>1. fut' \in FutType /\ Answered'
      BY <2>4, FutureSet DEF RunsTask
    <3>2. stored \in [Files -> SUBSET Tasks] /\ open \in BOOLEAN /\ dirty \subseteq Tasks
      BY DEF TypeOK
    <3>3. [stored EXCEPT ![db] = @ \cup {t}] \in [Files -> SUBSET Tasks]
      BY <3>2
    <3>4. stored' \in [Files -> SUBSET Tasks]
      BY <2>4, <3>2, <3>3 DEF RunsTask
    <3>5. open' \in BOOLEAN /\ dirty' \subseteq Tasks
      BY <2>4, <3>2 DEF RunsTask
    <3> QED
      BY <2>1, <2>4, <3>1, <3>4, <3>5 DEF RunsTask, TypeOK, Events, FutType, Answered
  <2> QED
    BY <1>12, <2>2, <2>3, <2>4, LoopRuns
<1>13. CASE UNCHANGED vars
  BY <1>13 DEF vars, TypeOK
<1> QED
  BY <1>1, <1>2, <1>3, <1>4, <1>5, <1>6, <1>7, <1>8, <1>9, <1>10, <1>11, <1>12, <1>13
     DEF Next, UiCall

\* The type invariant: no start, restart, stop or failure leaves the object on
\* a thread, a file or an answer outside the ones the callers know.
THEOREM WorkerTypeCorrect == Spec => []TypeOK
  BY WorkerTypeInit, WorkerTypeStep, PTL DEF Spec
-----------------------------------------------------------------------------
(* Queues without duplicates *)

In(e, q) == \E i \in 1..Len(q) : q[i] = e
Distinct(q) == \A i, j \in 1..Len(q) : q[i] = q[j] => i = j

LEMMA AppendDistinct ==
    ASSUME NEW S, NEW q \in Seq(S), NEW e \in S, Distinct(q), ~ In(e, q)
    PROVE  /\ Distinct(Append(q, e))
           /\ \A x : In(x, Append(q, e)) <=> In(x, q) \/ x = e
<1>1. /\ Len(Append(q, e)) = Len(q) + 1 /\ Len(q) \in Nat
      /\ \A i \in 1..Len(q) : Append(q, e)[i] = q[i]
      /\ Append(q, e)[Len(q) + 1] = e
  OBVIOUS
<1>2. \A i \in 1..Len(q) + 1 : i \in 1..Len(q) \/ i = Len(q) + 1
  BY <1>1
<1>3. Distinct(Append(q, e))
  BY <1>1, <1>2 DEF Distinct, In
<1>4. \A x : In(x, Append(q, e)) <=> In(x, q) \/ x = e
  BY <1>1, <1>2 DEF In
<1> QED
  BY <1>3, <1>4

LEMMA TailDistinct ==
    ASSUME NEW S, NEW q \in Seq(S), q # <<>>, Distinct(q)
    PROVE  /\ Distinct(Tail(q))
           /\ In(Head(q), q)
           /\ \A x : In(x, Tail(q)) <=> In(x, q) /\ x # Head(q)
<1>1. /\ Len(q) \in Nat \ {0} /\ Len(Tail(q)) = Len(q) - 1
      /\ \A i \in 1..Len(q) - 1 : Tail(q)[i] = q[i + 1]
      /\ Head(q) = q[1]
  OBVIOUS
<1>2. \A i \in 1..Len(q) : i = 1 \/ (i - 1 \in 1..Len(q) - 1 /\ (i - 1) + 1 = i)
  BY <1>1
<1>3. \A i \in 1..Len(q) - 1 : i + 1 \in 1..Len(q) /\ i + 1 # 1
  BY <1>1
<1>4. Distinct(Tail(q))
  <2> SUFFICES ASSUME NEW i \in 1..Len(q) - 1, NEW j \in 1..Len(q) - 1, q[i + 1] = q[j + 1]
               PROVE  i = j
    BY <1>1 DEF Distinct
  <2>1. i + 1 = j + 1
    BY <1>3 DEF Distinct
  <2> QED
    BY <2>1
<1>5. 1 \in 1..Len(q)
  BY <1>1
<1>6. ASSUME NEW x, In(x, Tail(q)) PROVE In(x, q) /\ x # Head(q)
  <2>1. PICK i \in 1..Len(q) - 1 : q[i + 1] = x
    BY <1>1, <1>6 DEF In
  <2> QED
    BY <1>1, <1>3, <1>5, <2>1 DEF In, Distinct
<1>7. ASSUME NEW x, In(x, q), x # Head(q) PROVE In(x, Tail(q))
  <2>1. PICK i \in 1..Len(q) : q[i] = x
    BY <1>7 DEF In
  <2>2. i - 1 \in 1..Len(q) - 1 /\ Tail(q)[i - 1] = x
    BY <1>1, <1>2, <1>7, <2>1
  <2> QED
    BY <1>1, <2>2 DEF In
<1> QED
  BY <1>1, <1>4, <1>5, <1>6, <1>7 DEF In
-----------------------------------------------------------------------------
(* Who is in the queue *)

\* A task is in the queue once, and only while its future waits; a blocking
\* event is there only while the UI thread blocks on it.
QueueInv ==
    /\ Distinct(queue)
    /\ \A t \in Tasks : In(t, queue) => fut[t] = "waiting"
    /\ In(StopCall, queue) => ui.at = "stopping"
    /\ In(HomeCall, queue) => ui.at = "returning"

LEMMA QueueInvKept ==
    ASSUME QueueInv, queue' = queue,
           \A t \in Tasks : fut[t] = "waiting" => fut'[t] = "waiting",
           (ui.at # "stopping" /\ ui.at # "returning") \/ ui'.at = ui.at
    PROVE  QueueInv'
  BY DEF QueueInv, In, Distinct

LEMMA QueueInvPost ==
    ASSUME TypeOK, QueueInv, NEW t \in Tasks, fut[t] # "waiting",
           queue' = Append(queue, t), fut' = [fut EXCEPT ![t] = "waiting"], ui' = ui
    PROVE  QueueInv'
<1>1. /\ queue \in Seq(Events) /\ t \in Events /\ fut \in FutType
      /\ Distinct(queue) /\ ~ In(t, queue)
  BY DEF TypeOK, Events, QueueInv, FutType
<1>2. /\ Distinct(queue')
      /\ \A x : In(x, queue') <=> In(x, queue) \/ x = t
  BY <1>1, AppendDistinct
<1>3. \A x \in Tasks : fut'[x] = IF x = t THEN "waiting" ELSE fut[x]
  BY <1>1 DEF FutType
<1> QED
  BY <1>2, <1>3, ConstantsAssumption DEF QueueInv

LEMMA QueueInvBlock ==
    ASSUME TypeOK, QueueInv, NEW c \in {StopCall, HomeCall},
           ui.at # "stopping" /\ ui.at # "returning",
           queue' = Append(queue, c), fut' = fut,
           ui'.at = IF c = StopCall THEN "stopping" ELSE "returning"
    PROVE  QueueInv'
<1>1. /\ queue \in Seq(Events) /\ c \in Events
      /\ Distinct(queue) /\ ~ In(StopCall, queue) /\ ~ In(HomeCall, queue)
  BY DEF TypeOK, Events, QueueInv
<1>2. /\ Distinct(queue')
      /\ \A x : In(x, queue') <=> In(x, queue) \/ x = c
  BY <1>1, AppendDistinct
<1> QED
  BY <1>1, <1>2, ConstantsAssumption DEF QueueInv

-----------------------------------------------------------------------------
(* Where the UI thread and the worker thread are *)

ThreadInv ==
    /\ thread => ui = UiIdle /\ loop = "running" /\ db = path /\ path # NoFile
    /\ ui.at \in {"begin", "opening", "opened"} => ui.next # NoFile
    /\ loop = "opening" => ui.at = "opening"
    /\ ui.at = "opened" => loop = "running" /\ db = ui.next

WorkerInv == QueueInv /\ ThreadInv

LEMMA ThreadInvKept ==
    ASSUME ThreadInv, UNCHANGED <<thread, path, db, loop, ui>>
    PROVE  ThreadInv'
  BY DEF ThreadInv

LEMMA WorkerInvInit == Init => WorkerInv
<1> SUFFICES ASSUME Init PROVE WorkerInv
  OBVIOUS
<1>1. Len(queue) = 0 /\ ui.at = "idle"
  BY DEF Init, UiIdle
<1> QED
  BY <1>1 DEF Init, WorkerInv, QueueInv, ThreadInv, In, Distinct

LEMMA WorkerInvStep == TypeOK /\ WorkerInv /\ [Next]_vars => WorkerInv'
<1> SUFFICES ASSUME TypeOK, QueueInv, ThreadInv, [Next]_vars PROVE QueueInv' /\ ThreadInv'
  BY DEF WorkerInv
<1> USE ConstantsAssumption
<1>t. queue \in Seq(Events) /\ ui \in UiType /\ fut \in FutType
  BY DEF TypeOK, Events, UiType, FutType
<1>i. UiIdle.at = "idle"
  BY DEF UiIdle
<1>1. ASSUME NEW f \in Files \cup {NoFile}, Stop(f) PROVE QueueInv' /\ ThreadInv'
  <2>1. ui.at = "idle" /\ ui'.at = "stopping" /\ queue' = Append(queue, StopCall) /\ fut' = fut
    BY <1>1, <1>i DEF Stop, futures
  <2>2. QueueInv'
    BY <2>1, QueueInvBlock
  <2>3. thread' = FALSE /\ loop' = loop
    BY <1>1 DEF Stop
  <2>4. ThreadInv'
    BY <2>1, <2>3 DEF ThreadInv
  <2> QED
    BY <2>2, <2>4
<1>2. ASSUME NEW f \in Files, Start(f) PROVE QueueInv' /\ ThreadInv'
  <2>1. ui.at = "idle" /\ ui'.at = "begin" /\ ui'.next = f
    BY <1>2, <1>i DEF Start
  <2>2. UNCHANGED <<thread, loop, db, queue, fut>> /\ ~ thread
    BY <1>2 DEF Start, connection, futures
  <2>3. QueueInv'
    BY <2>1, <2>2, QueueInvKept
  <2> QED
    BY <2>1, <2>2, <2>3 DEF ThreadInv
<1>3. CASE BeginThread
  <2>1. /\ ui.at = "begin" /\ ui'.at = "opening" /\ ui'.next = ui.next
        /\ UNCHANGED <<thread, queue, fut>>
    BY <1>3, <1>t DEF BeginThread, futures, UiType
  <2>2. ~ thread
    BY <1>i, <2>1 DEF ThreadInv
  <2>3. QueueInv'
    BY <2>1, QueueInvKept
  <2> QED
    BY <2>1, <2>2, <2>3 DEF ThreadInv
<1>4. CASE Publish
  <2>1. /\ ui.at = "opened" /\ ui' = UiIdle /\ path' = ui.next
        /\ UNCHANGED <<db, loop, queue, fut>>
    BY <1>4 DEF Publish, connection, futures
  <2>2. QueueInv'
    BY <2>1, QueueInvKept
  <2> QED
    BY <1>i, <2>1, <2>2 DEF ThreadInv
<1>5. CASE Join
  <2>1. /\ ui.at = "joining" /\ ui'.at \in {"idle", "begin"}
        /\ ui'.at = "begin" => ui'.next # NoFile
        /\ loop' = "off" /\ UNCHANGED <<thread, queue, fut>>
    BY <1>5, <1>i, <1>t DEF Join, futures, UiType
  <2>2. ~ thread
    BY <1>i, <2>1 DEF ThreadInv
  <2>3. QueueInv'
    BY <2>1, QueueInvKept
  <2> QED
    BY <2>1, <2>2, <2>3 DEF ThreadInv
<1>6. CASE OpenOnThread
  <2>1. /\ ui.at = "opening" /\ ui'.at = "opened" /\ ui'.next = ui.next /\ db' = ui.next
        /\ loop' = "running" /\ UNCHANGED <<thread, queue, fut>>
    BY <1>6, <1>t DEF OpenOnThread, ThreadInv, futures, UiType
  <2>2. ~ thread
    BY <1>i, <2>1 DEF ThreadInv
  <2>3. QueueInv'
    BY <2>1, QueueInvKept
  <2> QED
    BY <2>1, <2>2, <2>3 DEF ThreadInv
<1>7. CASE OpenFails
  <2>1. /\ ui.at = "opening" /\ ui'.at = "returning" /\ loop' = "running"
        /\ queue' = Append(queue, HomeCall) /\ UNCHANGED <<thread, fut>>
    BY <1>7 DEF OpenFails, ThreadInv, futures
  <2>2. ~ thread
    BY <1>i, <2>1 DEF ThreadInv
  <2>3. QueueInv'
    BY <2>1, QueueInvBlock
  <2> QED
    BY <2>1, <2>2, <2>3 DEF ThreadInv
<1>8. CASE HandshakeTimeout
  <2>1. /\ ui.at = "opening" /\ ui'.at = "idle" /\ loop' = "off"
        /\ UNCHANGED <<thread, queue, fut>>
    BY <1>8, <1>i DEF HandshakeTimeout, ThreadInv, futures
  <2>2. ~ thread
    BY <1>i, <2>1 DEF ThreadInv
  <2>3. QueueInv'
    BY <2>1, QueueInvKept
  <2> QED
    BY <2>1, <2>2, <2>3 DEF ThreadInv
<1>9. ASSUME NEW t \in Tasks, UiSubmit(t) PROVE QueueInv' /\ ThreadInv'
  <2>1. fut[t] = "new" /\ UNCHANGED <<thread, path, db, loop, ui>>
    BY <1>9 DEF UiSubmit, connection
  <2>2. CASE IsRunning
    BY <1>9, <2>1, <2>2, QueueInvPost, ThreadInvKept DEF UiSubmit
  <2>3. CASE ~ IsRunning
    <3>1. fut' = [fut EXCEPT ![t] = Refusal(t)] /\ queue' = queue
      BY <1>9, <2>3 DEF UiSubmit
    <3>2. \A x \in Tasks : fut[x] = "waiting" => fut'[x] = "waiting"
      BY <1>t, <2>1, <3>1 DEF FutType
    <3> QED
      BY <2>1, <3>1, <3>2, QueueInvKept, ThreadInvKept
  <2> QED
    BY <2>2, <2>3
<1>10. ASSUME NEW t \in Tasks, ThreadCheck(t) PROVE QueueInv' /\ ThreadInv'
  <2>1. fut[t] = "new" /\ UNCHANGED <<thread, path, db, loop, ui, queue>>
    BY <1>10 DEF ThreadCheck, connection
  <2>2. \A x \in Tasks : fut[x] = "waiting" => fut'[x] = "waiting"
    BY <1>10, <1>t, <2>1 DEF FutType, ThreadCheck
  <2> QED
    BY <2>1, <2>2, QueueInvKept, ThreadInvKept
<1>11. ASSUME NEW t \in Tasks, ThreadPost(t) PROVE QueueInv' /\ ThreadInv'
  <2>1. fut[t] = "checked" /\ UNCHANGED <<thread, path, db, loop, ui>>
    BY <1>11 DEF ThreadPost, connection
  <2> QED
    BY <1>11, <2>1, QueueInvPost, ThreadInvKept DEF ThreadPost
<1>12. CASE UiLoop \/ WorkerLoop
  <2>1. queue # <<>>
    BY <1>12, LoopRuns
  <2>2. /\ Distinct(Tail(queue)) /\ In(Head(queue), queue)
        /\ \A x : In(x, Tail(queue)) <=> In(x, queue) /\ x # Head(queue)
    BY <1>t, <2>1, TailDistinct DEF QueueInv
  <2>3. CASE WorkerLoop /\ (RunStop \/ RunHome)
    <3>1. /\ ui.at \in {"stopping", "returning"} /\ ui'.at = "joining" /\ loop = "running"
          /\ UNCHANGED <<thread, loop, fut>> /\ queue' = Tail(queue)
          /\ ~ In(StopCall, queue') /\ ~ In(HomeCall, queue')
      BY <1>t, <2>2, <2>3 DEF RunStop, RunHome, WorkerLoop, QueueInv, UiType, futures
    <3>2. ~ thread
      BY <1>i, <3>1 DEF ThreadInv
    <3> QED
      BY <2>2, <3>1, <3>2 DEF QueueInv, ThreadInv
  <2>4. ASSUME NEW t \in Tasks, RunsTask(t) PROVE QueueInv' /\ ThreadInv'
    <3>1. queue' = Tail(queue) /\ Head(queue) = t /\ UNCHANGED <<thread, path, db, loop, ui>>
      BY <2>4 DEF RunsTask
    <3>2. \A x \in Tasks : x # t => fut'[x] = fut[x]
      BY <1>t, <2>4 DEF RunsTask, FutType
    <3>3. QueueInv'
      BY <2>2, <3>1, <3>2 DEF QueueInv
    <3> QED
      BY <3>1, <3>3, ThreadInvKept
  <2> QED
    BY <1>12, <2>3, <2>4, LoopRuns
<1>13. CASE UNCHANGED vars
  BY <1>13, QueueInvKept, ThreadInvKept DEF vars
<1> QED
  BY <1>1, <1>2, <1>3, <1>4, <1>5, <1>6, <1>7, <1>8, <1>9, <1>10, <1>11, <1>12, <1>13
     DEF Next, UiCall

LEMMA WorkerInvariant == Spec => []WorkerInv
  BY WorkerTypeCorrect, WorkerInvInit, WorkerInvStep, PTL DEF Spec

\* With every fault and every interleaving, while m_thread is set the handle is
\* open on the file dbPath() names.
THEOREM RunsOnItsPath == Spec => []RunningOnPath
<1>1. WorkerInv => RunningOnPath
  BY DEF WorkerInv, ThreadInv, RunningOnPath
<1> QED
  BY <1>1, WorkerInvariant, PTL
-----------------------------------------------------------------------------
(* What was written, and where *)

\* A task of the UI thread is in the queue only while the worker is on the file
\* it was meant for, or is being stopped; and in front of stop()'s event.
NoUi(q) == \A t \in UiTasks : ~ In(t, q)

UiInv ==
    /\ \A t \in UiTasks : In(t, queue) => (thread \/ ui.at = "stopping") /\ asked[t] = db
    /\ \A i, j \in 1..Len(queue) : i < j /\ queue[i] = StopCall => queue[j] \notin UiTasks
    /\ \A t \in Tasks : fut[t] = "waiting" => In(t, queue)
    /\ \A t \in UiTasks : fut[t] # "checked"

StoreInv == StoredWasReported /\ WritesStayOnFile

LEMMA UiInvNone ==
    ASSUME NoUi(queue'), \A t \in Tasks : fut'[t] = "waiting" => In(t, queue)',
           \A t \in UiTasks : fut'[t] # "checked"
    PROVE  UiInv'
  BY DEF NoUi, UiInv, In

LEMMA UiInvKept ==
    ASSUME UiInv, UNCHANGED <<thread, db, queue, ui>>,
           \A t \in UiTasks : asked'[t] = asked[t] \/ ~ In(t, queue),
           \A t \in Tasks : fut'[t] = "waiting" => fut[t] = "waiting",
           \A t \in UiTasks : fut'[t] # "checked"
    PROVE  UiInv'
  BY DEF UiInv, In

LEMMA StoreInvKept ==
    ASSUME StoreInv, stored' = stored,
           \A t \in Tasks : fut[t] = "true" => fut'[t] = "true" /\ asked'[t] = asked[t],
           TypeOK
    PROVE  StoreInv'
<1>1. \A f \in Files : stored[f] \subseteq Tasks
  BY DEF TypeOK
<1> QED
  BY <1>1, ConstantsAssumption DEF StoreInv, StoredWasReported, WritesStayOnFile

LEMMA StoreInvInit == Init => UiInv /\ StoreInv
<1> SUFFICES ASSUME Init PROVE UiInv /\ StoreInv
  OBVIOUS
<1>1. Len(queue) = 0
  BY DEF Init
<1> QED
  BY <1>1, ConstantsAssumption
     DEF Init, UiInv, StoreInv, In, StoredWasReported, WritesStayOnFile

\* Posting an event behind the others.
LEMMA UiInvPost ==
    ASSUME TypeOK, QueueInv, UiInv, NEW e \in Events, ~ In(e, queue),
           queue' = Append(queue, e), db' = db,
           \A t \in UiTasks : t # e => asked'[t] = asked[t],
           thread => thread' \/ ui'.at = "stopping",
           ui.at = "stopping" => ui'.at = "stopping",
           e \in UiTasks => thread' /\ asked'[e] = db /\ ~ In(StopCall, queue),
           \A t \in Tasks : fut'[t] = "waiting" => fut[t] = "waiting" \/ t = e,
           \A t \in UiTasks : fut'[t] # "checked"
    PROVE  UiInv'
<1>1. queue \in Seq(Events) /\ Distinct(queue)
  BY DEF TypeOK, Events, QueueInv
<1>2. \A x : In(x, Append(queue, e)) <=> In(x, queue) \/ x = e
  BY <1>1, AppendDistinct
<1>3. \A t \in UiTasks : In(t, queue') => (thread' \/ ui'.at = "stopping") /\ asked'[t] = db'
  BY <1>2 DEF UiInv
<1>4. \A t \in Tasks : fut'[t] = "waiting" => In(t, queue')
  BY <1>2 DEF UiInv
<1>5. /\ Len(queue') = Len(queue) + 1 /\ Len(queue) \in Nat
      /\ \A i \in 1..Len(queue) : queue'[i] = queue[i]
      /\ queue'[Len(queue) + 1] = e
  BY <1>1
<1>6. ASSUME NEW i \in 1..Len(queue'), NEW j \in 1..Len(queue'), i < j, queue'[i] = StopCall
      PROVE  queue'[j] \notin UiTasks
  <2>1. i \in 1..Len(queue) /\ queue[i] = StopCall
    BY <1>5, <1>6
  <2>2. CASE j \in 1..Len(queue)
    BY <1>5, <1>6, <2>1, <2>2 DEF UiInv
  <2>3. CASE j = Len(queue) + 1
    BY <1>5, <2>1, <2>3 DEF In
  <2> QED
    BY <1>5, <2>2, <2>3
<1>7. /\ \A t \in UiTasks : In(t, queue)' => (thread' \/ ui'.at = "stopping") /\ asked'[t] = db'
      /\ \A t \in Tasks : fut'[t] = "waiting" => In(t, queue)'
  BY <1>3, <1>4 DEF In
<1> QED
  BY <1>6, <1>7 DEF UiInv

LEMMA StoreInvStep ==
    TypeOK /\ WorkerInv /\ UiInv /\ StoreInv /\ [Next]_vars => UiInv' /\ StoreInv'
<1> SUFFICES ASSUME TypeOK, QueueInv, ThreadInv, UiInv, StoreInv, [Next]_vars
             PROVE  UiInv' /\ StoreInv'
  BY DEF WorkerInv
<1> USE ConstantsAssumption
<1>t. /\ queue \in Seq(Events) /\ ui \in UiType /\ fut \in FutType
      /\ stored \in [Files -> SUBSET Tasks] /\ db \in Files \cup {NoFile}
      /\ asked \in [Tasks -> Files \cup {NoFile}]
  BY DEF TypeOK, Events, UiType, FutType
<1>i. UiIdle.at = "idle"
  BY DEF UiIdle
<1>n. /\ ui.at \notin {"idle", "stopping"} \/ (~ thread /\ ui.at = "idle") => NoUi(queue)
      /\ \A t \in UiTasks : t \in Tasks /\ fut[t] # "checked"
  BY <1>i DEF UiInv, ThreadInv, NoUi
<1>1. ASSUME NEW f \in Files \cup {NoFile}, Stop(f) PROVE UiInv' /\ StoreInv'
  <2>1. /\ ui.at = "idle" /\ ui'.at = "stopping" /\ queue' = Append(queue, StopCall)
        /\ UNCHANGED <<fut, asked, db, stored>>
    BY <1>1, <1>i DEF Stop, futures, connection
  <2>2. ~ In(StopCall, queue) /\ StopCall \in Events /\ StopCall \notin UiTasks
    BY <2>1 DEF QueueInv, Events
  <2>3. UiInv'
    BY <1>n, <2>1, <2>2, UiInvPost
  <2> QED
    BY <2>1, <2>3, StoreInvKept
<1>2. CASE (\E f \in Files : Start(f)) \/ UiCall \/ OpenOnThread \/ HandshakeTimeout
  <2>1. /\ UNCHANGED <<queue, stored, fut, asked>>
        /\ ui.at \in {"begin", "opening", "opened", "joining"} \/ (~ thread /\ ui.at = "idle")
    BY <1>2, <1>i DEF Start, UiCall, BeginThread, Publish, Join, OpenOnThread, HandshakeTimeout,
                      ThreadInv, connection, futures
  <2>2. UiInv'
    BY <1>n, <2>1, UiInvNone DEF UiInv, In, NoUi
  <2> QED
    BY <2>1, <2>2, StoreInvKept
<1>3. CASE OpenFails
  <2>1. /\ ui.at = "opening" /\ queue' = Append(queue, HomeCall)
        /\ UNCHANGED <<stored, fut, asked, thread, db>>
    BY <1>3 DEF OpenFails, ThreadInv, connection, futures
  <2>2. ~ In(HomeCall, queue) /\ HomeCall \in Events /\ HomeCall \notin UiTasks /\ ~ thread
    BY <1>i, <2>1 DEF QueueInv, Events, ThreadInv
  <2>3. UiInv'
    BY <1>n, <2>1, <2>2, UiInvPost
  <2> QED
    BY <2>1, <2>3, StoreInvKept
<1>4. ASSUME NEW t \in Tasks, UiSubmit(t) PROVE UiInv' /\ StoreInv'
  <2>1. t \in UiTasks /\ fut[t] = "new" /\ UNCHANGED <<thread, path, db, loop, ui, stored>>
    BY <1>4 DEF UiSubmit, connection
  <2>2. ~ In(t, queue) /\ t \in Events
    BY <2>1 DEF QueueInv, Events
  <2>3. CASE IsRunning
    <3>1. /\ fut' = [fut EXCEPT ![t] = "waiting"] /\ asked' = [asked EXCEPT ![t] = path]
          /\ queue' = Append(queue, t)
      BY <1>4, <2>3 DEF UiSubmit
    <3>2. thread /\ path = db /\ ~ In(StopCall, queue)
      BY <1>i, <2>3 DEF IsRunning, ThreadInv, QueueInv
    <3>3. \A x \in Tasks : /\ fut'[x] = IF x = t THEN "waiting" ELSE fut[x]
                           /\ asked'[x] = IF x = t THEN path ELSE asked[x]
      BY <1>t, <3>1 DEF FutType
    <3>4. UiInv'
      BY <2>1, <2>2, <3>1, <3>2, <1>n, <3>3, UiInvPost
    <3> QED
      BY <2>1, <3>3, <3>4, StoreInvKept
  <2>4. CASE ~ IsRunning
    <3>1. fut' = [fut EXCEPT ![t] = Refusal(t)] /\ UNCHANGED <<queue, asked>>
      BY <1>4, <2>4 DEF UiSubmit
    <3>2. \A x \in Tasks : fut'[x] = IF x = t THEN Refusal(t) ELSE fut[x]
      BY <1>t, <3>1 DEF FutType
    <3>3. UiInv'
      BY <2>1, <3>1, <3>2, <1>n, RefusalType, UiInvKept
    <3> QED
      BY <2>1, <3>1, <3>2, <3>3, StoreInvKept
  <2> QED
    BY <2>3, <2>4
<1>5. ASSUME NEW t \in Tasks, ThreadCheck(t) PROVE UiInv' /\ StoreInv'
  <2>1. /\ t \notin UiTasks /\ fut[t] = "new"
        /\ UNCHANGED <<thread, path, db, loop, ui, queue, stored>>
    BY <1>5 DEF ThreadCheck, connection
  <2>2. \A x \in Tasks : x # t => fut'[x] = fut[x] /\ asked'[x] = asked[x]
    BY <1>5, <1>t DEF ThreadCheck, FutType
  <2>3. fut'[t] # "waiting"
    BY <1>5, <1>t, RefusalType DEF ThreadCheck, FutType
  <2>4. UiInv'
    BY <2>1, <2>2, <1>n, <2>3, UiInvKept
  <2> QED
    BY <2>1, <2>2, <2>4, StoreInvKept
<1>6. ASSUME NEW t \in Tasks, ThreadPost(t) PROVE UiInv' /\ StoreInv'
  <2>1. /\ fut[t] = "checked" /\ queue' = Append(queue, t) /\ fut' = [fut EXCEPT ![t] = "waiting"]
        /\ UNCHANGED <<thread, path, db, loop, ui, stored, asked>>
    BY <1>6 DEF ThreadPost, connection
  <2>2. t \notin UiTasks
    BY <1>n, <2>1
  <2>3. ~ In(t, queue) /\ t \in Events
    BY <2>1 DEF QueueInv, Events
  <2>4. \A x \in Tasks : fut'[x] = IF x = t THEN "waiting" ELSE fut[x]
    BY <1>t, <2>1 DEF FutType
  <2>5. UiInv'
    BY <1>n, <2>1, <2>2, <2>3, <2>4, UiInvPost
  <2> QED
    BY <2>1, <2>4, <2>5, StoreInvKept
<1>7. CASE UiLoop \/ WorkerLoop
  <2>1. queue # <<>>
    BY <1>7, LoopRuns
  <2>2. /\ Distinct(Tail(queue)) /\ In(Head(queue), queue)
        /\ \A x : In(x, Tail(queue)) <=> In(x, queue) /\ x # Head(queue)
    BY <1>t, <2>1, TailDistinct DEF QueueInv
  <2>3. /\ Len(queue) \in Nat \ {0} /\ Len(Tail(queue)) = Len(queue) - 1
        /\ \A i \in 1..Len(queue) - 1 : Tail(queue)[i] = queue[i + 1]
        /\ Head(queue) = queue[1]
    BY <1>t, <2>1
  <2>4. CASE WorkerLoop /\ RunStop
    <3>1. /\ Head(queue) = StopCall /\ queue' = Tail(queue)
          /\ UNCHANGED <<stored, fut, asked>>
      BY <2>4 DEF RunStop, futures
    <3>2. NoUi(queue')
      <4> SUFFICES ASSUME NEW t \in UiTasks, In(t, Tail(queue)) PROVE FALSE
        BY <3>1 DEF NoUi
      <4>1. PICK i \in 1..Len(queue) - 1 : queue[i + 1] = t
        BY <2>3 DEF In
      <4>2. 1 \in 1..Len(queue) /\ i + 1 \in 1..Len(queue) /\ 1 < i + 1
        BY <2>3
      <4> QED
        BY <2>3, <3>1, <4>1, <4>2 DEF UiInv
    <3>3. \A t \in Tasks : fut'[t] = "waiting" => In(t, queue')
      BY <2>2, <3>1 DEF UiInv
    <3>4. UiInv'
      BY <1>n, <3>1, <3>2, <3>3, UiInvNone DEF In
    <3> QED
      BY <3>1, <3>4, StoreInvKept
  <2>5. CASE WorkerLoop /\ RunHome
    <3>1. /\ Head(queue) = HomeCall /\ queue' = Tail(queue)
          /\ UNCHANGED <<stored, fut, asked>>
      BY <2>5 DEF RunHome, connection, futures
    <3>2. NoUi(queue')
      BY <1>n, <2>2, <3>1 DEF QueueInv, NoUi
    <3>3. \A t \in Tasks : fut'[t] = "waiting" => In(t, queue')
      BY <2>2, <3>1 DEF UiInv
    <3>4. UiInv'
      BY <1>n, <3>1, <3>2, <3>3, UiInvNone DEF In
    <3> QED
      BY <3>1, <3>4, StoreInvKept
  <2>6. ASSUME NEW t \in Tasks, RunsTask(t) PROVE UiInv' /\ StoreInv'
    <3>1. /\ queue' = Tail(queue) /\ Head(queue) = t
          /\ UNCHANGED <<thread, path, db, loop, ui, asked>>
      BY <2>6 DEF RunsTask
    <3>2. /\ \A x \in Tasks : x # t => fut'[x] = fut[x]
          /\ fut'[t] \in {"true", "value", "empty", "false"}
      BY <1>t, <2>6 DEF RunsTask, FutType
    <3>3. \A x \in Tasks : fut'[x] = "waiting" => In(x, queue')
      BY <2>2, <3>1, <3>2 DEF UiInv
    <3>4. \A x \in UiTasks : In(x, queue') => (thread' \/ ui'.at = "stopping") /\ asked'[x] = db'
      BY <2>2, <3>1 DEF UiInv
    <3>5. ASSUME NEW i \in 1..Len(queue'), NEW j \in 1..Len(queue'), i < j, queue'[i] = StopCall
          PROVE  queue'[j] \notin UiTasks
      <4>1. /\ i + 1 \in 1..Len(queue) /\ j + 1 \in 1..Len(queue) /\ i + 1 < j + 1
            /\ queue'[i] = queue[i + 1] /\ queue'[j] = queue[j + 1]
        BY <2>3, <3>1, <3>5
      <4> QED
        BY <3>5, <4>1 DEF UiInv
    <3>6. UiInv'
      <4>1. /\ \A x \in UiTasks : fut'[x] # "checked"
            /\ \A x \in UiTasks : In(x, queue)' =>
                   (thread' \/ ui'.at = "stopping") /\ asked'[x] = db'
            /\ \A x \in Tasks : fut'[x] = "waiting" => In(x, queue)'
        BY <1>n, <3>2, <3>3, <3>4 DEF In
      <4> QED
        BY <3>5, <4>1 DEF UiInv
    <3>7. fut[t] = "waiting" /\ (t \in UiTasks => asked[t] = db)
      BY <2>2, <3>1 DEF QueueInv, UiInv
    <3>8. CASE stored' = stored
      <4>1. \A x \in Tasks : fut[x] = "true" => fut'[x] = "true" /\ asked'[x] = asked[x]
        BY <3>1, <3>2, <3>7
      <4> QED
        BY <3>6, <3>8, <4>1, StoreInvKept
    <3>9. CASE stored' # stored
      <4>1. /\ fut' = [fut EXCEPT ![t] = "true"] /\ db # NoFile
            /\ stored' = [stored EXCEPT ![db] = @ \cup {t}]
        BY <2>6, <3>9 DEF RunsTask
      <4>2. \A f \in Files : stored'[f] = IF f = db THEN stored[f] \cup {t} ELSE stored[f]
        BY <1>t, <4>1
      <4>3. \A f \in Files : stored[f] \subseteq Tasks
        BY <1>t
      <4>4. fut'[t] = "true"
        BY <1>t, <4>1 DEF FutType
      <4>5. StoredWasReported'
        BY <3>2, <4>2, <4>3, <4>4 DEF StoreInv, StoredWasReported
      <4>6. WritesStayOnFile'
        <5> SUFFICES ASSUME NEW x \in UiTasks, NEW f \in Files, x \in stored'[f]
                     PROVE  f = asked'[x]
          BY DEF WritesStayOnFile
        <5>1. asked' = asked
          BY <3>1
        <5>2. x \in stored[f] \/ (f = db /\ x = t)
          BY <4>2
        <5>3. CASE x \in stored[f]
          BY <5>1, <5>3 DEF StoreInv, WritesStayOnFile
        <5>4. CASE f = db /\ x = t
          BY <3>7, <5>1, <5>4
        <5> QED
          BY <5>2, <5>3, <5>4
      <4> QED
        BY <3>6, <4>5, <4>6 DEF StoreInv
    <3> QED
      BY <3>8, <3>9
  <2> QED
    BY <1>7, <2>4, <2>5, <2>6, LoopRuns
<1>8. CASE UNCHANGED vars
  BY <1>8, <1>n, UiInvKept, StoreInvKept DEF vars
<1> QED
  BY <1>1, <1>2, <1>3, <1>4, <1>5, <1>6, <1>7, <1>8 DEF Next

LEMMA StoreInvariant == Spec => [](UiInv /\ StoreInv)
  BY WorkerTypeCorrect, WorkerInvariant, StoreInvInit, StoreInvStep, PTL DEF Spec

\* With every fault, what is committed has been answered with true: a task that
\* was refused, has failed or still waits has left nothing in any file.
THEOREM CommitsAreReported == Spec => []StoredWasReported
<1>1. UiInv /\ StoreInv => StoredWasReported
  BY DEF StoreInv
<1> QED
  BY <1>1, StoreInvariant, PTL

\* A write of the UI thread reaches the file the worker was on when it was
\* submitted and no other, through every restart, failed start and timeout.
THEOREM WritesReachTheirFile == Spec => []WritesStayOnFile
<1>1. UiInv /\ StoreInv => WritesStayOnFile
  BY DEF StoreInv
<1> QED
  BY <1>1, StoreInvariant, PTL

\* When stop() or restart() has come back, nothing the UI thread posted before
\* is unresolved.
THEOREM StopWaitsForTasks == Spec => []StopDrains
<1>1. UiInv /\ StoreInv => StopDrains
  <2> SUFFICES ASSUME UiInv, ui = UiIdle, ~ thread, NEW t \in UiTasks, fut[t] = "waiting"
               PROVE  FALSE
    BY DEF StopDrains
  <2>1. In(t, queue)
    BY ConstantsAssumption DEF UiInv
  <2> QED
    BY <2>1 DEF UiInv, UiIdle
<1> QED
  BY <1>1, StoreInvariant, PTL
-----------------------------------------------------------------------------
(* The worker implements TaskService when a COMMIT that is reached succeeds *)

Replies == [t \in Tasks |-> Answer(fut[t])]
Applied == UNION {stored[f] : f \in Files}

LEMMA OneReply ==
    ASSUME TypeOK, NEW t \in Tasks, NEW r, fut' = [fut EXCEPT ![t] = r]
    PROVE  Replies' = [Replies EXCEPT ![t] = Answer(r)] /\ Replies[t] = Answer(fut[t])
<1>1. \A x \in Tasks : fut'[x] = IF x = t THEN r ELSE fut[x]
  BY DEF TypeOK
<1>2. \A x \in Tasks : Answer(fut'[x]) = IF x = t THEN Answer(r) ELSE Answer(fut[x])
  BY <1>1
<1> HIDE DEF Answer
<1> QED
  BY <1>2 DEF Replies

LEMMA Answers ==
    /\ Answer("new") = "new" /\ Answer("checked") = "new" /\ Answer("waiting") = "waiting"
    /\ Answer("value") = "yes" /\ Answer("true") = "yes"
    /\ Answer("false") = "no" /\ Answer("empty") = "no"
  BY DEF Answer

\* Steps of the service, over the refinement mapping.
SubmitStep(t) ==
    /\ Replies[t] = "new" /\ Replies' = [Replies EXCEPT ![t] = "waiting"]
    /\ Applied' = Applied
RefuseStep(t) ==
    /\ Replies[t] \in {"new", "waiting"} /\ Replies' = [Replies EXCEPT ![t] = "no"]
    /\ Applied' = Applied
PerformStep(t) ==
    /\ Replies[t] = "waiting" /\ Replies' = [Replies EXCEPT ![t] = "yes"]
    /\ Applied' = Applied \cup ({t} \cap {x \in Tasks : KindOf[x] # "read"})

LEMMA ServiceStep ==
    ASSUME \/ Replies' = Replies /\ Applied' = Applied
           \/ \E t \in Tasks : SubmitStep(t) \/ RefuseStep(t) \/ PerformStep(t)
    PROVE  [TS!Next]_(TS!vars)
  BY DEF Replies, Applied, SubmitStep, RefuseStep, PerformStep,
         TS!Next, TS!vars, TS!Submit, TS!Refuse, TS!Perform

\* One answer per task, and yes exactly when and where its write is committed:
\* the contract of DbTx, for a database whose COMMIT never fails.
THEOREM WorkerImplementsService ==
    ASSUME "commit" \notin Faults PROVE Spec => ImplementsTaskService
<1> USE ConstantsAssumption
<1>1. Init => TS!Init
  <2> SUFFICES ASSUME Init PROVE TS!Init
    OBVIOUS
  <2>1. [t \in Tasks |-> Answer(fut[t])] = [t \in Tasks |-> "new"]
    BY Answers DEF Init
  <2>2. UNION {stored[f] : f \in Files} = {}
    BY DEF Init
  <2> QED
    BY <2>1, <2>2 DEF TS!Init
<1>2. TypeOK /\ open = FALSE /\ [Next]_vars => (open = FALSE)'
  BY LoopRuns
     DEF Next, vars, Stop, Start, UiCall, BeginThread, Publish, Join, OpenOnThread, OpenFails,
         HandshakeTimeout, UiSubmit, ThreadCheck, ThreadPost, RunsTask, RunStop, RunHome, connection
<1>3. TypeOK /\ WorkerInv /\ open = FALSE /\ [Next]_vars => [TS!Next]_(TS!vars)
  <2> SUFFICES ASSUME TypeOK, QueueInv, open = FALSE, [Next]_vars
               PROVE  \/ Replies' = Replies /\ Applied' = Applied
                      \/ \E t \in Tasks : SubmitStep(t) \/ RefuseStep(t) \/ PerformStep(t)
    BY ServiceStep DEF WorkerInv
  <2>t. /\ queue \in Seq(Events) /\ fut \in FutType
        /\ stored \in [Files -> SUBSET Tasks] /\ db \in Files \cup {NoFile}
    BY DEF TypeOK, Events, FutType
  <2>1. CASE UNCHANGED <<fut, stored>>
    BY <2>1 DEF Replies, Applied
  <2>2. ASSUME NEW t \in Tasks, UiSubmit(t) PROVE SubmitStep(t) \/ RefuseStep(t)
    <3>1. fut[t] = "new"
      BY <2>2 DEF UiSubmit
    <3>2. PICK r \in {"waiting", "false", "empty"} : fut' = [fut EXCEPT ![t] = r]
      BY <2>2, RefusalType DEF UiSubmit
    <3>3. Replies' = [Replies EXCEPT ![t] = Answer(r)] /\ Replies[t] = Answer("new")
      BY <3>1, <3>2, OneReply
    <3>4. Applied' = Applied
      BY <2>2 DEF UiSubmit, connection, Applied
    <3> QED
      BY <3>4, <3>2, <3>3, Answers DEF SubmitStep, RefuseStep
  <2>3. ASSUME NEW t \in Tasks, ThreadCheck(t)
        PROVE  (Replies' = Replies /\ Applied' = Applied) \/ RefuseStep(t)
    <3>1. fut[t] = "new"
      BY <2>3 DEF ThreadCheck
    <3>2. PICK r \in {"checked", "false", "empty"} : fut' = [fut EXCEPT ![t] = r]
      BY <2>3, RefusalType DEF ThreadCheck
    <3>3. Replies' = [Replies EXCEPT ![t] = Answer(r)] /\ Replies[t] = Answer("new")
      BY <3>1, <3>2, OneReply
    <3>4. Applied' = Applied
      BY <2>3 DEF ThreadCheck, connection, Applied
    <3>5. [Replies EXCEPT ![t] = Replies[t]] = Replies
      BY DEF Replies
    <3> QED
      BY <3>4, <3>5, <3>2, <3>3, Answers DEF RefuseStep
  <2>4. ASSUME NEW t \in Tasks, ThreadPost(t) PROVE SubmitStep(t)
    <3>1. fut[t] = "checked" /\ fut' = [fut EXCEPT ![t] = "waiting"]
      BY <2>4 DEF ThreadPost
    <3>2. Applied' = Applied
      BY <2>4 DEF ThreadPost, connection, Applied
    <3>3. Replies' = [Replies EXCEPT ![t] = Answer("waiting")] /\ Replies[t] = Answer("checked")
      BY <3>1, OneReply
    <3> QED
      BY <3>2, <3>3, Answers DEF SubmitStep
  <2>5. ASSUME NEW t \in Tasks, RunsTask(t), queue # <<>> PROVE RefuseStep(t) \/ PerformStep(t)
    <3>1. fut[t] = "waiting"
      <4>1. In(t, queue)
        BY <2>t, <2>5, TailDistinct DEF RunsTask, QueueInv
      <4> QED
        BY <4>1 DEF QueueInv
    <3>2. CASE (\E r \in {"empty", "false"} : fut' = [fut EXCEPT ![t] = r]) /\ stored' = stored
      <4>1. Applied' = Applied
        BY <3>2 DEF Applied
      <4>2. PICK r \in {"empty", "false"} : fut' = [fut EXCEPT ![t] = r]
        BY <3>2
      <4>3. Replies' = [Replies EXCEPT ![t] = Answer(r)] /\ Replies[t] = Answer("waiting")
        BY <3>1, <4>2, OneReply
      <4> QED
        BY <4>1, <4>2, <4>3, Answers DEF RefuseStep
    <3>3. CASE KindOf[t] = "read" /\ fut' = [fut EXCEPT ![t] = "value"] /\ stored' = stored
      <4>1. Applied' = Applied \cup ({t} \cap {x \in Tasks : KindOf[x] # "read"})
        BY <3>3 DEF Applied
      <4>2. Replies' = [Replies EXCEPT ![t] = Answer("value")] /\ Replies[t] = Answer("waiting")
        BY <3>1, <3>3, OneReply
      <4> QED
        BY <4>1, <4>2, Answers DEF PerformStep
    <3>4. CASE /\ fut' = [fut EXCEPT ![t] = "true"] /\ db # NoFile /\ KindOf[t] # "read"
               /\ stored' = [stored EXCEPT ![db] = @ \cup {t}]
      <4>1. db \in Files /\ \A f \in Files : stored'[f] = IF f = db THEN stored[f] \cup {t} ELSE stored[f]
        BY <2>t, <3>4
      <4>2. Applied' = Applied \cup {t}
        BY <4>1 DEF Applied
      <4>3. {t} \cap {x \in Tasks : KindOf[x] # "read"} = {t}
        BY <3>4
      <4>4. Replies' = [Replies EXCEPT ![t] = Answer("true")] /\ Replies[t] = Answer("waiting")
        BY <3>1, <3>4, OneReply
      <4> QED
        BY <4>2, <4>3, <4>4, Answers DEF PerformStep
    <3> QED
      BY <2>5, <3>2, <3>3, <3>4 DEF RunsTask
  <2>6. CASE WorkerLoop /\ (RunStop \/ RunHome)
    BY <2>1, <2>6 DEF RunStop, RunHome, connection, futures
  <2>7. \/ UNCHANGED <<fut, stored>>
        \/ \E t \in Tasks : UiSubmit(t) \/ ThreadCheck(t) \/ ThreadPost(t)
        \/ UiLoop \/ WorkerLoop
    BY DEF Next, vars, Stop, Start, UiCall, BeginThread, Publish, Join, OpenOnThread, OpenFails,
           HandshakeTimeout, connection, futures
  <2> QED
    BY <2>1, <2>2, <2>3, <2>4, <2>5, <2>6, <2>7, LoopRuns
<1>4. Init => open = FALSE
  BY DEF Init
<1> QED
  BY <1>1, <1>2, <1>3, <1>4, WorkerTypeCorrect, WorkerInvariant, PTL
     DEF Spec, ImplementsTaskService, TS!Spec
-----------------------------------------------------------------------------
(* Sessions *)

CallType == [op : {"start", "open", "import", "edit"}, firm : Files] \cup {NoCall}

\* A query the UI thread performs itself, the worker being down.
LoadHere(t) ==
    /\ KindOf[t] = "read" /\ fut[t] = "new"
    /\ flight' = t /\ fut' = [fut EXCEPT ![t] = "value"]
    /\ answer' = Content(writer) /\ asOf' = Content(writer)
    /\ UNCHANGED <<thread, path, connection, affinity, queue, loop, ui, asked>>

\* A query sent to the worker.
LoadThere(t) ==
    /\ KindOf[t] = "read" /\ fut[t] = "new"
    /\ IsRunning /\ UiSubmit(t)
    /\ flight' = t /\ answer' = NoRows
    /\ asOf' = Content(IF writer = NoFile THEN path ELSE writer)

LEMMA LoadKinds == \A t \in Tasks : Load(t) => LoadHere(t) \/ LoadThere(t)
  BY DEF Load, LoadHere, LoadThere

\* What a step of the session does to the worker.
LEMMA SessionMoves ==
    ASSUME SessionTypeOK, [SessionNext]_allVars
    PROVE  [Next]_vars \/ (\E t \in Tasks : LoadHere(t) \/ Save(t)) \/ QueryReady
<1>1. ASSUME NEW f \in Files, Restart(f) PROVE [Next]_vars
  BY <1>1 DEF Restart, Next
<1>2. CASE Launch
  BY <1>2 DEF Launch, worker, Next
<1>3. ASSUME NEW f \in Files, SwitchFirm(f) \/ MakeFirm(f, "open") \/ MakeFirm(f, "import")
      PROVE  [Next]_vars
  BY <1>1, <1>3 DEF SwitchFirm, MakeFirm, worker
<1>4. ASSUME NEW f \in Files, EditFirm(f) PROVE [Next]_vars
  <2>1. writerPath \in Files \cup {NoFile}
    BY DEF SessionTypeOK
  <2> QED
    BY <1>1, <1>4, <2>1 DEF EditFirm, worker
<1>5. CASE CallEnd \/ ImportDone
  BY <1>5 DEF CallEnd, ImportDone, worker
<1>6. ASSUME NEW t \in Tasks, Load(t) PROVE [Next]_vars \/ LoadHere(t)
  <2>1. LoadHere(t) \/ UiSubmit(t)
    BY <1>6, LoadKinds DEF LoadThere
  <2> QED
    BY <2>1 DEF Next
<1>7. ASSUME NEW v \in Views, Navigate(v)
      PROVE  [Next]_vars \/ \E t \in Tasks : LoadHere(t)
  <2>1. (\E t \in Tasks : Load(t)) \/ NoLoad
    BY <1>7 DEF Navigate
  <2> QED
    BY <1>6, <2>1 DEF NoLoad, worker
<1>8. CASE Refresh
  BY <1>6, <1>8 DEF Refresh
<1>9. ASSUME NEW t \in Tasks, Transact(t) \/ Saved(t) PROVE [Next]_vars
  BY <1>9 DEF Transact, Saved, worker, Next
<1>10. CASE WorkerStep
  BY <1>10 DEF WorkerStep, Next
<1>11. CASE UNCHANGED allVars
  BY <1>11 DEF allVars
<1> QED
  BY <1>2, <1>3, <1>4, <1>5, <1>7, <1>8, <1>9, <1>10, <1>11 DEF SessionNext
-----------------------------------------------------------------------------
(* Types *)

LEMMA SessionTypeInit == SessionInit => SessionTypeOK
<1> SUFFICES ASSUME SessionInit PROVE SessionTypeOK
  OBVIOUS
<1>1. TypeOK
  BY WorkerTypeInit DEF SessionInit
<1> QED
  BY <1>1 DEF SessionInit, SessionTypeOK, Views, NoRows, Rows

LEMMA ContentType ==
    ASSUME TypeOK, NEW f \in Files \cup {NoFile}
    PROVE  Content(f) \in Rows
<1>1. stored \in [Files -> SUBSET Tasks]
  BY DEF TypeOK
<1> QED
  BY <1>1 DEF Content, Rows

\* A future that is answered or made free again.
LEMMA FutureFreed ==
    ASSUME TypeOK, NEW t \in Tasks, fut' = [fut EXCEPT ![t] = "new"]
    PROVE  fut' \in FutType /\ Answered'
<1>1. fut \in FutType /\ Answered
  BY DEF TypeOK, FutType, Answered
<1>2. \A x \in Tasks : fut'[x] = IF x = t THEN "new" ELSE fut[x]
  BY <1>1 DEF FutType
<1>3. Answered'
  BY <1>1, <1>2 DEF Answered, Resolved
<1> QED
  BY <1>1, <1>3 DEF FutType

LEMMA WorkerTypeKept ==
    ASSUME SessionTypeOK, [SessionNext]_allVars PROVE TypeOK'
<1>0. TypeOK /\ writer \in Files \cup {NoFile}
  BY DEF SessionTypeOK
<1>1. CASE [Next]_vars
  BY <1>0, <1>1, WorkerTypeStep
<1>2. ASSUME NEW t \in Tasks, LoadHere(t) PROVE TypeOK'
  <2>1. "value" \in AnswersOf[KindOf[t]]
    BY <1>2, AnswerKinds DEF LoadHere
  <2>2. fut' \in FutType /\ Answered'
    BY <1>0, <1>2, <2>1, FutureSet DEF LoadHere
  <2> QED
    BY <1>0, <1>2, <2>2 DEF LoadHere, TypeOK, connection, FutType, Answered
<1>3. ASSUME NEW t \in Tasks, Save(t) PROVE TypeOK'
  <2>1. PICK r \in {"true", "empty"} : fut' = [fut EXCEPT ![t] = r]
    BY <1>3 DEF Save
  <2>2. r \in AnswersOf[KindOf[t]]
    BY <1>3, AnswerKinds DEF Save
  <2>3. fut' \in FutType /\ Answered'
    BY <1>0, <2>1, <2>2, FutureSet
  <2>4. stored \in [Files -> SUBSET Tasks] /\ asked \in [Tasks -> Files \cup {NoFile}]
    BY <1>0 DEF TypeOK
  <2>5. stored' \in [Files -> SUBSET Tasks] /\ asked' \in [Tasks -> Files \cup {NoFile}]
    BY <1>0, <1>3, <2>4 DEF Save
  <2> QED
    BY <1>0, <1>3, <2>3, <2>5 DEF Save, TypeOK, FutType, Answered
<1>4. CASE QueryReady
  <2>1. flight \in Tasks
    BY <1>4 DEF QueryReady, SessionTypeOK
  <2>2. fut' \in FutType /\ Answered'
    BY <1>0, <1>4, <2>1, FutureFreed DEF QueryReady
  <2>3. asked' \in [Tasks -> Files \cup {NoFile}]
    BY <1>0, <1>4 DEF QueryReady, TypeOK
  <2> QED
    BY <1>0, <1>4, <2>2, <2>3 DEF QueryReady, TypeOK, connection, FutType, Answered
<1> QED
  BY <1>1, <1>2, <1>3, <1>4, SessionMoves

LEMMA LoadType ==
    ASSUME SessionTypeOK, NEW t \in Tasks, Load(t)
    PROVE  flight' \in Tasks /\ answer' \in Rows /\ asOf' \in Rows
<1>1. /\ TypeOK /\ writer \in Files \cup {NoFile} /\ path \in Files \cup {NoFile}
  BY DEF SessionTypeOK, TypeOK
<1>2. Content(writer) \in Rows /\ Content(path) \in Rows /\ NoRows \in Rows
  BY <1>1, ContentType DEF NoRows, Rows
<1> HIDE DEF Content
<1>3. CASE LoadHere(t)
  BY <1>2, <1>3 DEF LoadHere
<1>4. CASE LoadThere(t)
  BY <1>2, <1>4 DEF LoadThere
<1> QED
  BY <1>3, <1>4, LoadKinds

LEMMA SessionTypeStep == SessionTypeOK /\ [SessionNext]_allVars => SessionTypeOK'
<1> SUFFICES ASSUME SessionTypeOK, [SessionNext]_allVars PROVE SessionTypeOK'
  OBVIOUS
<1>0. /\ TypeOK' /\ TypeOK
      /\ writer \in Files \cup {NoFile} /\ writerPath \in Files \cup {NoFile}
      /\ db \in Files \cup {NoFile}
  BY WorkerTypeKept DEF SessionTypeOK, TypeOK
<1>c. ASSUME NEW op \in {"start", "open", "import", "edit"}, NEW f \in Files
      PROVE  [op |-> op, firm |-> f] \in CallType
  BY DEF CallType
<1>w. ASSUME NEW f \in Files, SwitchDatabase(f)
      PROVE  writer' \in Files \cup {NoFile} /\ writerPath' \in Files \cup {NoFile}
  BY <1>w DEF SwitchDatabase
<1>1. CASE Launch
  <2>1. view' \in Views
    BY <1>1 DEF Launch, Views
  <2>2. writer' \in Files \cup {NoFile} /\ writerPath' \in Files \cup {NoFile}
    BY <1>0, <1>1, <1>w DEF Launch, writing
  <2>3. call' \in CallType
    BY <1>1, <1>c DEF Launch, CallType, SessionTypeOK
  <2> QED
    BY <1>0, <1>1, <2>1, <2>2, <2>3 DEF Launch, SessionTypeOK, book, CallType
<1>2. ASSUME NEW f \in Files, SwitchFirm(f) \/ MakeFirm(f, "open") \/ MakeFirm(f, "import")
      PROVE  SessionTypeOK'
  <2>1. writer' \in Files \cup {NoFile} /\ writerPath' \in Files \cup {NoFile}
    BY <1>2, <1>w DEF SwitchFirm, MakeFirm
  <2>2. call' \in CallType
    BY <1>2, <1>c DEF SwitchFirm, MakeFirm, CallType, SessionTypeOK
  <2>3. UNCHANGED <<active, view, book>>
    BY <1>2 DEF SwitchFirm, MakeFirm
  <2> QED
    BY <1>0, <2>1, <2>2, <2>3 DEF SessionTypeOK, book, CallType
<1>3. ASSUME NEW f \in Files, EditFirm(f) PROVE SessionTypeOK'
  <2>1. writer' \in Files \cup {NoFile} /\ writerPath' \in Files \cup {NoFile}
    BY <1>0, <1>3, <1>w DEF EditFirm
  <2>2. call' \in CallType
    BY <1>0, <1>3, <1>c DEF EditFirm, CallType, SessionTypeOK
  <2> QED
    BY <1>0, <1>3, <2>1, <2>2 DEF EditFirm, SessionTypeOK, book, CallType
<1>4. CASE CallEnd
  <2>1. call' = NoCall /\ active' \in Files \cup {NoFile} /\ isDirty' \in BOOLEAN /\ view' \in Views
    BY <1>4 DEF CallEnd, SessionTypeOK, Views
  <2> QED
    BY <1>0, <1>4, <2>1 DEF CallEnd, SessionTypeOK, writing
<1>5. CASE ImportDone
  <2>1. isDirty' \in BOOLEAN /\ view' \in Views
    BY <1>5 DEF ImportDone, SessionTypeOK, Views
  <2> QED
    BY <1>0, <1>5, <2>1 DEF ImportDone, SessionTypeOK, writing
<1>6. ASSUME NEW v \in Views, Navigate(v) PROVE SessionTypeOK'
  <2>1. flight' \in Tasks \cup {NoTask} /\ answer' \in Rows /\ asOf' \in Rows
    BY <1>6, LoadType DEF Navigate, NoLoad, SessionTypeOK
  <2> QED
    BY <1>0, <1>6, <2>1 DEF Navigate, SessionTypeOK, writing
<1>7. CASE Refresh
  <2>1. flight' \in Tasks \cup {NoTask} /\ answer' \in Rows /\ asOf' \in Rows
    BY <1>7, LoadType DEF Refresh
  <2> QED
    BY <1>0, <1>7, <2>1 DEF Refresh, SessionTypeOK, writing
<1>8. CASE QueryReady
  <2>1. NoRows \in Rows
    BY DEF NoRows, Rows
  <2>2. isDirty' \in BOOLEAN
    BY <1>8 DEF QueryReady, SessionTypeOK
  <2> QED
    BY <1>0, <1>8, <2>1, <2>2 DEF QueryReady, SessionTypeOK, writing
<1>9. ASSUME NEW t \in Tasks, Save(t) PROVE SessionTypeOK'
  <2>1. told' \subseteq Tasks /\ isDirty' \in BOOLEAN
    BY <1>9 DEF Save, SessionTypeOK
  <2> QED
    BY <1>0, <1>9, <2>1 DEF Save, SessionTypeOK, writing
<1>10. ASSUME NEW t \in Tasks, Transact(t) \/ Saved(t) PROVE SessionTypeOK'
  <2>1. told' \subseteq Tasks /\ isDirty' \in BOOLEAN
    BY <1>10 DEF Transact, Saved, SessionTypeOK, session, book
  <2> QED
    BY <1>0, <1>10, <2>1 DEF Transact, Saved, SessionTypeOK, session, writing, book
<1>11. CASE WorkerStep
  <2>1. answer' \in Rows
    BY <1>0, <1>11, ContentType DEF WorkerStep, SessionTypeOK
  <2> QED
    BY <1>0, <1>11, <2>1 DEF WorkerStep, SessionTypeOK, writing
<1>12. CASE UNCHANGED allVars
  BY <1>0, <1>12 DEF allVars, session, SessionTypeOK, writing, book
<1> QED
  BY <1>1, <1>2, <1>3, <1>4, <1>5, <1>6, <1>7, <1>8, <1>9, <1>10, <1>11, <1>12 DEF SessionNext

\* The types of the session: no switch, failed open or timeout leaves a file, a
\* call, a query or an answer outside the ones its readers know.
THEOREM SessionTypeCorrect == SessionSpec => []SessionTypeOK
  BY SessionTypeInit, SessionTypeStep, PTL DEF SessionSpec
-----------------------------------------------------------------------------
(* What is proved of the worker holds of the worker of a session *)

KeptInv == WorkerInv /\ UiInv /\ StoreInv

LEMMA KeptInit == SessionInit => KeptInv
  BY WorkerInvInit, StoreInvInit DEF SessionInit, KeptInv

\* A future of the UI thread that does not wait is given a value that does not.
LEMMA KeptFuture ==
    ASSUME TypeOK, TypeOK', KeptInv, NEW t \in Tasks, fut[t] # "waiting", fut[t] # "true",
           UNCHANGED <<thread, path, db, loop, ui, queue>>,
           NEW r \in {"new"} \cup Resolved, fut' = [fut EXCEPT ![t] = r],
           \A x \in Tasks : x # t => asked'[x] = asked[x],
           \/ stored' = stored
           \/ /\ r = "true" /\ asked'[t] \in Files
              /\ stored' = [stored EXCEPT ![asked'[t]] = @ \cup {t}]
    PROVE  KeptInv'
<1> USE ConstantsAssumption
<1>1. QueueInv /\ ThreadInv /\ UiInv /\ StoreInv
  BY DEF KeptInv, WorkerInv
<1>2. fut \in FutType /\ stored \in [Files -> SUBSET Tasks]
  BY DEF TypeOK, FutType
<1>3. \A x \in Tasks : fut'[x] = IF x = t THEN r ELSE fut[x]
  BY <1>2 DEF FutType
<1>4. r # "waiting" /\ r # "checked"
  BY DEF Resolved
<1>5. QueueInv' /\ ThreadInv'
  BY <1>1, <1>3, QueueInvKept, ThreadInvKept
<1>6. ~ In(t, queue)
  BY <1>1 DEF QueueInv
<1>7. UiInv'
  <2>1. \A x \in UiTasks : x \in Tasks /\ fut'[x] # "checked"
    BY <1>1, <1>3, <1>4 DEF UiInv
  <2>2. \A x \in UiTasks : asked'[x] = asked[x] \/ ~ In(x, queue)
    BY <1>6
  <2>3. \A x \in Tasks : fut'[x] = "waiting" => fut[x] = "waiting"
    BY <1>3, <1>4
  <2> QED
    BY <1>1, <2>1, <2>2, <2>3, UiInvKept
<1>8. CASE stored' = stored
  <2>1. \A x \in Tasks : fut[x] = "true" => fut'[x] = "true" /\ asked'[x] = asked[x]
    BY <1>3
  <2>2. StoreInv'
    BY <1>1, <1>8, <2>1, StoreInvKept
  <2> QED
    BY <1>5, <1>7, <2>2 DEF KeptInv, WorkerInv
<1>9. CASE /\ r = "true" /\ asked'[t] \in Files
           /\ stored' = [stored EXCEPT ![asked'[t]] = @ \cup {t}]
  <2>1. \A f \in Files : stored'[f] = IF f = asked'[t] THEN stored[f] \cup {t} ELSE stored[f]
    BY <1>2, <1>9
  <2>2. \A f \in Files : stored[f] \subseteq Tasks /\ t \notin stored[f]
    BY <1>1, <1>2 DEF StoreInv, StoredWasReported
  <2>3. StoredWasReported'
    BY <1>1, <1>3, <1>9, <2>1, <2>2 DEF StoreInv, StoredWasReported
  <2>4. WritesStayOnFile'
    <3> SUFFICES ASSUME NEW x \in UiTasks, NEW f \in Files, x \in stored'[f]
                 PROVE  f = asked'[x]
      BY DEF WritesStayOnFile
    <3>1. CASE x = t
      BY <2>1, <2>2, <3>1
    <3>2. CASE x # t
      <4>1. x \in stored[f]
        BY <2>1, <3>2
      <4>2. f = asked[x] /\ x \in Tasks
        BY <1>1, <4>1 DEF StoreInv, WritesStayOnFile
      <4> QED
        BY <3>2, <4>2
    <3> QED
      BY <3>1, <3>2
  <2> QED
    BY <1>5, <1>7, <2>3, <2>4 DEF KeptInv, WorkerInv, StoreInv
<1> QED
  BY <1>8, <1>9

\* The day book waits for queries only.
FlightReads == flight # NoTask => flight \in Tasks /\ KindOf[flight] = "read"

LEMMA FlightStep == SessionTypeOK /\ FlightReads /\ [SessionNext]_allVars => FlightReads'
<1> SUFFICES ASSUME FlightReads, [SessionNext]_allVars PROVE FlightReads'
  OBVIOUS
<1>1. ASSUME NEW t \in Tasks, Load(t) PROVE FlightReads'
  BY <1>1 DEF Load, FlightReads
<1>2. ASSUME flight' = flight PROVE FlightReads'
  BY <1>2 DEF FlightReads
<1>3. \/ flight' = flight \/ flight' = NoTask
      \/ \E t \in Tasks : Load(t)
  BY DEF SessionNext, Launch, SwitchFirm, MakeFirm, EditFirm, CallEnd, ImportDone, Navigate, NoLoad,
         Refresh, QueryReady, Save, Transact, Saved, WorkerStep, allVars, session, book
<1> QED
  BY <1>1, <1>2, <1>3 DEF FlightReads

LEMMA KeptStep ==
    SessionTypeOK /\ FlightReads /\ KeptInv /\ [SessionNext]_allVars => KeptInv'
<1> SUFFICES ASSUME SessionTypeOK, FlightReads, KeptInv, [SessionNext]_allVars PROVE KeptInv'
  OBVIOUS
<1>0. TypeOK /\ TypeOK' /\ writer \in Files \cup {NoFile}
  BY WorkerTypeKept DEF SessionTypeOK
<1>t. fut \in FutType /\ asked \in [Tasks -> Files \cup {NoFile}]
  BY <1>0 DEF TypeOK, FutType
<1>1. CASE [Next]_vars
  BY <1>0, <1>1, WorkerInvStep, StoreInvStep DEF KeptInv
<1>2. ASSUME NEW t \in Tasks, LoadHere(t) PROVE KeptInv'
  <2>1. /\ fut[t] = "new" /\ fut' = [fut EXCEPT ![t] = "value"] /\ "value" \in Resolved
        /\ UNCHANGED <<thread, path, db, loop, ui, queue, asked, stored>>
    BY <1>2 DEF LoadHere, connection, Resolved
  <2> QED
    BY <1>0, <2>1, KeptFuture
<1>3. ASSUME NEW t \in Tasks, Save(t) PROVE KeptInv'
  <2>1. fut[t] = "new" /\ UNCHANGED <<thread, path, db, loop, ui, queue>>
    BY <1>3 DEF Save
  <2>2. CASE /\ fut' = [fut EXCEPT ![t] = "empty"]
             /\ UNCHANGED <<asked, stored>>
    <3>1. "empty" \in Resolved
      BY DEF Resolved
    <3> QED
      BY <1>0, <2>1, <2>2, <3>1, KeptFuture
  <2>3. CASE /\ writer # NoFile
             /\ fut' = [fut EXCEPT ![t] = "true"]
             /\ asked' = [asked EXCEPT ![t] = writer]
             /\ stored' = [stored EXCEPT ![writer] = @ \cup {t}]
    <3>1. "true" \in Resolved
      BY DEF Resolved
    <3>2. asked'[t] = writer /\ writer \in Files /\ \A x \in Tasks : x # t => asked'[x] = asked[x]
      BY <1>0, <1>t, <2>3
    <3> QED
      BY <1>0, <2>1, <2>3, <3>1, <3>2, KeptFuture
  <2> QED
    BY <1>3, <2>2, <2>3 DEF Save
<1>4. CASE QueryReady
  <2>1. /\ flight \in Tasks /\ fut[flight] \in Resolved
        /\ fut' = [fut EXCEPT ![flight] = "new"]
        /\ UNCHANGED <<thread, path, db, loop, ui, queue, stored>>
    BY <1>4 DEF QueryReady, FlightReads, connection
  <2>2. \A x \in Tasks : x # flight => asked'[x] = asked[x]
    BY <1>4, <1>t, <2>1 DEF QueryReady
  <2>3. fut[flight] \in {"value", "empty"}
    <3>1. KindOf[flight] = "read"
      BY <2>1, SessionAssumption DEF FlightReads
    <3>2. fut[flight] \in AnswersOf[KindOf[flight]]
      BY <1>0, <2>1 DEF TypeOK
    <3> QED
      BY <2>1, <3>1, <3>2, AnswerKinds
  <2> QED
    BY <1>0, <2>1, <2>2, <2>3, KeptFuture
<1> QED
  BY <1>1, <1>2, <1>3, <1>4, SessionMoves
-----------------------------------------------------------------------------
(* The reader follows the writer *)

FollowInv ==
    /\ ui # UiIdle => call # NoCall /\ ui.next \in {call.firm, NoFile}
    /\ call # NoCall => writer \in {call.firm, NoFile}
    /\ call # NoCall /\ ui = UiIdle /\ thread => path = call.firm
    /\ Idle /\ thread /\ writer # NoFile => path = writer
    /\ view = "launch" => ~ thread /\ call = NoCall

\* A call to the worker, on the file the writer has just been sent to.
LEMMA FollowCall ==
    ASSUME NEW f \in Files, Restart(f), NEW op \in {"start", "open", "import", "edit"},
           call' = [op |-> op, firm |-> f], writer' \in {f, NoFile}, view' # "launch"
    PROVE  FollowInv'
<1>1. /\ ui'.at \in {"stopping", "begin"} /\ ui'.next = f
  BY DEF Restart, Stop, Start
<1>2. call' # NoCall /\ call'.firm = f
  BY DEF NoCall
<1>3. (ui # UiIdle)' /\ ~ Idle'
  BY <1>1, <1>2 DEF UiIdle, Idle
<1> QED
  BY <1>1, <1>2, <1>3 DEF FollowInv

LEMMA FollowKept ==
    ASSUME FollowInv, UNCHANGED <<thread, path, ui, writer, call>>,
           view' = view \/ view' # "launch"
    PROVE  FollowInv'
  BY DEF FollowInv, Idle

\* The UI thread goes on inside its call, or comes back with the worker down.
LEMMA FollowInside ==
    ASSUME FollowInv, ui # UiIdle, UNCHANGED <<writer, call, view>>,
           ~ thread', ui'.next \in {ui.next, NoFile}
    PROVE  FollowInv'
  BY DEF FollowInv, Idle

LEMMA FollowWorker ==
    ASSUME TypeOK, QueueInv, ThreadInv, FollowInv, UNCHANGED <<writer, call, view>>,
           UiCall \/ OpenOnThread \/ OpenFails \/ HandshakeTimeout \/ WorkerLoop \/ UiLoop
    PROVE  FollowInv'
<1>t. ui \in UiType /\ queue \in Seq(Events) /\ UiIdle.at = "idle" /\ UiIdle.next = NoFile
  BY DEF TypeOK, UiType, Events, UiIdle
<1>1. CASE BeginThread \/ Join \/ OpenOnThread \/ OpenFails \/ HandshakeTimeout
  <2>1. ui.at \in {"begin", "joining", "opening"} /\ UNCHANGED thread
    BY <1>1 DEF BeginThread, Join, OpenOnThread, OpenFails, HandshakeTimeout, ThreadInv
  <2>2. ui'.next \in {ui.next, NoFile}
    BY <1>1, <1>t DEF BeginThread, Join, OpenOnThread, OpenFails, HandshakeTimeout, UiType
  <2>3. ui # UiIdle
    BY <1>t, <2>1
  <2> QED
    BY <2>1, <2>2, <2>3, FollowInside DEF ThreadInv
<1>2. CASE Publish
  <2>1. ui.at = "opened" /\ ui.next # NoFile /\ path' = ui.next /\ ui' = UiIdle
    BY <1>2 DEF Publish, ThreadInv
  <2>2. call # NoCall /\ path' = call.firm
    BY <1>t, <2>1 DEF FollowInv
  <2> QED
    BY <2>1, <2>2 DEF FollowInv, Idle
<1>3. CASE WorkerLoop /\ (RunStop \/ RunHome)
  <2>1. queue # <<>> /\ Head(queue) \in {StopCall, HomeCall}
    BY <1>3 DEF WorkerLoop, RunStop, RunHome
  <2>2. In(Head(queue), queue)
    BY <1>t, <2>1, TailDistinct DEF QueueInv
  <2>3. ui.at \in {"stopping", "returning"}
    BY <2>1, <2>2 DEF QueueInv
  <2>4. UNCHANGED thread /\ ui'.next = ui.next
    BY <1>3, <1>t DEF RunStop, RunHome, UiType
  <2>5. ui # UiIdle
    BY <1>t, <2>3
  <2> QED
    BY <2>4, <2>5, FollowInside DEF ThreadInv
<1>4. ASSUME NEW t \in Tasks, RunsTask(t) PROVE FollowInv'
  BY <1>4, FollowKept DEF RunsTask
<1> QED
  BY <1>1, <1>2, <1>3, <1>4, LoopRuns DEF UiCall

LEMMA FollowStep ==
    SessionTypeOK /\ KeptInv /\ FollowInv /\ [SessionNext]_allVars => FollowInv'
<1> SUFFICES ASSUME SessionTypeOK, KeptInv, FollowInv, [SessionNext]_allVars PROVE FollowInv'
  OBVIOUS
<1>0. TypeOK /\ QueueInv /\ ThreadInv /\ writerPath \in Files \cup {NoFile}
  BY DEF SessionTypeOK, KeptInv, WorkerInv
<1>1. CASE Launch
  <2>1. CASE UNCHANGED <<worker, writing, call>>
    BY <1>1, <2>1, FollowKept DEF Launch, worker, writing, vars
  <2>2. ASSUME NEW f \in Files, writer' = f, Start(f), call' = [op |-> "start", firm |-> f]
        PROVE  FollowInv'
    BY <1>1, <2>2, FollowCall DEF Launch, Restart
  <2>3. CASE UNCHANGED <<worker, call>>
    <3>1. ~ thread /\ call = NoCall /\ ui = UiIdle
      BY <1>1 DEF Launch, Idle, FollowInv
    <3>2. UNCHANGED <<thread, ui, call>> /\ view' # "launch"
      BY <1>1, <2>3 DEF Launch, worker, vars
    <3> QED
      BY <3>1, <3>2 DEF FollowInv, Idle
  <2> QED
    BY <1>1, <2>1, <2>2, <2>3 DEF Launch
<1>2. ASSUME NEW f \in Files, SwitchFirm(f) PROVE FollowInv'
  <2>1. CASE writer' = f /\ Restart(f) /\ call' = [op |-> "open", firm |-> f]
    BY <1>2, <2>1, FollowCall DEF SwitchFirm
  <2>2. CASE writer' = NoFile /\ UNCHANGED <<worker, call>>
    <3>1. UNCHANGED <<thread, ui, call, view>> /\ Idle
      BY <1>2, <2>2 DEF SwitchFirm, worker, vars
    <3> QED
      BY <2>2, <3>1 DEF FollowInv, Idle
  <2> QED
    BY <1>2, <2>1, <2>2 DEF SwitchFirm, SwitchDatabase
<1>3. ASSUME NEW f \in Files, NEW op \in {"open", "import"}, MakeFirm(f, op) PROVE FollowInv'
  <2>1. writer' \in {f, NoFile} /\ view' # "launch"
    BY <1>3 DEF MakeFirm, SwitchDatabase
  <2> QED
    BY <1>3, <2>1, FollowCall DEF MakeFirm
<1>4. ASSUME NEW f \in Files, EditFirm(f) PROVE FollowInv'
  <2>1. CASE writer' = NoFile /\ UNCHANGED <<worker, call>>
    <3>1. UNCHANGED <<thread, ui, call, view>> /\ Idle
      BY <1>4, <2>1 DEF EditFirm, worker, vars
    <3> QED
      BY <2>1, <3>1 DEF FollowInv, Idle
  <2>2. CASE /\ writerPath # NoFile /\ SwitchDatabase(writerPath)
             /\ Restart(writerPath) /\ call' = [op |-> "edit", firm |-> writerPath]
    <3>1. writerPath \in Files /\ writer' \in {writerPath, NoFile} /\ view' # "launch"
      BY <1>0, <1>4, <2>2 DEF EditFirm, SwitchDatabase
    <3> QED
      BY <2>2, <3>1, FollowCall
  <2> QED
    BY <1>4, <2>1, <2>2 DEF EditFirm
<1>5. CASE CallEnd
  <2>1. /\ call # NoCall /\ ui = UiIdle /\ call' = NoCall
        /\ UNCHANGED <<thread, path, ui, writer>> /\ view # "launch"
    BY <1>5 DEF CallEnd, worker, vars, writing, FollowInv
  <2>2. view' # "launch"
    BY <1>5, <2>1 DEF CallEnd
  <2> QED
    BY <2>1, <2>2 DEF FollowInv, Idle
<1>6. CASE ImportDone
  BY <1>6, FollowKept DEF ImportDone, worker, vars, writing
<1>7. ASSUME NEW t \in Tasks, Load(t) PROVE UNCHANGED <<thread, path, ui>>
  BY <1>7, LoadKinds DEF LoadHere, LoadThere, UiSubmit
<1>8. ASSUME NEW v \in Views, Navigate(v) PROVE FollowInv'
  <2>1. UNCHANGED <<thread, path, ui>>
    BY <1>7, <1>8 DEF Navigate, NoLoad, worker, vars
  <2>2. UNCHANGED <<writer, call>> /\ view' # "launch"
    BY <1>8 DEF Navigate, writing
  <2> QED
    BY <2>1, <2>2, FollowKept
<1>9. CASE Refresh
  BY <1>7, <1>9, FollowKept DEF Refresh, writing
<1>10. CASE QueryReady
  BY <1>10, FollowKept DEF QueryReady, writing
<1>11. ASSUME NEW t \in Tasks, Save(t) \/ Transact(t) \/ Saved(t) PROVE FollowInv'
  <2>1. UNCHANGED <<thread, path, ui, writer, call, view>>
    BY <1>11 DEF Save, Transact, Saved, UiSubmit, session, worker, vars, writing
  <2> QED
    BY <2>1, FollowKept
<1>12. CASE WorkerStep
  BY <1>0, <1>12, FollowWorker DEF WorkerStep, writing
<1>13. CASE UNCHANGED allVars
  BY <1>13, FollowKept DEF allVars, vars, session, writing
<1> QED
  BY <1>1, <1>2, <1>3, <1>4, <1>5, <1>6, <1>8, <1>9, <1>10, <1>11, <1>12, <1>13 DEF SessionNext
-----------------------------------------------------------------------------
(* A query reads the file it was sent to *)

SavedIn(store, f) == IF f = NoFile THEN {} ELSE store[f]

\* While the query waits, what was saved when it was sent is still in its file;
\* when it is performed, the handle is open on that file.
ReadInv ==
    flight # NoTask =>
        /\ asOf.saved \subseteq SavedIn(stored, asOf.file)
        /\ fut[flight] = "waiting" => asOf.file = asked[flight]
        /\ fut[flight] = "value" => answer.file = asOf.file /\ asOf.saved \subseteq answer.saved

\* Nothing that was saved in a file is ever taken out of it.
LEMMA StoredGrows ==
    ASSUME SessionTypeOK, [SessionNext]_allVars, NEW f \in Files \cup {NoFile}
    PROVE  SavedIn(stored, f) \subseteq SavedIn(stored', f)
<1>1. stored \in [Files -> SUBSET Tasks]
  BY DEF SessionTypeOK, TypeOK
<1>2. CASE stored' = stored
  BY <1>2 DEF SavedIn
<1>3. ASSUME NEW g, NEW t, stored' = [stored EXCEPT ![g] = @ \cup {t}]
      PROVE  SavedIn(stored, f) \subseteq SavedIn(stored', f)
  <2>1. \A h \in Files : stored[h] \subseteq stored'[h]
    BY <1>1, <1>3
  <2> QED
    BY <2>1 DEF SavedIn
<1>4. CASE [Next]_vars
  <2>1. \/ stored' = stored \/ \E t \in Tasks : RunsTask(t)
    BY <1>4, LoopRuns
       DEF Next, vars, Stop, Start, UiCall, BeginThread, Publish, Join, OpenOnThread, OpenFails,
           HandshakeTimeout, UiSubmit, ThreadCheck, ThreadPost, RunStop, RunHome, connection
  <2> QED
    BY <1>2, <1>3, <2>1 DEF RunsTask
<1>5. ASSUME NEW t \in Tasks, LoadHere(t) \/ Save(t) PROVE SavedIn(stored, f) \subseteq SavedIn(stored', f)
  BY <1>2, <1>3, <1>5 DEF LoadHere, Save, connection
<1>6. CASE QueryReady
  BY <1>2, <1>6 DEF QueryReady, connection
<1> QED
  BY <1>4, <1>5, <1>6, SessionMoves

\* A step that leaves the query and its future alone.
LEMMA ReadKept ==
    ASSUME SessionTypeOK, [SessionNext]_allVars, ReadInv, UNCHANGED <<flight, answer, asOf>>,
           flight # NoTask => fut'[flight] = fut[flight] /\ asked'[flight] = asked[flight]
    PROVE  ReadInv'
<1>1. asOf.file \in Files \cup {NoFile}
  BY DEF SessionTypeOK, Rows
<1>2. SavedIn(stored, asOf.file) \subseteq SavedIn(stored', asOf.file)
  BY <1>1, StoredGrows
<1> QED
  BY <1>2 DEF ReadInv

LEMMA ReadWorker ==
    ASSUME SessionTypeOK, [SessionNext]_allVars, FlightReads, KeptInv, ReadInv, WorkerStep
    PROVE  ReadInv'
<1>0. TypeOK /\ QueueInv /\ UiInv
  BY DEF SessionTypeOK, KeptInv, WorkerInv
<1>t. fut \in FutType /\ queue \in Seq(Events) /\ db \in Files \cup {NoFile}
  BY <1>0 DEF TypeOK, FutType, Events
<1>f. UNCHANGED <<flight, asOf>>
  BY DEF WorkerStep
<1>1. CASE UNCHANGED <<fut, asked>>
  <2>1. UNCHANGED answer
    BY <1>1 DEF WorkerStep
  <2> QED
    BY <1>1, <1>f, <2>1, ReadKept
<1>2. ASSUME NEW t \in Tasks, RunsTask(t), queue # <<>> PROVE ReadInv'
  <2>1. UNCHANGED <<asked, db>> /\ \A x \in Tasks : x # t => fut'[x] = fut[x]
    BY <1>t, <1>2 DEF RunsTask, FutType
  <2>2. In(t, queue)
    BY <1>0, <1>t, <1>2, TailDistinct DEF RunsTask, QueueInv
  <2>3. fut[t] = "waiting" /\ asked[t] = db
    BY <1>0, <2>2, SessionAssumption DEF QueueInv, UiInv
  <2>4. fut'[t] # "waiting"
    BY <1>t, <1>2 DEF RunsTask, FutType
  <2>5. CASE flight # t
    <3>1. flight # NoTask => fut'[flight] = fut[flight]
      BY <2>1, <2>5 DEF FlightReads
    <3>2. UNCHANGED answer
      BY <2>1, <2>5, SessionAssumption DEF WorkerStep, FlightReads
    <3> QED
      BY <1>f, <2>1, <3>1, <3>2, ReadKept
  <2>6. CASE flight = t
    <3>0. flight # NoTask
      BY <2>6, SessionAssumption
    <3>1. asOf.file = db /\ asOf.saved \subseteq SavedIn(stored, db)
      BY <2>3, <2>6, <3>0 DEF ReadInv
    <3>2. SavedIn(stored, db) \subseteq SavedIn(stored', db)
      BY <1>t, StoredGrows
    <3>3. asOf'.saved \subseteq SavedIn(stored', asOf'.file)
      BY <1>f, <3>1, <3>2
    <3>4. fut'[flight] = "value" => answer' = Content(db)
      BY <2>3, <2>6, <3>0 DEF WorkerStep
    <3>5. Content(db).file = db /\ Content(db).saved = SavedIn(stored, db)
      BY DEF Content, SavedIn
    <3>6. /\ fut'[flight'] # "waiting"
          /\ fut'[flight'] = "value" =>
                 answer'.file = asOf'.file /\ asOf'.saved \subseteq answer'.saved
      BY <1>f, <2>4, <2>6, <3>1, <3>4, <3>5
    <3> QED
      BY <3>3, <3>6 DEF ReadInv
  <2> QED
    BY <2>5, <2>6
<1>3. \/ UNCHANGED <<fut, asked>>
      \/ queue # <<>> /\ \E t \in Tasks : RunsTask(t)
  BY LoopRuns
     DEF WorkerStep, UiCall, BeginThread, Publish, Join, OpenOnThread, OpenFails,
         HandshakeTimeout, RunStop, RunHome, futures
<1> QED
  BY <1>1, <1>2, <1>3

LEMMA ReadLoad ==
    ASSUME SessionTypeOK, [SessionNext]_allVars, KeptInv, FollowInv, NEW t \in Tasks, Load(t), Idle
    PROVE  ReadInv'
<1>0. TypeOK /\ ThreadInv
  BY DEF SessionTypeOK, KeptInv, WorkerInv
<1>t. /\ fut \in FutType /\ asked \in [Tasks -> Files \cup {NoFile}]
      /\ writer \in Files \cup {NoFile} /\ path \in Files \cup {NoFile}
  BY <1>0 DEF TypeOK, FutType, SessionTypeOK
<1>c. \A f : Content(f).file = f /\ Content(f).saved = SavedIn(stored, f)
  BY DEF Content, SavedIn
<1>g. \A f \in Files \cup {NoFile} : SavedIn(stored, f) \subseteq SavedIn(stored', f)
  BY StoredGrows
<1>1. CASE LoadHere(t)
  <2>1. /\ flight' = t /\ fut'[t] = "value"
        /\ answer' = Content(writer) /\ asOf' = Content(writer)
    BY <1>1, <1>t DEF LoadHere, FutType
  <2>2. asOf'.saved \subseteq SavedIn(stored', asOf'.file)
    BY <1>c, <1>g, <1>t, <2>1
  <2> QED
    BY <2>1, <2>2 DEF ReadInv
<1>2. CASE LoadThere(t)
  <2>1. /\ flight' = t /\ fut'[t] = "waiting" /\ asked'[t] = path /\ thread
        /\ asOf' = Content(IF writer = NoFile THEN path ELSE writer)
    BY <1>2, <1>t DEF LoadThere, UiSubmit, IsRunning, FutType
  <2>2. asOf' = Content(path)
    BY <2>1 DEF FollowInv
  <2>3. asOf'.saved \subseteq SavedIn(stored', asOf'.file) /\ asOf'.file = path
    BY <1>c, <1>g, <1>t, <2>2
  <2> QED
    BY <2>1, <2>3 DEF ReadInv
<1> QED
  BY <1>1, <1>2, LoadKinds

LEMMA ReadStep ==
    SessionTypeOK /\ FlightReads /\ KeptInv /\ FollowInv /\ ReadInv /\ [SessionNext]_allVars
        => ReadInv'
<1> SUFFICES ASSUME SessionTypeOK, FlightReads, KeptInv, FollowInv, ReadInv, [SessionNext]_allVars
             PROVE  ReadInv'
  OBVIOUS
<1>t. /\ fut \in FutType /\ asked \in [Tasks -> Files \cup {NoFile}]
  BY DEF TypeOK, FutType, SessionTypeOK
<1>1. ASSUME UNCHANGED <<flight, answer, asOf, fut, asked>> PROVE ReadInv'
  BY <1>1, ReadKept
<1>2. ASSUME NEW f \in Files, Restart(f) PROVE UNCHANGED <<fut, asked>>
  BY <1>2 DEF Restart, Stop, Start, futures
<1>3. CASE Launch
  BY <1>1, <1>3 DEF Launch, Start, worker, vars, futures, book
<1>4. ASSUME NEW f \in Files, SwitchFirm(f) \/ MakeFirm(f, "open") \/ MakeFirm(f, "import")
      PROVE  ReadInv'
  BY <1>1, <1>2, <1>4 DEF SwitchFirm, MakeFirm, worker, vars, book
<1>5. ASSUME NEW f \in Files, EditFirm(f) PROVE ReadInv'
  <2>1. writerPath \in Files \cup {NoFile}
    BY DEF SessionTypeOK
  <2> QED
    BY <1>1, <1>2, <1>5, <2>1 DEF EditFirm, worker, vars, book
<1>6. CASE CallEnd \/ ImportDone
  BY <1>1, <1>6 DEF CallEnd, ImportDone, worker, vars
<1>7. ASSUME NEW v \in Views, Navigate(v) PROVE ReadInv'
  BY <1>1, <1>7, ReadLoad DEF Navigate, NoLoad, worker, vars
<1>8. CASE Refresh
  BY <1>8, ReadLoad DEF Refresh
<1>9. CASE QueryReady
  BY <1>9 DEF QueryReady, ReadInv
<1>10. ASSUME NEW t \in Tasks, KindOf[t] # "read", UNCHANGED <<flight, answer, asOf>>,
              \A x \in Tasks : x # t => fut'[x] = fut[x] /\ asked'[x] = asked[x]
       PROVE  ReadInv'
  BY <1>10, ReadKept DEF FlightReads
<1>11. ASSUME NEW t \in Tasks, Save(t) PROVE ReadInv'
  BY <1>t, <1>10, <1>11 DEF Save, FutType
<1>12. ASSUME NEW t \in Tasks, Transact(t) PROVE ReadInv'
  BY <1>t, <1>10, <1>12 DEF Transact, UiSubmit, FutType, session, book
<1>13. ASSUME NEW t \in Tasks, Saved(t) PROVE ReadInv'
  BY <1>1, <1>13 DEF Saved, worker, vars
<1>14. CASE WorkerStep
  BY <1>14, ReadWorker
<1>15. CASE UNCHANGED allVars
  BY <1>1, <1>15 DEF allVars, vars, session, book
<1> QED
  BY <1>3, <1>4, <1>5, <1>6, <1>7, <1>8, <1>9, <1>11, <1>12, <1>13, <1>14, <1>15 DEF SessionNext
-----------------------------------------------------------------------------
SessionInv == FlightReads /\ KeptInv /\ FollowInv /\ ReadInv

LEMMA SessionInvariant == SessionSpec => [](SessionTypeOK /\ SessionInv)
<1>1. SessionInit => SessionTypeOK /\ SessionInv
  <2> SUFFICES ASSUME SessionInit PROVE SessionInv
    BY SessionTypeInit
  <2>1. FlightReads /\ ReadInv
    BY DEF SessionInit, FlightReads, ReadInv
  <2>2. FollowInv
    BY DEF SessionInit, Init, FollowInv, Idle
  <2> QED
    BY <2>1, <2>2, KeptInit DEF SessionInv
<1>2. SessionTypeOK /\ SessionInv /\ [SessionNext]_allVars => (SessionTypeOK /\ SessionInv)'
  <2> SUFFICES ASSUME SessionTypeOK, SessionInv, [SessionNext]_allVars
               PROVE  SessionTypeOK' /\ FlightReads' /\ KeptInv' /\ FollowInv' /\ ReadInv'
    BY DEF SessionInv
  <2>1. FlightReads /\ KeptInv /\ FollowInv /\ ReadInv
    BY DEF SessionInv
  <2> QED
    BY <2>1, SessionTypeStep, FlightStep, KeptStep, FollowStep, ReadStep
<1> QED
  BY <1>1, <1>2, PTL DEF SessionSpec

\* "Keep the isolated reader on the same file as the writer": whatever opens,
\* restarts and handshakes have failed, when the UI thread is back in its event
\* loop a worker that runs is on the file of the writer's connection, if it has one.
THEOREM ReaderKeepsWithWriter == SessionSpec => []ReaderFollowsWriter
<1>1. SessionInv => ReaderFollowsWriter
  BY DEF SessionInv, KeptInv, WorkerInv, ThreadInv, FollowInv, ReaderFollowsWriter, Idle
<1> QED
  BY <1>1, SessionInvariant, PTL

\* A query answers from the file that was open when it was sent, with everything
\* saved there until then, though the firm may have been switched before it is
\* performed or its answer handled.
THEOREM QueriesSeeTheirFirm == SessionSpec => []ReadsSeeTheirFirm
<1>1. SessionInv => ReadsSeeTheirFirm
  BY DEF SessionInv, ReadInv, ReadsSeeTheirFirm
<1> QED
  BY <1>1, SessionInvariant, PTL

\* With two connections writing, what is committed in any firm's file has been
\* reported as saved.
THEOREM SavesAreReported == SessionSpec => []StoredWasReported
<1>1. SessionInv => StoredWasReported
  BY DEF SessionInv, KeptInv, StoreInv
<1> QED
  BY <1>1, SessionInvariant, PTL

\* A save reaches the firm that was open when it was asked for and no other,
\* through either connection and every switch of firm.
THEOREM SavesStayWithFirm == SessionSpec => []WritesStayOnFile
<1>1. SessionInv => WritesStayOnFile
  BY DEF SessionInv, KeptInv, StoreInv
<1> QED
  BY <1>1, SessionInvariant, PTL
=============================================================================
