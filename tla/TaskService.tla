----------------------------- MODULE TaskService -----------------------------
(***************************************************************************)
(* What DbWorker promises its callers: every task gets one answer, a write *)
(* that is answered yes is in the database from that moment on, and a task *)
(* that is not answered yes leaves no trace.                               *)
(***************************************************************************)
CONSTANTS
    Tasks,
    Writes   \* the tasks that write

VARIABLES
    reply,    \* "new", "waiting", "yes" or "no"
    applied   \* the writes that are in the database

vars == <<reply, applied>>

Init ==
    /\ reply = [t \in Tasks |-> "new"]
    /\ applied = {}

Submit(t) ==
    /\ reply[t] = "new"
    /\ reply' = [reply EXCEPT ![t] = "waiting"]
    /\ UNCHANGED applied

\* The service is down, or the task failed.
Refuse(t) ==
    /\ reply[t] \in {"new", "waiting"}
    /\ reply' = [reply EXCEPT ![t] = "no"]
    /\ UNCHANGED applied

Perform(t) ==
    /\ reply[t] = "waiting"
    /\ reply' = [reply EXCEPT ![t] = "yes"]
    /\ applied' = applied \cup ({t} \cap Writes)

Next == \E t \in Tasks : Submit(t) \/ Refuse(t) \/ Perform(t)

Spec == Init /\ [][Next]_vars
=============================================================================
