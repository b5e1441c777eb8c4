----------------------------- MODULE FyLifecycle -----------------------------
(***************************************************************************)
(* What the year-end close promises: a year is open, locked by hand, or    *)
(* closed; closing it transfers its profit to capital once, and reopening  *)
(* it takes back exactly what was transferred.  The vouchers are the       *)
(* user's to change as long as a year is open to date them in, those of    *)
(* closes and reopens too: a closed year may lose its closing voucher, and *)
(* is then closed for good.  A close that took a number under which legs   *)
(* of another voucher stand is mixed with them, and so is its reopen.      *)
(***************************************************************************)
EXTENDS Integers

CONSTANT Years

VARIABLES
    life,         \* "open", "locked" (by hand), "closed" (by the procedure), "mixed", "gone"
    carried,      \* the profit the closing voucher of a closed year carries
    transferred   \* the balance of the Profit & Loss ledger: debits less credits

vars == <<life, carried, transferred>>

Init ==
    /\ life = [y \in Years |-> "open"]
    /\ carried = [y \in Years |-> 0]
    /\ transferred = 0

Lock(y) ==
    /\ life[y] = "open"
    /\ life' = [life EXCEPT ![y] = "locked"]
    /\ UNCHANGED <<carried, transferred>>

Close(y) ==
    /\ life[y] = "open"
    /\ life' = [life EXCEPT ![y] = "closed"]
    /\ carried'[y] \in Nat
    /\ carried' = [carried EXCEPT ![y] = carried'[y]]
    /\ transferred' = transferred + carried'[y]

CloseMixed(y) ==
    /\ life[y] = "open"
    /\ life' = [life EXCEPT ![y] = "mixed"]
    /\ transferred' - transferred \in Nat
    /\ UNCHANGED carried

Reopen(y) ==
    /\ life[y] = "closed"
    /\ life' = [life EXCEPT ![y] = "open"]
    /\ carried' = [carried EXCEPT ![y] = 0]
    /\ transferred' = transferred - carried[y]

ReopenMixed(y) ==
    /\ life[y] = "mixed"
    /\ life' = [life EXCEPT ![y] = "open"]
    /\ transferred' \in Int
    /\ UNCHANGED carried

\* The user changes vouchers, and `lost` are the closed years that lose theirs.
Rewrite(lost) ==
    /\ \E y \in Years : life[y] = "open"
    /\ \A y \in lost : life[y] \in {"closed", "mixed"}
    /\ life' = [y \in Years |-> IF y \in lost THEN "gone" ELSE life[y]]
    /\ carried' = [y \in Years |-> IF y \in lost THEN 0 ELSE carried[y]]
    /\ transferred' \in Int

Next ==
    \/ \E y \in Years : Lock(y) \/ Close(y) \/ CloseMixed(y) \/ Reopen(y) \/ ReopenMixed(y)
    \/ \E lost \in SUBSET Years : Rewrite(lost)

Spec == Init /\ [][Next]_vars
=============================================================================
