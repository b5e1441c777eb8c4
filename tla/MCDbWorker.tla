----------------------------- MODULE MCDbWorker -----------------------------
(* Small instances of DbWorker for TLC: two firms' files, a transaction and a
   statement of the UI thread, and a transaction of another thread. *)
EXTENDS DbWorker, TLC

CONSTANTS f1, f2, transact, exec, other

MCKindOf == (transact :> "transact") @@ (exec :> "exec") @@ (other :> "transact")
=============================================================================
