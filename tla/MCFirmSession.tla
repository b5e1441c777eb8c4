--------------------------- MODULE MCFirmSession ---------------------------
(* Two firms, a query of the day book, a save of the UI thread and one of the
   worker. *)
EXTENDS FirmSession, TLC

CONSTANTS f1, f2, read, save, transact

MCKindOf == (read :> "read") @@ (save :> "exec") @@ (transact :> "transact")
FirmSymmetry == Permutations({f1, f2})
=============================================================================
