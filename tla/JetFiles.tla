----------------------------- MODULE JetFiles ------------------------------
(***************************************************************************)
(* The files of the other program: an index of a table under the writer,   *)
(* or the legs and balances under the exporter.  An export inserts rows    *)
(* through the writer, and minds no index; an index minds no legs.         *)
(***************************************************************************)
EXTENDS Jet4Index, JetExport

VARIABLE part  \* "index" or "export"

FilesInit == part \in {"index", "export"} /\ Init /\ ExportInit

FilesNext ==
    \/ part = "index" /\ Next /\ UNCHANGED <<part, exportVars>>
    \/ part = "export" /\ ExportNext /\ UNCHANGED <<part, vars>>

FilesSpec == FilesInit /\ [][FilesNext]_<<part, vars, exportVars>>
-----------------------------------------------------------------------------
\* The index is a B-tree whose pages lead to each other, whatever was split or
\* removed, and the file of an export holds whole legs under ledgers of parties.
FilesTypeOK == IndexTypeOK /\ ExportTypeOK
=============================================================================
