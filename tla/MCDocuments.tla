---------------------------- MODULE MCDocuments ----------------------------
(***************************************************************************)
(* The user writes vouchers, bills, or forms, notes and batches, or        *)
(* imports statements.  No row of one is a row of the other: the type of   *)
(* voucher is in every condition of the first three, and the import is     *)
(* modelled with books of its own.                                         *)
(***************************************************************************)
EXTENDS Bills, Forms, MCVouchers, BankStatement

VARIABLE writes  \* what the user writes

In == [what |-> 1, dir |-> "deposit"]
Out == [what |-> 1, dir |-> "withdrawal"]

\* Statements of two ledgers of the firm, one amount passing through both.
MCStatements == {[bank |-> "saving", moves |-> <<In, Out>>],
                 [bank |-> "credit", moves |-> <<Out>>]}

\* One initial state of the part that is not used is enough.
DocumentsInit ==
    /\ writes \in {"vouchers", "bills", "forms", "statements"}
    /\ Init
    /\ FormsInit
    /\ VouchersInit
    /\ BankInit
    /\ writes # "bills" => kind = (CHOOSE k \in Kinds : TRUE) /\ others = 0
    /\ writes # "forms" => form = CHOOSE k \in FormKinds : TRUE
    /\ writes # "vouchers" => headers = {}

DocumentsNext ==
    \/ writes = "vouchers" /\ VouchersNext /\ UNCHANGED <<writes, vars, formVars, bankVars>>
    \/ writes = "bills" /\ Next /\ UNCHANGED <<writes, voucherVars, formVars, bankVars>>
    \/ writes = "forms" /\ FormsNext /\ UNCHANGED <<writes, voucherVars, vars, bankVars>>
    \/ writes = "statements" /\ BankNext /\ UNCHANGED <<writes, voucherVars, vars, formVars>>

DocumentsSpec ==
    DocumentsInit /\ [][DocumentsNext]_<<writes, voucherVars, vars, formVars, bankVars>>
-----------------------------------------------------------------------------
\* Every row of vouchers, bills, forms, notes, batches and statements, and every
\* row of what they post, has its type: ids, years and numbers are within their
\* bounds, and no id is given out twice.
DocumentsTypeOK == VouchersTypeOK /\ TypeOK /\ FormsTypeOK /\ BankTypeOK
=============================================================================
