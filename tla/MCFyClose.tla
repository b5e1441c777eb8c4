------------------------------ MODULE MCFyClose ------------------------------
(* Small instances of FyClose for TLC. *)
EXTENDS FyClose

\* A sale.
MCOneSale == {<<"cash", "trading", 1>>}

\* A receipt of income.
MCOnePosting == {<<"cash", "income", 1>>}
=============================================================================
