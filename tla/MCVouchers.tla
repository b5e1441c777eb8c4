----------------------------- MODULE MCVouchers -----------------------------
EXTENDS Vouchers, TLC

Symmetry == Permutations(Instances)

MCNumber(s, y, n) == [year |-> y, family |-> s, n |-> n]

\* A new file, and a migrated one that holds a cash payment twice.
MCTwice == LET v == [no |-> MCNumber("Pymt", 1, 1), year |-> 1, raw |-> "Pymt"] IN <<v, v>>
MCFiles == {<<>>, MCTwice}
MCNew == {<<>>}
=============================================================================
