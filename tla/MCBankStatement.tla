-------------------------- MODULE MCBankStatement --------------------------
EXTENDS BankStatement

\* Two deposits of one amount on one day.
MCPair == LET m == [what |-> 1, dir |-> "deposit"] IN <<m, m>>
MCPairStatement == {[bank |-> "saving", moves |-> MCPair]}
=============================================================================
