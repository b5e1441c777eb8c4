SPECIFICATION BankSpec
CONSTANTS
    Accounts = {"saving", "shop"}
    NoLedger = NoLedger
    Statements <- MCPairStatement
    Typed = {"shop"}
    MaxLost = 0
    MaxMoves = 2
INVARIANT MatchedOneToOne
CHECK_DEADLOCK FALSE
