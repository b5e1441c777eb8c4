SPECIFICATION Spec
CONSTANTS
    Years = {1, 2}
    Kinds = {"TCS_RECEIPT"}
    ChallanNos = {1}
    Guarded = TRUE
    Fails = TRUE
    MaxReceipts = 2
    MaxTds = 0
    MaxPosts = 0
    MaxChallans = 2
    MaxTasks = 2
INVARIANTS TypeOK MarkIsBacked PostingsOwned ReceiptNumbersDiffer ReceiptNotRefused
\* The user may stop at any time, and the bounds on the ids stop him.
CHECK_DEADLOCK FALSE
