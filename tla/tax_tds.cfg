SPECIFICATION Spec
CONSTANTS
    Years = {1}
    Kinds = {"TDS_VOUCHER"}
    ChallanNos = {1}
    Guarded = FALSE
    Fails = TRUE
    MaxReceipts = 0
    MaxTds = 2
    MaxPosts = 2
    MaxChallans = 1
    MaxTasks = 2
INVARIANT PostingsOwned
PROPERTY MarksMoveWithChallans
\* The user may stop at any time, and the bounds on the ids stop him.
CHECK_DEADLOCK FALSE
