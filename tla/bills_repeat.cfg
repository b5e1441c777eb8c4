SPECIFICATION Spec
CONSTANTS
    Years = {1, 2}
    Kinds = {"Purchase"}
    Numbers = {7, 8}
    LegsPerBill = 2
    MaxOthers = 0
    MaxBills = 2
    MaxSaves = 2
INVARIANT EveryBillPosted
CHECK_DEADLOCK FALSE
