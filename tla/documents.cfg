SPECIFICATION DocumentsSpec
CONSTANTS
    EntryYears = {1, 2}
    Families = {"Pymt", "Rcpt"}
    Instances = {a, b}
    NoForm = NoForm
    Files <- MCFiles
    MaxHeader = 3
    MaxLeg = 6
    Years = {1, 2}
    Kinds = {"Purchase", "Sales"}
    Numbers = {7, 8, 9}
    LegsPerBill = 2
    MaxOthers = 1
    MaxBills = 3
    MaxSaves = 4
    FormKinds = {"JForm", "IForm", "Note", "Batch"}
    FormYears = {1, 2}
    MaxForms = 3
    MaxFormSaves = 4
    Accounts = {"saving", "credit"}
    NoLedger = NoLedger
    Statements <- MCStatements
    Typed = {"credit"}
    MaxLost = 1
    MaxMoves = 2
SYMMETRY Symmetry
INVARIANTS DocumentsTypeOK SavesAreWhole EntryIsExact PostingsHaveBills PostedOnce
           DistinctBillsPosted NumberPostedOnce FormsPostedExactly FormNumbersDiffer
           NotOverposted
PROPERTIES LockedYearGainsNothing RepairConverges
\* The user may stop at any time, and the bounds stop him.
CHECK_DEADLOCK FALSE
