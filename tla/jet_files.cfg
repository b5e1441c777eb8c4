SPECIFICATION FilesSpec
CONSTANTS
    Keys = {1, 2}
    MaxRows = 5
    PageSize = 2
    MaxRepair = 3
    Imported <- ImportedCodes
    MaxParties = 2
    BookYears = {1, 2}
    Series = {"Jrnl", "TDS"}
    VoucherNos = {1}
    MaxChanges = 2
    MaxExports = 2
    MaxFaults = 2
VIEW FilesView
INVARIANTS FilesTypeOK IndexServes ExportIsExact BalancesFollow
\* The user may stop at any time, and the bounds stop him.
CHECK_DEADLOCK FALSE
