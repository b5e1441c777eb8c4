SPECIFICATION Spec
CONSTANTS
  LastYear = 2
  Postings <- MCOneSale
  MaxNo = 3
  MaxBooks = 0
  MaxChanges = 2
  MaxPaid = 0
  Writers = {"journal", "edit", "delete", "lock"}
  Faults = {}
INVARIANTS TypeOK Balanced KeyMeansClosed
PROPERTIES LockedYearOnlyLoses ImplementsLifecycle CloseIsComplete
\* With every year locked by hand and the calendar at its bound nothing is left to do.
CHECK_DEADLOCK FALSE
