SPECIFICATION Spec
CONSTANTS
  LastYear = 2
  Postings <- MCOneSale
  MaxNo = 4
  MaxBooks = 0
  MaxChanges = 0
  MaxPaid = 1
  Writers = {"journal", "challan", "lock"}
  Faults = {"crash", "busy"}
INVARIANTS LiveClosingIsRecorded
\* With every year locked by hand and the calendar at its bound nothing is left to do.
CHECK_DEADLOCK FALSE
