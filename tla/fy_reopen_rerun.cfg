SPECIFICATION Spec
CONSTANTS
  LastYear = 2
  Postings <- MCOnePosting
  MaxNo = 4
  MaxBooks = 9
  MaxChanges = 0
  MaxPaid = 0
  Writers = {"journal", "lock"}
  Faults = {"crash", "busy"}
INVARIANTS ReversedAtMostOnce
CHECK_DEADLOCK FALSE
