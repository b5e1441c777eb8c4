SPECIFICATION VouchersSpec
CONSTANTS
    EntryYears = {1}
    Families = {"Pymt", "ChPt"}
    Instances = {a}
    NoForm = NoForm
    Files <- MCNew
    MaxHeader = 3
    MaxLeg = 6
INVARIANTS BooksAsAsked
CHECK_DEADLOCK FALSE
