SPECIFICATION SessionSpec
CONSTANTS
    f1 = f1  f2 = f2
    read = read  save = save  transact = transact
    NoFile = NoFile  NoTask = NoTask  StopCall = StopCall  HomeCall = HomeCall
    Files = {f1, f2}
    Tasks = {read, save, transact}
    UiTasks = {read, save, transact}
    KindOf <- MCKindOf
    Faults = {"open", "timeout", "begin", "commit"}
SYMMETRY FirmSymmetry
INVARIANTS SessionTypeOK ReaderFollowsWriter ReadsSeeTheirFirm StoredWasReported
\* After a handshake timeout the UI thread may wait for a deleted thread.
CHECK_DEADLOCK FALSE
