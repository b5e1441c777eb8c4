SPECIFICATION FairSpec
CONSTANTS
  f1 = f1  f2 = f2
  transact = transact  exec = exec  other = other
  NoFile = NoFile  StopCall = StopCall  HomeCall = HomeCall
  Files = {f1, f2}
  UiTasks = {transact, exec}
  Tasks = {transact, exec, other}
  KindOf <- MCKindOf
  Faults = {"open", "begin", "timeout"}
INVARIANTS TypeOK StopDrains WritesStayOnFile
PROPERTIES ImplementsTaskService EveryTaskAnswered UiReturns
\* After a handshake timeout the UI thread may wait for a deleted thread.
CHECK_DEADLOCK FALSE
