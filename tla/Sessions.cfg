SPECIFICATION SessionSpec
CONSTANTS
  watcher = watcher
  changer = changer
  Clients = {watcher, changer}
  Task = task
  Offered <- MCOffered
  MaxUid = 3
  InitialMail = 2
  MaxReads = 3
  MaxPending = 1
  FetchLimit = 1
  SelectLimit = 1
  Faults = {"slow", "timeout", "leave"}
INVARIANTS SessionTypeOK  
PROPERTY ExpungesInPlace
CHECK_DEADLOCK FALSE
