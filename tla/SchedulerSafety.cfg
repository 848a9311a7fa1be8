\* Every kind of command, three at a time, one management task.
SPECIFICATION Spec
CONSTANTS
  c1 = c1
  c2 = c2
  c3 = c3
  Cmds = {c1, c2, c3}
  t1 = t1
  Tasks = {t1}
  NoCmd = NoCmd
  MsgNums = {1, 2}
  Requests <- MCEveryKind
  Faults = {"timeout", "badset", "exit", "error"}
SYMMETRY MCSymmetry
INVARIANTS Exclusion SchedulerInv NobodyOnDeleted
PROPERTIES ImplementsMessageLocks
CHECK_DEADLOCK FALSE
