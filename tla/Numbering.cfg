\* Every command that changes the list of messages, with mail arriving.
SPECIFICATION NumberingSpec
CONSTANTS
  c1 = c1
  c2 = c2
  c3 = c3
  Cmds = {c1, c2, c3}
  t1 = t1
  Tasks = {t1}
  NoCmd = NoCmd
  InitialMail = 2
  MaxUid = 3
  MsgNums = {1, 2, 3}
  Requests <- MCEverything
  Faults = {"timeout", "badset", "error"}
SYMMETRY MCSymmetry
CONSTRAINT MCFollowed
INVARIANTS TablesInStep NumberingInv
PROPERTIES GrowsAlone RemovesItsVictims
CHECK_DEADLOCK FALSE
