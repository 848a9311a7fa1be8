\* A DELETE that leaves the mailbox \Noselect, and a CREATE that starts a second
\* management task; otherwise nothing fails.
SPECIFICATION FairSpec
CONSTANTS
  c1 = c1
  c2 = c2
  c3 = c3
  Cmds = {c1, c2, c3}
  t1 = t1
  t2 = t2
  Tasks = {t1, t2}
  NoCmd = NoCmd
  MsgNums = {1}
  Requests <- MCWithDelete
  Faults = {"recreate"}
INVARIANTS NothingForgotten LetInOnce
PROPERTIES Answered
CHECK_DEADLOCK FALSE
