SPECIFICATION Spec
CONSTANTS
  Sessions = {s1}
  Imap = imap
  InitialKeys = {1, 2, 3}
  MaxMail = 3
  PackLimit = 1
INVARIANTS UnmarkedStays
CHECK_DEADLOCK FALSE
