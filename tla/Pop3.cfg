SPECIFICATION Spec
CONSTANTS
  Sessions = {s1}
  Imap = imap
  InitialKeys = {2}
  MaxMail = 3
  PackLimit = 1
INVARIANTS Pop3TypeOK UnmarkedStaysAlone NoPhantom OkMeansGone
CHECK_DEADLOCK FALSE
