SPECIFICATION FairSpec
CONSTANTS
  Conns = {imap, pop, pop2}
  Pop3 = {pop, pop2}
  Main = main
  Nobody = nobody
  MaxProcs = 2
  MaxLogins = 2
INVARIANTS FrontTypeOK OneServerPerUser NoOrphan
PROPERTY Settles
CHECK_DEADLOCK FALSE
