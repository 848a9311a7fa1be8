SPECIFICATION Spec
CONSTANTS
  imap = imap
  pop = pop
  alice = alice
  bob = bob
  home = home
  None = None
  Conns = {imap, pop}
  Pop3 = {pop}
  Users = {alice, bob}
  Addrs = {home}
  AddrOf <- MCAddrOf
  Listed <- MCListed
  MaxVersion = 2
  MaxUserAttempts = 1
  MaxAddrAttempts = 2
INVARIANTS LoginTypeOK FailuresBounded CacheNotAhead CheckedByFile
