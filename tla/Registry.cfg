SPECIFICATION Spec
CONSTANTS
  Tasks = {t1, t2}
  Names = {inbox, tree, leaf}
  Inbox = inbox
  leaf = leaf
  Kept = {inbox, tree}
  Parent <- MCParent
  Objects = {o1, o2, o3}
  MaxVv = 4
  MaxCalls = 3
  Offered = {"SELECT", "CREATE", "DELETE", "RENAME", "SCAN", "CHECK"}
  Faults = {"fail"}
SYMMETRY MCTasks
INVARIANTS RegistryTypeOK OneMailboxPerName ServedIsRegistered NobodyForgotten
CHECK_DEADLOCK FALSE
