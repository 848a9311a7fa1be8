\* A folder and its row through deliveries, commands, packs and crashes.
SPECIFICATION StoreSpec
CONSTANTS
  InitialKeys <- MCInitialKeys
  MaxMail = 3
  MaxTime = 1
  MaxStarts = 3
  PackLimit = 1
  Stores <- MCFlags
INVARIANTS StoreTypeOK UidMeansOneMessage AckedFlagsStay UpToDateAfterResync
CONSTRAINT MCFollowed
CHECK_DEADLOCK FALSE
