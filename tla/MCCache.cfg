SPECIFICATION FairSpec
CONSTANTS
  Ledgers <- TwoLedgers
  ForkHeight = 2
  MaxHeight = 4
  IntMax = 40
  MaxFaults = 3
INVARIANTS TypeOK LoadsOneLedger ExitKeepsAll SyncsOwnLedger LoadFailsOnlyTorn OnlyCorruptedTruncated IndexedInMemory
PROPERTIES FollowsLedger Recovers
CHECK_DEADLOCK FALSE
