SPECIFICATION Spec
CONSTANTS
  Ledgers <- TwoLedgers
  ForkHeight = 1
  MaxHeight = 3
  IntMax = 4
  MaxFaults = 2
INVARIANT OnlyCorruptedTruncated
CHECK_DEADLOCK FALSE
