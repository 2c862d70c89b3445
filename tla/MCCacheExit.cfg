SPECIFICATION Spec
CONSTANTS
  Ledgers <- TwoLedgers
  ForkHeight = 1
  MaxHeight = 3
  IntMax = 40
  MaxFaults = 2
INVARIANT LoadNeverFails
CHECK_DEADLOCK FALSE
