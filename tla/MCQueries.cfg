SPECIFICATION Spec
CONSTANTS
  Requests <- AllRequests
  Times = {1, 2, 3}
  None = None
  MaxItems = 4
  MaxSteps = 2
INVARIANTS PagesTile ShortPageIsLast NothingForeign HistogramRight
CHECK_DEADLOCK FALSE
