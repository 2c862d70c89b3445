SPECIFICATION Spec
CONSTANTS
  Requests <- RequestsBack
  Times = {1, 2, 3}
  None = None
  MaxItems = 3
  MaxSteps = 2
INVARIANT EveryPageTiles
CHECK_DEADLOCK FALSE
