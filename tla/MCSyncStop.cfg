SPECIFICATION Spec
CONSTANTS
  w1 = w1
  w2 = w2
  Workers = {w1, w2}
  QueueSize = 3
  MaxHeight = 3
  SizeMax = 15
  Peers <- Good
SYMMETRY WorkerSymmetry
INVARIANT StopLeavesNoHandler
CHECK_DEADLOCK FALSE
