SPECIFICATION Spec
CONSTANTS
  w1 = w1
  w2 = w2
  Workers = {w1, w2}
  QueueSize = 3
  MaxHeight = 3
  SizeMax = 15
  Peers <- Late
SYMMETRY WorkerSymmetry
INVARIANT WaitsOnlyForNewBlocks
CHECK_DEADLOCK FALSE
