SPECIFICATION FairSpec
CONSTANTS
  w1 = w1
  w2 = w2
  Workers = {w1, w2}
  QueueSize = 3
  MaxHeight = 3
  SizeMax = 15
  Peers <- GoodOrRefusing
INVARIANTS TypeOK NothingLostOnceRegistered ExpectedBlock QueueAhead BoundedPrefetch NoBlockLost
PROPERTIES FollowsLedger FetchingEnds CatchesUp
CHECK_DEADLOCK FALSE
