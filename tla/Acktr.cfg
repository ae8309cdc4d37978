SPECIFICATION FairSpec
CONSTANTS
  N = 5
  RxNums <- AllNums
  Unprotected <- LowNums
  Active <- EvenNums
  MAX_ENT = 3
  Plans <- MCPlans
  MAX_ACK_BLKS = 1
INVARIANTS
  AckTruthful
  KeptUntilKnown
PROPERTY
  EventuallyAcked
CHECK_DEADLOCK FALSE
