SPECIFICATION FairSpec
CONSTANTS
  s1 = s1
  r1 = r1
  m1 = m1
  t1 = t1
  h1 = h1
  h2 = h2
  Frames <- MCFrames
  Kind <- MCKind
  INITIAL_EXPIRY = 1
  DEADLINE_PERIOD = 2
  MAX_PKT_NUM = 5
  Plans <- MCPlans
  MAX_ACK_BLKS = 8
INVARIANTS BytesInFlight
PROPERTIES RefinesRtb Settles
CHECK_DEADLOCK FALSE
