SPECIFICATION FairSpec
CONSTANTS
  Streams = {s1, s2}
  Total = 3
  MaxData = 3
  MaxStreamData = 1
  EarlyData = 1
  EarlyStreamData = 1
  MAX_VARINT = 7
  U64 = 64
INVARIANTS NeverAccused Accounted
PROPERTIES EverythingSent
