SPECIFICATION Spec
CONSTANTS
  N = 7
  UINT64_MAX = 9
  StreamFrames <- AnyFrames
  RstFrames <- AnyRst
  Bidi = TRUE
  Chunk = 2
  MaxStreamData = 6
  MaxData = 7
INVARIANTS
  DeliveredPrefix
  DeletedWhenDelivered
PROPERTY
  QuietAfterShutdownRead
CHECK_DEADLOCK FALSE
