SPECIFICATION ContainersSpec
CONSTANTS
  UINT64_MAX = 9
  Chunk = 3
  Entries = {e1, e2, e3, e4, e5, e6}
  Keys = {1, 2}
  MaxOps = 2
  Nodes = {n1, n2, n3, n4}
  MapKeys = {0, 1, 4, 5}
  TableLen0 = 2
  NULL = NULL
  nmemb = 4
  ElemSize = 16
  Elems = {x1, x2}
INVARIANTS
  ListsSorted
  TopIsLeast
  StreamsFound
  RingNewestFirst
PROPERTY
  RefinesRob
CHECK_DEADLOCK FALSE
