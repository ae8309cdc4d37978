SPECIFICATION FairSpec
CONSTANTS
  UINT64_MAX = 12
  FirstId = 0
  MaxIds = 2
  MAX_ID = 8
  LastId = 6
INVARIANTS NeverReborn StreamsBounded
PROPERTIES EveryStreamOpened
CHECK_DEADLOCK FALSE
