SPECIFICATION FairSpec
CONSTANTS
  MaxTx = 1
  OpenerCalls = {"shutdown", "shutdown_read"}
  AcceptorCalls = {"fin_alone", "shutdown_write"}
INVARIANTS DeletedWhenDone FinalOffsetAgreed
PROPERTIES BothDelete
CHECK_DEADLOCK FALSE
