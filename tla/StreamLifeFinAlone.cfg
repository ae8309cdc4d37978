SPECIFICATION Spec
CONSTANTS
  MaxTx = 1
  OpenerCalls = {"fin_alone"}
  AcceptorCalls = {"fin_alone"}
INVARIANTS FinArrived
CHECK_DEADLOCK FALSE
