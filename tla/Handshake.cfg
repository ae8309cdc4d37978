SPECIFICATION FairSpec
CONSTANTS
  ServerFlight = 2
  Data = {"d1"}
  MaxBuffed = 1
  Scenarios = {{"lose"}, {"lose", "timeout"}, {"early", "fail"}, {"retry", "close"}}
INVARIANTS HandshakeDataKept NothingStranded OnlyTimeoutFails
PROPERTIES Connected
CHECK_DEADLOCK FALSE
