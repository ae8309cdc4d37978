SPECIFICATION ExamplesSpec
CONSTANTS
  Plans <- MCPlans
  MAX_BYTES_IN_FLIGHT = 2
  MaxInput = 2
  Clients = {c1, c2}
  ConnIds = {1, 2}
  MaxDatagrams = 5
  Deadline = 2
  MaxReads = 3
  MaxLines = 2
INVARIANTS
  BuffersMatchStream
  OnlyRefusedSends
  StreamsCounted
  RoutesAgree
PROPERTIES
  StreamsDelivered
  HandlersEnd
  ClientEnds
CHECK_DEADLOCK FALSE
