SPECIFICATION ExamplesSpec
CONSTANTS
  Plans <- MCPlans
  MAX_BYTES_IN_FLIGHT = 2
  MaxInput = 2
  Clients = {c1}
  ConnIds = {1}
  MaxDatagrams = 1
  Deadline = 1
  MaxReads = 1
  MaxLines = 1
INVARIANT
  FinWritten
CHECK_DEADLOCK FALSE
