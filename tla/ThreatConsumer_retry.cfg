SPECIFICATION LiveSpec
CONSTANTS
  Clients = {ip1, unknown}
  Unknown = unknown
  BlocklistTtl = 1
  CounterCap = 2
  MaxRecords = 1
  MaxSetbacks = 0
  MaxRefusals = 1
PROPERTY RetryConnects
CHECK_DEADLOCK FALSE
