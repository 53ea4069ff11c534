\* Two records, two kills, a refused start and stops anywhere.
SPECIFICATION FairSpec
CONSTANTS
  Clients = {ip1, unknown}
  Unknown = unknown
  BlocklistTtl = 1
  CounterCap = 2
  MaxRecords = 2
  MaxSetbacks = 2
  MaxRefusals = 1
INVARIANTS
  TypeOK
  AuditedBlockWasEnforced
  RedeliveredOnlyBySetback
PROPERTIES
  IsConsumerGroup
  NobodyHeldUp
CHECK_DEADLOCK FALSE
