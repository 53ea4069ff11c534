\* One request of each script; the consumer's bans are shorter than the
\* gateway's.
SPECIFICATION Spec
CONSTANTS
  Plan <- DemoPlan
  Host = host
  Unknown = unknown
  QuerySize = 1
  BlocklistTtl = 2
  ConsumerTtl = 1
  CounterCap = 2
  MaxRecords = 2
  BatchSize = 2
  Interval = 1
  Attempts = 2
  MaxEvents = 4
INVARIANT RefusalsFollowBlock
PROPERTIES
  BlockedStaysOut
  EventFound
CHECK_DEADLOCK FALSE
