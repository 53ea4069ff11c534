\* Three events through batches of two; one setback, any number of stops and
\* reassignments, and bulk calls that are tried twice.
SPECIFICATION LiveSpec
CONSTANTS
  BatchSize = 2
  Interval = 2
  Attempts = 2
  MaxEvents = 3
  MaxSetbacks = 1
INVARIANTS
  TypeOK
  LossBounded
  DuplicatesBounded
  BufferIsTail
  WaitBounded
PROPERTIES
  IsConsumerGroup
  BufferDrains
CHECK_DEADLOCK FALSE
