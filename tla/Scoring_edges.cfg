\* Every body of two fields, every pair of model answers.
SPECIFICATION Spec
CONSTANTS
  checkout = checkout
  orders = orders
  qty = qty
  price = price
  Endpoints = {checkout, orders}
  Fields = {qty, price}
  Text = Text
  NotJson = NotJson
  None = None
  NoToken = NoToken
  Numbers <- SomeNumbers
  Ages <- SomeAges
  Streaks <- SomeStreaks
  IntLimit = 4
  Configured <- BoundBaselines
  IsoMin <- LeastIso
  IsoMax = 20
  RawScores <- SomeRawScores
  Probs <- SomeProbs
INVARIANTS
  TypeOK
  BuiltSignalsAccepted
  AnomalousIffOutside
  PaddingHidesNothing
  SeverityIsMonotone
CHECK_DEADLOCK FALSE
