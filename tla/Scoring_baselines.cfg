\* The baselines of application.yml.
SPECIFICATION Spec
CONSTANTS
  checkout = checkout
  orders = orders
  qty = qty
  price = price
  Endpoints = {checkout, orders}
  Fields = {qty, price}
  Text = Text
  NotJson = NotJson
  None = None
  NoToken = NoToken
  Numbers <- SomeNumbers
  Ages <- SomeAges
  Streaks <- SomeStreaks
  IntLimit = 4
  Configured <- YamlBaselines
  IsoMin <- LeastIso
  IsoMax = 20
  RawScores <- SomeRawScores
  Probs <- SomeProbs
INVARIANT BaselinesApply
CHECK_DEADLOCK FALSE
