SPECIFICATION Spec
CONSTANTS
  ip1 = ip1
  ip2 = ip2
  alice = alice
  login = login
  orders = orders
  Unknown = unknown
  None = None
  Requests = {r1, r2}
  Clients = {ip1, ip2, unknown}
  Subjects = {alice}
  Endpoints = {login, orders}
  PublicPaths = {login}
  HighRiskPaths = {login}
  RateThreshold = 2
  Inputs <- MixedInputs
  ShortWindow = 1
  LongWindow = 1
  StreakTtl = 1
  BlocklistTtl = 2
  ConsumerTtl = 1
  CounterCap = 4
INVARIANT BlockedIsPublished
CHECK_DEADLOCK FALSE
