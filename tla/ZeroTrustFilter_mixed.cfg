\* Two requests of any kind, calls failing anywhere, the engine silent or not.
SPECIFICATION LiveSpec
CONSTANTS
  ip1 = ip1
  ip2 = ip2
  alice = alice
  login = login
  orders = orders
  Unknown = unknown
  None = None
  Requests = {r1, r2}
  Clients = {ip1, ip2, unknown}
  Subjects = {alice}
  Endpoints = {login, orders}
  PublicPaths = {login}
  HighRiskPaths = {login}
  RateThreshold = 1
  Inputs <- MixedInputs
  ShortWindow = 1
  LongWindow = 1
  StreakTtl = 1
  BlocklistTtl = 3
  ConsumerTtl = 1
  CounterCap = 3
INVARIANTS
  TypeOK
  NoInnocentBanned
  BlockNeverForwarded
  RateFromOwnRequests
PROPERTIES
  BanOutlastsShorterTtl
  EveryRequestDecided
CHECK_DEADLOCK FALSE
