SPECIFICATION FaultySpec
CONSTANTS
  Callers = {r1, r2}
  Clients = {ip1}
  Endpoints = {login}
  Identities = {ip1}
  ShortWindow = 1
  LongWindow = 2
  StreakTtl = 1
  BlocklistTtl = 1
  ConsumerTtl = 1
  CounterCap = 3
INVARIANT NoStrandedCounter
CHECK_DEADLOCK FALSE
