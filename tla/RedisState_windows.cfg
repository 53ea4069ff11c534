\* Two requests of one client on one endpoint that keep coming back, calls
\* given up anywhere between their commands.
SPECIFICATION LiveSpec
CONSTANTS
  Callers = {r1, r2}
  Clients = {ip1}
  Endpoints = {login}
  Identities = {ip1}
  ShortWindow = 1
  LongWindow = 2
  StreakTtl = 1
  BlocklistTtl = 1
  ConsumerTtl = 1
  CounterCap = 2
INVARIANTS
  TypeOK
  OneOpener
  OwedToOwnWindow
PROPERTIES
  WindowNeverExtended
  StrandedOnlyByGivingUp
  WindowCloses
CHECK_DEADLOCK FALSE
