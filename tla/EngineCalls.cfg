SPECIFICATION Spec
CONSTANTS
  MaxTrainings = 2
  MaxKills = 2
  Calls = {c1, c2, c3}
  WindowSize = 4
  MinimumCalls = 3
  FailureRate = 50
  WaitOpen = 2
  PermittedTrials = 2
INVARIANTS
  TypeOK
  TrialsRemain
  SilenceOpensCircuit
PROPERTY CircuitClosesAgain
