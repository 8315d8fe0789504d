SPECIFICATION Spec
CONSTANTS
  Inputs = {"api"}
  Conns = {"client", "guest"}
  Of <- TwoInput
  Failing = {}
  MaxChunks <- TwoChunks
  TimeoutLimit = 1
INVARIANTS
  RequestsCompleted
CHECK_DEADLOCK FALSE
