SPECIFICATION Spec
CONSTANTS
  Irps = {i1}
  Dispatchers = {d1}
  PendingIrpCapacity = 1
  MaxResponses = 1
  TrustedUserMode = TRUE
  Features = {"park", "stop"}
  None = None
INVARIANTS
  StopCancelsAll
