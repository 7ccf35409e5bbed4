SPECIFICATION Spec
CONSTANTS
  Irps = {i1, i2}
  Dispatchers = {d1, d2}
  PendingIrpCapacity = 1
  MaxResponses = 1
  TrustedUserMode = TRUE
  Features = {"retry", "park", "stop", "cancel", "expire", "abort"}
  None = None
SYMMETRY Symmetry
INVARIANTS OneOwner StoppedStaysDrained WakeupNotLost
PROPERTIES ImplementsService
