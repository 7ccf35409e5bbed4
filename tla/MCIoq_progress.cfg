SPECIFICATION DispatcherSpec
CONSTANTS
  Irps = {i1, i2}
  Dispatchers = {d1}
  PendingIrpCapacity = 2
  MaxResponses = 2
  TrustedUserMode = FALSE
  Features = {"cancel", "retry", "park", "stop0"}
  None = None
PROPERTIES
  CallProgress
  QueuedServed
