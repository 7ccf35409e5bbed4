SPECIFICATION Spec
CONSTANTS
  Names = {n1, n2}
  MaxInstances = 3
  MaxTokens = 2
  None = None
INVARIANTS OneProcess StopSticks TokensClosed
PROPERTIES DeadAreFreed
CHECK_DEADLOCK FALSE
