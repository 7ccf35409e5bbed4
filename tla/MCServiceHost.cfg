SPECIFICATION HostFairSpec
CONSTANTS
  ThreadCount = 2
  MaxPending = 1
INVARIANTS NoCancelInUse LastOperation LoopOutlivesStop
PROPERTIES StopReturns AllEnd EndIsHeard SignalEndsLoop
