SPECIFICATION Spec
CONSTANTS
  Files = {f1, f2, f3}
  Nodes = {1, 2, 3}
  FileNames = {a, b}
  Streams = {s}
  NoStream = NoStream
  None = None
  Modes <- MCModes
  Volumes <- MCVolumes
  Disposals = 1
SYMMETRY MCSymmetry
CONSTRAINT MCOnClose
INVARIANTS
  NodesAccounted
  OneNode
  DeleteIsLast
  Sharing
  ContextsReturned
PROPERTY ImplementsContexts
CHECK_DEADLOCK FALSE
