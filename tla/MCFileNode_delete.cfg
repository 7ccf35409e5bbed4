SPECIFICATION Spec
CONSTANTS
  Files = {f1, f2}
  Nodes = {1, 2}
  FileNames = {a}
  Streams = {s}
  NoStream = NoStream
  None = None
  Modes <- MCModes
  Volumes <- MCPlain
  Disposals = 1
INVARIANT DeleteHappens
CHECK_DEADLOCK FALSE
