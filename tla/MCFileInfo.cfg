SPECIFICATION InfoSpec
CONSTANTS
  Kinds = {"security", "dirinfo", "streaminfo", "ea", "fileinfo"}
  Nodes = {n1, n2}
  Queries = {q1, q2}
  Setters = {s1}
  Invalidators = {v1}
  MetaCapacity = 2
  MaxIndex = 3
  MaxVersion = 1
  MaxChange = 1
  None = None
  MainFile = n1
  MainModulus = 16
  StreamModulus = 2
  MaxInfo = 2
  MaxInfoChange = 2
INVARIANTS RefsExact Coherent OwnContent InfoCoherent
PROPERTIES ItemsLeave
