SPECIFICATION Spec
CONSTANTS
  Processes = {p1, p2}
  Requests = {r1, r2, r3, r4}
  Entries = {e1, e2, e3, e4}
  CountMax = 2
  None = None
SYMMETRY Symmetry
INVARIANTS OneUser CountExact NothingLost
