SPECIFICATION Spec
CONSTANTS
  Renames = {r1, r2}
  Creates = {k1}
  Others = {q1}
  Works = {w1, w2}
  Clients = {c1, c2}
  Names = {na, nb}
  Budget = 3
  Features = {"bare", "unbalanced", "nomem", "stop", "crash"}
  Session = Session
  None = None
SYMMETRY Symmetry
INVARIANTS SessionHoldsLock NameStable
CHECK_DEADLOCK FALSE
