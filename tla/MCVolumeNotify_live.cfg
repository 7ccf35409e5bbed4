SPECIFICATION FairSpec
CONSTANTS
  Renames = {r1}
  Creates = {}
  Others = {q1}
  Works = {w1, w2}
  Clients = {c1}
  Names = {na, nb}
  Budget = 2
  Features = {"bare", "stop", "crash"}
  Session = Session
  None = None
PROPERTIES RenamesProceed VolumeGoes
