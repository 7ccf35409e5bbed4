SPECIFICATION Spec
CONSTANTS
  Threads = {t1, t2}
  Descs = {d1, d2}
  Paths = {p1, p2}
  HiddenNames = {h1}
  Settings <- MCSettings
  Environments <- MCEnvironments
  Uids <- MCUids
  Rids <- MCRids
  Names <- MCNames
  MaxEntries = 3
  SortLength = 6
  InitialCapacity = 4
  HiBound = 16
  LoFactor = 4
  HiFactor = 2
SYMMETRY Symmetry
INVARIANTS HandlesBalanced AnswersAgree ConversionsReturn PermissionsKept DirectoryIsRead
