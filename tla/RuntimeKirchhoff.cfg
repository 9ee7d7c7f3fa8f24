SPECIFICATION Spec
CONSTANTS
  t1 = t1
  t2 = t2
  Threads = {t1, t2}
  caller = t1
  Addresses = {1, 2, 3}
  Builds <- MCBuilds
  MaxEdits = 2
  MaxNodes = 4
  MaxInstalls = 1
  Parts = {"kirchhoff"}
CHECK_DEADLOCK FALSE
INVARIANTS
  KirchhoffKeepsItsLeaf
