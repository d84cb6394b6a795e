SPECIFICATION Spec
CONSTANTS
  p1 = p1
  p2 = p2
  t1 = t1
  t2 = t2
  t3 = t3
  Threads = {t1, t2, t3}
  Procs = {p1, p2}
  ProcOf <- TwoProcesses
  Ids = {x, y}
  Inodes = {1, 2, 3, 4}
  None = None
  Objects = {o}
  MaxCrashes = 0
  MaxErrors = 0
SYMMETRY
  Symmetry
INVARIANTS
  DirProtected
CHECK_DEADLOCK FALSE
