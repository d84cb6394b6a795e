SPECIFICATION Spec
CONSTANTS
  p1 = p1
  p2 = p2
  t1 = t1
  t2 = t2
  t3 = t3
  i1 = i1
  i2 = i2
  Threads = {t1, t3}
  Procs = {p1, p2}
  ProcOf <- OneEach
  RO = {}
  Ids = {i1, i2}
  Names = {n1}
  MaxCrashes = 1
  MaxErrors = 1
  MaxForeign = 0
SYMMETRY
  SymmetryOneEach
INVARIANTS
  TypeOK
  FreshUnlessSaveFailed
  DataComplete
