SPECIFICATION Spec
CONSTANTS
  p1 = p1
  p2 = p2
  t1 = t1
  t2 = t2
  t3 = t3
  i1 = i1
  i2 = i2
  Threads = {t1, t2, t3}
  Procs = {p1, p2}
  ProcOf <- TwoAndOne
  RO = {p2}
  Ids = {i1, i2}
  Names = {n1}
  MaxCrashes = 0
  MaxErrors = 0
  MaxForeign = 2
SYMMETRY
  Symmetry
INVARIANTS
  FreshUnlessSaveFailed
  NamesUnique
PROPERTIES
  ReaderUndisturbed
