SPECIFICATION Spec
CONSTANTS
  p1 = p1
  p2 = p2
  c1 = c1
  c2 = c2
  Procs = {p1, p2}
  Ids = {c1, c2}
  Names = {n1}
  Transient = TRUE
  MaxFaults = 2
VIEW
  View
SYMMETRY
  Symmetry
INVARIANTS
  TypeOK
  IdInOneFile
  CreatedIsKept
  KnowsContainers
  DataComplete
CHECK_DEADLOCK FALSE
