SPECIFICATION Spec
CONSTANTS
  p1 = p1
  p2 = p2
  l1 = l1
  l2 = l2
  Procs = {p1, p2}
  Ids = {l1, l2}
  Names = {}
  HasImageStore = TRUE
  MaxCleanups = 1
  DataIds = {l1}
  MountedIds = {l2}
  MaxMounts = 2
  MaxFaults = 1
VIEW
  View
SYMMETRY
  Symmetry
INVARIANTS
  TypeOK
  IdInOneFile
  VisibleIsComplete
  ContentsAreRecorded
  CreatedIsKept
  MountCountsAreExact
