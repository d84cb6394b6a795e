SPECIFICATION FairSpec
CONSTANTS
  p1 = p1
  p2 = p2
  t1 = t1
  t2 = t2
  t3 = t3
  Threads = {t1, t2, t3}
  Procs = {p1, p2}
  ProcOf <- ThreeThreads
  RO = {}
  MaxCrashes = 1
  NoThread = NoThread
INVARIANTS
  TypeOK
  MutualExclusion
  HolderOwnsKernelLock
  NeverPanics
  NoSelfDeadlock
  NoLeakedKernelLock
PROPERTIES
  ImplementsRWLock
  Progress
