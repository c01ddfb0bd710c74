SPECIFICATION Spec

CONSTANTS
  p1 = p1
  p2 = p2
  f = f
  Procs = {p1, p2}
  Files = {f}
  Modes <- SomeModes
  MaxFds = 2

SYMMETRY Programs

INVARIANTS
  TypeOK
  NoOrphanLock
  DenyExcludesUnlessReopened
  FdsAccounted
