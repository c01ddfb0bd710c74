SPECIFICATION SpecWithData

CONSTANTS
  p1 = p1
  f = f
  Procs = {p1}
  Files = {f}
  Modes <- SomeModes
  MaxFds = 2

INVARIANT
  CreatnewIsNew
