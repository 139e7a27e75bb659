SPECIFICATION Spec
VIEW View
SYMMETRY Symmetry
CONSTRAINT Quiet
CONSTANTS
  Keys = {k1, k2}
  Values = {v1, v2}
  Procs = {p1, p2}
  None = None
  TheKey = k1
  TheValue = v1
  Expiries = {0, 3, 7}
  Ms = 2
  MaxNow = 4
INVARIANTS
  ExpiryKept
  NotForever
  WalkComplete
PROPERTIES
  MapImplemented
