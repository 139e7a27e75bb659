SPECIFICATION Spec
SYMMETRY Symmetry
VIEW View
CONSTRAINT DamagedSmallQueue
CONSTANTS
  Keys = {k1, k2, k3, k4}
  NoKey = NoKey
  Entries = {e1, e2, e3, e4, e5, e6}
  Nil = Nil
  Procs = {p1}
  Capacity = 2
  SmallThresh = 1
  RowSize = 2
  SampleSize = 5
  MaxFreq = 1
  FreqMod = 2
  MaxPeak = 1
  BoostFreq = 1
  GhostCap = 0
  RingSize = 1
INVARIANTS
  IInv
  Consistent
  CapacityBound
  EvictionHasWork
  PanicOnlyAfterRowDelete
