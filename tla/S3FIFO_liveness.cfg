SPECIFICATION FairSpec
VIEW View
CONSTRAINT RowNotDeleted
CONSTANTS
  Keys = {k1, k2}
  NoKey = NoKey
  Entries = {e1, e2, e3, e4}
  Nil = Nil
  Procs = {p1, p2}
  Capacity = 1
  SmallThresh = 0
  RowSize = 1
  SampleSize = 5
  MaxFreq = 2
  FreqMod = 4
  MaxPeak = 1
  BoostFreq = 1
  GhostCap = 0
  RingSize = 1
PROPERTIES
  EvictionTerminates
