SPECIFICATION FairSpec
CONSTANTS
  Words = {pointer, length}
  Writers = {w1, w2}
  Readers = {r1, r2}
  InOrder = {r1}
  Retries = 2
  MaxStores = 1
  None = None
  Failed = Failed
INVARIANTS
  IInv
  NoTornRead
  ReadsAreFresh
PROPERTIES
  LoadReturns
  StoreAdvances
