SPECIFICATION FairSpec
CONSTANTS
  Keys = {k1}
  Values = {v1}
  Procs = {p1, p2}
  Calls = {c1, c2, c3}
  None = None
  Error = Error
PROPERTIES
  FetchReturns
