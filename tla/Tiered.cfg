SPECIFICATION Spec
SYMMETRY Symmetry
CONSTANTS
  Keys = {k1}
  Values = {v1, v2}
  Procs = {p1, p2, p3}
  Calls = {c1, c2, c3, c4}
  None = None
  Error = Error
INVARIANTS
  ReadsAccounted
  NoRepeatedLoad
  OutcomeShared
  FlightHasLeader
