SPECIFICATION Spec
VIEW View
CONSTRAINT RowNotDeleted
CONSTANTS
  k1 = k1
  k2 = k2
  a1 = a1
  a2 = a2
  b1 = b1
  Keys = {k1, k2}
  Values = {a1, a2, b1}
  Timed = {a1}
  KeyOf <- MCKeyOf
  Procs = {p1, p2}
  Entries = {e1, e2, e3, e4, e5, e6}
  Nil = Nil
  Zero = Zero
  Capacity = 1
  RowSize = 1
INVARIANT OwnValue
