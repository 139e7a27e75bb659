SPECIFICATION CloudSpec
VIEW View
SYMMETRY Symmetry
CONSTRAINT Quiet
CONSTANTS
  k1 = k1
  k2 = k2
  Keys = {k1, k2}
  Values = {v1, v2}
  Timed = {v1}
  Procs = {p1, p2}
  Inodes = {1, 2, 3, 4, 5, 6}
  TheDir = d1
  Dirs = {d1}
  SubDir <- MCSubDir
  None = None
  Garbage = Garbage
  Rest <- MCRest
  Ext <- MCExt
INVARIANTS
  StoresIntact
  FilesWhole
  WalksExact
PROPERTIES
  SetInstalls
  FreshKept
  StoreImplemented
