\* The directory tree in the normal mode: two threads, a directory in a
\* directory, loads that race and fail.
CONSTANTS
  Threads = {t1, t2}
  a = a
  b = b
  Dirs <- TwoDeep
  TblIds = {root, i1, i2}
  RootTbl = root
  Id3 = FALSE
  None = None
SPECIFICATION Spec
SYMMETRY Symmetric
INVARIANTS
  TypeOK
  NoUseAfterFree
  RefsCounted
  OneTablePerDirectory
  ReleasedIsEvicted
