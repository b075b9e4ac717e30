\* The Sonic ID3 mode: the tables of the index entries are attached to the
\* root's links without parent pointers.
CONSTANTS
  Threads = {t1, t2}
  a = a
  b = b
  Dirs <- TwoDeep
  TblIds = {root, i1, i2}
  RootTbl = root
  Id3 = TRUE
  None = None
SPECIFICATION Spec
INVARIANT NoUseAfterFree
