\* SavedAsAnswered is violated.
CONSTANTS
  t1 = t1
  t2 = t2
  f1 = f1
  f2 = f2
  d1 = d1
  Loaders = {t1, t2}
  LinksOf <- OneFileEach
  DirLinks <- NoDirs
  ZeroLenIsDir = FALSE
  InvalidRefresh = FALSE
  MaxTemp = 0
  None = None
SPECIFICATION Spec
INVARIANT SavedAsAnswered
