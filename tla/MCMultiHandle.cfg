\* Two loaders on one multi handle: a page of a file, a page of a
\* directory, every answer, one temporary failure of each page.
CONSTANTS
  t1 = t1
  t2 = t2
  f1 = f1
  f2 = f2
  d1 = d1
  Loaders = {t1, t2}
  LinksOf <- TwoPages
  DirLinks <- OneDir
  ZeroLenIsDir = FALSE
  InvalidRefresh = TRUE
  MaxTemp = 1
  None = None
SPECIFICATION FairSpec
INVARIANTS
  TypeOK
  PageIsIn
  FillComplete
  GoodAnswersKept
PROPERTY LoadEnds
