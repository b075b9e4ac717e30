SPECIFICATION Spec
CONSTANTS
  Threads = {t1, t2}
  Size <- MCSize
  refresh_timeout = 1
  MaxTime = 2
  MaxKills = 1
SYMMETRY Symmetry
INVARIANTS
  TypeOK
  ServedIsWhole
PROPERTIES
  ServedIsFresh
