\* Every read and every close ends, under the fairness FairSpec names.
CONSTANTS
  Readers = {r1, r2}
  Workers = {w1}
  AdIds = {a1, a2, a3}
  NSegs = 2
  Chunks = 1
  Replies = {"ok", "temp", "gone"}
  ErrorPage = 0
  DiskFaults = FALSE
  None = None
SPECIFICATION FairSpec
PROPERTIES
  ReadReturns
  CloseReturns
