\* A server that ignores ranges, or sends a page with an error status.
CONSTANTS
  Readers = {r1, r2}
  Workers = {w1}
  AdIds = {a1, a2, a3}
  NSegs = 2
  Chunks = 2
  Replies = {"ok", "whole", "temp", "gone", "unsat"}
  ErrorPage = 1
  DiskFaults = FALSE
  None = None
SPECIFICATION Spec
INVARIANT CopiesAreFile
