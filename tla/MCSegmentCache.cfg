\* Safety of the segment cache: two readers, two background slots, two segments,
\* every reply of the server, disk faults; and the promise of SegmentStore kept.
\* A segment is one chunk, a whole file or an error page two: a body may be too
\* short, right, on its way to too long, and too long.
CONSTANTS
  Readers = {r1, r2}
  Workers = {w1, w2}
  AdIds = {a1, a2, a3, a4}
  NSegs = 2
  Chunks = 1
  Replies = {"ok", "short", "whole", "temp", "gone", "unsat"}
  ErrorPage = 2
  DiskFaults = TRUE
  None = None
SPECIFICATION Spec
SYMMETRY Symmetric
INVARIANTS
  TypeOK
  SingleDownload
  RefCounts
  NoDanglingTransfer
  SlotsConserved
  BitmapSound
  ReadsFileOrError
  QuietTeardown
  AddBgFindsNoRival
PROPERTIES
  NoRefetch
  BitsKept
  KeepsPromise
