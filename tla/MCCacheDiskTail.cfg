\* The end of the last segment, in the stdio buffer: EveryBitBacked is
\* violated.
CONSTANTS
  Segs = {s1, s2}
  Odd = {s2}
  MaxVersion = 3
  Length <- Shorter
SPECIFICATION Spec
INVARIANT EveryBitBacked
