\* Two segments of whole blocks and the last one of the file, three versions,
\* kills anywhere.
CONSTANTS
  Segs = {s1, s2, s3}
  Odd = {s3}
  MaxVersion = 3
  Length <- Shorter
SPECIFICATION Spec
SYMMETRY WholeBlocks
INVARIANTS
  TypeOK
  BitsBacked
  NeverOlder
  OpensInTwo
PROPERTY UsableKept
