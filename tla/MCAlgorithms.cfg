SPECIFICATION Spec
CONSTANTS
  None = None
  Blk = 2
  NoRangeCheck = FALSE
  ErrorPage = 1
  ExternalLinks = TRUE
  FirstCapacity = 1
  MaxSize = 5
  MaxHrefs = 3
  Byte <- MCByte
  Unescape <- MCUnescape
  Unprintable <- MCUnprintable
  Page <- MCPage
INVARIANTS
  ReadIsSlice
  RequestsFit
  FirstWins
  ExternalNamesClean
  SonicListings
