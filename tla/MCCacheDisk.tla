----------------------------- MODULE MCCacheDisk -----------------------------
(* Small instances of CacheDisk for TLC. *)
EXTENDS CacheDisk, TLC

\* The file changes, and then becomes shorter.
Shorter == <<2, 2, 1>>

\* Segments that are not odd are interchangeable.
WholeBlocks == Permutations(Segs \ Odd)
=============================================================================
