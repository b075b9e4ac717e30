---------------------------- MODULE MCSegmentCache ----------------------------
(* Small instances of SegmentCache, and of its refinement, for TLC. *)
EXTENDS SegmentRefinement, TLC

\* Readers are interchangeable, and so are heap cells and background threads.
Symmetric == Permutations(Readers) \cup Permutations(AdIds)
               \cup Permutations(Workers)
=============================================================================
