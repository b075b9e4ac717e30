------------------------------ MODULE MCLinkTree ------------------------------
(* Small instances of LinkTree for TLC. *)
EXTENDS LinkTree, TLC

CONSTANTS a, b   \* names

\* A directory, and one in it.
TwoDeep == {<<a>>, <<a, b>>}

\* Threads are interchangeable.  Heap cells other than RootTbl are, too.
Symmetric == Permutations(Threads) \cup Permutations(TblIds \ {RootTbl})
=============================================================================
