----------------------------- MODULE MCListingDisk ----------------------------
(***************************************************************************)
(* Two threads, a page that has two links and then one link, a clock       *)
(* that goes on twice, listings that are good for one tick, one kill.      *)
(***************************************************************************)
EXTENDS ListingDisk, TLC

MCSize == <<2, 1>>
Symmetry == Permutations(Threads)
=============================================================================
