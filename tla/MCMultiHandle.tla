---------------------------- MODULE MCMultiHandle ----------------------------
(* Small instances of MultiHandle for TLC. *)
EXTENDS MultiHandle, TLC

CONSTANTS t1, t2, f1, f2, d1

\* One page of a file, one of a directory.
TwoPages == (t1 :> {f1}) @@ (t2 :> {d1})
\* One page of one file each.
OneFileEach == (t1 :> {f1}) @@ (t2 :> {f2})
OneDir == {d1}
NoDirs == {}
=============================================================================
