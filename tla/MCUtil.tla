--------------------------------- MODULE MCUtil -------------------------------
(***************************************************************************)
(* The two parts of util.c that threads meet in, each by itself: `part' is *)
(* the one a behaviour is about.                                           *)
(***************************************************************************)
EXTENDS PortableSemaphore, MemTracker, TLC

VARIABLE part

vars == <<semvars, memvars, part>>

MCBucket == [a \in Addr |-> IF a = CHOOSE b \in Addr : TRUE THEN 1 ELSE 2]

TypeOK == SemTypeOK /\ MemTypeOK

Init == SemInit /\ MemInit /\ part \in {"semaphore", "tracker"}

Next == \/ part = "semaphore" /\ SemNext /\ UNCHANGED <<memvars, part>>
        \/ part = "tracker" /\ MemNext /\ UNCHANGED <<semvars, part>>

Spec == Init /\ [][Next]_vars /\ SemFair
=============================================================================
