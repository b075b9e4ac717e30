------------------------------- MODULE Semaphore ------------------------------
(***************************************************************************)
(* What POSIX promises of a semaphore, and cache.c builds on for bgt_sem:  *)
(* each call takes effect at once, some time between its beginning and its *)
(* end, and a semaphore nobody is in a call on may be destroyed, and made  *)
(* again.                                                                  *)
(***************************************************************************)
EXTENDS Integers

CONSTANTS Threads, Initial

VARIABLES value, call, alive

vars == <<value, call, alive>>

Init == /\ value = Initial /\ alive = TRUE
        /\ call = [t \in Threads |-> "none"]

Becomes(t, from, to) == alive /\ call[t] \in from /\ call' = [call EXCEPT ![t] = to]

Enter(t) == /\ \E op \in {"wait", "trywait", "post"} : Becomes(t, {"none"}, op)
            /\ UNCHANGED <<value, alive>>

Take(t) == /\ value > 0 /\ value' = value - 1
           /\ Becomes(t, {"wait", "trywait"}, "taken")
           /\ UNCHANGED alive

Refuse(t) == /\ value = 0
             /\ Becomes(t, {"trywait"}, "refused")
             /\ UNCHANGED <<value, alive>>

Give(t) == /\ value' = value + 1
           /\ Becomes(t, {"post"}, "given")
           /\ UNCHANGED alive

Leave(t) == /\ Becomes(t, {"taken", "refused", "given"}, "none")
            /\ UNCHANGED <<value, alive>>

Quiet == \A t \in Threads : call[t] = "none"

Destroy == /\ alive /\ Quiet /\ alive' = FALSE
           /\ UNCHANGED <<value, call>>

Create == /\ ~alive /\ alive' = TRUE /\ value' = Initial
          /\ UNCHANGED call

Act(t) == Take(t) \/ Refuse(t) \/ Give(t) \/ Leave(t)

Next == (\E t \in Threads : Enter(t) \/ Act(t)) \/ Destroy \/ Create

Spec == Init /\ [][Next]_vars

\* What a thread asks for it gets, when nobody takes it from under its nose.
Serves(t) == WF_vars(Act(t))
=============================================================================
