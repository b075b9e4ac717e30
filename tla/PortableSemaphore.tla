--------------------------- MODULE PortableSemaphore --------------------------
(***************************************************************************)
(* util.c's sys_sem_t where the system has no unnamed semaphores: a count, *)
(* a mutex and a condition variable.  Its one user is bgt_sem of a Cache   *)
(* (cache.c): readers take a slot with SEM_TRYWAIT, it is given back with  *)
(* SEM_POST, and the last Cache_close takes every slot with SEM_WAIT and   *)
(* destroys the semaphore; the next Cache_open makes a new one.            *)
(***************************************************************************)
EXTENDS Integers

CONSTANTS Users,    \* threads that take and give back slots
          Closer,   \* the thread in the last Cache_close
          NumSlots  \* cf->num_bg_workers

VARIABLES count, mutex,
          at,       \* where each thread is in its call
          hold,     \* how many slots it has
          closing,  \* the last Cache_close has begun
          alive     \* between SEM_INIT and SEM_DESTROY

semvars == <<count, mutex, at, hold, closing, alive>>

Callers == Users \cup {Closer}
Unlocked == "unlocked"

\* Cache_alloc makes at least one slot.
ASSUME SemaphoreAssumption ==
  /\ Closer \notin Users /\ Unlocked \notin Callers
  /\ NumSlots \in Nat \ {0}

Ats == {"out", "wait", "look", "asleep", "try", "tryIn", "refused", "post", "postIn",
        "signal", "given", "taken"}

SemTypeOK ==
  /\ count \in 0..NumSlots
  /\ mutex \in Callers \cup {Unlocked}
  /\ at \in [Callers -> Ats]
  /\ hold \in [Callers -> 0..NumSlots]
  /\ closing \in BOOLEAN /\ alive \in BOOLEAN

SemInit ==
  /\ count = NumSlots /\ mutex = Unlocked /\ closing = FALSE /\ alive = TRUE
  /\ at = [t \in Callers |-> "out"] /\ hold = [t \in Callers |-> 0]

-----------------------------------------------------------------------------
(* The callers, in cache.c. *)

Calls(t, op) == /\ at[t] = "out" /\ at' = [at EXCEPT ![t] = op]
                /\ UNCHANGED <<count, mutex, hold, closing, alive>>

SEM_TRYWAIT(t) == alive /\ ~closing /\ hold[t] = 0 /\ Calls(t, "try")
SEM_POST(t) == hold[t] = 1 /\ Calls(t, "post")
SEM_WAIT == alive /\ closing /\ hold[Closer] < NumSlots /\ Calls(Closer, "wait")

\* No read is under way when the file is closed for the last time, though
\* background downloads may be.
Cache_close ==
  /\ alive /\ ~closing /\ closing' = TRUE
  /\ \A t \in Users : at[t] \notin {"try", "tryIn", "refused", "taken"}
  /\ UNCHANGED <<count, mutex, at, hold, alive>>

-----------------------------------------------------------------------------
(* sem_wait_wrapper, sys_sem_trywait_wrapper and sem_post_wrapper. *)

Goes(t, from, to) == at[t] = from /\ at' = [at EXCEPT ![t] = to]

Locking == [from \in {"wait", "try", "post"} |->
              CASE from = "wait" -> "look" [] from = "try" -> "tryIn"
                [] from = "post" -> "postIn"]

Lock(t) ==
  /\ at[t] \in DOMAIN Locking
  /\ mutex = Unlocked /\ mutex' = t
  /\ Goes(t, at[t], Locking[at[t]])
  /\ UNCHANGED <<count, hold, closing, alive>>

Unlock(t) ==
  /\ at[t] \in {"taken", "refused", "given"} /\ mutex' = Unlocked
  /\ Goes(t, at[t], "out")
  /\ UNCHANGED <<count, hold, closing, alive>>

Take(t) == count' = count - 1 /\ hold' = [hold EXCEPT ![t] = @ + 1]

\* while (sem->count <= 0): the thread sleeps without the mutex, and looks again.
CondWait(t) ==
  /\ count <= 0 /\ mutex' = Unlocked
  /\ Goes(t, "look", "asleep")
  /\ UNCHANGED <<count, hold, closing, alive>>

Wait(t) ==
  /\ count > 0 /\ Take(t)
  /\ Goes(t, "look", "taken")
  /\ UNCHANGED <<mutex, closing, alive>>

\* pthread_cond_wait may return without a signal; it locks the mutex again.
WakeSpuriously(t) ==
  /\ Goes(t, "asleep", "wait")
  /\ UNCHANGED <<count, mutex, hold, closing, alive>>

\* Mutant: the count is not looked at.
TryWait_blind(t) ==
  /\ Goes(t, "tryIn", "taken") /\ Take(t)
  /\ UNCHANGED <<mutex, closing, alive>>

TryWait(t) ==
  /\ Goes(t, "tryIn", IF count > 0 THEN "taken" ELSE "refused")
  /\ IF count > 0 THEN Take(t) ELSE UNCHANGED <<count, hold>>
  /\ UNCHANGED <<mutex, closing, alive>>

Post(t) ==
  /\ count' = count + 1 /\ hold' = [hold EXCEPT ![t] = @ - 1]
  /\ Goes(t, "postIn", "signal")
  /\ UNCHANGED <<mutex, closing, alive>>

\* Mutant: a post that wakes nobody.
Signal_none(t) ==
  /\ Goes(t, "signal", "given")
  /\ UNCHANGED <<count, mutex, hold, closing, alive>>

\* pthread_cond_signal wakes one thread, if one is asleep.
Signal(t) ==
  /\ at[t] = "signal"
  /\ at' = [u \in Callers |-> IF u = t THEN "given"
                              ELSE IF at[u] = "asleep" THEN "wait" ELSE at[u]]
  /\ UNCHANGED <<count, mutex, hold, closing, alive>>

\* When the closer has every slot.
SEM_DESTROY ==
  /\ alive /\ hold[Closer] = NumSlots /\ at[Closer] = "out"
  /\ alive' = FALSE
  /\ UNCHANGED <<count, mutex, at, hold, closing>>

\* The next open of the file.
SEM_INIT ==
  /\ ~alive /\ alive' = TRUE /\ closing' = FALSE /\ count' = NumSlots
  /\ hold' = [hold EXCEPT ![Closer] = 0]
  /\ UNCHANGED <<mutex, at>>

InCall(t) == Lock(t) \/ Unlock(t) \/ CondWait(t) \/ Wait(t) \/ TryWait(t)
               \/ Post(t) \/ Signal(t)

SemNext ==
  \/ \E t \in Users : SEM_TRYWAIT(t) \/ SEM_POST(t)
  \/ SEM_WAIT \/ Cache_close \/ SEM_DESTROY \/ SEM_INIT
  \/ \E t \in Callers : InCall(t) \/ WakeSpuriously(t)

\* A thread in a call goes on when it can.  Nothing is said of who gets a
\* contended mutex.
SemFair == \A t \in Callers : WF_semvars(InCall(t))

-----------------------------------------------------------------------------

AbstractCall ==
  [t \in Callers |->
     CASE at[t] \in {"wait", "look", "asleep"} -> "wait"
       [] at[t] \in {"try", "tryIn"} -> "trywait"
       [] at[t] \in {"post", "postIn"} -> "post"
       [] at[t] \in {"signal", "given"} -> "given"
       [] at[t] = "out" -> "none"
       [] OTHER -> at[t]]

Promised == INSTANCE Semaphore WITH
              Threads <- Callers, Initial <- NumSlots,
              value <- count, call <- AbstractCall

(* The count, the mutex and the condition variable make a semaphore: no call  *)
(* takes what is not there or refuses what is, Cache_close does not sleep on  *)
(* while a slot is free, and the last of its waits leaves no background       *)
(* download in its SEM_POST when the semaphore is destroyed.  The wrappers of *)
(* util.c, and Cache_close's collecting of the slots.                         *)
SemaphoreKept == Promised!Spec /\ Promised!Serves(Closer)
=============================================================================
