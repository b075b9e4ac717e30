------------------------------ MODULE UtilProofs ------------------------------
(***************************************************************************)
(* The wrappers of util.c for any number of threads, slots and addresses:  *)
(* the semaphore is one, and the table of allocations is what the program  *)
(* holds.                                                                  *)
(***************************************************************************)
EXTENDS MCUtil, FiniteSetTheorems, SequenceTheorems, TLAPS

-----------------------------------------------------------------------------
(* The semaphore.  SEM_DESTROY is safe because a thread that is still in   *)
(* its SEM_POST has the mutex since it gave its slot back, so that the     *)
(* closer cannot have taken that slot yet.                                 *)

Holders == {u \in Users : hold[u] = 1}

MutexAts == {"look", "tryIn", "refused", "taken", "postIn", "signal", "given"}

\* What a thread asks for, and what it has while it asks.
Asks ==
  /\ at[Closer] \in {"out", "wait", "look", "asleep", "taken"}
  /\ \A u \in Users : /\ at[u] \notin {"wait", "look", "asleep"}
                      /\ hold[u] \in {0, 1}
                      /\ at[u] \in {"try", "tryIn"} => hold[u] = 0
                      /\ at[u] \in {"post", "postIn"} => hold[u] = 1

Excluded == \A t \in Callers : at[t] \in MutexAts <=> mutex = t

SlotsCount ==
  /\ IsFiniteSet(Holders)
  /\ count + hold[Closer] + Cardinality(Holders) = NumSlots

Phases ==
  /\ at[Closer] # "out" \/ hold[Closer] # 0 => closing
  /\ at[Closer] \in {"wait", "look", "asleep"} => hold[Closer] < NumSlots
  /\ closing => \A u \in Users : at[u] \notin {"try", "tryIn", "refused", "taken"}
  /\ \A u \in Users : at[u] \in {"signal", "given"} => count > 0
  /\ ~ alive => /\ closing /\ hold[Closer] = NumSlots
                /\ \A t \in Callers : at[t] = "out"

SemInv == SemTypeOK /\ Asks /\ Excluded /\ SlotsCount /\ Phases

-----------------------------------------------------------------------------

\* With every slot at the closer, none is free and no user has one.
LEMMA AllCollected ==
  ASSUME SemInv, hold[Closer] = NumSlots
  PROVE  count = 0 /\ \A u \in Users : hold[u] = 0
<1>1. /\ Cardinality(Holders) \in Nat /\ count \in Nat
      /\ NumSlots \in Nat /\ hold[Closer] \in Nat
  BY FS_CardinalityType, SemaphoreAssumption DEF SemInv, SlotsCount, SemTypeOK, Callers
<1>2. count = 0 /\ Cardinality(Holders) = 0
  BY <1>1 DEF SemInv, SlotsCount
<1>3. Holders = {}
  BY <1>2, FS_EmptySet DEF SemInv, SlotsCount
<1> QED
  BY <1>2, <1>3 DEF Holders, SemInv, Asks

\* A slot taken or given back by a user or the closer.
LEMMA SlotTaken ==
  ASSUME SemInv, NEW t \in Callers, Take(t), count > 0,
         t \in Users => hold[t] = 0
  PROVE  /\ SlotsCount'
         /\ count' \in 0..NumSlots /\ hold' \in [Callers -> 0..NumSlots]
<1>1. /\ count \in Nat /\ NumSlots \in Nat /\ hold \in [Callers -> 0..NumSlots]
      /\ count <= NumSlots /\ Closer \in Callers /\ Closer \notin Users
      /\ Cardinality(Holders) \in Nat /\ IsFiniteSet(Holders)
      /\ count + hold[Closer] + Cardinality(Holders) = NumSlots
  BY FS_CardinalityType, SemaphoreAssumption DEF SemInv, SlotsCount, SemTypeOK, Callers
<1>2. /\ count' = count - 1 /\ hold'[t] = hold[t] + 1
      /\ \A u \in Callers \ {t} : hold'[u] = hold[u]
      /\ hold' = [hold EXCEPT ![t] = hold[t] + 1]
  BY <1>1 DEF Take
<1>3. hold[t] + 1 \in 0..NumSlots
  <2>1. CASE t = Closer
    BY <2>1, <1>1
  <2>2. CASE t # Closer
    <3>1. t \in Users
      BY <2>2 DEF Callers
    <3> QED
      BY <3>1, <1>1
  <2> QED
    BY <2>1, <2>2
<1>4. count' \in 0..NumSlots /\ hold' \in [Callers -> 0..NumSlots]
  BY <1>1, <1>2, <1>3
<1>5. CASE t = Closer
  <2>1. Holders' = Holders
    BY <1>5, <1>1, <1>2 DEF Holders, Callers
  <2>2. Cardinality(Holders') = Cardinality(Holders) /\ IsFiniteSet(Holders')
    BY <2>1, <1>1, Zenon
  <2>3. hold'[Closer] = hold[Closer] + 1
    BY <1>2, <1>5
  <2>4. hold[Closer] \in Nat
    BY <1>1
  <2>5. count' + hold'[Closer] + Cardinality(Holders') = NumSlots
    BY <1>1, <1>2, <2>2, <2>3, <2>4
  <2> QED
    BY <1>4, <2>2, <2>5 DEF SlotsCount
<1>6. CASE t \in Users
  <2>1. Holders' = Holders \cup {t} /\ t \notin Holders
    BY <1>6, <1>1, <1>2 DEF Holders, Callers
  <2>2. Cardinality(Holders') = Cardinality(Holders) + 1 /\ IsFiniteSet(Holders')
    BY <2>1, <1>1, FS_AddElement
  <2>3. hold'[Closer] = hold[Closer] /\ hold[Closer] \in Nat
    BY <1>1, <1>2, <1>6
  <2>4. count' + hold'[Closer] + Cardinality(Holders') = NumSlots
    BY <1>1, <1>2, <2>2, <2>3
  <2> QED
    BY <1>4, <2>2, <2>4 DEF SlotsCount
<1> QED
  BY <1>5, <1>6 DEF Callers

LEMMA SlotGiven ==
  ASSUME SemInv, NEW t \in Users, hold[t] = 1,
         count' = count + 1, hold' = [hold EXCEPT ![t] = @ - 1]
  PROVE  /\ SlotsCount'
         /\ count' \in 0..NumSlots /\ hold' \in [Callers -> 0..NumSlots]
<1>1. /\ count \in Nat /\ NumSlots \in Nat /\ hold \in [Callers -> 0..NumSlots]
      /\ Closer \in Callers /\ Closer \notin Users /\ t \in Callers
      /\ Cardinality(Holders) \in Nat /\ IsFiniteSet(Holders)
      /\ count + hold[Closer] + Cardinality(Holders) = NumSlots
      /\ hold[Closer] \in Nat
  BY FS_CardinalityType, SemaphoreAssumption DEF SemInv, SlotsCount, SemTypeOK, Callers
<1>2. /\ hold'[t] = 0
      /\ \A u \in Callers \ {t} : hold'[u] = hold[u]
      /\ hold' \in [Callers -> 0..NumSlots]
  BY <1>1
<1>3. Holders' = Holders \ {t} /\ t \in Holders
  BY <1>1, <1>2 DEF Holders, Callers
<1>4. Cardinality(Holders') = Cardinality(Holders) - 1 /\ IsFiniteSet(Holders')
  BY <1>1, <1>3, FS_RemoveElement
<1>5. Cardinality(Holders) # 0
  BY <1>1, <1>3, FS_EmptySet
<1>6. hold'[Closer] = hold[Closer]
  BY <1>1, <1>2
<1>7. count' + hold'[Closer] + Cardinality(Holders') = NumSlots
  BY <1>1, <1>4, <1>6
<1>8. count' \in 0..NumSlots
  BY <1>1, <1>5
<1> QED
  BY <1>2, <1>4, <1>7, <1>8 DEF SlotsCount

\* Nothing is counted differently when nobody's slots change.
LEMMA SlotsStay ==
  ASSUME SemInv, count' = count, hold' = hold
  PROVE  /\ SlotsCount'
         /\ count' \in 0..NumSlots /\ hold' \in [Callers -> 0..NumSlots]
<1>1. Holders' = Holders
  BY DEF Holders
<1> QED
  BY <1>1 DEF SemInv, SlotsCount, SemTypeOK

-----------------------------------------------------------------------------

LEMMA SemInvInit == SemInit => SemInv
<1> SUFFICES ASSUME SemInit PROVE SemInv
  OBVIOUS
<1>1. NumSlots \in Nat \ {0} /\ Closer \in Callers /\ Unlocked \notin Callers
  BY SemaphoreAssumption DEF Callers
<1>2. /\ \A t \in Callers : at[t] = "out" /\ hold[t] = 0
      /\ count = NumSlots /\ mutex = Unlocked /\ closing = FALSE /\ alive = TRUE
  BY DEF SemInit
<1>3. SemTypeOK
  <2>1. 0 \in 0..NumSlots /\ NumSlots \in 0..NumSlots /\ "out" \in Ats
    BY <1>1 DEF Ats
  <2>2. at \in [Callers -> Ats] /\ hold \in [Callers -> 0..NumSlots]
    BY <2>1 DEF SemInit
  <2> QED
    BY <1>2, <2>1, <2>2 DEF SemTypeOK
<1>4. Asks
  BY <1>1, <1>2 DEF Asks, Callers
<1>5. Excluded
  BY <1>1, <1>2 DEF Excluded, MutexAts
<1>6. Holders = {}
  BY <1>2 DEF Holders, Callers
<1>7. SlotsCount
  BY <1>1, <1>2, <1>6, FS_EmptySet DEF SlotsCount
<1>8. Phases
  BY <1>1, <1>2 DEF Phases, Callers
<1> QED
  BY <1>3, <1>4, <1>5, <1>7, <1>8 DEF SemInv

LEMMA SemInvCalls ==
  ASSUME SemInv,
         \/ \E t \in Users : SEM_TRYWAIT(t) \/ SEM_POST(t)
         \/ SEM_WAIT
  PROVE  SemInv'
<1>1. PICK t \in Callers, op \in {"try", "post", "wait"} :
        /\ Calls(t, op) /\ alive
        /\ op = "try" => t \in Users /\ ~closing /\ hold[t] = 0
        /\ op = "post" => t \in Users /\ hold[t] = 1
        /\ op = "wait" => t = Closer /\ closing /\ hold[Closer] < NumSlots
  <2>1. ASSUME NEW t \in Users, SEM_TRYWAIT(t)
        PROVE  t \in Callers /\ Calls(t, "try") /\ alive /\ ~closing /\ hold[t] = 0
    BY <2>1 DEF SEM_TRYWAIT, Callers
  <2>2. ASSUME NEW t \in Users, SEM_POST(t)
        PROVE  t \in Callers /\ Calls(t, "post") /\ alive /\ hold[t] = 1
    <3>1. t \in Callers /\ Calls(t, "post") /\ hold[t] = 1
      BY <2>2 DEF SEM_POST, Callers
    <3>2. alive
      BY <3>1, AllCollected DEF SemInv, Phases
    <3> QED
      BY <3>1, <3>2
  <2>3. ASSUME SEM_WAIT
        PROVE  Closer \in Callers /\ Calls(Closer, "wait") /\ alive /\ closing
               /\ hold[Closer] < NumSlots
    BY <2>3 DEF SEM_WAIT, Callers
  <2> QED
    BY <2>1, <2>2, <2>3
<1>2. /\ at[t] = "out" /\ at' = [at EXCEPT ![t] = op] /\ at \in [Callers -> Ats]
      /\ UNCHANGED <<count, mutex, hold, closing, alive>>
  BY <1>1 DEF Calls, SemInv, SemTypeOK
<1>3. at'[t] = op /\ \A u \in Callers \ {t} : at'[u] = at[u]
  BY <1>2
<1>4. Closer \in Callers /\ Closer \notin Users /\ Users \subseteq Callers
  BY SemaphoreAssumption DEF Callers
<1>5. SemTypeOK'
  BY <1>2 DEF SemInv, SemTypeOK, Ats
<1>6. Asks'
  BY <1>1, <1>2, <1>3, <1>4 DEF SemInv, Asks
<1>7. Excluded'
  BY <1>2, <1>3 DEF SemInv, Excluded, MutexAts
<1>8. SlotsCount'
  BY <1>2, SlotsStay
<1>9. Phases'
  BY <1>1, <1>2, <1>3, <1>4 DEF SemInv, Phases
<1> QED
  BY <1>5, <1>6, <1>7, <1>8, <1>9 DEF SemInv

\* One thread goes on in its call; nobody's slots change.
LEMMA SemInvGoes ==
  ASSUME SemInv, NEW t \in Callers, NEW to \in Ats,
         Goes(t, at[t], to), at[t] # "out",
         UNCHANGED <<count, hold, closing, alive>>,
         mutex' \in Callers \cup {Unlocked},
         \A u \in Callers \ {t} : mutex' = u <=> mutex = u,
         to \in MutexAts <=> mutex' = t,
         t \in Users => \/ at[t] = "try" /\ to = "tryIn"
                        \/ at[t] = "post" /\ to = "postIn"
                        \/ at[t] \in {"taken", "refused", "given"} /\ to = "out"
                        \/ at[t] = "signal" /\ to = "given"
                        \/ at[t] = "tryIn" /\ to = "refused",
         t = Closer => \/ at[t] \in {"wait", "look", "asleep"}
                          /\ to \in {"wait", "look", "asleep"}
                       \/ at[t] = "taken" /\ to = "out"
  PROVE  SemInv'
<1>1. /\ at' = [at EXCEPT ![t] = to] /\ at \in [Callers -> Ats]
      /\ UNCHANGED <<count, hold, closing, alive>>
  BY DEF Goes, SemInv, SemTypeOK
<1>2. at'[t] = to /\ \A u \in Callers \ {t} : at'[u] = at[u]
  BY <1>1
<1>3. Closer \in Callers /\ Closer \notin Users /\ Users \subseteq Callers
  BY SemaphoreAssumption DEF Callers
<1>4. alive
  BY DEF SemInv, Phases
<1>5. SemTypeOK'
  BY <1>1 DEF SemInv, SemTypeOK
<1>6. ASSUME t = Closer PROVE Asks' /\ Phases'
  <2>1. \A u \in Users : at'[u] = at[u]
    BY <1>2, <1>3, <1>6
  <2>2. Asks'
    BY <1>1, <1>2, <1>6, <2>1 DEF SemInv, Asks
  <2>3. Phases'
    BY <1>1, <1>2, <1>4, <1>6, <2>1 DEF SemInv, Phases
  <2> QED
    BY <2>2, <2>3
<1>7. ASSUME t \in Users PROVE Asks' /\ Phases'
  <2>1. at'[Closer] = at[Closer]
    BY <1>2, <1>3, <1>7
  <2>2. Asks'
    BY <1>1, <1>2, <1>7, <2>1 DEF SemInv, Asks
  <2>3. \A u \in Users : at'[u] \in {"try", "tryIn", "refused", "taken"}
                         => at[u] \in {"try", "tryIn", "refused", "taken"}
    BY <1>2, <1>3, <1>7
  <2>4. \A u \in Users : at'[u] \in {"signal", "given"} => at[u] \in {"signal", "given"}
    BY <1>2, <1>3, <1>7
  <2>5. Phases'
    BY <1>1, <1>4, <2>1, <2>3, <2>4 DEF SemInv, Phases
  <2> QED
    BY <2>2, <2>5
<1>8. Asks' /\ Phases'
  BY <1>6, <1>7 DEF Callers
<1>9. Excluded'
  <2>1. \A u \in Callers \ {t} : at'[u] \in MutexAts <=> mutex' = u
    BY <1>2 DEF SemInv, Excluded
  <2> QED
    BY <1>2, <2>1 DEF Excluded
<1>10. SlotsCount'
  BY <1>1, SlotsStay
<1> QED
  BY <1>5, <1>8, <1>9, <1>10 DEF SemInv

LEMMA SemInvTurns ==
  ASSUME SemInv, NEW t \in Callers,
         Lock(t) \/ Unlock(t) \/ CondWait(t) \/ WakeSpuriously(t)
  PROVE  SemInv'
<1>1. /\ Closer \notin Users /\ Unlocked \notin Callers /\ Callers = Users \cup {Closer}
      /\ mutex \in Callers \cup {Unlocked}
  BY SemaphoreAssumption DEF Callers, SemInv, SemTypeOK
<1>2. /\ at[t] \in MutexAts <=> mutex = t
      /\ t \in Users => at[t] \notin {"wait", "look", "asleep"}
      /\ t = Closer => at[t] \in {"out", "wait", "look", "asleep", "taken"}
  BY DEF SemInv, Excluded, Asks
<1>3. CASE Lock(t)
  <2>1. at[t] \in {"wait", "try", "post"}
    BY <1>3 DEF Lock, Locking
  <2>2. \E to \in {"look", "tryIn", "postIn"} :
          /\ Goes(t, at[t], to)
          /\ at[t] = "wait" <=> to = "look"
          /\ at[t] = "try" <=> to = "tryIn"
          /\ at[t] = "post" <=> to = "postIn"
    BY <1>3, <2>1 DEF Lock, Locking
  <2>3. PICK to \in {"look", "tryIn", "postIn"} :
          /\ Goes(t, at[t], to)
          /\ at[t] = "wait" <=> to = "look"
          /\ at[t] = "try" <=> to = "tryIn"
          /\ at[t] = "post" <=> to = "postIn"
    BY <2>2
  <2>4. /\ mutex = Unlocked /\ mutex' = t
        /\ UNCHANGED <<count, hold, closing, alive>>
    BY <1>3 DEF Lock
  <2>5. to \in Ats /\ to \in MutexAts
    BY DEF Ats, MutexAts
  <2>6. \A u \in Callers \ {t} : mutex' = u <=> mutex = u
    BY <1>1, <2>4
  <2> QED
    BY <1>1, <1>2, <2>1, <2>3, <2>4, <2>5, <2>6, SemInvGoes
<1>4. CASE Unlock(t)
  <2>1. /\ at[t] \in {"taken", "refused", "given"} /\ mutex' = Unlocked
        /\ Goes(t, at[t], "out") /\ UNCHANGED <<count, hold, closing, alive>>
    BY <1>4 DEF Unlock
  <2>2. mutex = t /\ "out" \in Ats /\ "out" \notin MutexAts
    BY <1>2, <2>1 DEF Ats, MutexAts
  <2> QED
    BY <1>1, <1>2, <2>1, <2>2, SemInvGoes
<1>5. CASE CondWait(t)
  <2>1. /\ at[t] = "look" /\ mutex' = Unlocked
        /\ Goes(t, at[t], "asleep") /\ UNCHANGED <<count, hold, closing, alive>>
    BY <1>5 DEF CondWait, Goes
  <2>2. mutex = t /\ "asleep" \in Ats /\ "asleep" \notin MutexAts
    BY <1>2, <2>1 DEF Ats, MutexAts
  <2> QED
    BY <1>1, <1>2, <2>1, <2>2, SemInvGoes
<1>6. CASE WakeSpuriously(t)
  <2>1. /\ at[t] = "asleep" /\ mutex' = mutex
        /\ Goes(t, at[t], "wait") /\ UNCHANGED <<count, hold, closing, alive>>
    BY <1>6 DEF WakeSpuriously, Goes
  <2>2. mutex # t /\ "wait" \in Ats /\ "wait" \notin MutexAts
    BY <1>2, <2>1 DEF Ats, MutexAts
  <2> QED
    BY <1>1, <1>2, <2>1, <2>2, SemInvGoes
<1> QED
  BY <1>3, <1>4, <1>5, <1>6

LEMMA SemInvTakes ==
  ASSUME SemInv, NEW t \in Callers, Wait(t) \/ TryWait(t)
  PROVE  SemInv'
<1>1. /\ Closer \notin Users /\ Unlocked \notin Callers /\ Callers = Users \cup {Closer}
      /\ mutex \in Callers \cup {Unlocked} /\ at \in [Callers -> Ats]
      /\ count \in 0..NumSlots /\ hold \in [Callers -> 0..NumSlots]
      /\ NumSlots \in Nat
  BY SemaphoreAssumption DEF Callers, SemInv, SemTypeOK
<1>2. /\ at[t] \in MutexAts <=> mutex = t
      /\ t \in Users => at[t] \notin {"wait", "look", "asleep"}
      /\ t = Closer => at[t] \in {"out", "wait", "look", "asleep", "taken"}
  BY DEF SemInv, Excluded, Asks
<1>3. CASE TryWait(t) /\ ~(count > 0)
  <2>1. /\ at[t] = "tryIn" /\ mutex' = mutex
        /\ Goes(t, at[t], "refused") /\ UNCHANGED <<count, hold, closing, alive>>
    BY <1>3 DEF TryWait, Goes
  <2>2. mutex = t /\ "refused" \in Ats /\ "refused" \in MutexAts
    BY <1>2, <2>1 DEF Ats, MutexAts
  <2> QED
    BY <1>1, <1>2, <2>1, <2>2, SemInvGoes
<1>4. CASE Wait(t) \/ (TryWait(t) /\ count > 0)
  <2>1. /\ count > 0 /\ Take(t) /\ at' = [at EXCEPT ![t] = "taken"]
        /\ UNCHANGED <<mutex, closing, alive>>
        /\ at[t] \in {"look", "tryIn"}
        /\ Wait(t) => at[t] = "look"
        /\ ~Wait(t) => at[t] = "tryIn"
    BY <1>4 DEF Wait, TryWait, Goes
  <2>2. mutex = t
    BY <1>2, <2>1 DEF MutexAts
  <2>3. /\ t = Closer => at[t] = "look"
        /\ t \in Users => at[t] = "tryIn"
    BY <1>2, <2>1
  <2>4. t \in Users => hold[t] = 0
    BY <2>3 DEF SemInv, Asks
  <2>5. /\ SlotsCount' /\ count' \in 0..NumSlots
        /\ hold' \in [Callers -> 0..NumSlots]
    BY <2>1, <2>4, SlotTaken
  <2>6. at'[t] = "taken" /\ \A u \in Callers \ {t} : at'[u] = at[u]
    BY <1>1, <2>1
  <2>7. hold'[t] = hold[t] + 1 /\ \A u \in Callers \ {t} : hold'[u] = hold[u]
    BY <1>1, <2>1 DEF Take
  <2>8. SemTypeOK'
    <3>1. at' \in [Callers -> Ats]
      BY <1>1, <2>1 DEF Ats
    <3> QED
      BY <2>1, <2>5, <3>1 DEF SemInv, SemTypeOK
  <2>9. \A u \in Callers \ {t} : at[u] \notin MutexAts
    BY <1>1, <2>2 DEF SemInv, Excluded
  <2>10. Excluded'
    BY <2>1, <2>2, <2>6, <2>9 DEF Excluded, MutexAts
  <2>11. alive
    BY <2>1 DEF SemInv, Phases
  <2>12. \A u \in Users : at'[u] \notin {"signal", "given"}
    BY <1>1, <2>6, <2>9 DEF MutexAts
  <2>13. CASE t = Closer
    <3>1. \A u \in Users : at'[u] = at[u] /\ hold'[u] = hold[u]
      BY <1>1, <2>6, <2>7, <2>13
    <3>2. Asks'
      BY <2>6, <2>13, <3>1 DEF SemInv, Asks
    <3>3. closing
      BY <2>1, <2>13 DEF SemInv, Phases
    <3>4. Phases'
      BY <2>1, <2>6, <2>11, <2>12, <2>13, <3>1, <3>3 DEF SemInv, Phases
    <3> QED
      BY <2>5, <2>8, <2>10, <3>2, <3>4 DEF SemInv
  <2>14. CASE t \in Users
    <3>1. at'[Closer] = at[Closer] /\ hold'[Closer] = hold[Closer]
      BY <1>1, <2>6, <2>7, <2>14
    <3>2. hold'[t] = 1
      BY <2>4, <2>7, <2>14
    <3>3. Asks'
      <4>1. \A u \in Users \ {t} : at'[u] = at[u] /\ hold'[u] = hold[u]
        BY <1>1, <2>6, <2>7
      <4> QED
        BY <2>6, <3>1, <3>2, <4>1 DEF SemInv, Asks
    <3>4. ~ closing
      BY <2>3, <2>14 DEF SemInv, Phases
    <3>5. Phases'
      BY <2>1, <2>11, <2>12, <3>1, <3>4 DEF SemInv, Phases
    <3> QED
      BY <2>5, <2>8, <2>10, <3>3, <3>5 DEF SemInv
  <2> QED
    BY <1>1, <2>13, <2>14
<1> QED
  BY <1>3, <1>4

LEMMA SemInvPost ==
  ASSUME SemInv, NEW t \in Callers, Post(t)
  PROVE  SemInv'
<1>1. /\ Closer \notin Users /\ Callers = Users \cup {Closer}
      /\ at \in [Callers -> Ats] /\ hold \in [Callers -> 0..NumSlots]
      /\ count \in 0..NumSlots
  BY SemaphoreAssumption DEF Callers, SemInv, SemTypeOK
<1>2. /\ at[t] = "postIn" /\ at' = [at EXCEPT ![t] = "signal"]
      /\ count' = count + 1 /\ hold' = [hold EXCEPT ![t] = @ - 1]
      /\ UNCHANGED <<mutex, closing, alive>>
  BY DEF Post, Goes
<1>3. t \in Users /\ hold[t] = 1
  BY <1>1, <1>2 DEF SemInv, Asks
<1>4. /\ SlotsCount' /\ count' \in 0..NumSlots
      /\ hold' \in [Callers -> 0..NumSlots]
  BY <1>2, <1>3, SlotGiven
<1>5. /\ at'[t] = "signal" /\ \A u \in Callers \ {t} : at'[u] = at[u]
      /\ hold'[t] = 0 /\ \A u \in Callers \ {t} : hold'[u] = hold[u]
      /\ at'[Closer] = at[Closer] /\ hold'[Closer] = hold[Closer]
  BY <1>1, <1>2, <1>3
<1>6. SemTypeOK'
  <2>1. at' \in [Callers -> Ats]
    BY <1>1, <1>2 DEF Ats
  <2> QED
    BY <1>2, <1>4, <2>1 DEF SemInv, SemTypeOK
<1>7. Asks'
  <2>1. \A u \in Users \ {t} : at'[u] = at[u] /\ hold'[u] = hold[u]
    BY <1>1, <1>5
  <2> QED
    BY <1>5, <2>1 DEF SemInv, Asks
<1>8. Excluded'
  <2>1. mutex = t
    BY <1>2 DEF SemInv, Excluded, MutexAts
  <2> QED
    BY <1>2, <1>5, <2>1 DEF SemInv, Excluded, MutexAts
<1>9. Phases'
  <2>1. alive
    BY <1>2 DEF SemInv, Phases
  <2>2. count' > 0
    BY <1>1, <1>2
  <2>3. \A u \in Users : at'[u] \in {"try", "tryIn", "refused", "taken"}
                         => at[u] \in {"try", "tryIn", "refused", "taken"}
    BY <1>1, <1>5
  <2> QED
    BY <1>2, <1>5, <2>1, <2>2, <2>3 DEF SemInv, Phases
<1> QED
  BY <1>4, <1>6, <1>7, <1>8, <1>9 DEF SemInv

LEMMA SemInvSignal ==
  ASSUME SemInv, NEW t \in Callers, Signal(t)
  PROVE  SemInv'
<1>1. /\ Closer \notin Users /\ Callers = Users \cup {Closer} /\ at \in [Callers -> Ats]
  BY SemaphoreAssumption DEF Callers, SemInv, SemTypeOK
<1>2. /\ at[t] = "signal"
      /\ at' = [u \in Callers |-> IF u = t THEN "given"
                                  ELSE IF at[u] = "asleep" THEN "wait" ELSE at[u]]
      /\ UNCHANGED <<count, mutex, hold, closing, alive>>
  BY DEF Signal
<1>3. /\ at'[t] = "given"
      /\ \A u \in Callers \ {t} :
           at'[u] = at[u] \/ (at[u] = "asleep" /\ at'[u] = "wait")
  BY <1>2
<1>4. t \in Users
  BY <1>1, <1>2 DEF SemInv, Asks
<1>5. \A u \in Users \ {t} : at'[u] = at[u]
  BY <1>1, <1>3 DEF SemInv, Asks
<1>6. at'[Closer] = at[Closer] \/ (at[Closer] = "asleep" /\ at'[Closer] = "wait")
  BY <1>1, <1>3, <1>4
<1>7. SemTypeOK'
  <2>1. at' \in [Callers -> Ats]
    BY <1>1, <1>2 DEF Ats
  <2> QED
    BY <1>2, <2>1 DEF SemInv, SemTypeOK
<1>8. Asks'
  BY <1>2, <1>3, <1>5, <1>6 DEF SemInv, Asks
<1>9. Excluded'
  BY <1>2, <1>3 DEF SemInv, Excluded, MutexAts
<1>10. SlotsCount'
  BY <1>2, SlotsStay
<1>11. alive /\ count > 0
  BY <1>2, <1>4 DEF SemInv, Phases
<1>12. Phases'
  BY <1>2, <1>3, <1>5, <1>6, <1>11 DEF SemInv, Phases
<1> QED
  BY <1>7, <1>8, <1>9, <1>10, <1>12 DEF SemInv

LEMMA SemInvLife ==
  ASSUME SemInv, Cache_close \/ SEM_DESTROY \/ SEM_INIT
  PROVE  SemInv'
<1>1. /\ Closer \notin Users /\ Callers = Users \cup {Closer}
      /\ at \in [Callers -> Ats] /\ hold \in [Callers -> 0..NumSlots]
      /\ NumSlots \in Nat \ {0} /\ count \in 0..NumSlots
  BY SemaphoreAssumption DEF Callers, SemInv, SemTypeOK
<1>2. CASE Cache_close
  <2>1. /\ UNCHANGED <<count, mutex, at, hold, alive>> /\ alive /\ closing' = TRUE
        /\ \A u \in Users : at[u] \notin {"try", "tryIn", "refused", "taken"}
    BY <1>2 DEF Cache_close
  <2>2. SlotsCount'
    BY <2>1, SlotsStay
  <2> QED
    BY <2>1, <2>2 DEF SemInv, SemTypeOK, Asks, Excluded, Phases
<1>3. CASE SEM_DESTROY
  <2>1. /\ UNCHANGED <<count, mutex, at, hold, closing>> /\ alive' = FALSE
        /\ hold[Closer] = NumSlots /\ at[Closer] = "out"
    BY <1>3 DEF SEM_DESTROY
  <2>2. count = 0 /\ \A u \in Users : hold[u] = 0
    BY <2>1, AllCollected
  <2>3. closing
    BY <1>1, <2>1 DEF SemInv, Phases
  <2>4. \A u \in Users : at[u] \notin {"try", "tryIn", "refused", "taken", "signal", "given"}
    <3> SUFFICES ASSUME NEW u \in Users
                 PROVE  at[u] \notin {"try", "tryIn", "refused", "taken", "signal", "given"}
      OBVIOUS
    <3>1. at[u] \notin {"try", "tryIn", "refused", "taken"}
      BY <2>3 DEF SemInv, Phases
    <3>2. at[u] \in {"signal", "given"} => count > 0
      BY DEF SemInv, Phases
    <3>3. ~(count > 0)
      BY <2>2
    <3> QED
      BY <3>1, <3>2, <3>3
  <2>5. \A u \in Users : at[u] \in Ats /\ at[u] \notin {"wait", "look", "asleep", "post", "postIn"}
    <3> SUFFICES ASSUME NEW u \in Users
                 PROVE  at[u] \in Ats /\ at[u] \notin {"wait", "look", "asleep", "post", "postIn"}
      OBVIOUS
    <3>1. hold[u] = 0 /\ at[u] \in Ats
      BY <1>1, <2>2
    <3> QED
      BY <3>1 DEF SemInv, Asks
  <2>6. \A t \in Callers : at[t] = "out"
    BY <1>1, <2>1, <2>4, <2>5 DEF Ats
  <2>7. Phases'
    BY <2>1, <2>2, <2>3, <2>4, <2>6 DEF SemInv, Phases
  <2>8. SlotsCount'
    BY <2>1, SlotsStay
  <2> QED
    BY <2>1, <2>7, <2>8 DEF SemInv, SemTypeOK, Asks, Excluded
<1>4. CASE SEM_INIT
  <2>1. /\ ~alive /\ alive' = TRUE /\ closing' = FALSE /\ count' = NumSlots
        /\ hold' = [hold EXCEPT ![Closer] = 0] /\ UNCHANGED <<mutex, at>>
    BY <1>4 DEF SEM_INIT
  <2>2. hold[Closer] = NumSlots /\ \A t \in Callers : at[t] = "out"
    BY <2>1 DEF SemInv, Phases
  <2>3. \A u \in Users : hold[u] = 0
    BY <2>2, AllCollected
  <2>4. \A t \in Callers : hold'[t] = 0
    BY <1>1, <2>1, <2>3
  <2>5. SemTypeOK'
    <3>1. hold' \in [Callers -> 0..NumSlots] /\ count' \in 0..NumSlots
      BY <1>1, <2>1
    <3> QED
      BY <2>1, <3>1 DEF SemInv, SemTypeOK
  <2>6. Asks'
    BY <1>1, <2>1, <2>2, <2>4 DEF Asks
  <2>7. Holders' = {}
    BY <1>1, <2>4 DEF Holders
  <2>8. IsFiniteSet(Holders') /\ Cardinality(Holders') = 0
    BY <2>7, FS_EmptySet, Zenon
  <2>9. hold'[Closer] = 0
    BY <1>1, <2>4
  <2>10. SlotsCount'
    BY <1>1, <2>1, <2>8, <2>9 DEF SlotsCount
  <2>11. Phases'
    BY <1>1, <2>1, <2>2, <2>9 DEF Phases
  <2> QED
    BY <2>1, <2>5, <2>6, <2>10, <2>11 DEF SemInv, Excluded
<1> QED
  BY <1>2, <1>3, <1>4

LEMMA SemInvStep == ASSUME SemInv, [SemNext]_semvars PROVE SemInv'
<1>1. CASE \E t \in Users : SEM_TRYWAIT(t) \/ SEM_POST(t)
  BY <1>1, SemInvCalls
<1>2. CASE SEM_WAIT
  BY <1>2, SemInvCalls
<1>3. CASE Cache_close \/ SEM_DESTROY \/ SEM_INIT
  BY <1>3, SemInvLife
<1>4. CASE \E t \in Callers : InCall(t) \/ WakeSpuriously(t)
  BY <1>4, SemInvTurns, SemInvTakes, SemInvPost, SemInvSignal DEF InCall
<1>5. CASE UNCHANGED semvars
  <2>1. Holders' = Holders
    BY <1>5 DEF semvars, Holders
  <2> QED
    BY <1>5, <2>1 DEF semvars, SemInv, SemTypeOK, Asks, Excluded, SlotsCount, Phases
<1> QED
  BY <1>1, <1>2, <1>3, <1>4, <1>5 DEF SemNext

-----------------------------------------------------------------------------
(* Every step of the wrappers is one of the promised semaphore, or none. *)

LEMMA CallIs ==
  ASSUME NEW t \in Callers, at[t] \in Ats
  PROVE  /\ at[t] \in {"wait", "look", "asleep"} => AbstractCall[t] = "wait"
         /\ at[t] \in {"try", "tryIn"} => AbstractCall[t] = "trywait"
         /\ at[t] \in {"post", "postIn"} => AbstractCall[t] = "post"
         /\ at[t] \in {"signal", "given"} => AbstractCall[t] = "given"
         /\ at[t] = "out" => AbstractCall[t] = "none"
         /\ at[t] \in {"taken", "refused"} => AbstractCall[t] = at[t]
<1>1. AbstractCall[t] = CASE at[t] \in {"wait", "look", "asleep"} -> "wait"
                         [] at[t] \in {"try", "tryIn"} -> "trywait"
                         [] at[t] \in {"post", "postIn"} -> "post"
                         [] at[t] \in {"signal", "given"} -> "given"
                         [] at[t] = "out" -> "none"
                         [] OTHER -> at[t]
  BY DEF AbstractCall
<1> QED
  BY <1>1

LEMMA CallIsNow ==
  ASSUME at \in [Callers -> Ats]
  PROVE  \A t \in Callers :
         /\ at[t] \in {"wait", "look", "asleep"} => AbstractCall[t] = "wait"
         /\ at[t] \in {"try", "tryIn"} => AbstractCall[t] = "trywait"
         /\ at[t] \in {"post", "postIn"} => AbstractCall[t] = "post"
         /\ at[t] \in {"signal", "given"} => AbstractCall[t] = "given"
         /\ at[t] = "out" => AbstractCall[t] = "none"
         /\ at[t] \in {"taken", "refused"} => AbstractCall[t] = at[t]
BY CallIs

LEMMA CallIsNext ==
  ASSUME at' \in [Callers -> Ats]
  PROVE  \A t \in Callers :
         /\ at'[t] \in {"wait", "look", "asleep"} => AbstractCall'[t] = "wait"
         /\ at'[t] \in {"try", "tryIn"} => AbstractCall'[t] = "trywait"
         /\ at'[t] \in {"post", "postIn"} => AbstractCall'[t] = "post"
         /\ at'[t] \in {"signal", "given"} => AbstractCall'[t] = "given"
         /\ at'[t] = "out" => AbstractCall'[t] = "none"
         /\ at'[t] \in {"taken", "refused"} => AbstractCall'[t] = at'[t]
<1> SUFFICES ASSUME NEW t \in Callers
             PROVE
         /\ at'[t] \in {"wait", "look", "asleep"} => AbstractCall'[t] = "wait"
         /\ at'[t] \in {"try", "tryIn"} => AbstractCall'[t] = "trywait"
         /\ at'[t] \in {"post", "postIn"} => AbstractCall'[t] = "post"
         /\ at'[t] \in {"signal", "given"} => AbstractCall'[t] = "given"
         /\ at'[t] = "out" => AbstractCall'[t] = "none"
         /\ at'[t] \in {"taken", "refused"} => AbstractCall'[t] = at'[t]
  OBVIOUS
<1>1. AbstractCall'[t] = CASE at'[t] \in {"wait", "look", "asleep"} -> "wait"
                         [] at'[t] \in {"try", "tryIn"} -> "trywait"
                         [] at'[t] \in {"post", "postIn"} -> "post"
                         [] at'[t] \in {"signal", "given"} -> "given"
                         [] at'[t] = "out" -> "none"
                         [] OTHER -> at'[t]
  BY DEF AbstractCall
<1> QED
  BY <1>1

LEMMA CallFunctions ==
  /\ AbstractCall = [t \in Callers |-> AbstractCall[t]]
  /\ AbstractCall' = [t \in Callers |-> AbstractCall'[t]]
<1>1. AbstractCall = [t \in Callers |-> AbstractCall[t]]
  BY DEF AbstractCall
<1>2. AbstractCall' = [t \in Callers |-> AbstractCall'[t]]
  BY DEF AbstractCall
<1> QED
  BY <1>1, <1>2

LEMMA CallsStay ==
  ASSUME \A u \in Callers : AbstractCall'[u] = AbstractCall[u]
  PROVE  AbstractCall' = AbstractCall
BY CallFunctions

LEMMA CallMoves ==
  ASSUME NEW t \in Callers, NEW to,
         \A u \in Callers \ {t} : AbstractCall'[u] = AbstractCall[u],
         AbstractCall'[t] = to
  PROVE  AbstractCall' = [AbstractCall EXCEPT ![t] = to]
<1>1. AbstractCall' = [u \in Callers |-> IF u = t THEN to ELSE AbstractCall[u]]
  BY CallFunctions
<1>2. [AbstractCall EXCEPT ![t] = to]
      = [u \in Callers |-> IF u = t THEN to ELSE AbstractCall[u]]
  BY CallFunctions
<1> QED
  BY <1>1, <1>2

LEMMA MoveSeen ==
  ASSUME SemInv, SemInv', NEW t \in Callers, NEW to \in Ats,
         at' = [at EXCEPT ![t] = to]
  PROVE  /\ AbstractCall' = [AbstractCall EXCEPT ![t] = AbstractCall'[t]]
         /\ AbstractCall'[t] = AbstractCall[t] => AbstractCall' = AbstractCall
         /\ at'[t] = to
<1>1. at \in [Callers -> Ats] /\ at' \in [Callers -> Ats]
  BY DEF SemInv, SemTypeOK
<1>2. at'[t] = to /\ \A u \in Callers \ {t} : at'[u] = at[u]
  BY <1>1
<1>3. ASSUME NEW u \in Callers \ {t} PROVE AbstractCall'[u] = AbstractCall[u]
  <2>1. at'[u] = at[u] /\ at[u] \in Ats
    BY <1>1, <1>2
  <2> QED
    BY <1>1, <2>1, CallIsNow, CallIsNext DEF Ats
<1>4. AbstractCall' = [AbstractCall EXCEPT ![t] = AbstractCall'[t]]
  BY <1>3, CallMoves
<1>5. AbstractCall'[t] = AbstractCall[t] => AbstractCall' = AbstractCall
  BY <1>3, CallsStay
<1> QED
  BY <1>2, <1>4, <1>5

LEMMA StepPromised ==
  ASSUME SemInv, SemInv', [SemNext]_semvars
  PROVE  [Promised!Next]_(Promised!vars)
<1>0. /\ at \in [Callers -> Ats] /\ at' \in [Callers -> Ats]
      /\ count \in 0..NumSlots /\ Users \subseteq Callers /\ Closer \in Callers
      /\ NumSlots \in Nat
  BY SemaphoreAssumption DEF SemInv, SemTypeOK, Callers
<1>a. \A t \in Callers : at[t] # "out" => alive
  BY DEF SemInv, Phases
<1>b. ASSUME NEW t \in Callers, NEW op \in {"try", "post", "wait"}, Calls(t, op), alive
      PROVE  Promised!Next
  <2>1. /\ at[t] = "out" /\ at' = [at EXCEPT ![t] = op] /\ op \in Ats
        /\ UNCHANGED <<count, alive>>
    BY <1>b DEF Calls, Ats
  <2>2. /\ AbstractCall' = [AbstractCall EXCEPT ![t] = AbstractCall'[t]] /\ at'[t] = op
    BY <2>1, MoveSeen
  <2>3. AbstractCall[t] = "none" /\ AbstractCall'[t] \in {"wait", "trywait", "post"}
    BY <1>0, <2>1, <2>2, CallIsNow, CallIsNext
  <2>4. Promised!Enter(t)
    BY <1>b, <2>1, <2>2, <2>3 DEF Promised!Enter, Promised!Becomes
  <2> QED
    BY <2>4 DEF Promised!Next
<1>c. ASSUME NEW t \in Callers, Promised!Act(t) PROVE Promised!Next
  BY <1>c DEF Promised!Next
<1>1. ASSUME NEW t \in Users, SEM_TRYWAIT(t) \/ SEM_POST(t) PROVE Promised!Next
  <2>1. t \in Callers
    BY <1>0
  <2>2. CASE SEM_TRYWAIT(t)
    BY <1>b, <2>1, <2>2 DEF SEM_TRYWAIT
  <2>3. CASE SEM_POST(t)
    <3>1. hold[t] = 1 /\ Calls(t, "post")
      BY <2>3 DEF SEM_POST
    <3>2. alive
      BY <3>1, AllCollected DEF SemInv, Phases
    <3> QED
      BY <1>b, <2>1, <3>1, <3>2
  <2> QED
    BY <1>1, <2>2, <2>3
<1>2. ASSUME SEM_WAIT PROVE Promised!Next
  BY <1>0, <1>2, <1>b DEF SEM_WAIT
<1>3. ASSUME Cache_close PROVE UNCHANGED Promised!vars
  BY <1>3 DEF Cache_close, Promised!vars, AbstractCall
<1>4. ASSUME SEM_DESTROY PROVE Promised!Next
  <2>1. /\ alive /\ ~alive' /\ alive' = FALSE /\ UNCHANGED <<count, at>>
    BY <1>4 DEF SEM_DESTROY
  <2>2. \A t \in Callers : at[t] = "out"
    BY <2>1 DEF SemInv, Phases
  <2>3. Promised!Quiet
    BY <1>0, <2>2, CallIsNow DEF Promised!Quiet
  <2>4. AbstractCall' = AbstractCall
    BY <2>1 DEF AbstractCall
  <2> QED
    BY <2>1, <2>3, <2>4 DEF Promised!Next, Promised!Destroy
<1>5. ASSUME SEM_INIT PROVE Promised!Next
  <2>1. /\ ~alive /\ alive' = TRUE /\ count' = NumSlots /\ at' = at
    BY <1>5 DEF SEM_INIT
  <2>2. AbstractCall' = AbstractCall
    BY <2>1 DEF AbstractCall
  <2> QED
    BY <2>1, <2>2 DEF Promised!Next, Promised!Create
<1>6. ASSUME NEW t \in Callers, InCall(t) \/ WakeSpuriously(t)
      PROVE  [Promised!Next]_(Promised!vars)
  <2>1. CASE Lock(t)
    <3>1. /\ at[t] \in {"wait", "try", "post"} /\ UNCHANGED <<count, alive>>
      BY <2>1 DEF Lock, Locking
    <3>2. \E to \in {"look", "tryIn", "postIn"} :
          /\ at' = [at EXCEPT ![t] = to]
          /\ at[t] = "wait" <=> to = "look"
          /\ at[t] = "try" <=> to = "tryIn"
          /\ at[t] = "post" <=> to = "postIn"
      BY <2>1, <3>1 DEF Lock, Locking, Goes
    <3>3. PICK to \in {"look", "tryIn", "postIn"} :
          /\ at' = [at EXCEPT ![t] = to]
          /\ at[t] = "wait" <=> to = "look"
          /\ at[t] = "try" <=> to = "tryIn"
          /\ at[t] = "post" <=> to = "postIn"
      BY <3>2
    <3>4. to \in Ats
      BY DEF Ats
    <3>5. at'[t] = to /\ (AbstractCall'[t] = AbstractCall[t] => AbstractCall' = AbstractCall)
      BY <3>3, <3>4, MoveSeen
    <3>6. AbstractCall'[t] = AbstractCall[t]
      BY <1>0, <3>1, <3>3, <3>5, CallIsNow, CallIsNext
    <3> QED
      BY <3>1, <3>5, <3>6 DEF Promised!vars
  <2>2. CASE Unlock(t)
    <3>1. /\ at[t] \in {"taken", "refused", "given"} /\ UNCHANGED <<count, alive>>
          /\ at' = [at EXCEPT ![t] = "out"] /\ "out" \in Ats
      BY <2>2 DEF Unlock, Goes, Ats
    <3>2. at'[t] = "out" /\ AbstractCall' = [AbstractCall EXCEPT ![t] = AbstractCall'[t]]
      BY <3>1, MoveSeen
    <3>3. AbstractCall'[t] = "none" /\ AbstractCall[t] \in {"taken", "refused", "given"}
      BY <1>0, <3>1, <3>2, CallIsNow, CallIsNext
    <3>4. alive
      BY <1>a, <3>1
    <3>5. Promised!Leave(t)
      BY <3>1, <3>2, <3>3, <3>4 DEF Promised!Leave, Promised!Becomes
    <3> QED
      BY <1>c, <3>5 DEF Promised!Act
  <2>3. CASE CondWait(t) \/ WakeSpuriously(t)
    <3>1. PICK to \in {"asleep", "wait"} :
            /\ at[t] \in {"look", "asleep"} /\ UNCHANGED <<count, alive>>
            /\ at' = [at EXCEPT ![t] = to]
      BY <2>3 DEF CondWait, WakeSpuriously, Goes
    <3>2. to \in Ats
      BY DEF Ats
    <3>3. at'[t] = to /\ (AbstractCall'[t] = AbstractCall[t] => AbstractCall' = AbstractCall)
      BY <3>1, <3>2, MoveSeen
    <3>4. AbstractCall'[t] = AbstractCall[t]
      BY <1>0, <3>1, <3>3, CallIsNow, CallIsNext
    <3> QED
      BY <3>1, <3>3, <3>4 DEF Promised!vars
  <2>4. CASE Wait(t) \/ (TryWait(t) /\ count > 0)
    <3>1. /\ at[t] \in {"look", "tryIn"} /\ count > 0 /\ count' = count - 1
          /\ alive' = alive /\ at' = [at EXCEPT ![t] = "taken"] /\ "taken" \in Ats
      BY <2>4 DEF Wait, TryWait, Take, Goes, Ats
    <3>2. at'[t] = "taken" /\ AbstractCall' = [AbstractCall EXCEPT ![t] = AbstractCall'[t]]
      BY <3>1, MoveSeen
    <3>3. AbstractCall'[t] = "taken" /\ AbstractCall[t] \in {"wait", "trywait"}
      BY <1>0, <3>1, <3>2, CallIsNow, CallIsNext
    <3>4. alive
      BY <1>a, <3>1
    <3>5. Promised!Take(t)
      BY <3>1, <3>2, <3>3, <3>4 DEF Promised!Take, Promised!Becomes
    <3> QED
      BY <1>c, <3>5 DEF Promised!Act
  <2>5. CASE TryWait(t) /\ ~(count > 0)
    <3>1. /\ at[t] = "tryIn" /\ UNCHANGED <<count, alive>>
          /\ at' = [at EXCEPT ![t] = "refused"] /\ "refused" \in Ats
      BY <2>5 DEF TryWait, Goes, Ats
    <3>2. at'[t] = "refused" /\ AbstractCall' = [AbstractCall EXCEPT ![t] = AbstractCall'[t]]
      BY <3>1, MoveSeen
    <3>3. AbstractCall'[t] = "refused" /\ AbstractCall[t] = "trywait"
      BY <1>0, <3>1, <3>2, CallIsNow, CallIsNext
    <3>4. alive /\ count = 0
      BY <1>0, <1>a, <2>5, <3>1
    <3>5. Promised!Refuse(t)
      BY <3>1, <3>2, <3>3, <3>4 DEF Promised!Refuse, Promised!Becomes
    <3> QED
      BY <1>c, <3>5 DEF Promised!Act
  <2>6. CASE Post(t)
    <3>1. /\ at[t] = "postIn" /\ count' = count + 1 /\ alive' = alive
          /\ at' = [at EXCEPT ![t] = "signal"] /\ "signal" \in Ats
      BY <2>6 DEF Post, Goes, Ats
    <3>2. at'[t] = "signal" /\ AbstractCall' = [AbstractCall EXCEPT ![t] = AbstractCall'[t]]
      BY <3>1, MoveSeen
    <3>3. AbstractCall'[t] = "given" /\ AbstractCall[t] = "post"
      BY <1>0, <3>1, <3>2, CallIsNow, CallIsNext
    <3>4. alive
      BY <1>a, <3>1
    <3>5. Promised!Give(t)
      BY <3>1, <3>2, <3>3, <3>4 DEF Promised!Give, Promised!Becomes
    <3> QED
      BY <1>c, <3>5 DEF Promised!Act
  <2>7. CASE Signal(t)
    <3>1. /\ at[t] = "signal" /\ UNCHANGED <<count, alive>>
          /\ at' = [u \in Callers |-> IF u = t THEN "given"
                                      ELSE IF at[u] = "asleep" THEN "wait" ELSE at[u]]
      BY <2>7 DEF Signal
    <3>2. ASSUME NEW u \in Callers PROVE AbstractCall'[u] = AbstractCall[u]
      <4>1. /\ at[u] \in Ats
            /\ \/ at'[u] = at[u]
               \/ at[u] = "signal" /\ at'[u] = "given"
               \/ at[u] = "asleep" /\ at'[u] = "wait"
        BY <1>0, <3>1
      <4> QED
        BY <1>0, <4>1, CallIsNow, CallIsNext DEF Ats
    <3>3. AbstractCall' = AbstractCall
      BY <3>2, CallsStay
    <3> QED
      BY <3>1, <3>3 DEF Promised!vars
  <2> QED
    BY <1>6, <2>1, <2>2, <2>3, <2>4, <2>5, <2>6, <2>7 DEF InCall
<1>7. CASE UNCHANGED semvars
  BY <1>7 DEF semvars, Promised!vars, AbstractCall
<1> QED
  BY <1>1, <1>2, <1>3, <1>4, <1>5, <1>6, <1>7 DEF SemNext

LEMMA InitPromised == SemInit => Promised!Init
<1> SUFFICES ASSUME SemInit PROVE Promised!Init
  OBVIOUS
<1>1. \A t \in Callers : at[t] = "out"
  BY DEF SemInit
<1>2. \A t \in Callers : AbstractCall[t] = "none"
  BY <1>1, CallIs DEF Ats
<1>3. AbstractCall = [t \in Callers |-> "none"]
  BY <1>2, CallFunctions
<1> QED
  BY <1>3 DEF SemInit, Promised!Init

-----------------------------------------------------------------------------
(* The table of allocations.  A block is in one of three places: with the  *)
(* program, in the hand of a thread inside a wrapper, or nowhere.          *)

OnceIn(s, a) == \E i \in DOMAIN s : s[i] = a /\ \A j \in DOMAIN s : s[j] = a => j = i
NotIn(s, a) == \A i \in DOMAIN s : s[i] # a

Tracked == \A a \in Addr : IF a \in held \ foreign THEN OnceIn(table[Bucket[a]], a)
                                                 ELSE NotIn(table[Bucket[a]], a)
Owned ==
  /\ \A t \in Threads : InHand(t) \subseteq live \ held
  /\ \A t, u \in Threads : t # u => InHand(t) \cap InHand(u) = {}
  /\ live = held \cup UNION {InHand(t) : t \in Threads}
  /\ foreign \subseteq held

MemInv == MemTypeOK /\ Tracked /\ Owned

\* Counting a chain's nodes of one address.
LEMMA NodesCounted ==
  ASSUME NEW s \in Seq(Addr), NEW a
  PROVE  /\ Cardinality({i \in DOMAIN s : s[i] = a}) = 0 <=> NotIn(s, a)
         /\ Cardinality({i \in DOMAIN s : s[i] = a}) = 1 <=> OnceIn(s, a)
<1> DEFINE At == {i \in DOMAIN s : s[i] = a}
<1>1. IsFiniteSet(At)
  <2>1. Len(s) \in Nat /\ DOMAIN s = 1..Len(s)
    BY LenProperties
  <2>2. IsFiniteSet(1..Len(s))
    BY <2>1, FS_Interval
  <2> QED
    BY <2>1, <2>2, FS_Subset
<1>2. Cardinality(At) = 0 <=> At = {}
  BY <1>1, FS_EmptySet
<1>3. At = {} <=> NotIn(s, a)
  BY DEF NotIn
<1>4. Cardinality(At) = 1 <=> \E i : At = {i}
  BY <1>1, FS_Singleton
<1>5. ASSUME NEW i, At = {i} PROVE OnceIn(s, a)
  <2>1. i \in DOMAIN s /\ s[i] = a
    BY <1>5
  <2>2. ASSUME NEW j \in DOMAIN s, s[j] = a PROVE j = i
    <3>1. j \in At
      BY <2>2
    <3> QED
      BY <1>5, <3>1
  <2> QED
    BY <2>1, <2>2 DEF OnceIn
<1>6. ASSUME OnceIn(s, a) PROVE \E i : At = {i}
  <2>1. PICK i \in DOMAIN s : s[i] = a /\ \A j \in DOMAIN s : s[j] = a => j = i
    BY <1>6 DEF OnceIn
  <2>2. At = {i}
    BY <2>1
  <2> QED
    BY <2>2
<1> QED
  BY <1>2, <1>3, <1>4, <1>5, <1>6

\* A node put at the head of a chain.
LEMMA Prepended ==
  ASSUME NEW s \in Seq(Addr), NEW ptr \in Addr
  PROVE  /\ <<ptr>> \o s \in Seq(Addr)
         /\ NotIn(s, ptr) => OnceIn(<<ptr>> \o s, ptr)
         /\ \A a : a # ptr => /\ OnceIn(s, a) => OnceIn(<<ptr>> \o s, a)
                              /\ NotIn(s, a) => NotIn(<<ptr>> \o s, a)
<1> DEFINE r == <<ptr>> \o s
<1>1. /\ <<ptr>> \in Seq(Addr) /\ Len(<<ptr>>) = 1 /\ <<ptr>>[1] = ptr
      /\ Len(s) \in Nat /\ DOMAIN s = 1..Len(s)
  BY LenProperties
<1>2. /\ r \in Seq(Addr) /\ Len(r) = Len(s) + 1
      /\ \A i \in 1..(Len(s) + 1) : r[i] = IF i <= 1 THEN <<ptr>>[i] ELSE s[i - 1]
  BY <1>1, ConcatProperties
<1>3. DOMAIN r = 1..(Len(s) + 1)
  BY <1>1, <1>2, LenProperties
<1> HIDE DEF r
<1>4. r[1] = ptr /\ \A i \in DOMAIN s : i + 1 \in DOMAIN r /\ r[i + 1] = s[i]
  BY <1>1, <1>2, <1>3
<1>5. \A i \in DOMAIN r : i = 1 \/ (i - 1 \in DOMAIN s /\ r[i] = s[i - 1])
  BY <1>1, <1>2, <1>3
<1>6. 1 \in DOMAIN r
  BY <1>1, <1>3
<1>7. ASSUME NotIn(s, ptr) PROVE OnceIn(r, ptr)
  BY <1>4, <1>5, <1>6, <1>7 DEF NotIn, OnceIn
<1>8. ASSUME NEW a, a # ptr, NotIn(s, a) PROVE NotIn(r, a)
  BY <1>4, <1>5, <1>8 DEF NotIn
<1>9. ASSUME NEW a, a # ptr, OnceIn(s, a) PROVE OnceIn(r, a)
  <2>1. PICK i \in DOMAIN s : s[i] = a /\ \A j \in DOMAIN s : s[j] = a => j = i
    BY <1>9 DEF OnceIn
  <2>2. i + 1 \in DOMAIN r /\ r[i + 1] = a
    BY <1>4, <2>1
  <2>3. ASSUME NEW j \in DOMAIN r, r[j] = a PROVE j = i + 1
    <3>1. j # 1
      BY <1>4, <1>9, <2>3
    <3>2. j - 1 \in DOMAIN s /\ s[j - 1] = a
      BY <1>5, <2>3, <3>1
    <3>3. j - 1 = i
      BY <2>1, <3>2
    <3> QED
      BY <1>3, <3>3, <1>1
  <2> QED
    BY <2>2, <2>3 DEF OnceIn
<1> QED
  BY <1>2, <1>7, <1>8, <1>9 DEF r

\* The one node of an address taken out of a chain.
LEMMA TakenOut ==
  ASSUME NEW s \in Seq(Addr), NEW k \in DOMAIN s, NEW ptr, s[k] = ptr,
         \A j \in DOMAIN s : s[j] = ptr => j = k
  PROVE  /\ SubSeq(s, 1, k - 1) \o SubSeq(s, k + 1, Len(s)) \in Seq(Addr)
         /\ NotIn(SubSeq(s, 1, k - 1) \o SubSeq(s, k + 1, Len(s)), ptr)
         /\ \A a : a # ptr =>
              /\ OnceIn(s, a) => OnceIn(SubSeq(s, 1, k - 1) \o SubSeq(s, k + 1, Len(s)), a)
              /\ NotIn(s, a) => NotIn(SubSeq(s, 1, k - 1) \o SubSeq(s, k + 1, Len(s)), a)
<1> DEFINE x == SubSeq(s, 1, k - 1)
           y == SubSeq(s, k + 1, Len(s))
           r == x \o y
<1>1. /\ Len(s) \in Nat /\ DOMAIN s = 1..Len(s) /\ k \in 1..Len(s)
      /\ \A i \in 1..Len(s) : s[i] \in Addr
  BY LenProperties
<1>2. /\ x \in Seq(Addr) /\ Len(x) = k - 1 /\ \A i \in 1..(k - 1) : x[i] = s[i]
  <2>1. 1 \in Int /\ k - 1 \in Int /\ \A i \in 1..(k - 1) : s[i] \in Addr
    BY <1>1
  <2>2. /\ x \in Seq(Addr) /\ Len(x) = IF 1 <= k - 1 THEN (k - 1) - 1 + 1 ELSE 0
        /\ \A i \in 1..((k - 1) - 1 + 1) : x[i] = s[1 + i - 1]
    BY <2>1, SubSeqProperties
  <2> HIDE DEF x
  <2>3. Len(x) = k - 1
    BY <1>1, <2>2
  <2>4. ASSUME NEW i \in 1..(k - 1) PROVE x[i] = s[i]
    <3>1. i \in 1..((k - 1) - 1 + 1) /\ 1 + i - 1 = i
      BY <1>1
    <3> QED
      BY <2>2, <3>1
  <2> QED
    BY <2>2, <2>3, <2>4
<1>3. /\ y \in Seq(Addr) /\ Len(y) = Len(s) - k
      /\ \A i \in 1..(Len(s) - k) : y[i] = s[k + i]
  <2>1. k + 1 \in Int /\ Len(s) \in Int /\ \A i \in (k + 1)..Len(s) : s[i] \in Addr
    BY <1>1
  <2>2. /\ y \in Seq(Addr) /\ Len(y) = IF k + 1 <= Len(s) THEN Len(s) - (k + 1) + 1 ELSE 0
        /\ \A i \in 1..(Len(s) - (k + 1) + 1) : y[i] = s[k + 1 + i - 1]
    BY <2>1, SubSeqProperties
  <2> HIDE DEF y
  <2>3. Len(y) = Len(s) - k
    BY <1>1, <2>2
  <2>4. ASSUME NEW i \in 1..(Len(s) - k) PROVE y[i] = s[k + i]
    <3>1. i \in 1..(Len(s) - (k + 1) + 1) /\ k + 1 + i - 1 = k + i
      BY <1>1
    <3> QED
      BY <2>2, <3>1
  <2> QED
    BY <2>2, <2>3, <2>4
<1> HIDE DEF x, y
<1>4. /\ r \in Seq(Addr) /\ Len(r) = Len(x) + Len(y)
      /\ \A i \in 1..(Len(x) + Len(y)) : r[i] = IF i <= Len(x) THEN x[i] ELSE y[i - Len(x)]
  BY <1>2, <1>3, ConcatProperties
<1>5. DOMAIN r = 1..Len(r)
  BY <1>4, LenProperties
<1> HIDE DEF r
<1>6. Len(r) = Len(s) - 1
  BY <1>1, <1>2, <1>3, <1>4
<1>7. ASSUME NEW i \in DOMAIN r PROVE i \in Nat /\ r[i] = IF i < k THEN s[i] ELSE s[i + 1]
  <2>1. i \in 1..(Len(s) - 1) /\ i \in 1..(Len(x) + Len(y))
    BY <1>4, <1>5, <1>6
  <2>2. CASE i < k
    BY <1>1, <1>2, <1>4, <2>1, <2>2
  <2>3. CASE ~(i < k)
    <3>1. /\ i - (k - 1) \in 1..(Len(s) - k) /\ k + (i - (k - 1)) = i + 1
          /\ ~(i <= k - 1)
      BY <1>1, <2>1, <2>3
    <3>2. r[i] = y[i - (k - 1)]
      BY <1>2, <1>4, <2>1, <3>1
    <3>3. y[i - (k - 1)] = s[k + (i - (k - 1))]
      BY <1>3, <3>1
    <3> QED
      BY <2>1, <2>3, <3>1, <3>2, <3>3
  <2> QED
    BY <2>2, <2>3
<1>8. ASSUME NEW i \in DOMAIN r
      PROVE  \E j \in DOMAIN s \ {k} : r[i] = s[j] /\ i = IF j < k THEN j ELSE j - 1
  <2>1. i \in Nat /\ i >= 1 /\ i <= Len(s) - 1
    BY <1>1, <1>5, <1>6
  <2>2. CASE i < k
    BY <1>1, <1>7, <2>1, <2>2
  <2>3. CASE ~(i < k)
    <3>1. i + 1 \in DOMAIN s \ {k} /\ ~(i + 1 < k) /\ i = (i + 1) - 1
      BY <1>1, <2>1, <2>3
    <3>2. r[i] = s[i + 1]
      BY <1>7, <2>3
    <3> QED
      BY <3>1, <3>2
  <2> QED
    BY <2>2, <2>3
<1>9. ASSUME NEW j \in DOMAIN s \ {k}
      PROVE  \E i \in DOMAIN r : r[i] = s[j]
  <2>1. CASE j < k
    <3>1. j \in DOMAIN r
      BY <1>1, <1>5, <1>6, <2>1
    <3> QED
      BY <1>7, <2>1, <3>1
  <2>2. CASE ~(j < k)
    <3>1. j - 1 \in DOMAIN r /\ ~(j - 1 < k) /\ (j - 1) + 1 = j
      BY <1>1, <1>5, <1>6, <2>2
    <3>2. r[j - 1] = s[j]
      BY <1>7, <3>1
    <3> QED
      BY <3>1, <3>2
  <2> QED
    BY <2>1, <2>2
<1>10. NotIn(r, ptr)
  BY <1>8 DEF NotIn
<1>11. ASSUME NEW a, a # ptr, NotIn(s, a) PROVE NotIn(r, a)
  BY <1>8, <1>11 DEF NotIn
<1>12. ASSUME NEW a, a # ptr, OnceIn(s, a) PROVE OnceIn(r, a)
  <2>1. PICK j \in DOMAIN s : s[j] = a /\ \A l \in DOMAIN s : s[l] = a => l = j
    BY <1>12 DEF OnceIn
  <2>2. j # k
    BY <1>12, <2>1
  <2>3. PICK i \in DOMAIN r : r[i] = a
    BY <1>9, <2>1, <2>2
  <2>4. ASSUME NEW h \in DOMAIN r, r[h] = a PROVE h = i
    <3>1. PICK l \in DOMAIN s : r[h] = s[l] /\ h = IF l < k THEN l ELSE l - 1
      BY <1>8
    <3>2. PICK m \in DOMAIN s : r[i] = s[m] /\ i = IF m < k THEN m ELSE m - 1
      BY <1>8
    <3>3. l = j /\ m = j
      BY <2>1, <2>3, <2>4, <3>1, <3>2
    <3> QED
      BY <3>1, <3>2, <3>3
  <2> QED
    BY <2>3, <2>4 DEF OnceIn
<1> QED
  BY <1>4, <1>10, <1>11, <1>12 DEF r, x, y

-----------------------------------------------------------------------------

\* What a thread inside a wrapper has in its hand.
LEMMA HandIs ==
  ASSUME MemTypeOK, NEW t \in Threads
  PROVE  /\ doing[t] \in Doing
         /\ doing[t] = Idle => InHand(t) = {}
         /\ doing[t].step \in {"insert", "free", "realloc"}
              => doing[t].ptr \in Addr /\ InHand(t) = {doing[t].ptr}
<1>1. doing[t] \in Doing
  BY DEF MemTypeOK
<1>2. doing[t] = Idle => InHand(t) = {}
  BY DEF InHand
<1>3. ASSUME doing[t].step \in {"insert", "free", "realloc"}
      PROVE  doing[t].ptr \in Addr /\ InHand(t) = {doing[t].ptr}
  <2>1. doing[t] # Idle
    BY <1>3 DEF Idle
  <2>2. doing[t] \in [step : {"insert", "free", "realloc"}, ptr : Addr]
    BY <1>1, <2>1 DEF Doing
  <2> QED
    BY <2>1, <2>2 DEF InHand
<1> QED
  BY <1>1, <1>2, <1>3

\* A thread takes a block in its hand, or puts down what it had.
LEMMA HandTakes ==
  ASSUME MemTypeOK, NEW t \in Threads, NEW step \in {"insert", "free", "realloc"},
         NEW ptr \in Addr, doing' = [doing EXCEPT ![t] = [step |-> step, ptr |-> ptr]]
  PROVE  /\ doing' \in [Threads -> Doing]
         /\ InHand(t)' = {ptr}
         /\ \A u \in Threads \ {t} : InHand(u)' = InHand(u)
<1>1. doing \in [Threads -> Doing]
  BY DEF MemTypeOK
<1>2. [step |-> step, ptr |-> ptr] \in Doing /\ [step |-> step, ptr |-> ptr] # Idle
  BY DEF Doing, Idle
<1>3. doing' \in [Threads -> Doing] /\ doing'[t] = [step |-> step, ptr |-> ptr]
  BY <1>1, <1>2
<1>4. \A u \in Threads \ {t} : doing'[u] = doing[u]
  BY <1>1
<1>5. InHand(t)' = {ptr}
  BY <1>2, <1>3 DEF InHand
<1>6. \A u \in Threads \ {t} : InHand(u)' = InHand(u)
  BY <1>4 DEF InHand
<1> QED
  BY <1>3, <1>5, <1>6

LEMMA HandDrops ==
  ASSUME MemTypeOK, NEW t \in Threads, doing' = [doing EXCEPT ![t] = Idle]
  PROVE  /\ doing' \in [Threads -> Doing]
         /\ InHand(t)' = {}
         /\ \A u \in Threads \ {t} : InHand(u)' = InHand(u)
<1>1. doing \in [Threads -> Doing] /\ Idle \in Doing
  BY DEF MemTypeOK, Doing
<1>2. doing' \in [Threads -> Doing] /\ doing'[t] = Idle
  BY <1>1
<1>3. \A u \in Threads \ {t} : doing'[u] = doing[u]
  BY <1>1
<1>4. InHand(t)' = {}
  BY <1>2 DEF InHand
<1>5. \A u \in Threads \ {t} : InHand(u)' = InHand(u)
  BY <1>3 DEF InHand
<1> QED
  BY <1>2, <1>4, <1>5

\* A block moves between the program, a thread's hand and the allocator.
LEMMA OwnedMoves ==
  ASSUME MemTypeOK, Owned, NEW t \in Threads, NEW mine,
         InHand(t)' = mine,
         \A u \in Threads \ {t} : InHand(u)' = InHand(u),
         foreign' \subseteq held',
         mine \cap held' = {},
         \A u \in Threads \ {t} : InHand(u) \cap (mine \cup held') = {},
         held' \cup mine = live' \ UNION {InHand(u) : u \in Threads \ {t}},
         \A u \in Threads \ {t} : InHand(u) \subseteq live'
  PROVE  Owned'
<1>1. \A u \in Threads : InHand(u)' \subseteq live' \ held'
  <2> SUFFICES ASSUME NEW u \in Threads PROVE InHand(u)' \subseteq live' \ held'
    OBVIOUS
  <2>1. CASE u = t
    BY <2>1
  <2>2. CASE u # t
    BY <2>2
  <2> QED
    BY <2>1, <2>2
<1>2. \A u, v \in Threads : u # v => InHand(u)' \cap InHand(v)' = {}
  <2> SUFFICES ASSUME NEW u \in Threads, NEW v \in Threads, u # v
               PROVE  InHand(u)' \cap InHand(v)' = {}
    OBVIOUS
  <2>1. CASE u = t
    BY <2>1
  <2>2. CASE v = t
    BY <2>2
  <2>3. CASE u # t /\ v # t
    BY <2>3 DEF Owned
  <2> QED
    BY <2>1, <2>2, <2>3
<1>3. live' = held' \cup UNION {InHand(u)' : u \in Threads}
  <2>1. UNION {InHand(u)' : u \in Threads} = mine \cup UNION {InHand(u) : u \in Threads \ {t}}
    OBVIOUS
  <2>2. UNION {InHand(u) : u \in Threads \ {t}} \subseteq live'
    OBVIOUS
  <2> QED
    BY <2>1, <2>2
<1> QED
  BY <1>1, <1>2, <1>3 DEF Owned

\* FREE and REALLOC take out the one node of their block, if it has one.
LEMMA UnlinkedIs ==
  ASSUME MemTypeOK, Tracked, NEW ptr \in held
  PROVE  /\ Unlinked(ptr) \in [Buckets -> Seq(Addr)]
         /\ NotIn(Unlinked(ptr)[Bucket[ptr]], ptr)
         /\ \A a \in Addr \ {ptr} :
              /\ OnceIn(table[Bucket[a]], a) => OnceIn(Unlinked(ptr)[Bucket[a]], a)
              /\ NotIn(table[Bucket[a]], a) => NotIn(Unlinked(ptr)[Bucket[a]], a)
<1> DEFINE chain == table[Bucket[ptr]]
           found == {i \in DOMAIN chain : chain[i] = ptr}
           first == CHOOSE i \in found : \A j \in found : i <= j
           cut == SubSeq(chain, 1, first - 1) \o SubSeq(chain, first + 1, Len(chain))
<1>1. /\ table \in [Buckets -> Seq(Addr)] /\ ptr \in Addr
      /\ \A a \in Addr : Bucket[a] \in Buckets
  BY DEF MemTypeOK, Buckets
<1>2. chain \in Seq(Addr)
  BY <1>1
<1>3. Unlinked(ptr) = IF found = {} THEN table ELSE [table EXCEPT ![Bucket[ptr]] = cut]
  BY DEF Unlinked
<1> HIDE DEF chain, cut
<1>4. CASE ptr \in foreign
  <2>1. NotIn(chain, ptr)
    BY <1>1, <1>4 DEF Tracked, chain
  <2>2. Unlinked(ptr) = table
    BY <1>3, <2>1 DEF NotIn
  <2> QED
    BY <1>1, <2>1, <2>2 DEF chain
<1>5. CASE ptr \notin foreign
  <2>1. OnceIn(chain, ptr)
    BY <1>1, <1>5 DEF Tracked, chain
  <2>2. PICK k \in DOMAIN chain : chain[k] = ptr /\ \A j \in DOMAIN chain : chain[j] = ptr => j = k
    BY <2>1 DEF OnceIn
  <2>3. found = {k} /\ k \in Nat
    BY <1>2, <2>2, LenProperties
  <2>4. first = k
    BY <2>3
  <2>5. /\ cut \in Seq(Addr) /\ NotIn(cut, ptr)
        /\ \A a : a # ptr => /\ OnceIn(chain, a) => OnceIn(cut, a)
                             /\ NotIn(chain, a) => NotIn(cut, a)
    <3>1. cut = SubSeq(chain, 1, k - 1) \o SubSeq(chain, k + 1, Len(chain))
      BY <2>4 DEF cut
    <3> QED
      BY <1>2, <2>2, <3>1, TakenOut
  <2>6. Unlinked(ptr) = [table EXCEPT ![Bucket[ptr]] = cut]
    BY <1>3, <2>3
  <2>7. /\ Unlinked(ptr) \in [Buckets -> Seq(Addr)] /\ Unlinked(ptr)[Bucket[ptr]] = cut
        /\ \A b \in Buckets \ {Bucket[ptr]} : Unlinked(ptr)[b] = table[b]
    BY <1>1, <2>5, <2>6
  <2>8. ASSUME NEW a \in Addr \ {ptr}
        PROVE  /\ OnceIn(table[Bucket[a]], a) => OnceIn(Unlinked(ptr)[Bucket[a]], a)
               /\ NotIn(table[Bucket[a]], a) => NotIn(Unlinked(ptr)[Bucket[a]], a)
    <3>1. CASE Bucket[a] = Bucket[ptr]
      BY <2>5, <2>7, <3>1 DEF chain
    <3>2. CASE Bucket[a] # Bucket[ptr]
      BY <1>1, <2>7, <3>2
    <3> QED
      BY <3>1, <3>2
  <2> QED
    BY <2>5, <2>7, <2>8
<1> QED
  BY <1>4, <1>5

-----------------------------------------------------------------------------

LEMMA MemInvInit == MemInit => MemInv
<1> SUFFICES ASSUME MemInit PROVE MemInv
  OBVIOUS
<1>1. /\ held = {} /\ foreign = {} /\ live = {} /\ ended = FALSE
      /\ \A a \in Addr : Bucket[a] \in Buckets /\ table[Bucket[a]] = <<>>
      /\ \A t \in Threads : doing[t] = Idle
  BY DEF MemInit, Buckets
<1>2. MemTypeOK
  <2>1. <<>> \in Seq(Addr) /\ Idle \in Doing
    BY DEF Doing
  <2>2. table \in [Buckets -> Seq(Addr)] /\ doing \in [Threads -> Doing]
    BY <2>1 DEF MemInit
  <2> QED
    BY <1>1, <2>2 DEF MemTypeOK
<1>3. Tracked
  BY <1>1 DEF Tracked, NotIn
<1>4. \A t \in Threads : InHand(t) = {}
  BY <1>1 DEF InHand
<1>5. Owned
  BY <1>1, <1>4 DEF Owned
<1> QED
  BY <1>2, <1>3, <1>5 DEF MemInv

LEMMA MemInvAlloc ==
  ASSUME MemInv, NEW t \in Threads, CALLOC(t)
  PROVE  MemInv'
<1>1. MemTypeOK /\ Tracked /\ Owned
  BY DEF MemInv
<1>2. PICK a \in Addr \ live :
        /\ live' = live \cup {a} /\ doing[t] = Idle
        /\ doing' = [doing EXCEPT ![t] = [step |-> "insert", ptr |-> a]]
        /\ UNCHANGED <<table, held, foreign, ended>>
  BY DEF CALLOC, Begins
<1>3. /\ doing' \in [Threads -> Doing] /\ InHand(t)' = {a}
      /\ \A u \in Threads \ {t} : InHand(u)' = InHand(u)
  BY <1>1, <1>2, HandTakes
<1>4. InHand(t) = {}
  BY <1>1, <1>2, HandIs
<1>5. Owned'
  <2>1. /\ live = held \cup UNION {InHand(u) : u \in Threads \ {t}}
        /\ held \subseteq live /\ foreign \subseteq held
        /\ \A u \in Threads \ {t} : InHand(u) \subseteq live \ held
    BY <1>1, <1>4 DEF Owned
  <2>2. held' \cup {a} = live' \ UNION {InHand(u) : u \in Threads \ {t}}
    BY <1>2, <2>1
  <2>3. {a} \cap held' = {}
    BY <1>2, <2>1
  <2>4. \A u \in Threads \ {t} : InHand(u) \cap ({a} \cup held') = {}
    BY <1>2, <2>1
  <2>5. \A u \in Threads \ {t} : InHand(u) \subseteq live'
    BY <1>2, <2>1
  <2> QED
    BY <1>1, <1>2, <1>3, <2>1, <2>2, <2>3, <2>4, <2>5, OwnedMoves
<1>6. MemTypeOK'
  BY <1>1, <1>2, <1>3 DEF MemTypeOK
<1>7. Tracked'
  BY <1>1, <1>2 DEF Tracked
<1> QED
  BY <1>5, <1>6, <1>7 DEF MemInv

LEMMA MemInvInsert ==
  ASSUME MemInv, NEW t \in Threads, Insert(t)
  PROVE  MemInv'
<1> DEFINE ptr == doing[t].ptr
<1>1. MemTypeOK /\ Tracked /\ Owned
  BY DEF MemInv
<1>2. /\ doing[t].step = "insert" /\ doing' = [doing EXCEPT ![t] = Idle]
      /\ table' = [table EXCEPT ![Bucket[ptr]] = <<ptr>> \o table[Bucket[ptr]]]
      /\ held' = held \cup {ptr} /\ UNCHANGED <<live, foreign, ended>>
  BY DEF Insert, IsAt
<1>3. ptr \in Addr /\ InHand(t) = {ptr}
  BY <1>1, <1>2, HandIs
<1>4. /\ doing' \in [Threads -> Doing] /\ InHand(t)' = {}
      /\ \A u \in Threads \ {t} : InHand(u)' = InHand(u)
  BY <1>1, <1>2, HandDrops
<1> HIDE DEF ptr
<1>5. /\ ptr \in live \ held /\ foreign \subseteq held
      /\ \A u \in Threads \ {t} : InHand(u) \subseteq live \ held /\ ptr \notin InHand(u)
  BY <1>1, <1>3 DEF Owned
<1>6. Owned'
  <2>1. live = held \cup {ptr} \cup UNION {InHand(u) : u \in Threads \ {t}}
    BY <1>1, <1>3 DEF Owned
  <2>2. held' \cup {} = live' \ UNION {InHand(u) : u \in Threads \ {t}}
    BY <1>2, <1>5, <2>1
  <2>3. \A u \in Threads \ {t} : InHand(u) \cap ({} \cup held') = {}
    BY <1>2, <1>5
  <2>4. foreign' \subseteq held' /\ \A u \in Threads \ {t} : InHand(u) \subseteq live'
    BY <1>2, <1>5
  <2> QED
    BY <1>1, <1>4, <2>2, <2>3, <2>4, OwnedMoves
<1>7. /\ table \in [Buckets -> Seq(Addr)]
      /\ \A a \in Addr : Bucket[a] \in Buckets
  BY <1>1 DEF MemTypeOK, Buckets
<1>8. /\ <<ptr>> \o table[Bucket[ptr]] \in Seq(Addr)
      /\ NotIn(table[Bucket[ptr]], ptr) => OnceIn(<<ptr>> \o table[Bucket[ptr]], ptr)
      /\ \A a : a # ptr =>
           /\ OnceIn(table[Bucket[ptr]], a) => OnceIn(<<ptr>> \o table[Bucket[ptr]], a)
           /\ NotIn(table[Bucket[ptr]], a) => NotIn(<<ptr>> \o table[Bucket[ptr]], a)
  <2>1. table[Bucket[ptr]] \in Seq(Addr)
    BY <1>3, <1>7
  <2> QED
    BY <1>3, <2>1, Prepended
<1>9. /\ table' \in [Buckets -> Seq(Addr)]
      /\ table'[Bucket[ptr]] = <<ptr>> \o table[Bucket[ptr]]
      /\ \A b \in Buckets \ {Bucket[ptr]} : table'[b] = table[b]
  BY <1>2, <1>3, <1>7, <1>8
<1>10. MemTypeOK'
  BY <1>1, <1>2, <1>3, <1>4, <1>9 DEF MemTypeOK
<1>11. Tracked'
  <2> SUFFICES ASSUME NEW a \in Addr
               PROVE  IF a \in held' \ foreign' THEN OnceIn(table'[Bucket[a]], a)
                                                ELSE NotIn(table'[Bucket[a]], a)
    BY DEF Tracked
  <2>1. CASE a = ptr
    <3>1. a \in held' \ foreign' /\ a \notin held
      BY <1>2, <1>5, <2>1
    <3>2. NotIn(table[Bucket[ptr]], ptr)
      BY <1>1, <2>1, <3>1 DEF Tracked
    <3> QED
      BY <1>8, <1>9, <2>1, <3>1, <3>2
  <2>2. CASE a # ptr
    <3>1. a \in held' \ foreign' <=> a \in held \ foreign
      BY <1>2, <2>2
    <3>2. IF a \in held \ foreign THEN OnceIn(table[Bucket[a]], a)
                                 ELSE NotIn(table[Bucket[a]], a)
      BY <1>1 DEF Tracked
    <3>3. CASE Bucket[a] = Bucket[ptr]
      BY <1>8, <1>9, <2>2, <3>1, <3>2, <3>3
    <3>4. CASE Bucket[a] # Bucket[ptr]
      <4>1. table'[Bucket[a]] = table[Bucket[a]]
        BY <1>7, <1>9, <3>4
      <4> QED
        BY <3>1, <3>2, <4>1
    <3> QED
      BY <3>3, <3>4
  <2> QED
    BY <2>1, <2>2
<1> QED
  BY <1>6, <1>10, <1>11 DEF MemInv

\* FREE and REALLOC begin alike.
LEMMA MemInvTake ==
  ASSUME MemInv, NEW t \in Threads, FREE(t) \/ REALLOC(t)
  PROVE  MemInv'
<1>1. MemTypeOK /\ Tracked /\ Owned
  BY DEF MemInv
<1>2. PICK ptr \in held, step \in {"free", "realloc"} :
        /\ doing[t] = Idle
        /\ doing' = [doing EXCEPT ![t] = [step |-> step, ptr |-> ptr]]
        /\ held' = held \ {ptr} /\ foreign' = foreign \ {ptr}
        /\ table' = Unlinked(ptr) /\ UNCHANGED <<live, ended>>
  <2>1. ASSUME FREE(t)
        PROVE  \E ptr \in held :
                 /\ doing[t] = Idle
                 /\ doing' = [doing EXCEPT ![t] = [step |-> "free", ptr |-> ptr]]
                 /\ held' = held \ {ptr} /\ foreign' = foreign \ {ptr}
                 /\ table' = Unlinked(ptr) /\ UNCHANGED <<live, ended>>
    BY <2>1 DEF FREE, Begins
  <2>2. ASSUME REALLOC(t)
        PROVE  \E ptr \in held :
                 /\ doing[t] = Idle
                 /\ doing' = [doing EXCEPT ![t] = [step |-> "realloc", ptr |-> ptr]]
                 /\ held' = held \ {ptr} /\ foreign' = foreign \ {ptr}
                 /\ table' = Unlinked(ptr) /\ UNCHANGED <<live, ended>>
    BY <2>2 DEF REALLOC, Begins
  <2> QED
    BY <2>1, <2>2
<1>3. ptr \in Addr
  BY <1>1 DEF MemTypeOK
<1>4. /\ doing' \in [Threads -> Doing] /\ InHand(t)' = {ptr}
      /\ \A u \in Threads \ {t} : InHand(u)' = InHand(u)
  BY <1>1, <1>2, <1>3, HandTakes
<1>5. InHand(t) = {}
  BY <1>1, <1>2, HandIs
<1>6. Owned'
  <2>1. /\ live = held \cup UNION {InHand(u) : u \in Threads \ {t}}
        /\ foreign \subseteq held
        /\ \A u \in Threads \ {t} : InHand(u) \subseteq live \ held
    BY <1>1, <1>5 DEF Owned
  <2>2. held' \cup {ptr} = live' \ UNION {InHand(u) : u \in Threads \ {t}}
    BY <1>2, <2>1
  <2>3. /\ {ptr} \cap held' = {} /\ foreign' \subseteq held'
        /\ \A u \in Threads \ {t} : InHand(u) \subseteq live'
    BY <1>2, <2>1
  <2>4. \A u \in Threads \ {t} : InHand(u) \cap ({ptr} \cup held') = {}
    BY <1>2, <2>1
  <2> QED
    BY <1>1, <1>4, <2>2, <2>3, <2>4, OwnedMoves
<1>7. /\ table' \in [Buckets -> Seq(Addr)]
      /\ NotIn(table'[Bucket[ptr]], ptr)
      /\ \A a \in Addr \ {ptr} :
           /\ OnceIn(table[Bucket[a]], a) => OnceIn(table'[Bucket[a]], a)
           /\ NotIn(table[Bucket[a]], a) => NotIn(table'[Bucket[a]], a)
  BY <1>1, <1>2, UnlinkedIs
<1>8. MemTypeOK'
  BY <1>1, <1>2, <1>4, <1>7 DEF MemTypeOK
<1>9. Tracked'
  <2> SUFFICES ASSUME NEW a \in Addr
               PROVE  IF a \in held' \ foreign' THEN OnceIn(table'[Bucket[a]], a)
                                                ELSE NotIn(table'[Bucket[a]], a)
    BY DEF Tracked
  <2>1. CASE a = ptr
    BY <1>2, <1>7, <2>1
  <2>2. CASE a # ptr
    <3>1. IF a \in held \ foreign THEN OnceIn(table[Bucket[a]], a)
                                 ELSE NotIn(table[Bucket[a]], a)
      BY <1>1 DEF Tracked
    <3>2. a \in held' \ foreign' <=> a \in held \ foreign
      BY <1>2, <2>2
    <3> QED
      BY <1>7, <2>2, <3>1, <3>2
  <2> QED
    BY <2>1, <2>2
<1> QED
  BY <1>6, <1>8, <1>9 DEF MemInv

LEMMA MemInvFreed ==
  ASSUME MemInv, NEW t \in Threads, Freed(t)
  PROVE  MemInv'
<1> DEFINE ptr == doing[t].ptr
<1>1. MemTypeOK /\ Tracked /\ Owned
  BY DEF MemInv
<1>2. /\ doing[t].step = "free" /\ doing' = [doing EXCEPT ![t] = Idle]
      /\ live' = live \ {ptr} /\ UNCHANGED <<table, held, foreign, ended>>
  BY DEF Freed, IsAt
<1>3. ptr \in Addr /\ InHand(t) = {ptr}
  BY <1>1, <1>2, HandIs
<1>4. /\ doing' \in [Threads -> Doing] /\ InHand(t)' = {}
      /\ \A u \in Threads \ {t} : InHand(u)' = InHand(u)
  BY <1>1, <1>2, HandDrops
<1> HIDE DEF ptr
<1>5. /\ ptr \in live \ held /\ foreign \subseteq held
      /\ \A u \in Threads \ {t} : InHand(u) \subseteq live \ held /\ ptr \notin InHand(u)
      /\ live = held \cup {ptr} \cup UNION {InHand(u) : u \in Threads \ {t}}
  BY <1>1, <1>3 DEF Owned
<1>6. Owned'
  <2>1. held' \cup {} = live' \ UNION {InHand(u) : u \in Threads \ {t}}
    BY <1>2, <1>5
  <2>2. \A u \in Threads \ {t} : InHand(u) \cap ({} \cup held') = {}
    BY <1>2, <1>5
  <2>3. foreign' \subseteq held' /\ \A u \in Threads \ {t} : InHand(u) \subseteq live'
    BY <1>2, <1>5
  <2> QED
    BY <1>1, <1>4, <2>1, <2>2, <2>3, OwnedMoves
<1>7. MemTypeOK' /\ Tracked'
  BY <1>1, <1>2, <1>4 DEF MemTypeOK, Tracked
<1> QED
  BY <1>6, <1>7 DEF MemInv

LEMMA MemInvMoved ==
  ASSUME MemInv, NEW t \in Threads, Moved(t)
  PROVE  MemInv'
<1> DEFINE ptr == doing[t].ptr
<1>1. MemTypeOK /\ Tracked /\ Owned
  BY DEF MemInv
<1>2. PICK a \in (Addr \ live) \cup {ptr} :
        /\ doing[t].step = "realloc" /\ live' = (live \ {ptr}) \cup {a}
        /\ doing' = [doing EXCEPT ![t] = [step |-> "insert", ptr |-> a]]
        /\ UNCHANGED <<table, held, foreign, ended>>
  BY DEF Moved, IsAt
<1>3. ptr \in Addr /\ InHand(t) = {ptr}
  BY <1>1, <1>2, HandIs
<1> HIDE DEF ptr
<1>4. /\ doing' \in [Threads -> Doing] /\ InHand(t)' = {a}
      /\ \A u \in Threads \ {t} : InHand(u)' = InHand(u)
  BY <1>1, <1>2, <1>3, HandTakes
<1>5. /\ ptr \in live \ held /\ foreign \subseteq held /\ held \subseteq live
      /\ \A u \in Threads \ {t} : InHand(u) \subseteq live \ held /\ ptr \notin InHand(u)
      /\ live = held \cup {ptr} \cup UNION {InHand(u) : u \in Threads \ {t}}
  BY <1>1, <1>3 DEF Owned
<1>6. Owned'
  <2>1. a \notin held /\ \A u \in Threads \ {t} : a \notin InHand(u)
    BY <1>2, <1>5
  <2>2. held' \cup {a} = live' \ UNION {InHand(u) : u \in Threads \ {t}}
    BY <1>2, <1>5, <2>1
  <2>3. \A u \in Threads \ {t} : InHand(u) \cap ({a} \cup held') = {}
    BY <1>2, <1>5, <2>1
  <2>4. /\ foreign' \subseteq held' /\ {a} \cap held' = {}
        /\ \A u \in Threads \ {t} : InHand(u) \subseteq live'
    BY <1>2, <1>5, <2>1
  <2> QED
    BY <1>1, <1>4, <2>2, <2>3, <2>4, OwnedMoves
<1>7. MemTypeOK' /\ Tracked'
  <2>1. live' \subseteq Addr
    BY <1>1, <1>2, <1>3 DEF MemTypeOK
  <2> QED
    BY <1>1, <1>2, <1>4, <2>1 DEF MemTypeOK, Tracked
<1> QED
  BY <1>6, <1>7 DEF MemInv

LEMMA MemInvLibrary ==
  ASSUME MemInv, Library
  PROVE  MemInv'
<1>1. MemTypeOK /\ Tracked /\ Owned
  BY DEF MemInv
<1>2. PICK a \in Addr \ live :
        /\ live' = live \cup {a} /\ held' = held \cup {a} /\ foreign' = foreign \cup {a}
        /\ UNCHANGED <<table, doing, ended>>
  BY DEF Library
<1>3. \A t \in Threads : InHand(t)' = InHand(t)
  BY <1>2 DEF InHand
<1>4. a \notin held /\ \A t \in Threads : a \notin InHand(t)
  BY <1>1, <1>2 DEF Owned
<1>5. Owned'
  <2>1. \A t \in Threads : InHand(t)' \subseteq live' \ held'
    BY <1>1, <1>2, <1>3, <1>4 DEF Owned
  <2>2. \A t, u \in Threads : t # u => InHand(t)' \cap InHand(u)' = {}
    BY <1>1, <1>3 DEF Owned
  <2>3. UNION {InHand(t)' : t \in Threads} = UNION {InHand(t) : t \in Threads}
    BY <1>3
  <2>4. live' = held' \cup UNION {InHand(t)' : t \in Threads}
    BY <1>1, <1>2, <2>3 DEF Owned
  <2>5. foreign' \subseteq held'
    BY <1>1, <1>2 DEF Owned
  <2> QED
    BY <2>1, <2>2, <2>4, <2>5 DEF Owned
<1>6. MemTypeOK'
  BY <1>1, <1>2 DEF MemTypeOK
<1>7. held' \ foreign' = held \ foreign
  BY <1>2, <1>4
<1>8. Tracked'
  BY <1>1, <1>2, <1>7 DEF Tracked
<1> QED
  BY <1>5, <1>6, <1>8 DEF MemInv

LEMMA MemInvCleanup ==
  ASSUME MemInv, mem_cleanup
  PROVE  MemInv'
<1>1. MemTypeOK /\ Tracked /\ Owned
  BY DEF MemInv
<1>2. /\ ended' = TRUE /\ \A t \in Threads : doing[t] = Idle
      /\ live' = live \ {a \in Addr : \E i \in DOMAIN table[Bucket[a]] : table[Bucket[a]][i] = a}
      /\ table' = [b \in Buckets |-> <<>>] /\ held' = held \cap foreign
      /\ UNCHANGED <<foreign, doing>>
  BY DEF mem_cleanup
<1>3. \A t \in Threads : InHand(t) = {} /\ InHand(t)' = {}
  BY <1>2 DEF InHand
<1>4. live = held /\ foreign \subseteq held /\ held \subseteq Addr
  BY <1>1, <1>3 DEF Owned, MemTypeOK
<1>5. ASSUME NEW a \in Addr
      PROVE  (\E i \in DOMAIN table[Bucket[a]] : table[Bucket[a]][i] = a) <=> a \in held \ foreign
  BY <1>1 DEF Tracked, OnceIn, NotIn
<1>6. live' = held'
  BY <1>2, <1>4, <1>5
<1>7. Owned'
  BY <1>2, <1>3, <1>4, <1>6 DEF Owned
<1>8. \A a \in Addr : table'[Bucket[a]] = <<>>
  BY <1>2 DEF Buckets
<1>9. Tracked'
  <2>1. held' \ foreign' = {}
    BY <1>2
  <2> QED
    BY <1>8, <2>1 DEF Tracked, NotIn
<1>10. MemTypeOK'
  <2>1. table' \in [Buckets -> Seq(Addr)]
    BY <1>2
  <2> QED
    BY <1>1, <1>2, <1>4, <1>6, <2>1 DEF MemTypeOK
<1> QED
  BY <1>7, <1>9, <1>10 DEF MemInv

LEMMA MemInvStep == ASSUME MemInv, [MemNext]_memvars PROVE MemInv'
<1>1. ASSUME NEW t \in Threads,
             CALLOC(t) \/ Insert(t) \/ FREE(t) \/ Freed(t) \/ REALLOC(t) \/ Moved(t)
      PROVE  MemInv'
  BY <1>1, MemInvAlloc, MemInvInsert, MemInvTake, MemInvFreed, MemInvMoved
<1>2. CASE Library \/ mem_cleanup
  BY <1>2, MemInvLibrary, MemInvCleanup
<1>3. CASE UNCHANGED memvars
  <2>1. \A t : InHand(t)' = InHand(t)
    BY <1>3 DEF memvars, InHand
  <2> QED
    BY <1>3, <2>1 DEF memvars, MemInv, MemTypeOK, Tracked, Owned
<1> QED
  BY <1>1, <1>2, <1>3 DEF MemNext

-----------------------------------------------------------------------------

LEMMA TrackedIsExact ==
  ASSUME MemInv
  PROVE  TrackedExactly
<1>1. ASSUME NEW a \in Addr
      PROVE  Cardinality(Nodes(a)) = IF a \in held \ foreign THEN 1 ELSE 0
  <2>1. table[Bucket[a]] \in Seq(Addr)
    BY DEF MemInv, MemTypeOK, Buckets
  <2>2. IF a \in held \ foreign THEN OnceIn(table[Bucket[a]], a) ELSE NotIn(table[Bucket[a]], a)
    BY DEF MemInv, Tracked
  <2> QED
    BY <2>1, <2>2, NodesCounted DEF Nodes
<1> QED
  BY <1>1 DEF MemInv, Owned, TrackedExactly

LEMMA UtilStep ==
  ASSUME SemInv, MemInv, [Next]_vars
  PROVE  SemInv' /\ MemInv' /\ [SemNext]_semvars
<1>1. [SemNext]_semvars /\ [MemNext]_memvars
  BY DEF Next, vars
<1> QED
  BY <1>1, SemInvStep, MemInvStep

-----------------------------------------------------------------------------

(* The wrappers' inductive invariant: who has the mutex of sys_sem_t is where *)
(* the program counters say, each slot is counted, with a user or with the    *)
(* closer, a thread that has just given a slot back keeps the count above     *)
(* zero until it leaves; and each block of memory is tracked and owned once.  *)
THEOREM UtilInvariant == Spec => [](SemInv /\ MemInv)
<1>1. Init => SemInv /\ MemInv
  BY SemInvInit, MemInvInit DEF Init
<1>2. SemInv /\ MemInv /\ [Next]_vars => SemInv' /\ MemInv'
  BY UtilStep
<1> QED
  BY <1>1, <1>2, PTL DEF Spec

(* Every variable of the two wrappers stays in its range: among them the      *)
(* semaphore's count, never negative and never above the number of slots.     *)
THEOREM UtilTypes == Spec => []TypeOK
<1>1. SemInv /\ MemInv => TypeOK
  BY DEF SemInv, MemInv, TypeOK
<1> QED
  BY <1>1, UtilInvariant, PTL

(* The debug build's table has one node per block of the program, whatever    *)
(* the threads free and move at once: no leak is reported that is none, and   *)
(* no block is freed twice.                                                   *)
THEOREM AlwaysTracked == Spec => []TrackedExactly
<1>1. SemInv /\ MemInv => TrackedExactly
  BY TrackedIsExact
<1> QED
  BY <1>1, UtilInvariant, PTL

(* The portable semaphore is a semaphore: each call takes effect at once,     *)
(* none takes a slot that is not there or refuses one that is, and it is      *)
(* destroyed only when nobody is in a call on it.                             *)
THEOREM SemaphorePromised == Spec => Promised!Spec
<1>1. Init => Promised!Init
  BY InitPromised DEF Init
<1>2. SemInv /\ MemInv /\ [Next]_vars => [Promised!Next]_(Promised!vars)
  BY UtilStep, StepPromised
<1> QED
  BY <1>1, <1>2, UtilInvariant, PTL DEF Spec, Promised!Spec
=============================================================================
