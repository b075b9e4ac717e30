------------------------------ MODULE MemTracker ------------------------------
(***************************************************************************)
(* The allocation wrappers of util.c in a debug build: every block they    *)
(* hand out has a MemNode in a hash table under mem_mutex, which FREE and  *)
(* REALLOC look the block up in and mem_cleanup reports leaks from.        *)
(*                                                                         *)
(* What is done under mem_mutex is one step; malloc, realloc and free are  *)
(* called without it, and the allocator gives an address out again as soon *)
(* as it is free.                                                          *)
(***************************************************************************)
EXTENDS Integers, Sequences, FiniteSets

CONSTANTS Threads, Addr, Bucket  \* Bucket: hash_ptr, a function of addresses

VARIABLES live,     \* the allocator's blocks in use
          table,    \* mem_hash_table: the addresses in each chain's nodes
          held,     \* blocks the program has
          foreign,  \* those of them that a library allocated
          doing,    \* what each thread does
          ended     \* mem_cleanup is over

memvars == <<live, table, held, foreign, doing, ended>>

Buckets == {Bucket[a] : a \in Addr}
Idle == [step |-> "idle"]
Doing == {Idle} \cup [step : {"insert", "free", "realloc"}, ptr : Addr]

MemTypeOK ==
  /\ live \subseteq Addr /\ held \subseteq Addr /\ foreign \subseteq Addr
  /\ table \in [Buckets -> Seq(Addr)]
  /\ doing \in [Threads -> Doing]
  /\ ended \in BOOLEAN

MemInit ==
  /\ live = {} /\ held = {} /\ foreign = {} /\ ended = FALSE
  /\ table = [b \in Buckets |-> <<>>]
  /\ doing = [t \in Threads |-> Idle]

Begins(t, step, ptr) == doing[t] = Idle /\ doing' = [doing EXCEPT ![t] = [step |-> step, ptr |-> ptr]]
IsAt(t, step) == doing[t].step = step

\* The table without the first node of this address, if there is one.
Unlinked(ptr) ==
  LET chain == table[Bucket[ptr]]
      found == {i \in DOMAIN chain : chain[i] = ptr}
      first == CHOOSE i \in found : \A j \in found : i <= j
  IN  IF found = {} THEN table
      ELSE [table EXCEPT ![Bucket[ptr]] =
              SubSeq(chain, 1, first - 1) \o SubSeq(chain, first + 1, Len(chain))]

\* malloc or calloc, and REALPATH's realpath().
CALLOC(t) ==
  /\ ~ended
  /\ \E a \in Addr \ live : live' = live \cup {a} /\ Begins(t, "insert", a)
  /\ UNCHANGED <<table, held, foreign, ended>>

\* Its node goes to the head of the chain, and the caller has it.
Insert(t) ==
  LET ptr == doing[t].ptr
  IN  /\ IsAt(t, "insert") /\ doing' = [doing EXCEPT ![t] = Idle]
      /\ table' = [table EXCEPT ![Bucket[ptr]] = <<ptr>> \o @]
      /\ held' = held \cup {ptr}
      /\ UNCHANGED <<live, foreign, ended>>

\* A block that comes from a library, as getline's does.
Library ==
  /\ ~ended
  /\ \E a \in Addr \ live :
       live' = live \cup {a} /\ held' = held \cup {a} /\ foreign' = foreign \cup {a}
  /\ UNCHANGED <<table, doing, ended>>

\* Mutant: the block is freed first, and its node is forgotten.
FREE_early(t) ==
  /\ ~ended
  /\ \E ptr \in held : /\ Begins(t, "free", ptr) /\ held' = held \ {ptr}
                       /\ foreign' = foreign \ {ptr} /\ live' = live \ {ptr}
  /\ UNCHANGED <<table, ended>>

\* The node goes first; a block without one is freed all the same.
FREE(t) ==
  /\ ~ended
  /\ \E ptr \in held : /\ Begins(t, "free", ptr) /\ held' = held \ {ptr}
                       /\ foreign' = foreign \ {ptr} /\ table' = Unlinked(ptr)
  /\ UNCHANGED <<live, ended>>

Freed(t) ==
  /\ IsAt(t, "free") /\ doing' = [doing EXCEPT ![t] = Idle]
  /\ live' = live \ {doing[t].ptr}
  /\ UNCHANGED <<table, held, foreign, ended>>

\* The node is taken out while the block may move.  A size of zero frees.
REALLOC(t) ==
  /\ ~ended
  /\ \E ptr \in held : /\ Begins(t, "realloc", ptr) /\ held' = held \ {ptr}
                       /\ foreign' = foreign \ {ptr} /\ table' = Unlinked(ptr)
  /\ UNCHANGED <<live, ended>>

\* realloc: the old address is free the moment the new one is in use.
Moved(t) ==
  LET ptr == doing[t].ptr
  IN  /\ IsAt(t, "realloc")
      /\ \E a \in (Addr \ live) \cup {ptr} :
           /\ live' = (live \ {ptr}) \cup {a}
           /\ doing' = [doing EXCEPT ![t] = [step |-> "insert", ptr |-> a]]
      /\ UNCHANGED <<table, held, foreign, ended>>

\* main has returned and its threads are done: what is left is reported, freed.
mem_cleanup ==
  /\ ~ended /\ ended' = TRUE
  /\ \A t \in Threads : doing[t] = Idle
  /\ live' = live \ {a \in Addr : \E i \in DOMAIN table[Bucket[a]] : table[Bucket[a]][i] = a}
  /\ table' = [b \in Buckets |-> <<>>] /\ held' = held \cap foreign
  /\ UNCHANGED <<foreign, doing>>

MemNext ==
  \/ \E t \in Threads : CALLOC(t) \/ Insert(t) \/ FREE(t) \/ Freed(t) \/ REALLOC(t) \/ Moved(t)
  \/ Library \/ mem_cleanup

-----------------------------------------------------------------------------

Nodes(a) == {i \in DOMAIN table[Bucket[a]] : table[Bucket[a]][i] = a}
InHand(t) == IF doing[t] = Idle THEN {} ELSE {doing[t].ptr}

(* The table has one node for each block the program has from the wrappers,   *)
(* and none for another, so that the leaks reported are leaks; and no block   *)
(* is freed twice or freed while it is in use: what a thread is about to free *)
(* or to move is live, is nobody else's, and has no node.  FREE_wrapper and   *)
(* REALLOC_wrapper against each other and against an allocator that gives the *)
(* same address out again.                                                    *)
TrackedExactly ==
  /\ \A a \in Addr : Cardinality(Nodes(a)) = IF a \in held \ foreign THEN 1 ELSE 0
  /\ \A t \in Threads : InHand(t) \subseteq live \ held
  /\ \A t, u \in Threads : t # u => InHand(t) \cap InHand(u) = {}
  /\ live = held \cup UNION {InHand(t) : t \in Threads}
=============================================================================
