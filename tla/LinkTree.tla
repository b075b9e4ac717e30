------------------------------- MODULE LinkTree -------------------------------
(***************************************************************************)
(* The tree of directory listings: LinkTable, path_to_Link and             *)
(* path_to_LinkTable of src/src/link.c, the FUSE calls of fuse_local.c     *)
(* that use them, and the reference an open Cache keeps (cache.c).         *)
(*                                                                         *)
(* A directory is the sequence of names of its path, the root is <<>>.     *)
(* link_lock is a variable: path_to_Link_recursive walks the tree under it *)
(* and lets it go while it loads a listing from the server.  Every other   *)
(* section under it is one action.                                         *)
(***************************************************************************)
EXTENDS Integers, Sequences, FiniteSets

CONSTANTS Threads,   \* FUSE threads, each with at most one open directory
                     \* and one open file
          Dirs,      \* the directories below the root, with each its parents
          TblIds,    \* heap cells for LinkTables; one of them is RootTbl
          RootTbl,
          Id3,       \* Sonic ID3 mode: the root listing comes with the
                     \* listings of its entries already attached
          None

Root == <<>>
AllDirs == Dirs \cup {Root}
Up(d) == SubSeq(d, 1, Len(d) - 1)

ASSUME TreeAssumption ==
  /\ Dirs \subseteq Seq(UNION {{d[n] : n \in DOMAIN d} : d \in Dirs})
  /\ \A d \in Dirs : d # Root /\ \A n \in 1..Len(d) : SubSeq(d, 1, n) \in Dirs
  /\ IsFiniteSet(Threads) /\ IsFiniteSet(TblIds)
  /\ RootTbl \in TblIds /\ Id3 \in BOOLEAN
  /\ None \notin TblIds \cup Threads \cup AllDirs

VARIABLES link_lock,  \* who holds it
          tbl,        \* the LinkTables
          next_table, \* next_table of the link for directory d in table i
          pc, op,     \* where each thread is, in which FUSE call
          goal,       \* the directory it is about
          cur,        \* linktbl of path_to_Link_recursive
          held,       \* the references the call must still drop
          dirh,       \* fi->fh of the thread's open directory
          fileh       \* the table of the link of its open file

vars == <<link_lock, tbl, next_table, pc, op, goal, cur, held, dirh, fileh>>

\* opened: the handles on the Cache of the one file we follow in the directory.
FreeTbl == [dir |-> None, refcount |-> 0, orphaned |-> FALSE, parent |-> None,
            opened |-> 0]
NewTbl(d, parent, refs) == [FreeTbl EXCEPT !.dir = d, !.parent = parent,
                                           !.refcount = refs]

Tops == {d \in Dirs : Len(d) = 1}

\* In ID3 mode XML_parser_id3_root attaches a table to each entry of the root,
\* and sets neither its parent_tbl nor its parent_link.
Init ==
  /\ link_lock = None
  /\ \E cell \in [IF Id3 THEN Tops ELSE {} -> TblIds \ {RootTbl}] :
       /\ \A c, d \in DOMAIN cell : cell[c] = cell[d] => c = d
       /\ tbl = [i \in TblIds |->
                   IF i = RootTbl THEN NewTbl(Root, None, 0)
                   ELSE IF \E d \in DOMAIN cell : cell[d] = i
                   THEN NewTbl(CHOOSE d \in DOMAIN cell : cell[d] = i, None, 0)
                   ELSE FreeTbl]
       /\ next_table = [i \in TblIds |-> [d \in Dirs |->
                          IF i = RootTbl /\ d \in DOMAIN cell THEN cell[d]
                          ELSE None]]
  /\ pc = [t \in Threads |-> "idle"] /\ op = [t \in Threads |-> "none"]
  /\ goal = [t \in Threads |-> Root] /\ cur = [t \in Threads |-> None]
  /\ held = [t \in Threads |-> <<>>]
  /\ dirh = [t \in Threads |-> None] /\ fileh = [t \in Threads |-> None]

Goto(t, label) == pc' = [pc EXCEPT ![t] = label]
handles == <<dirh, fileh>>

-----------------------------------------------------------------------------
(* The FUSE calls that look a path up. *)

Call(t, name, dir) ==
  /\ pc[t] = "idle"
  /\ op' = [op EXCEPT ![t] = name]
  /\ goal' = [goal EXCEPT ![t] = dir]
  /\ Goto(t, "lookup")
  /\ UNCHANGED <<link_lock, tbl, next_table, cur, held, handles>>

\* getattr, or a read past the cache, of an entry of directory d.
Stat(t, d) == Call(t, "stat", d)

\* open, with the cache on, of the file we follow in directory d.
Open(t, d) == fileh[t] = None /\ Call(t, "open", d)

Opendir(t, d) == dirh[t] = None /\ Call(t, "opendir", d)

\* The directory whose table holds the link looked up: for opendir of d it is
\* the link of d itself.
LinkDir(t) == IF op[t] = "opendir" THEN Up(goal[t]) ELSE goal[t]

\* opendir of the root: LinkTable_ref.
OpendirRoot(t) ==
  /\ pc[t] = "idle" /\ dirh[t] = None /\ link_lock = None
  /\ tbl' = [tbl EXCEPT ![RootTbl].refcount = @ + 1,
                        ![RootTbl].orphaned = FALSE]
  /\ dirh' = [dirh EXCEPT ![t] = RootTbl]
  /\ UNCHANGED <<link_lock, next_table, pc, op, goal, cur, held, fileh>>

-----------------------------------------------------------------------------
(* path_to_Link and path_to_Link_recursive.                                *)

StartWalk(t) ==
  /\ pc[t] = "lookup" /\ link_lock = None
  /\ link_lock' = t
  /\ cur' = [cur EXCEPT ![t] = RootTbl]
  /\ Goto(t, "walk")
  /\ UNCHANGED <<tbl, next_table, op, goal, held, handles>>

\* The next directory on t's path below its current table.
Hop(t) == SubSeq(goal[t], 1, Len(tbl[cur[t]].dir) + 1)

\* Mutant: path_to_Link and its caller both take the reference.
Found_twice(t) ==
  /\ pc[t] = "walk" /\ tbl[cur[t]].dir = LinkDir(t)
  /\ tbl' = [tbl EXCEPT ![cur[t]].refcount = @ + 2]
  /\ held' = [held EXCEPT ![t] = @ \o <<cur[t], cur[t]>>]
  /\ cur' = [cur EXCEPT ![t] = None]
  /\ link_lock' = None
  /\ Goto(t, IF op[t] = "open" /\ held[t] = <<>> THEN "lookup" ELSE "unref")
  /\ UNCHANGED <<next_table, op, goal, handles>>

\* The last level: the link is found, and a reference taken on its table.
Found(t) ==
  /\ pc[t] = "walk" /\ tbl[cur[t]].dir = LinkDir(t)
  /\ tbl' = [tbl EXCEPT ![cur[t]].refcount = @ + 1]
  /\ held' = [held EXCEPT ![t] = Append(@, cur[t])]
  /\ cur' = [cur EXCEPT ![t] = None]
  /\ link_lock' = None
  /\ Goto(t, CASE op[t] = "opendir" -> "attach"
               [] op[t] = "open" /\ held[t] = <<>> -> "lookup"
               [] op[t] = "open" /\ held[t] # <<>> -> "cache"
               [] OTHER -> "unref")
  /\ UNCHANGED <<next_table, op, goal, handles>>

\* Where a lookup that returns NULL leads: when it is Cache_open's, fs_open
\* ends the whole process.
Failed(t) == IF op[t] = "open" /\ held[t] # <<>> THEN "exit" ELSE "unref"

\* The listing has no such entry: nothing more to hold.
NotFound(t) ==
  /\ pc[t] = "walk"
  /\ link_lock' = None
  /\ cur' = [cur EXCEPT ![t] = None]
  /\ Goto(t, Failed(t))
  /\ UNCHANGED <<tbl, next_table, op, goal, held, handles>>

Descend(t) ==
  /\ pc[t] = "walk" /\ tbl[cur[t]].dir # LinkDir(t)
  /\ next_table[cur[t]][Hop(t)] # None
  /\ cur' = [cur EXCEPT ![t] = next_table[cur[t]][Hop(t)]]
  /\ UNCHANGED <<link_lock, tbl, next_table, pc, op, goal, held, handles>>

\* Mutant: the table is left without a reference while the lock is gone.
StartLoad_unpinned(t) ==
  /\ pc[t] = "walk" /\ tbl[cur[t]].dir # LinkDir(t)
  /\ next_table[cur[t]][Hop(t)] = None
  /\ link_lock' = None /\ Goto(t, "load")
  /\ UNCHANGED <<tbl, next_table, op, goal, cur, held, handles>>

\* No listing below: keep the current table alive, unlock and load one.
StartLoad(t) ==
  /\ pc[t] = "walk" /\ tbl[cur[t]].dir # LinkDir(t)
  /\ next_table[cur[t]][Hop(t)] = None
  /\ tbl' = [tbl EXCEPT ![cur[t]].refcount = @ + 1]
  /\ link_lock' = None
  /\ Goto(t, "load")
  /\ UNCHANGED <<next_table, op, goal, cur, held, handles>>

\* A listing j of directory d becomes the next_table of its link in table i.
Attach(i, d, j) == next_table' = [next_table EXCEPT ![i][d] = j]

\* Mutant: no second look at next_table, a listing attached meanwhile is lost.
LoadOk_overwriting(t) ==
  /\ pc[t] = "load" /\ link_lock = None /\ link_lock' = t
  /\ \E j \in TblIds :
       /\ tbl[j] = FreeTbl
       /\ tbl' = [tbl EXCEPT ![j] = NewTbl(Hop(t), cur[t], 0)]
       /\ Attach(cur[t], Hop(t), j)
       /\ cur' = [cur EXCEPT ![t] = j]
  /\ Goto(t, "walk")
  /\ UNCHANGED <<op, goal, held, handles>>

\* The listing has come: attach it, or drop it if another thread was faster,
\* and walk on under the lock.
LoadOk(t) ==
  /\ pc[t] = "load" /\ link_lock = None
  /\ link_lock' = t
  /\ LET i == cur[t]  d == Hop(t) IN
       IF next_table[i][d] = None
       THEN \E j \in TblIds :
              /\ tbl[j] = FreeTbl
              /\ tbl' = [tbl EXCEPT ![j] = NewTbl(d, i, 0)]
              /\ Attach(i, d, j)
              /\ cur' = [cur EXCEPT ![t] = j]
       ELSE /\ tbl' = [tbl EXCEPT ![i].refcount = @ - 1]
            /\ cur' = [cur EXCEPT ![t] = next_table[i][d]]
            /\ UNCHANGED next_table
  /\ Goto(t, "walk")
  /\ UNCHANGED <<op, goal, held, handles>>

\* The load failed: the lookup returns NULL after dropping its reference.
LoadFail(t) ==
  /\ pc[t] = "load"
  /\ held' = [held EXCEPT ![t] = Append(@, cur[t])]
  /\ cur' = [cur EXCEPT ![t] = None]
  /\ Goto(t, Failed(t))
  /\ UNCHANGED <<link_lock, tbl, next_table, op, goal, handles>>

-----------------------------------------------------------------------------
(* path_to_LinkTable, after path_to_Link: held[t] is the link's table.     *)

\* The directory's table is there: take a reference, and keep it.
OpenAttached(t) ==
  /\ pc[t] \in {"attach", "loaded"} /\ link_lock = None
  /\ LET j == next_table[Head(held[t])][goal[t]] IN
       /\ j # None
       /\ tbl' = [tbl EXCEPT ![j].refcount = @ + 1, ![j].orphaned = FALSE]
       /\ dirh' = [dirh EXCEPT ![t] = j]
  /\ Goto(t, "unref")
  /\ UNCHANGED <<link_lock, next_table, op, goal, cur, held, fileh>>

\* It is not: load it, with no lock held.
OpenLoad(t) ==
  /\ pc[t] = "attach" /\ link_lock = None
  /\ next_table[Head(held[t])][goal[t]] = None
  /\ \E ok \in BOOLEAN : Goto(t, IF ok THEN "loaded" ELSE "unref")
  /\ UNCHANGED <<link_lock, tbl, next_table, op, goal, cur, held, handles>>

\* Mutant: the child does not count as a reference on its parent.
OpenNew_uncounted(t) ==
  /\ pc[t] = "loaded" /\ link_lock = None
  /\ next_table[Head(held[t])][goal[t]] = None
  /\ \E j \in TblIds :
       /\ tbl[j] = FreeTbl
       /\ tbl' = [tbl EXCEPT ![j] = NewTbl(goal[t], Head(held[t]), 1)]
       /\ Attach(Head(held[t]), goal[t], j)
       /\ dirh' = [dirh EXCEPT ![t] = j]
  /\ Goto(t, "unref")
  /\ UNCHANGED <<link_lock, op, goal, cur, held, fileh>>

\* Attach what was loaded, unless another thread did meanwhile (OpenAttached).
OpenNew(t) ==
  /\ pc[t] = "loaded" /\ link_lock = None
  /\ LET i == Head(held[t]) IN
       /\ next_table[i][goal[t]] = None
       /\ \E j \in TblIds :
            /\ tbl[j] = FreeTbl
            /\ tbl' = [tbl EXCEPT ![j] = NewTbl(goal[t], i, 1),
                                  ![i].refcount = @ + 1]
            /\ Attach(i, goal[t], j)
            /\ dirh' = [dirh EXCEPT ![t] = j]
  /\ Goto(t, "unref")
  /\ UNCHANGED <<link_lock, op, goal, cur, held, fileh>>

-----------------------------------------------------------------------------
(* Cache_open under cf_lock: the first handle keeps the second reference   *)
(* fs_open took, a later one drops it.  Then fs_open drops its own.        *)

CacheOpen(t) ==
  /\ pc[t] = "cache"
  /\ LET i == held[t][2] IN
       /\ tbl' = [tbl EXCEPT ![i].opened = @ + 1]
       /\ fileh' = [fileh EXCEPT ![t] = i]
       /\ held' = [held EXCEPT ![t] = IF tbl[i].opened = 0 THEN <<@[1]>>
                                                           ELSE @]
  /\ Goto(t, "unref")
  /\ UNCHANGED <<link_lock, next_table, op, goal, cur, dirh>>

\* release: the last Cache_close drops the reference the Cache kept.
CacheClose(t) ==
  /\ pc[t] = "idle" /\ fileh[t] # None
  /\ LET i == fileh[t] IN
       /\ tbl' = [tbl EXCEPT ![i].opened = @ - 1]
       /\ held' = [held EXCEPT ![t] = IF tbl[i].opened = 1 THEN <<i>> ELSE @]
  /\ fileh' = [fileh EXCEPT ![t] = None]
  /\ op' = [op EXCEPT ![t] = "release"]
  /\ Goto(t, "unref")
  /\ UNCHANGED <<link_lock, next_table, goal, cur, dirh>>

\* releasedir marks the table for eviction, then drops the handle's reference.
Releasedir(t) ==
  /\ pc[t] = "idle" /\ dirh[t] # None /\ link_lock = None
  /\ tbl' = [tbl EXCEPT ![dirh[t]].orphaned = @ \/ tbl[dirh[t]].dir # Root]
  /\ held' = [held EXCEPT ![t] = <<dirh[t]>>]
  /\ dirh' = [dirh EXCEPT ![t] = None]
  /\ op' = [op EXCEPT ![t] = "releasedir"]
  /\ Goto(t, "unref")
  /\ UNCHANGED <<link_lock, next_table, goal, cur, fileh>>

-----------------------------------------------------------------------------
(* LinkTable_unref and LinkTable_free.                                     *)

\* What LinkTable_free of table i frees: i, and with a table every table that
\* is attached to it.
Below(i) == {next_table[i][d] : d \in Dirs} \ {None}
Subtree(i) ==
  {j \in TblIds : \A gone \in SUBSET TblIds :
     (i \in gone /\ \A k \in gone : Below(k) \subseteq gone) => j \in gone}

\* Mutant: the count is looked at before it is decremented.
Evictable_early(i) == tbl[i].refcount = 0 /\ tbl[i].orphaned

Evictable(i) == tbl[i].refcount = 1 /\ tbl[i].orphaned

LastHeld(t) == held[t][Len(held[t])]

Keep(t) ==
  /\ pc[t] = "unref" /\ held[t] # <<>> /\ link_lock = None
  /\ ~Evictable(LastHeld(t))
  /\ tbl' = [tbl EXCEPT ![LastHeld(t)].refcount = @ - 1]
  /\ held' = [held EXCEPT ![t] = SubSeq(@, 1, Len(@) - 1)]
  /\ UNCHANGED <<link_lock, next_table, pc, op, goal, cur, handles>>

\* The last reference of a table marked for eviction: detach it from its
\* parent, free it, and go on to drop the reference it held on its parent.
Evict(t) ==
  /\ pc[t] = "unref" /\ held[t] # <<>> /\ link_lock = None
  /\ Evictable(LastHeld(t))
  /\ LET i == LastHeld(t)
         up == tbl[i].parent
         front == SubSeq(held[t], 1, Len(held[t]) - 1)
         gone == Subtree(i) IN
       /\ tbl' = [j \in TblIds |-> IF j \in gone THEN FreeTbl ELSE tbl[j]]
       /\ next_table' = [j \in TblIds |-> [d \in Dirs |->
                           IF j \in gone \/ (j = up /\ d = tbl[i].dir)
                           THEN None ELSE next_table[j][d]]]
       /\ held' = [held EXCEPT ![t] = IF up = None THEN front
                                      ELSE Append(front, up)]
  /\ UNCHANGED <<link_lock, pc, op, goal, cur, handles>>

Return(t) ==
  /\ pc[t] = "unref" /\ held[t] = <<>>
  /\ Goto(t, "idle")
  /\ op' = [op EXCEPT ![t] = "none"] /\ goal' = [goal EXCEPT ![t] = Root]
  /\ UNCHANGED <<link_lock, tbl, next_table, cur, held, handles>>

-----------------------------------------------------------------------------
Exited == \E t \in Threads : pc[t] = "exit"

Step(t) ==
  \/ \E d \in AllDirs : Stat(t, d) \/ Open(t, d)
  \/ \E d \in Dirs : Opendir(t, d)
  \/ OpendirRoot(t) \/ StartWalk(t) \/ Found(t) \/ NotFound(t) \/ Descend(t)
  \/ StartLoad(t) \/ LoadOk(t) \/ LoadFail(t)
  \/ OpenAttached(t) \/ OpenLoad(t) \/ OpenNew(t)
  \/ CacheOpen(t) \/ CacheClose(t) \/ Releasedir(t)
  \/ Keep(t) \/ Evict(t) \/ Return(t)

Next == \/ ~Exited /\ \E t \in Threads : Step(t)
        \/ Exited /\ UNCHANGED vars

Spec == Init /\ [][Next]_vars

-----------------------------------------------------------------------------
(* Properties. *)

TypeOK ==
  /\ link_lock \in Threads \cup {None}
  /\ tbl \in [TblIds -> [dir : AllDirs \cup {None}, refcount : Int,
                         orphaned : BOOLEAN, parent : TblIds \cup {None},
                         opened : Int]]
  /\ next_table \in [TblIds -> [Dirs -> TblIds \cup {None}]]
  /\ pc \in [Threads -> {"idle", "lookup", "walk", "load", "attach", "loaded",
                         "cache", "unref", "exit"}]
  /\ op \in [Threads -> {"none", "stat", "open", "opendir", "release",
                         "releasedir"}]
  /\ goal \in [Threads -> AllDirs] /\ cur \in [Threads -> TblIds \cup {None}]
  /\ \A t \in Threads : Len(held[t]) <= 3 /\ \A k \in DOMAIN held[t] :
                                             held[t][k] \in TblIds
  /\ dirh \in [Threads -> TblIds \cup {None}]
  /\ fileh \in [Threads -> TblIds \cup {None}]

Live(i) == tbl[i].dir # None

\* No table is freed while something can still reach it: a call under way, an
\* open directory or file, the link it is attached to, or its children.
NoUseAfterFree ==
  /\ Live(RootTbl)
  /\ \A t \in Threads : /\ cur[t] # None => Live(cur[t])
                        /\ \A k \in DOMAIN held[t] : Live(held[t][k])
                        /\ dirh[t] # None => Live(dirh[t])
                        /\ fileh[t] # None => Live(fileh[t])
  /\ \A i \in TblIds, d \in Dirs :
       next_table[i][d] # None => Live(next_table[i][d])
  /\ \A i \in TblIds : tbl[i].parent # None => Live(tbl[i].parent)

Holds(t, i) == Cardinality({k \in DOMAIN held[t] : held[t][k] = i})

\* A table's reference count is the number of its attached children, of calls
\* and handles that use it, and one for an open Cache of its file.
RefsCounted ==
  \A i \in TblIds :
    LET holders == {t \in Threads : Holds(t, i) = 1}
        twice   == {t \in Threads : Holds(t, i) = 2}
        loaders == {t \in Threads : cur[t] = i /\ pc[t] = "load"}
        dirs    == {t \in Threads : dirh[t] = i}
        children == {j \in TblIds : tbl[j].parent = i}
    IN tbl[i].refcount =
         Cardinality(holders) + 2 * Cardinality(twice) + Cardinality(loaders)
         + Cardinality(dirs) + Cardinality(children)
         + (IF tbl[i].opened > 0 THEN 1 ELSE 0)

\* Every table in memory hangs on the link of its directory in its parent's
\* table, and is the only one of its directory; so two openers of a file meet
\* in one Link and share one Cache.
OneTablePerDirectory ==
  \A i \in TblIds :
    /\ Live(i) /\ i # RootTbl => /\ tbl[i].parent # None
                                 /\ next_table[tbl[i].parent][tbl[i].dir] = i
    /\ \A j \in TblIds : Live(i) /\ Live(j) /\ i # j => tbl[i].dir # tbl[j].dir

\* A directory that was released and that nothing uses is gone from memory.
ReleasedIsEvicted ==
  \A i \in TblIds : tbl[i].orphaned => tbl[i].refcount > 0
=============================================================================
