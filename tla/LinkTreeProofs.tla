----------------------------- MODULE LinkTreeProofs ----------------------------
(***************************************************************************)
(* Whatever the threads do with the tree of listings, no table is freed    *)
(* that is in use, and each one's reference count says what uses it.  This *)
(* is about the normal mode: in Sonic's ID3 mode it is not so.             *)
(***************************************************************************)
EXTENDS LinkTree, FiniteSetTheorems, SequenceTheorems, TLAPS

Ranges == TypeOK /\ held \in [Threads -> Seq(TblIds)]

\* The tree: every table in memory but the root's hangs on its link in its
\* parent's table, nothing else hangs on any, and no directory has two.
Rooted == /\ tbl[RootTbl].dir = Root /\ tbl[RootTbl].parent = None
          /\ ~tbl[RootTbl].orphaned

Hung(i) ==
  LET up == tbl[i].parent
  IN  /\ up # None /\ Live(up) /\ tbl[i].dir \in Dirs
      /\ Up(tbl[i].dir) = tbl[up].dir /\ next_table[up][tbl[i].dir] = i

Linked(i, d) ==
  LET j == next_table[i][d]
  IN  j # None => /\ Live(i) /\ Live(j) /\ j # RootTbl
                  /\ tbl[j].parent = i /\ tbl[j].dir = d

Shaped ==
  /\ Rooted
  /\ \A i \in TblIds : Live(i) /\ i # RootTbl => Hung(i)
  /\ \A i \in TblIds, d \in Dirs : Linked(i, d)
  /\ \A i \in TblIds : ~Live(i) => tbl[i] = FreeTbl
  /\ \A i, j \in TblIds : Live(i) /\ Live(j) /\ i # j => tbl[i].dir # tbl[j].dir

\* A lookup stands on a table of its path, above the one it loads.
OnPath(t) ==
  /\ Live(cur[t])
  /\ \E n \in 0 .. Len(LinkDir(t)) :
       /\ tbl[cur[t]].dir = SubSeq(goal[t], 1, n)
       /\ pc[t] = "load" => n < Len(LinkDir(t))

\* Where a call is, and what it has in hand there.
Stage(t) ==
  /\ pc[t] = "walk" <=> link_lock = t
  /\ pc[t] \in {"walk", "load"} <=> cur[t] # None
  /\ pc[t] \in {"walk", "load"} => OnPath(t)
  /\ Len(held[t]) <= 2
  /\ pc[t] = "idle" => held[t] = <<>>
  /\ pc[t] \in {"lookup", "walk", "load"} =>
       Len(held[t]) <= 1 /\ (op[t] # "open" => held[t] = <<>>)
  /\ pc[t] \in {"attach", "loaded"} =>
       /\ op[t] = "opendir" /\ Len(held[t]) = 1
       /\ tbl[held[t][1]].dir = Up(goal[t])
  /\ pc[t] = "cache" => op[t] = "open" /\ Len(held[t]) = 2
  /\ op[t] = "opendir" => goal[t] \in Dirs
  /\ op[t] = "opendir" /\ pc[t] \in {"lookup", "walk", "load", "attach", "loaded"}
       => dirh[t] = None
  /\ op[t] = "open" /\ pc[t] \in {"lookup", "walk", "load", "cache"}
       => fileh[t] = None

Staged == \A t \in Threads : Stage(t)

OpenedCounted ==
  \A i \in TblIds : tbl[i].opened = Cardinality({t \in Threads : fileh[t] = i})

TreeInv == /\ Ranges /\ Shaped /\ Staged
           /\ RefsCounted /\ OpenedCounted /\ ReleasedIsEvicted
-----------------------------------------------------------------------------
(* Paths. *)

\* The beginning of a path is the path of a directory, and its last name
\* aside, that of the one above.
LEMMA Prefixes ==
  ASSUME NEW d \in AllDirs, NEW n \in 0..Len(d)
  PROVE  /\ Len(d) \in Nat /\ SubSeq(d, 1, n) \in AllDirs
         /\ Len(SubSeq(d, 1, n)) = n
         /\ SubSeq(d, 1, Len(d)) = d
         /\ n > 0 => /\ SubSeq(d, 1, n) \in Dirs
                     /\ Up(SubSeq(d, 1, n)) = SubSeq(d, 1, n - 1)
<1> DEFINE names == UNION {{c[k] : k \in DOMAIN c} : c \in Dirs}
<1>1. Dirs \subseteq Seq(names)
  BY TreeAssumption DEF TreeAssumption
<1> HIDE DEF names
<1>2. d \in Seq(names)
  <2>1. <<>> \in Seq(names)
    OBVIOUS
  <2>2. d \in Dirs \/ d = <<>>
    BY DEF AllDirs, Root
  <2> QED
    BY <1>1, <2>1, <2>2
<1>3. Len(d) \in Nat /\ SubSeq(d, 1, Len(d)) = d
  BY <1>2
<1>4. Len(SubSeq(d, 1, n)) = n
  BY <1>2, <1>3
<1>5. n > 0 => SubSeq(d, 1, n) \in Dirs
  <2> SUFFICES ASSUME n > 0 PROVE SubSeq(d, 1, n) \in Dirs
    OBVIOUS
  <2>1. n \in 1..Len(d) /\ d # Root
    BY <1>3 DEF Root
  <2> QED
    BY <2>1, TreeAssumption DEF TreeAssumption, AllDirs
<1>6. n = 0 => SubSeq(d, 1, n) = Root
  BY <1>2, <1>3 DEF Root
<1>7. n > 0 => Up(SubSeq(d, 1, n)) = SubSeq(d, 1, n - 1)
  <2> SUFFICES ASSUME n > 0 PROVE SubSeq(SubSeq(d, 1, n), 1, n - 1) = SubSeq(d, 1, n - 1)
    BY <1>4 DEF Up
  <2> QED
    BY <1>2, <1>3
<1> QED
  BY <1>3, <1>4, <1>5, <1>6, <1>7 DEF AllDirs

\* Where the link of a path is looked up: in its directory, or, for opendir,
\* in the one above.
LEMMA LinkDirs ==
  ASSUME Ranges, Staged, NEW t \in Threads
  PROVE  /\ LinkDir(t) \in AllDirs /\ Len(LinkDir(t)) \in 0..Len(goal[t])
         /\ Len(goal[t]) \in Nat
         /\ LinkDir(t) = SubSeq(goal[t], 1, Len(LinkDir(t)))
<1>1. goal[t] \in AllDirs
  BY DEF Ranges, TypeOK
<1> DEFINE g == goal[t]
<1>2. Len(g) \in Nat /\ SubSeq(g, 1, Len(g)) = g
  <2>1. 0 \in 0..Len(g) => Len(g) \in Nat /\ SubSeq(g, 1, Len(g)) = g
    BY <1>1, Prefixes
  <2>2. Len(g) \in Nat
    BY <1>1, TreeAssumption DEF TreeAssumption, AllDirs, Root
  <2> QED
    BY <2>1, <2>2
<1>3. CASE op[t] # "opendir"
  BY <1>1, <1>2, <1>3 DEF LinkDir
<1>4. CASE op[t] = "opendir"
  <2>1. g \in Dirs /\ g # Root
    BY <1>4, TreeAssumption DEF Staged, Stage, TreeAssumption
  <2>2. Len(g) > 0
    BY <1>2, <2>1, TreeAssumption DEF TreeAssumption, Root
  <2>3. Len(g) - 1 \in 0..Len(g)
    BY <1>2, <2>2
  <2>4. /\ SubSeq(g, 1, Len(g) - 1) \in AllDirs
        /\ Len(SubSeq(g, 1, Len(g) - 1)) = Len(g) - 1
    BY <1>1, <2>3, Prefixes
  <2> QED
    BY <1>2, <1>4, <2>2, <2>3, <2>4 DEF LinkDir, Up
<1> QED
  BY <1>3, <1>4

-----------------------------------------------------------------------------
(* Counting. *)

\* What uses table i: references in hand, loads below it, open directories,
\* its children; and, for the Cache of its file, open files.
Times(s, i)   == Cardinality({k \in DOMAIN s : s[k] = i})
Holders(n, i) == {t \in Threads : Holds(t, i) = n}
Loaders(i)    == {t \in Threads : cur[t] = i /\ pc[t] = "load"}
Openers(i)    == {t \in Threads : dirh[t] = i}
Children(i)   == {j \in TblIds : tbl[j].parent = i}
Filers(i)     == {t \in Threads : fileh[t] = i}
Held(i)       == Cardinality(Holders(1, i)) + 2 * Cardinality(Holders(2, i))

One(b) == IF b THEN 1 ELSE 0

RefsOf(i) == Held(i) + Cardinality(Loaders(i)) + Cardinality(Openers(i))
               + Cardinality(Children(i)) + One(tbl[i].opened > 0)

\* A set that one element joins or leaves changes its size by that element.
LEMMA OneMoves ==
  ASSUME NEW S, IsFiniteSet(S), NEW F \in SUBSET S, NEW G \in SUBSET S, NEW t,
         F \ {t} = G \ {t}
  PROVE  /\ Cardinality(F) \in Nat /\ Cardinality(G) \in Nat
         /\ Cardinality(G) = Cardinality(F) + One(t \in G) - One(t \in F)
<1>1. IsFiniteSet(F) /\ IsFiniteSet(G)
  BY FS_Subset
<1>2. Cardinality(F \ {t}) = Cardinality(G \ {t})
  BY Zenon
<1>3. Cardinality(F) \in Nat /\ Cardinality(G) \in Nat
  BY <1>1, FS_CardinalityType
<1>4. Cardinality(F \ {t}) = IF t \in F THEN Cardinality(F) - 1 ELSE Cardinality(F)
  BY <1>1, FS_RemoveElement, Zenon
<1>5. Cardinality(G \ {t}) = IF t \in G THEN Cardinality(G) - 1 ELSE Cardinality(G)
  BY <1>1, FS_RemoveElement, Zenon
<1> QED
  BY <1>2, <1>3, <1>4, <1>5 DEF One

\* A set of threads or of tables has a size, and none is empty unless that is 0.
LEMMA Sized ==
  ASSUME NEW S, S \subseteq Threads \/ S \subseteq TblIds
  PROVE  Cardinality(S) \in Nat /\ (Cardinality(S) = 0 <=> S = {})
<1>1. IsFiniteSet(S)
  BY TreeAssumption, FS_Subset DEF TreeAssumption
<1> QED
  BY <1>1, FS_CardinalityType, FS_EmptySet

\* The sizes that are added up.
LEMMA CountsAreNat ==
  ASSUME NEW i
  PROVE  /\ Held(i) \in Nat /\ Cardinality(Holders(1, i)) \in Nat
         /\ Cardinality(Holders(2, i)) \in Nat
         /\ Cardinality(Loaders(i)) \in Nat /\ Cardinality(Openers(i)) \in Nat
         /\ Cardinality(Children(i)) \in Nat /\ Cardinality(Filers(i)) \in Nat
<1>1. /\ Holders(1, i) \subseteq Threads /\ Holders(2, i) \subseteq Threads
      /\ Loaders(i) \subseteq Threads /\ Openers(i) \subseteq Threads
      /\ Filers(i) \subseteq Threads /\ Children(i) \subseteq TblIds
  BY DEF Holders, Loaders, Openers, Children, Filers
<1>2. Cardinality(Holders(1, i)) \in Nat /\ Cardinality(Holders(2, i)) \in Nat
  BY <1>1, Sized
<1>3. Cardinality(Loaders(i)) \in Nat /\ Cardinality(Openers(i)) \in Nat
  BY <1>1, Sized
<1>4. Cardinality(Children(i)) \in Nat /\ Cardinality(Filers(i)) \in Nat
  BY <1>1, Sized
<1> QED
  BY <1>2, <1>3, <1>4 DEF Held

\* How often a table is in a sequence of references, one at a time.
LEMMA TimesEmpty == ASSUME NEW i PROVE Times(<<>>, i) = 0
<1>1. {k \in DOMAIN <<>> : <<>>[k] = i} = {}
  OBVIOUS
<1> QED
  BY <1>1, FS_EmptySet, Zenon DEF Times

\* It is there at most as often as there are references.
LEMMA TimesBound ==
  ASSUME NEW s \in Seq(TblIds), NEW i PROVE Times(s, i) \in 0..Len(s)
<1>1. DOMAIN s = 1..Len(s) /\ Len(s) \in Nat
  OBVIOUS
<1>2. IsFiniteSet(1..Len(s)) /\ Cardinality(1..Len(s)) = Len(s)
  BY <1>1, FS_Interval
<1> DEFINE at == {k \in DOMAIN s : s[k] = i}
<1>3. at \in SUBSET (1..Len(s))
  BY <1>1
<1>4. IsFiniteSet(at) /\ Cardinality(at) <= Len(s)
  BY <1>2, <1>3, FS_Subset
<1>5. Cardinality(at) \in Nat
  BY <1>4, FS_CardinalityType
<1> QED
  BY <1>1, <1>4, <1>5 DEF Times

\* A reference that is appended counts once more for its table.
LEMMA TimesAppend ==
  ASSUME NEW s \in Seq(TblIds), NEW j \in TblIds, NEW i
  PROVE  Times(Append(s, j), i) = Times(s, i) + One(i = j)
<1> DEFINE old == {k \in DOMAIN s : s[k] = i}
           new == {k \in DOMAIN Append(s, j) : Append(s, j)[k] = i}
           n == Len(s) + 1
<1>1. /\ Len(s) \in Nat /\ DOMAIN s = 1..Len(s) /\ DOMAIN Append(s, j) = 1..n
      /\ \A k \in 1..Len(s) : Append(s, j)[k] = s[k]
      /\ Append(s, j)[n] = j
  OBVIOUS
<1>2. IsFiniteSet(1..n) /\ old \in SUBSET (1..n) /\ new \in SUBSET (1..n)
  BY <1>1, FS_Interval
<1>3. n \notin old /\ (n \in new <=> i = j)
  BY <1>1
<1>4. old \ {n} = new \ {n}
  <2>1. \A k : k \in 1..n /\ k # n <=> k \in 1..Len(s)
    BY <1>1
  <2>2. \A k \in 1..Len(s) : k \in old <=> k \in new
    BY <1>1, <2>1
  <2>3. \A k : k \in old \/ k \in new => k \in 1..n
    BY <1>2
  <2> QED
    BY <2>1, <2>2, <2>3
<1>5. /\ Cardinality(new) = Cardinality(old) + One(n \in new) - One(n \in old)
      /\ Cardinality(old) \in Nat
  <2> HIDE DEF old, new, n
  <2> QED
    BY <1>2, <1>4, OneMoves
<1>6. Times(s, i) = Cardinality(old) /\ Times(Append(s, j), i) = Cardinality(new)
  BY DEF Times
<1>7. One(n \in new) = One(i = j) /\ One(n \in old) = 0
  BY <1>3 DEF One
<1>8. One(i = j) \in Nat
  BY DEF One
<1> HIDE DEF old, new
<1> QED
  BY <1>5, <1>6, <1>7, <1>8

\* What is held, the last reference aside.
Front(s) == SubSeq(s, 1, Len(s) - 1)

\* A sequence is its front with its last element appended.
LEMMA FrontIs ==
  ASSUME NEW s \in Seq(TblIds), s # <<>>
  PROVE  /\ Len(s) \in Nat \ {0} /\ s[Len(s)] \in TblIds
         /\ Front(s) \in Seq(TblIds) /\ Len(Front(s)) = Len(s) - 1
         /\ s = Append(Front(s), s[Len(s)])
         /\ \A k \in 1..Len(s) - 1 : Front(s)[k] = s[k]
<1>1. Len(s) \in Nat \ {0} /\ s[Len(s)] \in TblIds
  OBVIOUS
<1>2. /\ Front(s) \in Seq(TblIds) /\ Len(Front(s)) = Len(s) - 1
      /\ \A k \in 1..Len(s) - 1 : Front(s)[k] = s[k]
  <2> DEFINE m == Len(s) - 1
  <2>1. m \in Int /\ 1 \in Int /\ (1 <= m \/ m = 0) /\ \A k \in 1..m : s[k] \in TblIds
    <3>1. \A k \in 1..Len(s) : s[k] \in TblIds
      OBVIOUS
    <3>2. m \in Int /\ (1 <= m \/ m = 0) /\ \A k \in 1..m : k \in 1..Len(s)
      <4> DEFINE n == Len(s)
      <4>1. n \in Nat /\ n # 0 /\ m = n - 1
        BY <1>1
      <4> HIDE DEF m, n
      <4>2. m \in Int /\ (1 <= m \/ m = 0) /\ \A k \in 1..m : k \in 1..n
        BY <4>1
      <4> QED
        BY <4>2 DEF n
    <3> QED
      BY <3>1, <3>2
  <2> HIDE DEF m
  <2>2. /\ SubSeq(s, 1, m) \in Seq(TblIds)
        /\ Len(SubSeq(s, 1, m)) = IF 1 <= m THEN m - 1 + 1 ELSE 0
        /\ \A k \in 1..m - 1 + 1 : SubSeq(s, 1, m)[k] = s[1 + k - 1]
    BY <2>1, SubSeqProperties
  <2>3. Len(SubSeq(s, 1, m)) = m /\ \A k \in 1..m : SubSeq(s, 1, m)[k] = s[k]
    BY <2>1, <2>2
  <2> QED
    BY <2>2, <2>3 DEF Front, m
<1>3. s = Append(Front(s), s[Len(s)])
  BY <1>1, <1>2
<1> QED
  BY <1>1, <1>2, <1>3

\* The last reference counts once for its table, the front for the rest.
LEMMA TimesFront ==
  ASSUME NEW s \in Seq(TblIds), s # <<>>, NEW i
  PROVE  Times(s, i) = Times(Front(s), i) + One(i = s[Len(s)])
<1>1. s = Append(Front(s), s[Len(s)])
  BY FrontIs
<1>2. Times(Append(Front(s), s[Len(s)]), i)
        = Times(Front(s), i) + One(i = s[Len(s)])
  BY FrontIs, TimesAppend
<1> QED
  BY <1>1, <1>2, Zenon

\* One thread's references change, and the count of each table's by as many.
LEMMA HeldMoves ==
  ASSUME NEW t \in Threads, NEW i,
         \A u \in Threads \ {t} : held'[u] = held[u],
         Times(held[t], i) \in 0..2, Times(held'[t], i) \in 0..2
  PROVE  Held(i)' = Held(i) + Times(held'[t], i) - Times(held[t], i)
<1>1. \A u : Holds(u, i) = Times(held[u], i) /\ Holds(u, i)' = Times(held'[u], i)
  BY DEF Holds, Times
<1>2. IsFiniteSet(Threads)
  BY TreeAssumption DEF TreeAssumption
<1>3. ASSUME NEW n \in {1, 2}
      PROVE  /\ Cardinality(Holders(n, i)) \in Nat /\ Cardinality(Holders(n, i)') \in Nat
             /\ Cardinality(Holders(n, i)') = Cardinality(Holders(n, i))
                  + One(Times(held'[t], i) = n) - One(Times(held[t], i) = n)
  <2> DEFINE F == Holders(n, i)
             G == Holders(n, i)'
  <2>1. F = {u \in Threads : Times(held[u], i) = n}
    BY <1>1 DEF Holders
  <2>2. G = {u \in Threads : Times(held'[u], i) = n}
    BY <1>1 DEF Holders
  <2>3. /\ F \in SUBSET Threads /\ G \in SUBSET Threads /\ F \ {t} = G \ {t}
        /\ (t \in F) = (Times(held[t], i) = n) /\ (t \in G) = (Times(held'[t], i) = n)
    BY <2>1, <2>2
  <2> HIDE DEF F, G
  <2>4. /\ Cardinality(F) \in Nat /\ Cardinality(G) \in Nat
        /\ Cardinality(G) = Cardinality(F) + One(t \in G) - One(t \in F)
    BY <1>2, <2>3, OneMoves
  <2>5. /\ Cardinality(F) \in Nat /\ Cardinality(G) \in Nat
        /\ Cardinality(G) = Cardinality(F) + One(Times(held'[t], i) = n)
                              - One(Times(held[t], i) = n)
    BY <2>3, <2>4
  <2> QED
    BY <2>5 DEF F, G
<1> DEFINE a == Times(held[t], i)
           b == Times(held'[t], i)
           x == Cardinality(Holders(1, i))
           y == Cardinality(Holders(2, i))
           v == Cardinality(Holders(1, i)')
           w == Cardinality(Holders(2, i)')
<1>4. /\ x \in Nat /\ y \in Nat /\ v \in Nat /\ w \in Nat
      /\ v = x + One(b = 1) - One(a = 1) /\ w = y + One(b = 2) - One(a = 2)
  BY <1>3
<1>5. Held(i) = x + 2 * y /\ Held(i)' = v + 2 * w
  BY DEF Held
<1>6. a \in 0..2 /\ b \in 0..2
  OBVIOUS
<1> HIDE DEF a, b, x, y, v, w
<1>7. v + 2 * w = x + 2 * y + b - a
  <2>1. a \in {0, 1, 2} /\ b \in {0, 1, 2}
    BY <1>6
  <2> QED
    BY <1>4, <2>1 DEF One
<1> QED
  BY <1>5, <1>7 DEF a, b

\* A thread that begins or ends a load is one more or one less of its loaders.
LEMMA LoadersMove ==
  ASSUME NEW t \in Threads, NEW i,
         \A u \in Threads \ {t} : cur'[u] = cur[u] /\ pc'[u] = pc[u]
  PROVE  Cardinality(Loaders(i))' = Cardinality(Loaders(i))
           + One(cur'[t] = i /\ pc'[t] = "load") - One(cur[t] = i /\ pc[t] = "load")
<1> DEFINE F == Loaders(i)
           G == Loaders(i)'
<1>1. /\ F \in SUBSET Threads /\ G \in SUBSET Threads /\ F \ {t} = G \ {t}
      /\ (t \in F) = (cur[t] = i /\ pc[t] = "load")
      /\ (t \in G) = (cur'[t] = i /\ pc'[t] = "load")
  BY DEF Loaders
<1>2. IsFiniteSet(Threads)
  BY TreeAssumption DEF TreeAssumption
<1> HIDE DEF F, G
<1>3. Cardinality(G) = Cardinality(F) + One(t \in G) - One(t \in F)
  BY <1>1, <1>2, OneMoves
<1>4. Cardinality(G) = Cardinality(F) + One(cur'[t] = i /\ pc'[t] = "load")
                         - One(cur[t] = i /\ pc[t] = "load")
  BY <1>1, <1>3
<1> QED
  BY <1>4 DEF F, G

\* A thread that opens or releases a directory is one more or one less.
LEMMA OpenersMove ==
  ASSUME NEW t \in Threads, NEW i, \A u \in Threads \ {t} : dirh'[u] = dirh[u]
  PROVE  Cardinality(Openers(i))' = Cardinality(Openers(i))
                                      + One(dirh'[t] = i) - One(dirh[t] = i)
<1> DEFINE F == Openers(i)
           G == Openers(i)'
<1>1. /\ F \in SUBSET Threads /\ G \in SUBSET Threads /\ F \ {t} = G \ {t}
      /\ (t \in F) = (dirh[t] = i) /\ (t \in G) = (dirh'[t] = i)
  BY DEF Openers
<1>2. IsFiniteSet(Threads)
  BY TreeAssumption DEF TreeAssumption
<1> HIDE DEF F, G
<1>3. Cardinality(G) = Cardinality(F) + One(t \in G) - One(t \in F)
  BY <1>1, <1>2, OneMoves
<1>4. Cardinality(G) = Cardinality(F) + One(dirh'[t] = i) - One(dirh[t] = i)
  BY <1>1, <1>3
<1> QED
  BY <1>4 DEF F, G

\* The same for its open file.
LEMMA FilersMove ==
  ASSUME NEW t \in Threads, NEW i, \A u \in Threads \ {t} : fileh'[u] = fileh[u]
  PROVE  Cardinality(Filers(i))' = Cardinality(Filers(i))
                                     + One(fileh'[t] = i) - One(fileh[t] = i)
<1> DEFINE F == Filers(i)
           G == Filers(i)'
<1>1. /\ F \in SUBSET Threads /\ G \in SUBSET Threads /\ F \ {t} = G \ {t}
      /\ (t \in F) = (fileh[t] = i) /\ (t \in G) = (fileh'[t] = i)
  BY DEF Filers
<1>2. IsFiniteSet(Threads)
  BY TreeAssumption DEF TreeAssumption
<1> HIDE DEF F, G
<1>3. Cardinality(G) = Cardinality(F) + One(t \in G) - One(t \in F)
  BY <1>1, <1>2, OneMoves
<1>4. Cardinality(G) = Cardinality(F) + One(fileh'[t] = i) - One(fileh[t] = i)
  BY <1>1, <1>3
<1> QED
  BY <1>4 DEF F, G

\* A table that is attached or detached is one child more or less.
LEMMA ChildrenMove ==
  ASSUME NEW j \in TblIds, NEW i,
         \A k \in TblIds \ {j} : tbl'[k].parent = tbl[k].parent
  PROVE  Cardinality(Children(i))' = Cardinality(Children(i))
             + One(tbl'[j].parent = i) - One(tbl[j].parent = i)
<1> DEFINE F == Children(i)
           G == Children(i)'
<1>1. /\ F \in SUBSET TblIds /\ G \in SUBSET TblIds /\ F \ {j} = G \ {j}
      /\ (j \in F) = (tbl[j].parent = i) /\ (j \in G) = (tbl'[j].parent = i)
  BY DEF Children
<1>2. IsFiniteSet(TblIds)
  BY TreeAssumption DEF TreeAssumption
<1> HIDE DEF F, G
<1>3. Cardinality(G) = Cardinality(F) + One(j \in G) - One(j \in F)
  BY <1>1, <1>2, OneMoves
<1>4. Cardinality(G) = Cardinality(F) + One(tbl'[j].parent = i)
                         - One(tbl[j].parent = i)
  BY <1>1, <1>3
<1> QED
  BY <1>4 DEF F, G

\* What the two counted properties say, with the names above.
Counted == \A i \in TblIds : tbl[i].refcount = RefsOf(i)

\* Nothing more, and nothing less.
LEMMA CountedIs ==
  /\ RefsCounted <=> Counted
  /\ OpenedCounted <=> \A i \in TblIds : tbl[i].opened = Cardinality(Filers(i))
<1>1. ASSUME NEW i \in TblIds
      PROVE  /\ Holders(1, i) = {t \in Threads : Holds(t, i) = 1}
             /\ Holders(2, i) = {t \in Threads : Holds(t, i) = 2}
             /\ Loaders(i) = {t \in Threads : cur[t] = i /\ pc[t] = "load"}
             /\ Openers(i) = {t \in Threads : dirh[t] = i}
             /\ Children(i) = {j \in TblIds : tbl[j].parent = i}
             /\ Filers(i) = {t \in Threads : fileh[t] = i}
  BY DEF Holders, Loaders, Openers, Children, Filers
<1>2. RefsCounted <=> Counted
  BY <1>1 DEF RefsCounted, Counted, RefsOf, Held, One
<1>3. OpenedCounted <=> \A i \in TblIds : tbl[i].opened = Cardinality(Filers(i))
  BY <1>1 DEF OpenedCounted
<1> QED
  BY <1>2, <1>3

-----------------------------------------------------------------------------
(* What the counts tell. *)

\* A table that is not held by a thread is not among what that thread holds.
LEMMA TimesZero ==
  ASSUME NEW s \in Seq(TblIds), NEW i
  PROVE  Times(s, i) = 0 <=> \A k \in 1..Len(s) : s[k] # i
<1>1. DOMAIN s = 1..Len(s) /\ Len(s) \in Nat
  OBVIOUS
<1> DEFINE at == {k \in DOMAIN s : s[k] = i}
<1>2. IsFiniteSet(1..Len(s)) /\ at \in SUBSET (1..Len(s))
  BY <1>1, FS_Interval
<1>3. IsFiniteSet(at)
  BY <1>2, FS_Subset
<1>4. Cardinality(at) = 0 <=> at = {}
  BY <1>3, FS_EmptySet
<1>5. at = {} <=> \A k \in 1..Len(s) : s[k] # i
  BY <1>1
<1> QED
  BY <1>4, <1>5 DEF Times

\* A thread holds at most two references, and so any table at most twice.
LEMMA TimesInHand ==
  ASSUME Ranges, Staged, NEW t \in Threads, NEW i
  PROVE  held[t] \in Seq(TblIds) /\ Len(held[t]) \in 0..2 /\ Times(held[t], i) \in 0..2
<1> DEFINE s == held[t]
<1>1. s \in Seq(TblIds) /\ Len(s) <= 2
  BY DEF Ranges, Staged, Stage
<1> DEFINE n == Len(s)
           m == Times(s, i)
<1>2. n \in Nat /\ n <= 2 /\ m \in 0..n
  BY <1>1, TimesBound
<1> HIDE DEF s, n, m
<1>3. n \in 0..2 /\ m \in 0..2
  BY <1>2
<1> QED
  BY <1>1, <1>3 DEF s, n, m

\* Nobody holds a table that is held no times.
LEMMA HeldZero ==
  ASSUME Ranges, Staged, NEW i, Held(i) = 0, NEW t \in Threads
  PROVE  Times(held[t], i) = 0
<1>1. Cardinality(Holders(1, i)) = 0 /\ Cardinality(Holders(2, i)) = 0
  BY CountsAreNat DEF Held
<1>2. Holders(1, i) \subseteq Threads /\ Holders(2, i) \subseteq Threads
  BY DEF Holders
<1>3. Holders(1, i) = {} /\ Holders(2, i) = {}
  BY <1>1, <1>2, Sized
<1>4. Times(held[t], i) # 1 /\ Times(held[t], i) # 2
  <2>1. Holds(t, i) # 1 /\ Holds(t, i) # 2
    BY <1>3 DEF Holders
  <2> QED
    BY <2>1 DEF Holds, Times
<1> QED
  BY <1>4, TimesInHand

\* Nobody but a thread that holds it holds a table that is held once.
LEMMA HeldOnce ==
  ASSUME Ranges, Staged, NEW i, Held(i) <= 1,
         NEW t \in Threads, Times(held[t], i) > 0
  PROVE  /\ Held(i) = 1 /\ Times(held[t], i) = 1
         /\ \A u \in Threads \ {t} : Times(held[u], i) = 0
<1> DEFINE F == Holders(1, i)
           G == Holders(2, i)
<1>1. F \subseteq Threads /\ G \subseteq Threads
  BY DEF Holders
<1>2. Cardinality(F) \in Nat /\ Cardinality(G) \in Nat
  BY <1>1, Sized
<1>3. Cardinality(G) = 0 /\ Cardinality(F) <= 1
  BY <1>2 DEF Held
<1>4. G = {}
  BY <1>1, <1>3, Sized
<1>5. \A u \in Threads : /\ u \in F <=> Times(held[u], i) = 1
                         /\ u \in G <=> Times(held[u], i) = 2
  BY DEF Holders, Holds, Times
<1>6. \A u \in Threads : Times(held[u], i) \in {0, 1}
  <2>1. \A u \in Threads : Times(held[u], i) \in 0..2 /\ Times(held[u], i) # 2
    BY <1>4, <1>5, TimesInHand
  <2> QED
    BY <2>1
<1>7. t \in F /\ Times(held[t], i) = 1
  BY <1>5, <1>6
<1>8. Cardinality(F) # 0
  BY <1>1, <1>7, Sized
<1>9. Cardinality(F) = 1
  BY <1>2, <1>3, <1>8
<1>10. IsFiniteSet(F)
  BY <1>1, TreeAssumption, FS_Subset DEF TreeAssumption
<1>11. F = {t}
  <2>1. \E x : F = {x}
    <3> HIDE DEF F
    <3> QED
      BY <1>9, <1>10, FS_Singleton
  <2> QED
    BY <1>7, <2>1
<1>12. \A u \in Threads \ {t} : Times(held[u], i) = 0
  BY <1>5, <1>6, <1>11
<1> QED
  BY <1>3, <1>7, <1>9, <1>12 DEF Held

\* Nothing uses a table that is not in memory.
LEMMA DeadUnused ==
  ASSUME TreeInv, NEW i \in TblIds, ~Live(i)
  PROVE  /\ \A t \in Threads : /\ Times(held[t], i) = 0
                               /\ cur[t] # i /\ dirh[t] # i /\ fileh[t] # i
         /\ \A j \in TblIds : tbl[j].parent # i
<1>1. tbl[i] = FreeTbl
  BY DEF TreeInv, Shaped
<1>2. tbl[i].refcount = 0 /\ tbl[i].opened = 0
  BY <1>1 DEF FreeTbl
<1>3. RefsOf(i) = 0 /\ Cardinality(Filers(i)) = 0
  BY <1>2, CountedIs DEF TreeInv, Counted
<1>4. One(tbl[i].opened > 0) = 0
  BY <1>2 DEF One
<1>5. /\ Held(i) = 0 /\ Cardinality(Loaders(i)) = 0
      /\ Cardinality(Openers(i)) = 0 /\ Cardinality(Children(i)) = 0
  <2> DEFINE a == Held(i)
             b == Cardinality(Loaders(i))
             c == Cardinality(Openers(i))
             d == Cardinality(Children(i))
  <2>1. a + b + c + d + 0 = 0
    BY <1>3, <1>4 DEF RefsOf
  <2>2. a \in Nat /\ b \in Nat /\ c \in Nat /\ d \in Nat
    BY CountsAreNat
  <2> HIDE DEF a, b, c, d
  <2>3. a = 0 /\ b = 0 /\ c = 0 /\ d = 0
    BY <2>1, <2>2
  <2> QED
    BY <2>3 DEF a, b, c, d
<1>6. /\ Loaders(i) \subseteq Threads /\ Openers(i) \subseteq Threads
      /\ Filers(i) \subseteq Threads /\ Children(i) \subseteq TblIds
  BY DEF Loaders, Openers, Filers, Children
<1>7. Openers(i) = {} /\ Filers(i) = {}
  BY <1>3, <1>5, <1>6, Sized
<1>8. Children(i) = {} /\ Loaders(i) = {}
  BY <1>5, <1>6, Sized
<1>9. ASSUME NEW t \in Threads PROVE cur[t] # i
  <2> SUFFICES ASSUME cur[t] = i PROVE FALSE
    OBVIOUS
  <2>1. cur[t] # None
    BY TreeAssumption DEF TreeAssumption
  <2>2. OnPath(t)
    BY <2>1 DEF TreeInv, Staged, Stage
  <2> QED
    BY <2>2 DEF OnPath
<1>10. \A t \in Threads : Times(held[t], i) = 0
  BY <1>5, HeldZero DEF TreeInv
<1> QED
  BY <1>7, <1>8, <1>9, <1>10 DEF Openers, Filers, Children

\* The last reference of a table that a thread drops is all that uses it.
LEMMA LastUse ==
  ASSUME TreeInv, NEW t \in Threads, NEW i \in TblIds,
         Times(held[t], i) > 0, tbl[i].refcount = 1
  PROVE  /\ Times(held[t], i) = 1 /\ tbl[i].opened = 0
         /\ \A u \in Threads \ {t} : Times(held[u], i) = 0
         /\ \A u \in Threads : /\ ~(cur[u] = i /\ pc[u] = "load")
                               /\ dirh[u] # i /\ fileh[u] # i
         /\ \A j \in TblIds : tbl[j].parent # i
<1>1. RefsOf(i) = 1 /\ tbl[i].opened = Cardinality(Filers(i))
  BY CountedIs DEF TreeInv, Counted
<1>2. Held(i) # 0
  BY HeldZero DEF TreeInv
<1>3. One(tbl[i].opened > 0) \in {0, 1}
  BY DEF One
<1>4. /\ Held(i) = 1 /\ Cardinality(Loaders(i)) = 0
      /\ Cardinality(Openers(i)) = 0 /\ Cardinality(Children(i)) = 0
      /\ One(tbl[i].opened > 0) = 0
  BY <1>1, <1>2, <1>3, CountsAreNat DEF RefsOf
<1>5. tbl[i].opened = 0 /\ Cardinality(Filers(i)) = 0
  BY <1>1, <1>4, CountsAreNat DEF One
<1>6. /\ Loaders(i) \subseteq Threads /\ Openers(i) \subseteq Threads
      /\ Filers(i) \subseteq Threads /\ Children(i) \subseteq TblIds
  BY DEF Loaders, Openers, Filers, Children
<1>7. Openers(i) = {} /\ Filers(i) = {}
  BY <1>4, <1>5, <1>6, Sized
<1>8. Children(i) = {} /\ Loaders(i) = {}
  BY <1>4, <1>6, Sized
<1>9. /\ Times(held[t], i) = 1
      /\ \A u \in Threads \ {t} : Times(held[u], i) = 0
  BY <1>4, HeldOnce DEF TreeInv
<1> QED
  BY <1>5, <1>7, <1>8, <1>9 DEF Openers, Filers, Children, Loaders

\* What a thread has in hand is in memory.
LEMMA InHandLive ==
  ASSUME TreeInv, NEW t \in Threads
  PROVE  /\ \A k \in 1..Len(held[t]) : held[t][k] \in TblIds /\ Live(held[t][k])
         /\ cur[t] # None => cur[t] \in TblIds /\ Live(cur[t])
         /\ dirh[t] # None => dirh[t] \in TblIds /\ Live(dirh[t])
         /\ fileh[t] # None => fileh[t] \in TblIds /\ Live(fileh[t])
<1>1. held[t] \in Seq(TblIds)
  BY DEF TreeInv, Ranges
<1>2. ASSUME NEW k \in 1..Len(held[t]) PROVE held[t][k] \in TblIds /\ Live(held[t][k])
  <2>1. held[t][k] \in TblIds
    BY <1>1
  <2>2. Times(held[t], held[t][k]) # 0
    BY <1>1, TimesZero
  <2> QED
    BY <2>1, <2>2, DeadUnused
<1>3. /\ cur[t] \in TblIds \cup {None} /\ dirh[t] \in TblIds \cup {None}
      /\ fileh[t] \in TblIds \cup {None}
  BY DEF TreeInv, Ranges, TypeOK
<1> QED
  BY <1>2, <1>3, DeadUnused

-----------------------------------------------------------------------------
(* What a step changes. *)

Cells == [dir : AllDirs \cup {None}, refcount : Int, orphaned : BOOLEAN,
          parent : TblIds \cup {None}, opened : Int]

\* The other threads are where they were.
Others(t) ==
  \A u \in Threads \ {t} :
    /\ pc'[u] = pc[u] /\ op'[u] = op[u] /\ goal'[u] = goal[u] /\ cur'[u] = cur[u]
    /\ held'[u] = held[u] /\ dirh'[u] = dirh[u] /\ fileh'[u] = fileh[u]

\* The lock stays where it is, or goes between nobody and t.
OwnLock(t) == link_lock' = link_lock \/ {link_lock, link_lock'} \subseteq {None, t}

\* No table's place in the tree changes, and none in memory comes or goes.
SameTree ==
  /\ \A k \in TblIds : /\ tbl'[k].dir = tbl[k].dir /\ tbl'[k].parent = tbl[k].parent
                       /\ ~Live(k) => tbl'[k] = tbl[k]
  /\ ~tbl'[RootTbl].orphaned /\ next_table' = next_table

\* Only table i changes, and of it what is given.
Only(i, refs, orphaned, opened) ==
  /\ \A k \in TblIds \ {i} : tbl'[k] = tbl[k]
  /\ tbl'[i].dir = tbl[i].dir /\ tbl'[i].parent = tbl[i].parent
  /\ tbl'[i].refcount = refs /\ tbl'[i].orphaned = orphaned /\ tbl'[i].opened = opened

\* Nothing that a table is told by changes.
LEMMA SameShape == ASSUME Ranges, Shaped, SameTree PROVE Shaped'
<1>1. \A k \in TblIds : Live(k)' <=> Live(k)
  BY DEF SameTree, Live
<1>2. RootTbl \in TblIds
  BY TreeAssumption DEF TreeAssumption
<1>3. Rooted'
  BY <1>2 DEF Shaped, Rooted, SameTree
<1>4. ASSUME NEW i \in TblIds, Live(i), i # RootTbl PROVE Hung(i)'
  <2>1. Hung(i)
    BY <1>4 DEF Shaped
  <2>2. tbl[i].parent \in TblIds
    BY <2>1 DEF Hung, Ranges, TypeOK
  <2> QED
    BY <1>1, <2>1, <2>2 DEF Hung, SameTree
<1>5. ASSUME NEW i \in TblIds, NEW d \in Dirs PROVE Linked(i, d)'
  <2>1. Linked(i, d) /\ next_table[i][d] \in TblIds \cup {None}
    BY DEF Shaped, Ranges, TypeOK
  <2> QED
    BY <1>1, <2>1 DEF Linked, SameTree
<1>6. \A i \in TblIds : ~Live(i)' => tbl'[i] = FreeTbl
  BY <1>1 DEF Shaped, SameTree
<1>7. \A i, j \in TblIds : Live(i)' /\ Live(j)' /\ i # j => tbl'[i].dir # tbl'[j].dir
  BY <1>1 DEF Shaped, SameTree
<1> QED
  BY <1>1, <1>3, <1>4, <1>5, <1>6, <1>7 DEF Shaped

\* A table in memory whose counts change keeps its place.
LEMMA OnlyKeeps ==
  ASSUME Shaped, NEW i \in TblIds, Live(i), NEW refs, NEW orphaned, NEW opened,
         Only(i, refs, orphaned, opened), i = RootTbl => ~orphaned,
         next_table' = next_table
  PROVE  SameTree
<1>1. RootTbl \in TblIds /\ ~tbl[RootTbl].orphaned
  BY TreeAssumption DEF TreeAssumption, Shaped, Rooted
<1>2. \A k \in TblIds : ~Live(k) => k # i
  OBVIOUS
<1> QED
  BY <1>1, <1>2 DEF Only, SameTree

\* The other threads stay in their stages while what they have in hand stays.
LEMMA OthersStay ==
  ASSUME TreeInv, NEW t \in Threads, Others(t), OwnLock(t), Stage(t)',
         \A u \in Threads \ {t} :
           /\ \A k \in 1..Len(held[u]) : tbl'[held[u][k]].dir = tbl[held[u][k]].dir
           /\ cur[u] # None => tbl'[cur[u]].dir = tbl[cur[u]].dir
  PROVE  Staged'
<1> SUFFICES ASSUME NEW u \in Threads \ {t} PROVE Stage(u)'
  BY DEF Staged
<1>1. Stage(u)
  BY DEF TreeInv, Staged
<1>2. /\ pc'[u] = pc[u] /\ op'[u] = op[u] /\ goal'[u] = goal[u] /\ cur'[u] = cur[u]
      /\ held'[u] = held[u] /\ dirh'[u] = dirh[u] /\ fileh'[u] = fileh[u]
  BY DEF Others
<1>3. u # None /\ (link_lock' = u <=> link_lock = u)
  BY TreeAssumption DEF OwnLock, TreeAssumption
<1>4. LinkDir(u)' = LinkDir(u)
  BY <1>2 DEF LinkDir
<1>5. cur[u] # None /\ OnPath(u) => OnPath(u)'
  BY <1>2, <1>4 DEF OnPath, Live
<1>6. Len(held[u]) = 1 => tbl'[held[u][1]].dir = tbl[held[u][1]].dir
  OBVIOUS
<1> QED
  BY <1>1, <1>2, <1>3, <1>5, <1>6 DEF Stage

\* With the tree as it is, it does.
LEMMA SameStays ==
  ASSUME TreeInv, NEW t \in Threads, Others(t), OwnLock(t), Stage(t)', SameTree
  PROVE  Staged'
<1>1. ASSUME NEW u \in Threads \ {t}
      PROVE  /\ \A k \in 1..Len(held[u]) : tbl'[held[u][k]].dir = tbl[held[u][k]].dir
             /\ cur[u] # None => tbl'[cur[u]].dir = tbl[cur[u]].dir
  BY InHandLive DEF SameTree
<1> QED
  BY <1>1, OthersStay

\* The counts of table i change with what one thread, and one table, do.
LEMMA RefsMove ==
  ASSUME TreeInv, NEW t \in Threads, NEW i \in TblIds, NEW j \in TblIds, Others(t),
         \A k \in TblIds \ {j} : tbl'[k].parent = tbl[k].parent,
         Times(held'[t], i) \in 0..2
  PROVE  RefsOf(i)' = RefsOf(i)
           + (Times(held'[t], i) - Times(held[t], i))
           + (One(cur'[t] = i /\ pc'[t] = "load") - One(cur[t] = i /\ pc[t] = "load"))
           + (One(dirh'[t] = i) - One(dirh[t] = i))
           + (One(tbl'[j].parent = i) - One(tbl[j].parent = i))
           + (One(tbl'[i].opened > 0) - One(tbl[i].opened > 0))
<1>1. Times(held[t], i) \in 0..2
  BY TimesInHand DEF TreeInv
<1> DEFINE a == Held(i)
           b == Cardinality(Loaders(i))
           c == Cardinality(Openers(i))
           d == Cardinality(Children(i))
           da == Times(held'[t], i) - Times(held[t], i)
           db == One(cur'[t] = i /\ pc'[t] = "load") - One(cur[t] = i /\ pc[t] = "load")
           dc == One(dirh'[t] = i) - One(dirh[t] = i)
           dd == One(tbl'[j].parent = i) - One(tbl[j].parent = i)
           f == One(tbl[i].opened > 0)
           g == One(tbl'[i].opened > 0)
<1>2. a \in Nat /\ b \in Nat /\ c \in Nat /\ d \in Nat
  BY CountsAreNat
<1>3. da \in Int
  BY <1>1
<1>4. db \in Int /\ dc \in Int /\ dd \in Int /\ f \in Int /\ g \in Int
  BY DEF One
<1>5. Held(i)' = a + da
  <2>1. Held(i)' = Held(i) + Times(held'[t], i) - Times(held[t], i)
    BY <1>1, HeldMoves DEF Others
  <2> QED
    BY <1>1, <1>2, <2>1
<1>6. Cardinality(Loaders(i))' = b + db
  <2>1. Cardinality(Loaders(i))' = Cardinality(Loaders(i))
          + One(cur'[t] = i /\ pc'[t] = "load") - One(cur[t] = i /\ pc[t] = "load")
    BY LoadersMove DEF Others
  <2> QED
    BY <1>2, <2>1 DEF One
<1>7. Cardinality(Openers(i))' = c + dc
  <2>1. Cardinality(Openers(i))' = Cardinality(Openers(i))
                                     + One(dirh'[t] = i) - One(dirh[t] = i)
    BY OpenersMove DEF Others
  <2> QED
    BY <1>2, <2>1 DEF One
<1>8. Cardinality(Children(i))' = d + dd
  <2>1. Cardinality(Children(i))' = Cardinality(Children(i))
            + One(tbl'[j].parent = i) - One(tbl[j].parent = i)
    BY ChildrenMove
  <2> QED
    BY <1>2, <2>1 DEF One
<1>9. /\ RefsOf(i) = a + b + c + d + f
      /\ RefsOf(i)' = (a + da) + (b + db) + (c + dc) + (d + dd) + g
  BY <1>5, <1>6, <1>7, <1>8 DEF RefsOf
<1> HIDE DEF a, b, c, d, da, db, dc, dd, f, g
<1>10. RefsOf(i)' = RefsOf(i) + da + db + dc + dd + (g - f)
  BY <1>2, <1>3, <1>4, <1>9
<1> QED
  BY <1>10 DEF da, db, dc, dd, f, g

\* Thread t alone moves.
Moves(t) ==
  /\ pc' = [pc EXCEPT ![t] = pc'[t]] /\ op' = [op EXCEPT ![t] = op'[t]]
  /\ goal' = [goal EXCEPT ![t] = goal'[t]] /\ cur' = [cur EXCEPT ![t] = cur'[t]]
  /\ held' = [held EXCEPT ![t] = held'[t]]
  /\ dirh' = [dirh EXCEPT ![t] = dirh'[t]] /\ fileh' = [fileh EXCEPT ![t] = fileh'[t]]

InRange(t) ==
  /\ pc[t] \in {"idle", "lookup", "walk", "load", "attach", "loaded", "cache",
                "unref", "exit"}
  /\ op[t] \in {"none", "stat", "open", "opendir", "release", "releasedir"}
  /\ goal[t] \in AllDirs /\ cur[t] \in TblIds \cup {None}
  /\ held[t] \in Seq(TblIds)
  /\ dirh[t] \in TblIds \cup {None} /\ fileh[t] \in TblIds \cup {None}

\* Its variables stay in their ranges, and so do all.
LEMMA RangesMove ==
  ASSUME Ranges, NEW t \in Threads, Moves(t), InRange(t)', Len(held'[t]) <= 2,
         link_lock' \in Threads \cup {None}, tbl' \in [TblIds -> Cells],
         next_table' \in [TblIds -> [Dirs -> TblIds \cup {None}]]
  PROVE  Ranges' /\ Others(t)
<1>1. /\ pc' \in [Threads -> {"idle", "lookup", "walk", "load", "attach", "loaded",
                              "cache", "unref", "exit"}]
      /\ op' \in [Threads -> {"none", "stat", "open", "opendir", "release",
                              "releasedir"}]
  BY DEF Ranges, TypeOK, Moves, InRange
<1>2. goal' \in [Threads -> AllDirs] /\ cur' \in [Threads -> TblIds \cup {None}]
  BY DEF Ranges, TypeOK, Moves, InRange
<1>3. /\ dirh' \in [Threads -> TblIds \cup {None}]
      /\ fileh' \in [Threads -> TblIds \cup {None}]
  BY DEF Ranges, TypeOK, Moves, InRange
<1>4. held' \in [Threads -> Seq(TblIds)]
  BY DEF Ranges, Moves, InRange
<1>5. Others(t)
  BY DEF Others, Moves, Ranges, TypeOK
<1>6. ASSUME NEW u \in Threads
      PROVE  Len(held'[u]) <= 3 /\ \A k \in DOMAIN held'[u] : held'[u][k] \in TblIds
  <2>1. Len(held'[u]) <= 3
    <3>1. CASE u = t
      <4>1. Len(held'[t]) \in Nat
        BY DEF InRange
      <4> QED
        BY <3>1, <4>1
    <3>2. CASE u # t
      BY <1>5, <3>2 DEF Others, Ranges, TypeOK
    <3> QED
      BY <3>1, <3>2
  <2> QED
    BY <1>4, <2>1
<1> QED
  BY <1>1, <1>2, <1>3, <1>4, <1>5, <1>6 DEF Ranges, TypeOK, Cells

\* How many more uses of table i thread t has after its step.
Moved(t, i) ==
  (Times(held'[t], i) - Times(held[t], i))
  + (One(cur'[t] = i /\ pc'[t] = "load") - One(cur[t] = i /\ pc[t] = "load"))
  + (One(dirh'[t] = i) - One(dirh[t] = i))

\* A step that changes each count by what it changes of the uses keeps the
\* invariant, if it keeps the shape of the tree and the threads' stages.
LEMMA Balanced ==
  ASSUME TreeInv, NEW t \in Threads, NEW j \in TblIds,
         Others(t), Ranges', Shaped', Staged',
         \A k \in TblIds \ {j} : tbl'[k].parent = tbl[k].parent,
         \A i \in TblIds :
           /\ tbl'[i].refcount = tbl[i].refcount + Moved(t, i)
                + (One(tbl'[j].parent = i) - One(tbl[j].parent = i))
                + (One(tbl'[i].opened > 0) - One(tbl[i].opened > 0))
           /\ tbl'[i].opened = tbl[i].opened + One(fileh'[t] = i) - One(fileh[t] = i)
           /\ tbl'[i].orphaned => tbl'[i].refcount > 0
  PROVE  TreeInv'
<1>1. ASSUME NEW i \in TblIds
      PROVE  Times(held[t], i) \in 0..2 /\ Times(held'[t], i) \in 0..2
  <2>1. Times(held[t], i) \in 0..2
    BY TimesInHand DEF TreeInv
  <2>2. held'[t] \in Seq(TblIds) /\ Len(held'[t]) <= 2
    BY DEF Ranges, Staged, Stage
  <2> DEFINE n == Len(held'[t])
             m == Times(held'[t], i)
  <2>3. n \in Nat /\ n <= 2 /\ m \in 0..n
    BY <2>2, TimesBound
  <2> HIDE DEF n, m
  <2>4. m \in 0..2
    BY <2>3
  <2> QED
    BY <2>1, <2>4 DEF m
<1>2. ASSUME NEW i \in TblIds PROVE (tbl[i].refcount)' = RefsOf(i)'
  <2> DEFINE a == RefsOf(i)
             b == Times(held'[t], i) - Times(held[t], i)
             c == One(cur'[t] = i /\ pc'[t] = "load") - One(cur[t] = i /\ pc[t] = "load")
             d == One(dirh'[t] = i) - One(dirh[t] = i)
             e == One(tbl'[j].parent = i) - One(tbl[j].parent = i)
             f == One(tbl'[i].opened > 0) - One(tbl[i].opened > 0)
  <2>1. tbl[i].refcount = a /\ tbl[i].refcount \in Int
    BY CountedIs DEF TreeInv, Counted, Ranges, TypeOK
  <2>2. b \in Int
    BY <1>1
  <2>3. c \in Int /\ d \in Int /\ e \in Int /\ f \in Int
    BY DEF One
  <2>4. tbl'[i].refcount = tbl[i].refcount + (b + c + d) + e + f
    BY DEF Moved
  <2>5. RefsOf(i)' = a + b + c + d + e + f
    BY <1>1, RefsMove
  <2> HIDE DEF a, b, c, d, e, f
  <2> QED
    BY <2>1, <2>2, <2>3, <2>4, <2>5
<1>3. Counted'
  BY <1>2 DEF Counted
<1>4. ASSUME NEW i \in TblIds PROVE (tbl[i].opened)' = Cardinality(Filers(i))'
  <2>1. tbl[i].opened = Cardinality(Filers(i))
    BY CountedIs DEF TreeInv
  <2>2. Cardinality(Filers(i))' = Cardinality(Filers(i))
                                    + One(fileh'[t] = i) - One(fileh[t] = i)
    BY FilersMove DEF Others
  <2> QED
    BY <2>1, <2>2
<1>5. RefsCounted' /\ OpenedCounted'
  <2>1. RefsCounted' <=> Counted'
    BY CountedIs, PTL
  <2>2. OpenedCounted'
    BY <1>4 DEF OpenedCounted, Filers
  <2> QED
    BY <1>3, <2>1, <2>2
<1>6. ReleasedIsEvicted'
  BY DEF ReleasedIsEvicted
<1> QED
  BY <1>5, <1>6 DEF TreeInv

\* The same for a step that leaves the tree as it is.
LEMMA Recounted ==
  ASSUME TreeInv, NEW t \in Threads, Moves(t), InRange(t)', Stage(t)', OwnLock(t),
         link_lock' \in Threads \cup {None}, tbl' \in [TblIds -> Cells], SameTree,
         \A i \in TblIds :
           /\ tbl'[i].refcount = tbl[i].refcount + Moved(t, i)
                + (One(tbl'[i].opened > 0) - One(tbl[i].opened > 0))
           /\ tbl'[i].opened = tbl[i].opened + One(fileh'[t] = i) - One(fileh[t] = i)
           /\ tbl'[i].orphaned => tbl'[i].refcount > 0
  PROVE  TreeInv'
<1>1. next_table' \in [TblIds -> [Dirs -> TblIds \cup {None}]]
  BY DEF TreeInv, Ranges, TypeOK, SameTree
<1>2. Len(held'[t]) <= 2
  BY DEF Stage
<1>3. Ranges' /\ Others(t)
  BY <1>1, <1>2, RangesMove DEF TreeInv
<1>4. Shaped'
  BY SameShape DEF TreeInv
<1>5. Staged'
  BY <1>3, SameStays
<1>6. RootTbl \in TblIds
  BY TreeAssumption DEF TreeAssumption
<1>7. \A k \in TblIds : tbl'[k].parent = tbl[k].parent
  BY DEF SameTree
<1>8. ASSUME NEW i \in TblIds
      PROVE  tbl'[i].refcount = tbl[i].refcount + Moved(t, i)
               + (One(tbl'[RootTbl].parent = i) - One(tbl[RootTbl].parent = i))
               + (One(tbl'[i].opened > 0) - One(tbl[i].opened > 0))
  <2>1. One(tbl'[RootTbl].parent = i) - One(tbl[RootTbl].parent = i) = 0
    BY <1>6, <1>7 DEF One
  <2>2. tbl[i].refcount \in Int /\ Moved(t, i) \in Int
    <3>1. Times(held[t], i) \in Int /\ Times(held'[t], i) \in Int
      <4>1. held[t] \in Seq(TblIds) /\ held'[t] \in Seq(TblIds)
        BY DEF TreeInv, Ranges, InRange
      <4>2. /\ Times(held[t], i) \in 0..Len(held[t])
            /\ Times(held'[t], i) \in 0..Len(held'[t])
        BY <4>1, TimesBound
      <4> QED
        BY <4>2
    <3> QED
      BY <3>1 DEF TreeInv, Ranges, TypeOK, Moved, One
  <2> DEFINE a == tbl[i].refcount
             b == Moved(t, i)
             e == One(tbl'[RootTbl].parent = i) - One(tbl[RootTbl].parent = i)
             f == One(tbl'[i].opened > 0) - One(tbl[i].opened > 0)
  <2>3. tbl'[i].refcount = a + b + f
    OBVIOUS
  <2>4. f \in Int
    BY DEF One
  <2> HIDE DEF a, b, e, f
  <2>5. tbl'[i].refcount = a + b + e + f
    BY <2>1, <2>2, <2>3, <2>4 DEF a, b, e
  <2> QED
    BY <2>5 DEF a, b, e, f
<1> QED
  BY <1>3, <1>4, <1>5, <1>6, <1>7, <1>8, Balanced

\* A step that changes nothing that counts.
LEMMA Quiet ==
  ASSUME TreeInv, NEW t \in Threads, Moves(t), InRange(t)', Stage(t)', OwnLock(t),
         link_lock' \in Threads \cup {None}, pc[t] # "load", pc'[t] # "load",
         UNCHANGED <<tbl, next_table, dirh, fileh>>, held'[t] = held[t]
  PROVE  TreeInv'
<1>1. tbl' \in [TblIds -> Cells]
  BY DEF TreeInv, Ranges, TypeOK, Cells
<1>2. SameTree
  BY DEF SameTree, TreeInv, Shaped, Rooted
<1>3. ASSUME NEW i \in TblIds
      PROVE  /\ tbl'[i].refcount = tbl[i].refcount + Moved(t, i)
                  + (One(tbl'[i].opened > 0) - One(tbl[i].opened > 0))
             /\ tbl'[i].opened = tbl[i].opened + One(fileh'[t] = i) - One(fileh[t] = i)
             /\ tbl'[i].orphaned => tbl'[i].refcount > 0
  <2>1. tbl[i].refcount \in Int /\ tbl[i].opened \in Int
    BY DEF TreeInv, Ranges, TypeOK
  <2>2. Times(held[t], i) \in 0..2
    BY TimesInHand DEF TreeInv
  <2>3. Moved(t, i) = 0
    BY <2>2 DEF Moved, One
  <2> QED
    BY <2>1, <2>3 DEF One, TreeInv, ReleasedIsEvicted
<1> QED
  BY <1>1, <1>2, <1>3, Recounted

\* A step that changes one table in memory, with its place in the tree left
\* alone, and the uses of no other table.
LEMMA OneCell ==
  ASSUME TreeInv, NEW t \in Threads, Moves(t), InRange(t)', Stage(t)', OwnLock(t),
         link_lock' \in Threads \cup {None}, next_table' = next_table,
         NEW i \in TblIds, Live(i), NEW c \in Cells, tbl' = [tbl EXCEPT ![i] = c],
         c.dir = tbl[i].dir, c.parent = tbl[i].parent, i = RootTbl => ~c.orphaned,
         c.refcount = tbl[i].refcount + Moved(t, i)
                        + (One(c.opened > 0) - One(tbl[i].opened > 0)),
         c.opened = tbl[i].opened + One(fileh'[t] = i) - One(fileh[t] = i),
         c.orphaned => c.refcount > 0,
         \A k \in TblIds \ {i} : Moved(t, k) = 0 /\ (fileh'[t] = k <=> fileh[t] = k)
  PROVE  TreeInv'
<1>1. tbl \in [TblIds -> Cells]
  BY DEF TreeInv, Ranges, TypeOK, Cells
<1>2. /\ tbl' \in [TblIds -> Cells] /\ tbl'[i] = c
      /\ \A k \in TblIds \ {i} : tbl'[k] = tbl[k]
  BY <1>1
<1>3. SameTree
  <2>1. RootTbl \in TblIds /\ ~tbl[RootTbl].orphaned
    BY TreeAssumption DEF TreeInv, Shaped, Rooted, TreeAssumption
  <2> QED
    BY <1>2, <2>1 DEF SameTree
<1>4. ASSUME NEW k \in TblIds
      PROVE  /\ tbl'[k].refcount = tbl[k].refcount + Moved(t, k)
                  + (One(tbl'[k].opened > 0) - One(tbl[k].opened > 0))
             /\ tbl'[k].opened = tbl[k].opened + One(fileh'[t] = k) - One(fileh[t] = k)
             /\ tbl'[k].orphaned => tbl'[k].refcount > 0
  <2>1. CASE k = i
    BY <1>2, <2>1
  <2>2. CASE k # i
    <3>1. tbl'[k] = tbl[k] /\ tbl[k].refcount \in Int /\ tbl[k].opened \in Int
      BY <1>1, <1>2, <2>2 DEF Cells
    <3>2. Moved(t, k) = 0 /\ One(fileh'[t] = k) = One(fileh[t] = k)
      BY <2>2 DEF One
    <3>3. One(fileh[t] = k) \in Int /\ One(tbl[k].opened > 0) \in Int
      BY DEF One
    <3>4. tbl[k].orphaned => tbl[k].refcount > 0
      BY DEF TreeInv, ReleasedIsEvicted
    <3> QED
      BY <3>1, <3>2, <3>3, <3>4
  <2> QED
    BY <2>1, <2>2
<1> QED
  BY <1>2, <1>3, <1>4, Recounted

-----------------------------------------------------------------------------
(* The steps. *)

\* What the invariant says of the thread that steps.
LEMMA Here ==
  ASSUME TreeInv, NEW t \in Threads
  PROVE  /\ InRange(t) /\ Stage(t) /\ t # None
         /\ link_lock \in Threads \cup {None}
  BY TreeAssumption DEF TreeInv, Ranges, TypeOK, InRange, Staged, TreeAssumption

\* A call begins.
LEMMA CallStep ==
  ASSUME TreeInv, NEW t \in Threads, NEW name \in {"stat", "open", "opendir"},
         NEW d \in AllDirs, name = "opendir" => d \in Dirs /\ dirh[t] = None,
         name = "open" => fileh[t] = None, Call(t, name, d)
  PROVE  TreeInv'
<1>1. /\ pc[t] = "idle" /\ pc'[t] = "lookup" /\ op'[t] = name /\ goal'[t] = d
      /\ cur' = cur /\ held' = held /\ dirh' = dirh /\ fileh' = fileh
      /\ link_lock' = link_lock /\ tbl' = tbl /\ next_table' = next_table
  BY DEF Call, Goto, handles, TreeInv, Ranges, TypeOK
<1>2. Moves(t)
  BY <1>1 DEF Call, Goto, Moves, TreeInv, Ranges, TypeOK
<1>3. InRange(t)'
  BY <1>1, Here DEF InRange
<1>4. Stage(t)'
  BY <1>1, Here DEF Stage, InRange
<1> QED
  BY <1>1, <1>2, <1>3, <1>4, Here, Quiet DEF OwnLock

\* A lookup takes the lock.
LEMMA StartWalkStep ==
  ASSUME TreeInv, NEW t \in Threads, StartWalk(t) PROVE TreeInv'
<1>1. /\ pc[t] = "lookup" /\ pc'[t] = "walk" /\ cur'[t] = RootTbl
      /\ link_lock = None /\ link_lock' = t
      /\ op' = op /\ goal' = goal /\ held' = held /\ dirh' = dirh /\ fileh' = fileh
      /\ tbl' = tbl /\ next_table' = next_table
  BY DEF StartWalk, Goto, handles, TreeInv, Ranges, TypeOK
<1>2. Moves(t)
  BY <1>1 DEF StartWalk, Goto, Moves, TreeInv, Ranges, TypeOK
<1>3. RootTbl \in TblIds /\ RootTbl # None
  BY TreeAssumption DEF TreeAssumption
<1>4. InRange(t)'
  BY <1>1, <1>3, Here DEF InRange
<1>5. OnPath(t)'
  <2>1. LinkDir(t)' = LinkDir(t)
    BY <1>1 DEF LinkDir
  <2>2. goal[t] \in AllDirs /\ 0 \in 0 .. Len(LinkDir(t)) /\ 0 \in 0..Len(goal[t])
    BY Here, LinkDirs DEF TreeInv, InRange
  <2>3. Len(SubSeq(goal[t], 1, 0)) = 0 /\ SubSeq(goal[t], 1, 0) \in AllDirs
    BY <2>2, Prefixes
  <2>4. SubSeq(goal[t], 1, 0) = Root
    <3>1. \A d \in Dirs : Len(d) # 0
      BY TreeAssumption DEF TreeAssumption, Root
    <3> QED
      BY <2>3, <3>1 DEF AllDirs
  <2>5. tbl[RootTbl].dir = Root /\ Root # None
    BY TreeAssumption DEF TreeInv, Shaped, Rooted, TreeAssumption, AllDirs
  <2> QED
    BY <1>1, <2>1, <2>2, <2>4, <2>5 DEF OnPath, Live
<1>6. Stage(t)'
  BY <1>1, <1>3, <1>5, Here DEF Stage
<1> QED
  BY <1>1, <1>2, <1>4, <1>6, Here, Quiet DEF OwnLock

\* The listing has no such entry: the lock is let go.
LEMMA NotFoundStep ==
  ASSUME TreeInv, NEW t \in Threads, NotFound(t) PROVE TreeInv'
<1>1. /\ pc[t] = "walk" /\ pc'[t] \in {"exit", "unref"} /\ cur'[t] = None
      /\ link_lock' = None
      /\ op' = op /\ goal' = goal /\ held' = held /\ dirh' = dirh /\ fileh' = fileh
      /\ tbl' = tbl /\ next_table' = next_table
  BY DEF NotFound, Goto, Failed, handles, TreeInv, Ranges, TypeOK
<1>2. Moves(t)
  BY <1>1 DEF NotFound, Goto, Moves, TreeInv, Ranges, TypeOK
<1>3. InRange(t)'
  BY <1>1, Here DEF InRange
<1>4. Stage(t)' /\ link_lock = t
  BY <1>1, Here DEF Stage
<1> QED
  BY <1>1, <1>2, <1>3, <1>4, Here, Quiet DEF OwnLock

\* The call that found no listing gives up, or has loaded one.
LEMMA OpenLoadStep ==
  ASSUME TreeInv, NEW t \in Threads, OpenLoad(t) PROVE TreeInv'
<1>1. /\ pc[t] = "attach" /\ pc'[t] \in {"loaded", "unref"} /\ cur' = cur
      /\ link_lock' = link_lock
      /\ op' = op /\ goal' = goal /\ held' = held /\ dirh' = dirh /\ fileh' = fileh
      /\ tbl' = tbl /\ next_table' = next_table
  BY DEF OpenLoad, Goto, handles, TreeInv, Ranges, TypeOK
<1>2. Moves(t)
  BY <1>1 DEF OpenLoad, Goto, Moves, TreeInv, Ranges, TypeOK
<1>3. InRange(t)'
  BY <1>1, Here DEF InRange
<1>4. Stage(t)'
  BY <1>1, Here DEF Stage
<1> QED
  BY <1>1, <1>2, <1>3, <1>4, Here, Quiet DEF OwnLock

\* The call is over.
LEMMA ReturnStep ==
  ASSUME TreeInv, NEW t \in Threads, Return(t) PROVE TreeInv'
<1>1. /\ pc[t] = "unref" /\ pc'[t] = "idle" /\ cur' = cur /\ held[t] = <<>>
      /\ link_lock' = link_lock /\ op'[t] = "none" /\ goal'[t] = Root
      /\ held' = held /\ dirh' = dirh /\ fileh' = fileh
      /\ tbl' = tbl /\ next_table' = next_table
  BY DEF Return, Goto, handles, TreeInv, Ranges, TypeOK
<1>2. Moves(t)
  BY <1>1 DEF Return, Goto, Moves, TreeInv, Ranges, TypeOK
<1>3. InRange(t)'
  BY <1>1, Here DEF InRange, AllDirs
<1>4. Stage(t)'
  BY <1>1, Here DEF Stage
<1> QED
  BY <1>1, <1>2, <1>3, <1>4, Here, Quiet DEF OwnLock

\* The next table on the way is for a directory below the one reached.
LEMMA HopIs ==
  ASSUME TreeInv, NEW t \in Threads, pc[t] \in {"walk", "load"},
         pc[t] = "walk" => tbl[cur[t]].dir # LinkDir(t)
  PROVE  /\ cur[t] \in TblIds /\ Live(cur[t])
         /\ Hop(t) \in Dirs /\ Up(Hop(t)) = tbl[cur[t]].dir
         /\ \E n \in 0 .. Len(LinkDir(t)) :
              /\ n < Len(LinkDir(t)) /\ tbl[cur[t]].dir = SubSeq(goal[t], 1, n)
              /\ n + 1 \in 0 .. Len(LinkDir(t)) /\ Hop(t) = SubSeq(goal[t], 1, n + 1)
<1>1. Stage(t) /\ InRange(t)
  BY Here
<1>2. cur[t] \in TblIds /\ OnPath(t)
  BY <1>1 DEF Stage, InRange
<1>3. PICK n \in 0 .. Len(LinkDir(t)) :
        /\ tbl[cur[t]].dir = SubSeq(goal[t], 1, n)
        /\ pc[t] = "load" => n < Len(LinkDir(t))
  BY <1>2 DEF OnPath
<1>4. /\ Len(LinkDir(t)) \in 0..Len(goal[t]) /\ Len(goal[t]) \in Nat
      /\ LinkDir(t) = SubSeq(goal[t], 1, Len(LinkDir(t)))
  BY LinkDirs DEF TreeInv
<1>5. n # Len(LinkDir(t))
  BY <1>3, <1>4
<1> DEFINE m == Len(LinkDir(t))
           g == Len(goal[t])
<1>6. n \in 0..m /\ m \in 0..g /\ g \in Nat /\ n # m
  BY <1>3, <1>4, <1>5
<1> HIDE DEF m, g
<1>7. /\ n < m /\ n + 1 \in 0..m /\ n \in 0..g /\ n + 1 \in 0..g
      /\ n + 1 > 0 /\ n + 1 - 1 = n
  BY <1>6
<1>8. Len(SubSeq(goal[t], 1, n)) = n
  BY <1>1, <1>7, Prefixes DEF InRange, g
<1>9. Hop(t) = SubSeq(goal[t], 1, n + 1)
  BY <1>3, <1>8 DEF Hop
<1>10. /\ SubSeq(goal[t], 1, n + 1) \in Dirs
       /\ Up(SubSeq(goal[t], 1, n + 1)) = SubSeq(goal[t], 1, n + 1 - 1)
  <2> DEFINE k == n + 1
  <2>1. k \in 0..g /\ k > 0
    BY <1>7
  <2> HIDE DEF k
  <2>2. /\ SubSeq(goal[t], 1, k) \in Dirs
        /\ Up(SubSeq(goal[t], 1, k)) = SubSeq(goal[t], 1, k - 1)
    BY <1>1, <2>1, Prefixes DEF InRange, g
  <2> QED
    BY <2>2 DEF k
<1>11. Up(Hop(t)) = tbl[cur[t]].dir
  BY <1>3, <1>7, <1>9, <1>10
<1> QED
  BY <1>2, <1>3, <1>7, <1>9, <1>10, <1>11 DEF OnPath, m

\* The walk goes on in the table that is attached there.
LEMMA DescendStep ==
  ASSUME TreeInv, NEW t \in Threads, Descend(t) PROVE TreeInv'
<1> DEFINE j == next_table[cur[t]][Hop(t)]
<1>1. /\ pc[t] = "walk" /\ pc' = pc /\ cur'[t] = j /\ j # None
      /\ tbl[cur[t]].dir # LinkDir(t) /\ link_lock' = link_lock
      /\ op' = op /\ goal' = goal /\ held' = held /\ dirh' = dirh /\ fileh' = fileh
      /\ tbl' = tbl /\ next_table' = next_table
  BY DEF Descend, handles, TreeInv, Ranges, TypeOK
<1>2. Moves(t)
  BY <1>1 DEF Descend, Moves, TreeInv, Ranges, TypeOK
<1>3. cur[t] \in TblIds /\ Hop(t) \in Dirs
  BY <1>1, HopIs
<1>4. j \in TblIds /\ Live(j) /\ tbl[j].dir = Hop(t)
  <2>1. next_table[cur[t]][Hop(t)] \in TblIds \cup {None}
    BY <1>3 DEF TreeInv, Ranges, TypeOK
  <2>2. Linked(cur[t], Hop(t))
    BY <1>3 DEF TreeInv, Shaped
  <2> QED
    BY <1>1, <2>1, <2>2 DEF Linked
<1> HIDE DEF j
<1>5. InRange(t)'
  BY <1>1, <1>4, Here DEF InRange
<1>6. OnPath(t)'
  <2>1. LinkDir(t)' = LinkDir(t)
    BY <1>1 DEF LinkDir
  <2>2. PICK n \in 0 .. Len(LinkDir(t)) :
          /\ n < Len(LinkDir(t)) /\ tbl[cur[t]].dir = SubSeq(goal[t], 1, n)
          /\ n + 1 \in 0 .. Len(LinkDir(t)) /\ Hop(t) = SubSeq(goal[t], 1, n + 1)
    BY <1>1, HopIs
  <2> QED
    BY <1>1, <1>4, <2>1, <2>2 DEF OnPath, Live
<1>7. Stage(t)'
  BY <1>1, <1>4, <1>6, Here DEF Stage
<1> QED
  BY <1>1, <1>2, <1>5, <1>7, Here, Quiet DEF OwnLock

\* A cell with one more reference that is not marked for eviction.
LEMMA Reopened ==
  ASSUME NEW cell \in Cells
  PROVE  LET e == [cell EXCEPT !.refcount = @ + 1, !.orphaned = FALSE]
         IN  /\ e \in Cells /\ e.dir = cell.dir /\ e.parent = cell.parent
             /\ e.opened = cell.opened /\ e.refcount = cell.refcount + 1
             /\ e.orphaned = FALSE
<1> DEFINE more == [cell EXCEPT !.refcount = @ + 1]
           e == [cell EXCEPT !.refcount = @ + 1, !.orphaned = FALSE]
<1>1. e = [more EXCEPT !.orphaned = FALSE]
  OBVIOUS
<1>2. /\ more \in Cells /\ more.dir = cell.dir /\ more.parent = cell.parent
      /\ more.opened = cell.opened /\ more.refcount = cell.refcount + 1
  BY DEF Cells
<1> HIDE DEF more, e
<1>3. /\ e \in Cells /\ e.dir = more.dir /\ e.parent = more.parent
      /\ e.opened = more.opened /\ e.refcount = more.refcount
      /\ e.orphaned = FALSE
  BY <1>1, <1>2 DEF Cells
<1>4. /\ e \in Cells /\ e.dir = cell.dir /\ e.parent = cell.parent
      /\ e.opened = cell.opened /\ e.refcount = cell.refcount + 1
      /\ e.orphaned = FALSE
  BY <1>2, <1>3
<1> QED
  BY <1>4 DEF e

\* opendir of the root.
LEMMA OpendirRootStep ==
  ASSUME TreeInv, NEW t \in Threads, OpendirRoot(t) PROVE TreeInv'
<1> DEFINE i == RootTbl
           c == [tbl[i] EXCEPT !.refcount = @ + 1, !.orphaned = FALSE]
<1>1. /\ pc[t] = "idle" /\ pc' = pc /\ cur' = cur /\ dirh[t] = None /\ dirh'[t] = i
      /\ link_lock' = link_lock /\ op' = op /\ goal' = goal /\ held' = held
      /\ fileh' = fileh /\ next_table' = next_table
  BY DEF OpendirRoot, handles, TreeInv, Ranges, TypeOK
<1>2. /\ i \in TblIds /\ i # None /\ Live(i)
      /\ tbl[i] \in Cells /\ tbl \in [TblIds -> Cells]
  BY TreeAssumption
  DEF TreeInv, Ranges, TypeOK, Cells, Shaped, Rooted, Live, TreeAssumption, AllDirs
<1>3. tbl' = [tbl EXCEPT ![i] = c]
  BY <1>2 DEF OpendirRoot
<1>4. /\ c \in Cells /\ c.dir = tbl[i].dir /\ c.parent = tbl[i].parent
      /\ c.opened = tbl[i].opened /\ c.refcount = tbl[i].refcount + 1 /\ ~c.orphaned
  BY <1>2, Reopened
<1>5. Moves(t)
  BY <1>1 DEF OpendirRoot, Moves, TreeInv, Ranges, TypeOK
<1>6. InRange(t)'
  BY <1>1, <1>2, Here DEF InRange
<1>7. Stage(t)'
  BY <1>1, Here DEF Stage
<1>8. Moved(t, i) = 1 /\ \A k \in TblIds \ {i} : Moved(t, k) = 0
  <2>1. \A k \in TblIds : Times(held[t], k) \in 0..2
    BY TimesInHand DEF TreeInv
  <2>2. \A k \in TblIds : One(dirh[t] = k) = 0
    BY <1>1, TreeAssumption DEF One, TreeAssumption
  <2> QED
    BY <1>1, <1>2, <2>1, <2>2 DEF Moved, One
<1>9. /\ c.refcount = tbl[i].refcount + Moved(t, i)
                        + (One(c.opened > 0) - One(tbl[i].opened > 0))
      /\ c.opened = tbl[i].opened + One(fileh'[t] = i) - One(fileh[t] = i)
  BY <1>1, <1>2, <1>4, <1>8 DEF One, Cells
<1> HIDE DEF i, c
<1> QED
  BY <1>1, <1>2, <1>3, <1>4, <1>5, <1>6, <1>7, <1>8, <1>9, Here, OneCell DEF OwnLock

\* The link is found.
LEMMA FoundStep ==
  ASSUME TreeInv, NEW t \in Threads, Found(t) PROVE TreeInv'
<1> DEFINE i == cur[t]
           c == [tbl[i] EXCEPT !.refcount = @ + 1]
<1>1. /\ pc[t] = "walk" /\ cur'[t] = None /\ held'[t] = Append(held[t], i)
      /\ tbl[i].dir = LinkDir(t)
      /\ pc'[t] = CASE op[t] = "opendir" -> "attach"
                    [] op[t] = "open" /\ held[t] = <<>> -> "lookup"
                    [] op[t] = "open" /\ held[t] # <<>> -> "cache"
                    [] OTHER -> "unref"
      /\ link_lock' = None /\ op' = op /\ goal' = goal /\ dirh' = dirh
      /\ fileh' = fileh /\ next_table' = next_table
  BY DEF Found, Goto, handles, TreeInv, Ranges, TypeOK
<1>2. /\ i \in TblIds /\ Live(i) /\ tbl[i] \in Cells /\ tbl \in [TblIds -> Cells]
      /\ held[t] \in Seq(TblIds) /\ link_lock = t /\ Len(held[t]) <= 1
      /\ op[t] # "open" => held[t] = <<>>
  BY <1>1, Here DEF TreeInv, Ranges, TypeOK, Cells, InRange, Stage, OnPath
<1>3. tbl' = [tbl EXCEPT ![i] = c]
  BY <1>2 DEF Found
<1>4. /\ c \in Cells /\ c.dir = tbl[i].dir /\ c.parent = tbl[i].parent
      /\ c.opened = tbl[i].opened /\ c.refcount = tbl[i].refcount + 1
      /\ c.orphaned = tbl[i].orphaned
  BY <1>2 DEF Cells
<1>5. Moves(t)
  BY <1>1 DEF Found, Goto, Moves, TreeInv, Ranges, TypeOK
<1>6. InRange(t)'
  BY <1>1, <1>2, Here DEF InRange
<1>7. Stage(t)'
  <2>1. Len(held'[t]) = Len(held[t]) + 1 /\ Len(held[t]) \in Nat
    BY <1>1, <1>2
  <2>2. held[t] # <<>> => Len(held[t]) = 1
    <3> SUFFICES ASSUME held[t] # <<>> PROVE Len(held[t]) = 1
      OBVIOUS
    <3> DEFINE n == Len(held[t])
    <3>1. n \in Nat /\ n # 0 /\ n <= 1
      BY <1>2
    <3> HIDE DEF n
    <3>2. n = 1
      BY <3>1
    <3> QED
      BY <3>2 DEF n
  <2>3. held[t] = <<>> => held'[t][1] = i /\ Len(held'[t]) = 1
    BY <1>1, <1>2
  <2>4. tbl'[i].dir = tbl[i].dir
    BY <1>2, <1>3, <1>4
  <2>5. pc'[t] \in {"attach", "lookup", "cache", "unref"} /\ held'[t] # <<>>
    BY <1>1, <1>2
  <2>6. pc'[t] = "attach" => op[t] = "opendir" /\ held[t] = <<>>
    BY <1>1, <1>2
  <2>7. pc'[t] = "lookup" => op[t] = "open" /\ held[t] = <<>>
    BY <1>1, <1>2
  <2>8. pc'[t] = "cache" => op[t] = "open" /\ held[t] # <<>>
    BY <1>1, <1>2
  <2>9. pc'[t] \in {"attach", "loaded"} => tbl'[held'[t][1]].dir = Up(goal'[t])
    BY <1>1, <2>3, <2>4, <2>5, <2>6 DEF LinkDir
  <2>10. Len(held'[t]) <= 2
    BY <1>2, <2>1
  <2>11. Stage(t)
    BY Here
  <2>12. /\ link_lock' # t /\ op'[t] = op[t] /\ goal'[t] = goal[t]
         /\ dirh'[t] = dirh[t] /\ fileh'[t] = fileh[t]
    BY <1>1, Here
  <2>13. held[t] # <<>> => Len(held'[t]) = 2
    <3> SUFFICES ASSUME held[t] # <<>> PROVE Len(held'[t]) = 2
      OBVIOUS
    <3>1. Len(held[t]) = 1
      BY <2>2
    <3> QED
      BY <2>1, <3>1
  <2> QED
    BY <1>1, <2>3, <2>5, <2>6, <2>7, <2>8, <2>9, <2>10, <2>11, <2>12, <2>13 DEF Stage
<1>8. Moved(t, i) = 1 /\ \A k \in TblIds \ {i} : Moved(t, k) = 0
  <2>1. ASSUME NEW k \in TblIds
        PROVE  /\ Times(held'[t], k) = Times(held[t], k) + One(k = i)
               /\ Times(held[t], k) \in 0..2
    <3>1. held'[t] = Append(held[t], i) /\ held[t] \in Seq(TblIds) /\ i \in TblIds
      BY <1>1, <1>2
    <3>2. Ranges /\ Staged
      BY DEF TreeInv
    <3>3. Times(held[t], k) \in 0..2
      BY <3>2, TimesInHand
    <3> HIDE DEF i
    <3>4. Times(Append(held[t], i), k) = Times(held[t], k) + One(k = i)
      BY <3>1, TimesAppend
    <3> QED
      BY <3>1, <3>3, <3>4
  <2>2. ASSUME NEW k \in TblIds PROVE Moved(t, k) = One(k = i)
    BY <1>1, <2>1, TreeAssumption DEF Moved, One, TreeAssumption
  <2> QED
    BY <1>2, <2>2 DEF One
<1>9. /\ c.refcount = tbl[i].refcount + Moved(t, i)
                        + (One(c.opened > 0) - One(tbl[i].opened > 0))
      /\ c.opened = tbl[i].opened + One(fileh'[t] = i) - One(fileh[t] = i)
  BY <1>1, <1>2, <1>4, <1>8 DEF One, Cells
<1>10. /\ c.orphaned => c.refcount > 0
       /\ i = RootTbl => ~c.orphaned
  BY <1>2, <1>4 DEF TreeInv, ReleasedIsEvicted, Shaped, Rooted, Cells
<1> HIDE DEF i, c
<1> QED
  BY <1>1, <1>2, <1>3, <1>4, <1>5, <1>6, <1>7, <1>8, <1>9, <1>10, OneCell DEF OwnLock

\* The lock is let go for a load, with a reference to stand on.
LEMMA StartLoadStep ==
  ASSUME TreeInv, NEW t \in Threads, StartLoad(t) PROVE TreeInv'
<1> DEFINE i == cur[t]
           c == [tbl[i] EXCEPT !.refcount = @ + 1]
<1>1. /\ pc[t] = "walk" /\ pc'[t] = "load" /\ cur' = cur /\ tbl[i].dir # LinkDir(t)
      /\ link_lock' = None /\ op' = op /\ goal' = goal /\ held' = held
      /\ dirh' = dirh /\ fileh' = fileh /\ next_table' = next_table
  BY DEF StartLoad, Goto, handles, TreeInv, Ranges, TypeOK
<1>2. /\ i \in TblIds /\ Live(i) /\ tbl[i] \in Cells /\ tbl \in [TblIds -> Cells]
      /\ link_lock = t
  BY <1>1, Here DEF TreeInv, Ranges, TypeOK, Cells, InRange, Stage, OnPath
<1>3. tbl' = [tbl EXCEPT ![i] = c]
  BY <1>2 DEF StartLoad
<1>4. /\ c \in Cells /\ c.dir = tbl[i].dir /\ c.parent = tbl[i].parent
      /\ c.opened = tbl[i].opened /\ c.refcount = tbl[i].refcount + 1
      /\ c.orphaned = tbl[i].orphaned
  BY <1>2 DEF Cells
<1>5. Moves(t)
  BY <1>1 DEF StartLoad, Goto, Moves, TreeInv, Ranges, TypeOK
<1>6. InRange(t)'
  BY <1>1, Here DEF InRange
<1>7. Stage(t)'
  <2>1. LinkDir(t)' = LinkDir(t)
    BY <1>1 DEF LinkDir
  <2>2. PICK n \in 0 .. Len(LinkDir(t)) :
          n < Len(LinkDir(t)) /\ tbl[i].dir = SubSeq(goal[t], 1, n)
    BY <1>1, HopIs
  <2>3. tbl'[i].dir = tbl[i].dir
    BY <1>2, <1>3, <1>4
  <2>4. OnPath(t)'
    BY <1>1, <1>2, <2>1, <2>2, <2>3 DEF OnPath, Live
  <2> QED
    BY <1>1, <1>2, <2>4, Here DEF Stage
<1>8. Moved(t, i) = 1 /\ \A k \in TblIds \ {i} : Moved(t, k) = 0
  <2>1. \A k \in TblIds : Times(held[t], k) \in 0..2
    BY TimesInHand DEF TreeInv
  <2> QED
    BY <1>1, <1>2, <2>1 DEF Moved, One
<1>9. /\ c.refcount = tbl[i].refcount + Moved(t, i)
                        + (One(c.opened > 0) - One(tbl[i].opened > 0))
      /\ c.opened = tbl[i].opened + One(fileh'[t] = i) - One(fileh[t] = i)
  BY <1>1, <1>2, <1>4, <1>8 DEF One, Cells
<1>10. /\ c.orphaned => c.refcount > 0
       /\ i = RootTbl => ~c.orphaned
  BY <1>2, <1>4 DEF TreeInv, ReleasedIsEvicted, Shaped, Rooted, Cells
<1> HIDE DEF i, c
<1> QED
  BY <1>1, <1>2, <1>3, <1>4, <1>5, <1>6, <1>7, <1>8, <1>9, <1>10, OneCell DEF OwnLock

\* The load failed: its reference is to be dropped.
LEMMA LoadFailStep ==
  ASSUME TreeInv, NEW t \in Threads, LoadFail(t) PROVE TreeInv'
<1> DEFINE i == cur[t]
           c == tbl[i]
<1>1. /\ pc[t] = "load" /\ pc'[t] \in {"exit", "unref"} /\ cur'[t] = None
      /\ held'[t] = Append(held[t], i) /\ tbl' = tbl
      /\ link_lock' = link_lock /\ op' = op /\ goal' = goal /\ dirh' = dirh
      /\ fileh' = fileh /\ next_table' = next_table
  BY DEF LoadFail, Goto, Failed, handles, TreeInv, Ranges, TypeOK
<1>2. /\ i \in TblIds /\ Live(i) /\ tbl[i] \in Cells /\ tbl \in [TblIds -> Cells]
      /\ held[t] \in Seq(TblIds) /\ Len(held[t]) <= 1
  BY <1>1, Here DEF TreeInv, Ranges, TypeOK, Cells, InRange, Stage, OnPath
<1>3. tbl' = [tbl EXCEPT ![i] = c] /\ c \in Cells
  BY <1>1, <1>2
<1>4. Moves(t)
  BY <1>1 DEF LoadFail, Goto, Moves, TreeInv, Ranges, TypeOK
<1>5. InRange(t)'
  BY <1>1, <1>2, Here DEF InRange
<1>6. Stage(t)'
  <2>1. Len(held'[t]) <= 2
    BY <1>1, <1>2
  <2> QED
    BY <1>1, <2>1, Here DEF Stage
<1>7. \A k \in TblIds : Moved(t, k) = 0
  <2>1. ASSUME NEW k \in TblIds
        PROVE  /\ Times(held'[t], k) = Times(held[t], k) + One(k = i)
               /\ Times(held[t], k) \in 0..2
    <3>1. Times(held[t], k) \in 0..2
      BY TimesInHand DEF TreeInv
    <3>2. Times(Append(held[t], i), k) = Times(held[t], k) + One(k = i)
      BY <1>2, TimesAppend
    <3> QED
      BY <1>1, <3>1, <3>2
  <2> QED
    BY <1>1, <2>1 DEF Moved, One
<1>8. /\ c.refcount = tbl[i].refcount + Moved(t, i)
                        + (One(c.opened > 0) - One(tbl[i].opened > 0))
      /\ c.opened = tbl[i].opened + One(fileh'[t] = i) - One(fileh[t] = i)
  BY <1>1, <1>2, <1>7 DEF One, Cells
<1>9. /\ c.orphaned => c.refcount > 0
      /\ i = RootTbl => ~c.orphaned
      /\ c.dir = tbl[i].dir /\ c.parent = tbl[i].parent
  BY <1>2 DEF TreeInv, ReleasedIsEvicted, Shaped, Rooted
<1>10. \A k \in TblIds \ {i} : Moved(t, k) = 0 /\ (fileh'[t] = k <=> fileh[t] = k)
  BY <1>1, <1>7
<1>11. /\ next_table' = next_table /\ OwnLock(t) /\ i \in TblIds /\ Live(i)
       /\ link_lock' \in Threads \cup {None}
  BY <1>1, <1>2, Here DEF OwnLock
<1> HIDE DEF i, c
<1> QED
  BY <1>3, <1>4, <1>5, <1>6, <1>8, <1>9, <1>10, <1>11, OneCell

\* What path_to_LinkTable has found the link of: a directory's parent table.
LEMMA Attaching ==
  ASSUME TreeInv, NEW t \in Threads, pc[t] \in {"attach", "loaded"}
  PROVE  /\ Head(held[t]) \in TblIds /\ Head(held[t]) = held[t][1]
         /\ Live(Head(held[t])) /\ tbl[Head(held[t])].dir = Up(goal[t])
         /\ goal[t] \in Dirs /\ dirh[t] = None
         /\ held[t] \in Seq(TblIds) /\ Len(held[t]) = 1
<1>1. /\ op[t] = "opendir" /\ Len(held[t]) = 1 /\ held[t] \in Seq(TblIds)
      /\ tbl[held[t][1]].dir = Up(goal[t]) /\ goal[t] \in Dirs /\ dirh[t] = None
  BY Here DEF Stage, InRange
<1>2. Head(held[t]) = held[t][1]
  BY <1>1
<1>3. held[t][1] \in TblIds /\ Live(held[t][1])
  BY <1>1, InHandLive
<1> QED
  BY <1>1, <1>2, <1>3

\* The directory is opened in the table that is there.
LEMMA OpenAttachedStep ==
  ASSUME TreeInv, NEW t \in Threads, OpenAttached(t) PROVE TreeInv'
<1> DEFINE j == next_table[Head(held[t])][goal[t]]
           c == [tbl[j] EXCEPT !.refcount = @ + 1, !.orphaned = FALSE]
<1>1. /\ pc[t] \in {"attach", "loaded"} /\ pc'[t] = "unref" /\ j # None
      /\ cur' = cur /\ dirh'[t] = j /\ held' = held
      /\ link_lock' = link_lock /\ op' = op /\ goal' = goal
      /\ fileh' = fileh /\ next_table' = next_table
  BY DEF OpenAttached, Goto, handles, TreeInv, Ranges, TypeOK
<1>2. /\ Head(held[t]) \in TblIds /\ goal[t] \in Dirs /\ dirh[t] = None
      /\ held[t] \in Seq(TblIds)
  BY <1>1, Attaching
<1>3. /\ j \in TblIds /\ Live(j) /\ j # RootTbl
      /\ tbl[j] \in Cells /\ tbl \in [TblIds -> Cells]
  <2>1. next_table[Head(held[t])][goal[t]] \in TblIds \cup {None}
    BY <1>2 DEF TreeInv, Ranges, TypeOK
  <2>2. Linked(Head(held[t]), goal[t])
    BY <1>2 DEF TreeInv, Shaped
  <2>3. j \in TblIds /\ Live(j) /\ j # RootTbl
    BY <1>1, <2>1, <2>2 DEF Linked
  <2>4. tbl \in [TblIds -> Cells]
    BY DEF TreeInv, Ranges, TypeOK, Cells
  <2> QED
    BY <2>3, <2>4
<1>4. tbl' = [tbl EXCEPT ![j] = c]
  BY <1>3 DEF OpenAttached
<1>5. /\ c \in Cells /\ c.dir = tbl[j].dir /\ c.parent = tbl[j].parent
      /\ c.opened = tbl[j].opened /\ c.refcount = tbl[j].refcount + 1 /\ ~c.orphaned
  BY <1>3, Reopened
<1>6. Moves(t)
  BY <1>1 DEF OpenAttached, Goto, Moves, TreeInv, Ranges, TypeOK
<1>7. InRange(t)'
  BY <1>1, <1>3, Here DEF InRange
<1>8. Stage(t)'
  BY <1>1, Here DEF Stage
<1>9. Moved(t, j) = 1 /\ \A k \in TblIds \ {j} : Moved(t, k) = 0
  <2>1. \A k \in TblIds : Times(held[t], k) \in 0..2
    BY TimesInHand DEF TreeInv
  <2>2. \A k \in TblIds : One(dirh[t] = k) = 0
    BY <1>2, TreeAssumption DEF One, TreeAssumption
  <2>3. pc[t] # "load"
    BY <1>1
  <2> HIDE DEF j
  <2> QED
    BY <1>1, <1>3, <2>1, <2>2, <2>3 DEF Moved, One
<1>10. /\ c.refcount = tbl[j].refcount + Moved(t, j)
                         + (One(c.opened > 0) - One(tbl[j].opened > 0))
       /\ c.opened = tbl[j].opened + One(fileh'[t] = j) - One(fileh[t] = j)
  <2>1. fileh' = fileh /\ tbl[j].opened \in Int /\ tbl[j].refcount \in Int
    BY <1>1, <1>3 DEF Cells
  <2> HIDE DEF j, c
  <2> QED
    BY <1>5, <1>9, <2>1 DEF One
<1> HIDE DEF j, c
<1> QED
  BY <1>1, <1>3, <1>4, <1>5, <1>6, <1>7, <1>8, <1>9, <1>10, Here, OneCell DEF OwnLock

\* How many handles a table's file has: none if nobody is one.
LEMMA OpenedIs ==
  ASSUME TreeInv, NEW i \in TblIds
  PROVE  /\ tbl[i].opened \in Nat
         /\ \A t \in Threads : fileh[t] = i => tbl[i].opened > 0
<1>1. tbl[i].opened = Cardinality(Filers(i))
  BY CountedIs DEF TreeInv
<1>2. Filers(i) \subseteq Threads
  BY DEF Filers
<1>3. tbl[i].opened \in Nat /\ (tbl[i].opened = 0 <=> Filers(i) = {})
  BY <1>1, <1>2, Sized
<1>4. \A t \in Threads : fileh[t] = i => Filers(i) # {}
  BY DEF Filers
<1> QED
  BY <1>3, <1>4

\* A file is opened: its Cache takes the second reference, or has one.
LEMMA CacheOpenStep ==
  ASSUME TreeInv, NEW t \in Threads, CacheOpen(t) PROVE TreeInv'
<1> DEFINE i == held[t][2]
           c == [tbl[i] EXCEPT !.opened = @ + 1]
<1>1. /\ pc[t] = "cache" /\ pc'[t] = "unref" /\ cur' = cur /\ fileh'[t] = i
      /\ held'[t] = IF tbl[i].opened = 0 THEN <<held[t][1]>> ELSE held[t]
      /\ link_lock' = link_lock /\ op' = op /\ goal' = goal
      /\ dirh' = dirh /\ next_table' = next_table
  BY DEF CacheOpen, Goto, handles, TreeInv, Ranges, TypeOK
<1>2. held[t] \in Seq(TblIds) /\ Len(held[t]) = 2 /\ fileh[t] = None
  BY <1>1, Here DEF Stage, InRange
<1>3. /\ i \in TblIds /\ Live(i) /\ i # None
      /\ tbl[i] \in Cells /\ tbl \in [TblIds -> Cells]
  <2>1. i \in TblIds /\ Live(i)
    BY <1>2, InHandLive
  <2>2. tbl \in [TblIds -> Cells]
    BY DEF TreeInv, Ranges, TypeOK, Cells
  <2> QED
    BY <2>1, <2>2, TreeAssumption DEF TreeAssumption
<1>4. /\ held[t] # <<>> /\ held[t][Len(held[t])] = i /\ held[t][1] \in TblIds
  BY <1>2
<1>5. Front(held[t]) = <<held[t][1]>> /\ Front(held[t]) \in Seq(TblIds)
  <2>1. /\ Front(held[t]) \in Seq(TblIds) /\ Len(Front(held[t])) = Len(held[t]) - 1
        /\ \A k \in 1..Len(held[t]) - 1 : Front(held[t])[k] = held[t][k]
    BY <1>2, <1>4, FrontIs
  <2>2. Len(Front(held[t])) = 1 /\ Front(held[t])[1] = held[t][1]
    BY <1>2, <2>1
  <2> QED
    BY <2>1, <2>2
<1>6. tbl' = [tbl EXCEPT ![i] = c]
  BY <1>3 DEF CacheOpen
<1>7. /\ c \in Cells /\ c.dir = tbl[i].dir /\ c.parent = tbl[i].parent
      /\ c.opened = tbl[i].opened + 1 /\ c.refcount = tbl[i].refcount
      /\ c.orphaned = tbl[i].orphaned
  BY <1>3 DEF Cells
<1>8. Moves(t)
  BY <1>1 DEF CacheOpen, Goto, Moves, TreeInv, Ranges, TypeOK
<1>9. held'[t] \in Seq(TblIds) /\ Len(held'[t]) <= 2
  <2>1. <<held[t][1]>> \in Seq(TblIds) /\ Len(<<held[t][1]>>) <= 2
    BY <1>4
  <2>2. held[t] \in Seq(TblIds) /\ Len(held[t]) <= 2
    BY <1>2
  <2>3. held'[t] = <<held[t][1]>> \/ held'[t] = held[t]
    BY <1>1
  <2> QED
    BY <2>1, <2>2, <2>3
<1>10. InRange(t)'
  BY <1>1, <1>3, <1>9, Here DEF InRange
<1>11. Stage(t)'
  BY <1>1, <1>9, Here DEF Stage
<1>12. ASSUME NEW k \in TblIds
       PROVE  Moved(t, k) = IF tbl[i].opened = 0 THEN 0 - One(k = i) ELSE 0
  <2>1. Times(held[t], k) = Times(Front(held[t]), k) + One(k = i)
    BY <1>2, <1>4, TimesFront
  <2>2. Times(held[t], k) \in 0..2
    BY TimesInHand DEF TreeInv
  <2>3. Times(Front(held[t]), k) \in Int
    <3>1. Times(Front(held[t]), k) \in 0..Len(Front(held[t]))
      BY <1>5, TimesBound
    <3> QED
      BY <3>1
  <2>4. One(k = i) \in Int
    BY DEF One
  <2>5. Moved(t, k) = Times(held'[t], k) - Times(held[t], k)
    <3>1. Times(held'[t], k) \in 0..Len(held'[t])
      BY <1>9, TimesBound
    <3>2. Times(held'[t], k) \in Int
      BY <3>1
    <3> QED
      BY <1>1, <2>2, <3>2 DEF Moved, One
  <2>6. CASE tbl[i].opened = 0
    <3>1. held'[t] = Front(held[t])
      BY <1>1, <1>5, <2>6
    <3> HIDE DEF i
    <3> QED
      BY <2>1, <2>2, <2>3, <2>4, <2>5, <2>6, <3>1
  <2>7. CASE tbl[i].opened # 0
    <3>1. held'[t] = held[t]
      BY <1>1, <2>7
    <3> QED
      BY <2>2, <2>5, <2>7, <3>1
  <2> QED
    BY <2>6, <2>7
<1>13. \A k \in TblIds \ {i} : Moved(t, k) = 0
  BY <1>12 DEF One
<1>14. /\ c.refcount = tbl[i].refcount + Moved(t, i)
                         + (One(c.opened > 0) - One(tbl[i].opened > 0))
       /\ c.opened = tbl[i].opened + One(fileh'[t] = i) - One(fileh[t] = i)
  <2>1. Moved(t, i) = IF tbl[i].opened = 0 THEN 0 - 1 ELSE 0
    BY <1>3, <1>12 DEF One
  <2>2. tbl[i].opened \in Nat /\ tbl[i].refcount \in Int
    BY <1>3, OpenedIs DEF Cells
  <2>3. fileh'[t] = i /\ fileh[t] # i
    BY <1>1, <1>2, <1>3
  <2> HIDE DEF i, c
  <2> QED
    BY <1>7, <2>1, <2>2, <2>3 DEF One
<1>15. /\ c.orphaned => c.refcount > 0
       /\ i = RootTbl => ~c.orphaned
  BY <1>3, <1>7 DEF TreeInv, ReleasedIsEvicted, Shaped, Rooted
<1>16. \A k \in TblIds \ {i} : Moved(t, k) = 0 /\ (fileh'[t] = k <=> fileh[t] = k)
  BY <1>1, <1>2, <1>13, TreeAssumption DEF TreeAssumption
<1>17. /\ next_table' = next_table /\ OwnLock(t)
       /\ link_lock' \in Threads \cup {None}
  BY <1>1, Here DEF OwnLock
<1>18. i \in TblIds /\ Live(i) /\ tbl' = [tbl EXCEPT ![i] = c]
  BY <1>3, <1>6
<1> HIDE DEF i, c
<1> QED
  BY <1>7, <1>8, <1>10, <1>11, <1>14, <1>15, <1>16, <1>17, <1>18, OneCell

\* A table that is counted once.
LEMMA TimesSingle ==
  ASSUME NEW i \in TblIds, NEW k
  PROVE  <<i>> \in Seq(TblIds) /\ Times(<<i>>, k) = One(k = i)
<1>1. /\ <<i>> \in Seq(TblIds) /\ Append(<<>>, i) = <<i>>
  OBVIOUS
<1>2. Times(Append(<<>>, i), k) = Times(<<>>, k) + One(k = i)
  <2> DEFINE none == <<>>
  <2>1. none \in Seq(TblIds)
    OBVIOUS
  <2> HIDE DEF none
  <2>2. Times(Append(none, i), k) = Times(none, k) + One(k = i)
    BY <2>1, TimesAppend
  <2> QED
    BY <2>2 DEF none
<1>3. Times(<<>>, k) = 0
  BY TimesEmpty
<1>4. One(k = i) \in Int
  BY DEF One
<1>5. Times(Append(<<>>, i), k) = One(k = i)
  BY <1>2, <1>3, <1>4
<1> QED
  BY <1>1, <1>5

\* A file is closed: with the last handle the reference of its Cache goes.
LEMMA CacheCloseStep ==
  ASSUME TreeInv, NEW t \in Threads, CacheClose(t) PROVE TreeInv'
<1> DEFINE i == fileh[t]
           c == [tbl[i] EXCEPT !.opened = @ - 1]
<1>1. /\ pc[t] = "idle" /\ pc'[t] = "unref" /\ cur' = cur
      /\ fileh[t] # None /\ fileh'[t] = None /\ op'[t] = "release"
      /\ held'[t] = (IF tbl[i].opened = 1 THEN <<i>> ELSE held[t])
      /\ link_lock' = link_lock /\ goal' = goal
      /\ dirh' = dirh /\ next_table' = next_table
  BY DEF CacheClose, Goto, handles, TreeInv, Ranges, TypeOK
<1>2. held[t] = <<>>
  BY <1>1, Here DEF Stage
<1>3. /\ i \in TblIds /\ Live(i) /\ i # None
      /\ tbl[i] \in Cells /\ tbl \in [TblIds -> Cells]
  <2>1. i \in TblIds /\ Live(i)
    BY <1>1, InHandLive
  <2>2. tbl \in [TblIds -> Cells]
    BY DEF TreeInv, Ranges, TypeOK, Cells
  <2> QED
    BY <1>1, <2>1, <2>2
<1>4. tbl' = [tbl EXCEPT ![i] = c]
  BY <1>3 DEF CacheClose
<1>5. /\ c \in Cells /\ c.dir = tbl[i].dir /\ c.parent = tbl[i].parent
      /\ c.opened = tbl[i].opened - 1 /\ c.refcount = tbl[i].refcount
      /\ c.orphaned = tbl[i].orphaned
  BY <1>3 DEF Cells
<1>6. Moves(t)
  BY <1>1 DEF CacheClose, Goto, Moves, TreeInv, Ranges, TypeOK
<1>7. held'[t] \in Seq(TblIds) /\ Len(held'[t]) <= 2
  <2>1. /\ <<i>> \in Seq(TblIds) /\ Len(<<i>>) <= 2
        /\ <<>> \in Seq(TblIds) /\ Len(<<>>) <= 2
    BY <1>3
  <2>2. held'[t] = <<i>> \/ held'[t] = <<>>
    BY <1>1, <1>2
  <2> QED
    BY <2>1, <2>2
<1>8. InRange(t)'
  BY <1>1, <1>7, Here DEF InRange
<1>9. Stage(t)'
  BY <1>1, <1>7, Here DEF Stage
<1>10. ASSUME NEW k \in TblIds
       PROVE  Moved(t, k) = IF tbl[i].opened = 1 THEN One(k = i) ELSE 0
  <2>1. Times(<<i>>, k) = One(k = i) /\ Times(<<>>, k) = 0 /\ One(k = i) \in Int
    BY <1>3, TimesSingle, TimesEmpty DEF One
  <2>2. /\ held[t] = <<>> /\ dirh' = dirh
        /\ ~(cur[t] = k /\ pc[t] = "load") /\ ~(cur'[t] = k /\ pc'[t] = "load")
    BY <1>1, <1>2
  <2>3. Moved(t, k) = Times(held'[t], k)
    <3>1. Times(held'[t], k) \in Int
      <4>1. Times(held'[t], k) \in 0..Len(held'[t])
        BY <1>7, TimesBound
      <4> QED
        BY <4>1
    <3> QED
      BY <2>1, <2>2, <3>1 DEF Moved, One
  <2>4. CASE tbl[i].opened = 1
    BY <1>1, <2>1, <2>3, <2>4
  <2>5. CASE tbl[i].opened # 1
    BY <1>1, <1>2, <2>1, <2>3, <2>5
  <2> QED
    BY <2>4, <2>5
<1>11. /\ c.refcount = tbl[i].refcount + Moved(t, i)
                         + (One(c.opened > 0) - One(tbl[i].opened > 0))
       /\ c.opened = tbl[i].opened + One(fileh'[t] = i) - One(fileh[t] = i)
  <2>1. Moved(t, i) = IF tbl[i].opened = 1 THEN 1 ELSE 0
    BY <1>3, <1>10 DEF One
  <2>2. tbl[i].opened \in Nat /\ tbl[i].opened > 0 /\ tbl[i].refcount \in Int
    BY <1>3, OpenedIs DEF Cells
  <2>3. fileh'[t] # i /\ fileh[t] = i
    BY <1>1
  <2> HIDE DEF i, c
  <2> QED
    BY <1>5, <2>1, <2>2, <2>3 DEF One
<1>12. /\ c.orphaned => c.refcount > 0
       /\ i = RootTbl => ~c.orphaned
  BY <1>3, <1>5 DEF TreeInv, ReleasedIsEvicted, Shaped, Rooted
<1>13. \A k \in TblIds \ {i} : Moved(t, k) = 0 /\ (fileh'[t] = k <=> fileh[t] = k)
  <2>1. \A k \in TblIds \ {i} : Moved(t, k) = 0
    BY <1>10 DEF One
  <2> QED
    BY <1>1, <2>1, TreeAssumption DEF TreeAssumption
<1>14. /\ next_table' = next_table /\ OwnLock(t) /\ i \in TblIds /\ Live(i)
       /\ link_lock' \in Threads \cup {None}
  BY <1>1, <1>3, Here DEF OwnLock
<1> HIDE DEF i, c
<1> QED
  BY <1>4, <1>5, <1>6, <1>8, <1>9, <1>11, <1>12, <1>13, <1>14, OneCell

\* A directory is released: its handle's reference is to be dropped.
LEMMA ReleasedirStep ==
  ASSUME TreeInv, NEW t \in Threads, Releasedir(t) PROVE TreeInv'
<1> DEFINE i == dirh[t]
           c == [tbl[i] EXCEPT !.orphaned = @ \/ tbl[i].dir # Root]
<1>1. /\ pc[t] = "idle" /\ pc'[t] = "unref" /\ cur' = cur
      /\ dirh[t] # None /\ dirh'[t] = None /\ op'[t] = "releasedir"
      /\ held'[t] = <<i>> /\ fileh' = fileh
      /\ link_lock' = link_lock /\ goal' = goal /\ next_table' = next_table
  BY DEF Releasedir, Goto, handles, TreeInv, Ranges, TypeOK
<1>2. held[t] = <<>>
  BY <1>1, Here DEF Stage
<1>3. /\ i \in TblIds /\ Live(i) /\ i # None
      /\ tbl[i] \in Cells /\ tbl \in [TblIds -> Cells]
  <2>1. i \in TblIds /\ Live(i)
    BY <1>1, InHandLive
  <2>2. tbl \in [TblIds -> Cells]
    BY DEF TreeInv, Ranges, TypeOK, Cells
  <2> QED
    BY <1>1, <2>1, <2>2
<1>4. tbl' = [tbl EXCEPT ![i] = c]
  BY <1>3 DEF Releasedir
<1>5. /\ c \in Cells /\ c.dir = tbl[i].dir /\ c.parent = tbl[i].parent
      /\ c.opened = tbl[i].opened /\ c.refcount = tbl[i].refcount
      /\ c.orphaned = (tbl[i].orphaned \/ tbl[i].dir # Root)
  BY <1>3 DEF Cells
<1>6. Moves(t)
  BY <1>1 DEF Releasedir, Goto, Moves, TreeInv, Ranges, TypeOK
<1>7. held'[t] \in Seq(TblIds) /\ Len(held'[t]) <= 2
  <2>1. <<i>> \in Seq(TblIds) /\ Len(<<i>>) <= 2
    BY <1>3
  <2> QED
    BY <1>1, <2>1
<1>8. InRange(t)'
  BY <1>1, <1>7, Here DEF InRange
<1>9. Stage(t)'
  BY <1>1, <1>7, Here DEF Stage
<1>10. \A k \in TblIds : Moved(t, k) = 0
  <2> TAKE k \in TblIds
  <2>1. Times(<<i>>, k) = One(k = i) /\ Times(<<>>, k) = 0
    BY <1>3, TimesSingle, TimesEmpty
  <2>2. dirh'[t] # k /\ (dirh[t] = k <=> k = i)
    BY <1>1, TreeAssumption DEF TreeAssumption
  <2>3. ~(cur[t] = k /\ pc[t] = "load") /\ ~(cur'[t] = k /\ pc'[t] = "load")
    BY <1>1
  <2>4. Times(held'[t], k) = One(k = i) /\ Times(held[t], k) = 0
    BY <1>1, <1>2, <2>1
  <2> HIDE DEF i
  <2> QED
    BY <2>2, <2>3, <2>4 DEF Moved, One
<1>11. /\ c.refcount = tbl[i].refcount + Moved(t, i)
                         + (One(c.opened > 0) - One(tbl[i].opened > 0))
       /\ c.opened = tbl[i].opened + One(fileh'[t] = i) - One(fileh[t] = i)
  <2>1. fileh' = fileh /\ tbl[i].opened \in Int /\ tbl[i].refcount \in Int
    BY <1>1, <1>3 DEF Cells
  <2>2. Moved(t, i) = 0
    BY <1>3, <1>10
  <2> HIDE DEF i, c
  <2> QED
    BY <1>5, <2>1, <2>2 DEF One
<1>12. c.refcount > 0
  <2>1. tbl[i].refcount = RefsOf(i)
    BY <1>3, CountedIs DEF TreeInv, Counted
  <2>2. Openers(i) \subseteq Threads /\ t \in Openers(i)
    BY DEF Openers
  <2>3. Cardinality(Openers(i)) \in Nat /\ Cardinality(Openers(i)) # 0
    BY <2>2, Sized
  <2>4. One(tbl[i].opened > 0) \in Nat
    BY DEF One
  <2>5. /\ Held(i) \in Nat /\ Cardinality(Loaders(i)) \in Nat
        /\ Cardinality(Children(i)) \in Nat
    BY CountsAreNat
  <2> HIDE DEF i, c
  <2> QED
    BY <1>5, <2>1, <2>3, <2>4, <2>5 DEF RefsOf
<1>13. i = RootTbl => ~c.orphaned
  BY <1>5 DEF TreeInv, Shaped, Rooted
<1>14. \A k \in TblIds \ {i} : Moved(t, k) = 0 /\ (fileh'[t] = k <=> fileh[t] = k)
  BY <1>1, <1>10
<1>15. /\ next_table' = next_table /\ OwnLock(t) /\ i \in TblIds /\ Live(i)
       /\ link_lock' \in Threads \cup {None}
  BY <1>1, <1>3, Here DEF OwnLock
<1> HIDE DEF i, c
<1> QED
  BY <1>4, <1>5, <1>6, <1>8, <1>9, <1>11, <1>12, <1>13, <1>14, <1>15, OneCell

\* The last reference in hand, and its table.
LEMMA InHand ==
  ASSUME TreeInv, NEW t \in Threads, held[t] # <<>>
  PROVE  /\ LastHeld(t) \in TblIds /\ Live(LastHeld(t))
         /\ Front(held[t]) \in Seq(TblIds) /\ Len(Front(held[t])) <= 1
         /\ Times(held[t], LastHeld(t)) > 0
         /\ \A k : /\ Times(held[t], k) \in 0..2 /\ Times(Front(held[t]), k) \in 0..1
                   /\ Times(held[t], k) = Times(Front(held[t]), k) + One(k = LastHeld(t))
<1>1. held[t] \in Seq(TblIds) /\ Len(held[t]) \in 0..2
  BY TimesInHand DEF TreeInv
<1>2. /\ Len(held[t]) \in Nat \ {0} /\ held[t][Len(held[t])] \in TblIds
      /\ Front(held[t]) \in Seq(TblIds) /\ Len(Front(held[t])) = Len(held[t]) - 1
  BY <1>1, FrontIs
<1> DEFINE n == Len(held[t])
           m == Len(Front(held[t]))
<1>3. n \in 0..2 /\ n # 0 /\ n \in Nat /\ m = n - 1
  BY <1>1, <1>2
<1>4. LastHeld(t) = held[t][n]
  BY DEF LastHeld
<1> HIDE DEF n, m
<1>5. m \in 0..1 /\ n \in 1..n
  BY <1>3
<1>6. LastHeld(t) \in TblIds /\ Live(LastHeld(t))
  BY <1>4, <1>5, InHandLive DEF n
<1>7. ASSUME NEW k
      PROVE  /\ Times(held[t], k) \in 0..2 /\ Times(Front(held[t]), k) \in 0..1
             /\ Times(held[t], k) = Times(Front(held[t]), k) + One(k = LastHeld(t))
  <2>1. Times(held[t], k) \in 0..2
    BY TimesInHand DEF TreeInv
  <2>2. Times(Front(held[t]), k) \in 0..m
    BY <1>2, TimesBound DEF m
  <2>3. Times(held[t], k) = Times(Front(held[t]), k) + One(k = held[t][Len(held[t])])
    BY <1>1, TimesFront
  <2>4. Times(Front(held[t]), k) \in 0..1
    BY <1>5, <2>2
  <2> QED
    BY <1>4, <2>1, <2>3, <2>4 DEF n
<1>8. Times(held[t], LastHeld(t)) > 0
  BY <1>7 DEF One
<1> QED
  BY <1>2, <1>5, <1>6, <1>7, <1>8 DEF m

\* A reference is dropped that is not the last, or is of a table that stays.
LEMMA KeepStep ==
  ASSUME TreeInv, NEW t \in Threads, Keep(t) PROVE TreeInv'
<1> DEFINE i == LastHeld(t)
           c == [tbl[i] EXCEPT !.refcount = @ - 1]
<1>1. /\ pc[t] = "unref" /\ pc' = pc /\ cur' = cur /\ held[t] # <<>>
      /\ held'[t] = Front(held[t]) /\ ~Evictable(i)
      /\ link_lock' = link_lock /\ op' = op /\ goal' = goal
      /\ dirh' = dirh /\ fileh' = fileh /\ next_table' = next_table
  BY DEF Keep, Front, handles, TreeInv, Ranges, TypeOK
<1>2. /\ i \in TblIds /\ Live(i) /\ tbl[i] \in Cells /\ tbl \in [TblIds -> Cells]
  BY <1>1, InHand DEF TreeInv, Ranges, TypeOK, Cells
<1>3. tbl' = [tbl EXCEPT ![i] = c]
  BY <1>2 DEF Keep
<1>4. /\ c \in Cells /\ c.dir = tbl[i].dir /\ c.parent = tbl[i].parent
      /\ c.opened = tbl[i].opened /\ c.refcount = tbl[i].refcount - 1
      /\ c.orphaned = tbl[i].orphaned
  BY <1>2 DEF Cells
<1>5. Moves(t)
  BY <1>1 DEF Keep, Moves, TreeInv, Ranges, TypeOK
<1>6. held'[t] \in Seq(TblIds) /\ Len(held'[t]) <= 1
  BY <1>1, InHand
<1>7. InRange(t)'
  BY <1>1, <1>6, Here DEF InRange
<1>8. Stage(t)'
  <2>1. Len(held'[t]) <= 2
    BY <1>6
  <2> QED
    BY <1>1, <2>1, Here DEF Stage
<1>9. ASSUME NEW k \in TblIds PROVE Moved(t, k) = 0 - One(k = i)
  <2>1. /\ Times(held[t], k) \in 0..2 /\ Times(Front(held[t]), k) \in 0..1
        /\ Times(held[t], k) = Times(Front(held[t]), k) + One(k = i)
    BY <1>1, InHand
  <2>2. ~(cur[t] = k /\ pc[t] = "load") /\ ~(cur'[t] = k /\ pc'[t] = "load")
    BY <1>1
  <2> HIDE DEF i
  <2> QED
    BY <1>1, <2>1, <2>2 DEF Moved, One
<1>10. /\ c.refcount = tbl[i].refcount + Moved(t, i)
                         + (One(c.opened > 0) - One(tbl[i].opened > 0))
       /\ c.opened = tbl[i].opened + One(fileh'[t] = i) - One(fileh[t] = i)
  <2>1. fileh' = fileh /\ tbl[i].opened \in Int /\ tbl[i].refcount \in Int
    BY <1>1, <1>2 DEF Cells
  <2>2. Moved(t, i) = 0 - 1
    BY <1>2, <1>9 DEF One
  <2> HIDE DEF i, c
  <2> QED
    BY <1>4, <2>1, <2>2 DEF One
<1>11. /\ c.orphaned => c.refcount > 0
       /\ i = RootTbl => ~c.orphaned
  <2>1. c.orphaned => tbl[i].refcount > 0 /\ tbl[i].refcount # 1
    BY <1>1, <1>2, <1>4 DEF TreeInv, ReleasedIsEvicted, Evictable
  <2>2. tbl[i].refcount \in Int
    BY <1>2 DEF Cells
  <2>3. i = RootTbl => ~c.orphaned
    BY <1>4 DEF TreeInv, Shaped, Rooted
  <2> HIDE DEF i, c
  <2> QED
    BY <1>4, <2>1, <2>2, <2>3
<1>12. \A k \in TblIds \ {i} : Moved(t, k) = 0 /\ (fileh'[t] = k <=> fileh[t] = k)
  <2>1. \A k \in TblIds \ {i} : Moved(t, k) = 0
    BY <1>9 DEF One
  <2> QED
    BY <1>1, <2>1
<1>13. /\ next_table' = next_table /\ OwnLock(t) /\ i \in TblIds /\ Live(i)
       /\ link_lock' \in Threads \cup {None}
  BY <1>1, <1>2, Here DEF OwnLock
<1> HIDE DEF i, c
<1> QED
  BY <1>3, <1>4, <1>5, <1>7, <1>8, <1>10, <1>11, <1>12, <1>13, OneCell

\* What a cell holds when it is free, and when a listing is put in it.
LEMMA FreshCells ==
  ASSUME NEW d \in AllDirs, NEW i \in TblIds \cup {None}, NEW n \in {0, 1}
  PROVE  /\ NewTbl(d, i, n) \in Cells /\ NewTbl(d, i, n).dir = d
         /\ NewTbl(d, i, n).parent = i /\ NewTbl(d, i, n).refcount = n
         /\ NewTbl(d, i, n).orphaned = FALSE /\ NewTbl(d, i, n).opened = 0
<1> DEFINE a == [FreeTbl EXCEPT !.dir = d]
           b == [a EXCEPT !.parent = i]
           c == [b EXCEPT !.refcount = n]
<1>1. NewTbl(d, i, n) = c
  BY DEF NewTbl
<1>2. /\ FreeTbl \in Cells /\ FreeTbl.parent = None /\ FreeTbl.refcount = 0
      /\ FreeTbl.orphaned = FALSE /\ FreeTbl.opened = 0
  BY DEF FreeTbl, Cells
<1>3. a \in Cells /\ a.dir = d /\ a.orphaned = FALSE /\ a.opened = 0
  BY <1>2 DEF Cells
<1> HIDE DEF a
<1>4. b \in Cells /\ b.dir = d /\ b.orphaned = FALSE /\ b.opened = 0 /\ b.parent = i
  BY <1>3 DEF Cells
<1> HIDE DEF b
<1>5. /\ c \in Cells /\ c.dir = d /\ c.orphaned = FALSE /\ c.opened = 0
      /\ c.parent = i /\ c.refcount = n
  BY <1>4 DEF Cells
<1> HIDE DEF c
<1> QED
  BY <1>1, <1>5

\* A listing attached where there was none keeps the tree a tree: were another
\* table there for the same directory, it would hang on the same link.
LEMMA Grow ==
  ASSUME TreeInv, NEW i \in TblIds, Live(i), NEW d \in Dirs, Up(d) = tbl[i].dir,
         next_table[i][d] = None, NEW j \in TblIds, tbl[j] = FreeTbl,
         tbl'[j].dir = d, tbl'[j].parent = i, ~tbl'[RootTbl].orphaned,
         \A k \in TblIds \ {j} :
           /\ tbl'[k].dir = tbl[k].dir /\ tbl'[k].parent = tbl[k].parent
           /\ ~Live(k) => tbl'[k] = tbl[k],
         next_table' = [next_table EXCEPT ![i][d] = j]
  PROVE  Shaped'
<1>1. /\ next_table \in [TblIds -> [Dirs -> TblIds \cup {None}]]
      /\ \A k \in TblIds : k # None
      /\ RootTbl \in TblIds /\ Root # None /\ \A c \in Dirs : c # None /\ c # Root
  BY TreeAssumption DEF TreeInv, Ranges, TypeOK, TreeAssumption, AllDirs
<1>2. \A a \in TblIds, b \in Dirs :
        next_table'[a][b] = IF a = i /\ b = d THEN j ELSE next_table[a][b]
  BY <1>1
<1>3. /\ ~Live(j) /\ tbl[RootTbl].dir = Root /\ tbl[RootTbl].parent = None
      /\ j # RootTbl /\ j # i
  BY <1>1 DEF TreeInv, Shaped, Rooted, Live, FreeTbl
<1>4. /\ \A k \in TblIds \ {j} : Live(k)' <=> Live(k)
      /\ Live(j)'
  BY <1>1 DEF Live
<1>5. Rooted'
  BY <1>1, <1>3 DEF Rooted
<1>6. ASSUME NEW k \in TblIds, Live(k), tbl[k].dir = d PROVE FALSE
  <2>1. Hung(k)
    BY <1>1, <1>3, <1>6 DEF TreeInv, Shaped
  <2>2. tbl[k].parent \in TblIds
    BY <2>1 DEF Hung, TreeInv, Ranges, TypeOK
  <2>3. Live(tbl[k].parent) /\ tbl[tbl[k].parent].dir = tbl[i].dir
    BY <1>6, <2>1 DEF Hung
  <2>4. tbl[k].parent = i
    BY <2>2, <2>3 DEF TreeInv, Shaped
  <2> QED
    BY <1>1, <1>6, <2>1, <2>4 DEF Hung
<1>7. ASSUME NEW k \in TblIds, Live(k)', k # RootTbl PROVE Hung(k)'
  <2>1. CASE k = j
    BY <1>1, <1>2, <1>3, <1>4, <2>1 DEF Hung
  <2>2. CASE k # j
    <3>1. Live(k) /\ Hung(k) /\ tbl[k].dir # d
      BY <1>4, <1>6, <1>7, <2>2 DEF TreeInv, Shaped
    <3>2. /\ tbl[k].parent \in TblIds /\ tbl[k].parent # None
          /\ Live(tbl[k].parent) /\ tbl[k].parent # j
          /\ tbl[k].dir \in Dirs /\ Up(tbl[k].dir) = tbl[tbl[k].parent].dir
          /\ next_table[tbl[k].parent][tbl[k].dir] = k
      BY <1>3, <3>1 DEF Hung, TreeInv, Ranges, TypeOK
    <3>3. tbl'[k].dir = tbl[k].dir /\ tbl'[k].parent = tbl[k].parent
      BY <2>2
    <3>4. next_table'[tbl[k].parent][tbl[k].dir] = k
      BY <1>2, <3>1, <3>2
    <3>5. /\ tbl'[tbl[k].parent].dir # None
          /\ tbl'[tbl[k].parent].dir = tbl[tbl[k].parent].dir
      BY <3>2 DEF Live
    <3> QED
      BY <3>2, <3>3, <3>4, <3>5 DEF Hung, Live
  <2> QED
    BY <2>1, <2>2
<1>8. ASSUME NEW a \in TblIds, NEW b \in Dirs PROVE Linked(a, b)'
  <2>1. CASE a = i /\ b = d
    BY <1>1, <1>2, <1>3, <1>4, <2>1 DEF Linked
  <2>2. CASE ~(a = i /\ b = d)
    <3>1. next_table'[a][b] = next_table[a][b]
      BY <1>2, <2>2
    <3>2. Linked(a, b) /\ next_table[a][b] \in TblIds \cup {None}
      BY <1>1 DEF TreeInv, Shaped
    <3> QED
      BY <1>3, <1>4, <3>1, <3>2 DEF Linked
  <2> QED
    BY <2>1, <2>2
<1>9. \A k \in TblIds : ~Live(k)' => tbl'[k] = FreeTbl
  BY <1>4 DEF TreeInv, Shaped
<1>10. \A k, l \in TblIds : Live(k)' /\ Live(l)' /\ k # l => tbl'[k].dir # tbl'[l].dir
  <2> TAKE k, l \in TblIds
  <2> HAVE Live(k)' /\ Live(l)' /\ k # l
  <2>1. CASE k = j
    BY <1>4, <1>6, <2>1
  <2>2. CASE l = j
    BY <1>4, <1>6, <2>2
  <2>3. CASE k # j /\ l # j
    BY <1>4, <2>3 DEF TreeInv, Shaped
  <2> QED
    BY <2>1, <2>2, <2>3
<1>11. FreeTbl' = FreeTbl
  BY DEF FreeTbl
<1> QED
  BY <1>5, <1>7, <1>8, <1>9, <1>10, <1>11 DEF Shaped

\* A step that attaches a listing and counts it keeps the invariant.
LEMMA Grown ==
  ASSUME TreeInv, NEW t \in Threads, Moves(t), InRange(t)', Stage(t)', OwnLock(t),
         link_lock' \in Threads \cup {None}, fileh' = fileh,
         NEW i \in TblIds, Live(i), NEW d \in Dirs, Up(d) = tbl[i].dir,
         next_table[i][d] = None, NEW j \in TblIds, tbl[j] = FreeTbl,
         next_table' = [next_table EXCEPT ![i][d] = j],
         tbl' \in [TblIds -> Cells],
         /\ tbl'[j].dir = d /\ tbl'[j].parent = i
         /\ tbl'[j].orphaned = FALSE /\ tbl'[j].opened = 0,
         \A k \in TblIds \ {j, i} : tbl'[k] = tbl[k],
         /\ tbl'[i].dir = tbl[i].dir /\ tbl'[i].parent = tbl[i].parent
         /\ tbl'[i].orphaned = tbl[i].orphaned /\ tbl'[i].opened = tbl[i].opened
         /\ tbl'[i].refcount >= tbl[i].refcount,
         \A k \in TblIds : tbl'[k].refcount = tbl[k].refcount + Moved(t, k) + One(k = i)
  PROVE  TreeInv'
<1>1. next_table' \in [TblIds -> [Dirs -> TblIds \cup {None}]]
  BY DEF TreeInv, Ranges, TypeOK
<1>2. Len(held'[t]) <= 2
  BY DEF Stage
<1>3. Ranges' /\ Others(t)
  BY <1>1, <1>2, RangesMove DEF TreeInv
<1>4. /\ tbl'[j].dir = d /\ tbl'[j].parent = i /\ tbl'[j].orphaned = FALSE
      /\ tbl'[j].opened = 0
  OBVIOUS
<1>5. /\ tbl[j].parent = None /\ tbl[j].opened = 0 /\ ~Live(j) /\ j # i
      /\ \A k \in TblIds : k # None
  BY TreeAssumption DEF FreeTbl, Live, TreeAssumption
<1>6. \A k \in TblIds \ {j} : /\ tbl'[k].dir = tbl[k].dir
                              /\ tbl'[k].parent = tbl[k].parent
                              /\ tbl'[k].opened = tbl[k].opened
                              /\ tbl'[k].orphaned = tbl[k].orphaned
                              /\ ~Live(k) => tbl'[k] = tbl[k]
  OBVIOUS
<1>7. RootTbl \in TblIds /\ RootTbl # j /\ ~tbl'[RootTbl].orphaned
  <2>1. RootTbl \in TblIds /\ Live(RootTbl) /\ ~tbl[RootTbl].orphaned
    BY TreeAssumption DEF TreeInv, Shaped, Rooted, Live, TreeAssumption, AllDirs
  <2> QED
    BY <1>5, <1>6, <2>1
<1>8. Shaped'
  BY <1>4, <1>6, <1>7, Grow
<1>9. Staged'
  <2>1. \A k \in TblIds : Live(k) => tbl'[k].dir = tbl[k].dir
    BY <1>5, <1>6
  <2>2. ASSUME NEW u \in Threads \ {t}
        PROVE  /\ \A k \in 1..Len(held[u]) : tbl'[held[u][k]].dir = tbl[held[u][k]].dir
               /\ cur[u] # None => tbl'[cur[u]].dir = tbl[cur[u]].dir
    BY <2>1, InHandLive
  <2> QED
    BY <1>3, <2>2, OthersStay
<1>10. ASSUME NEW k \in TblIds
       PROVE  /\ tbl'[k].refcount = tbl[k].refcount + Moved(t, k)
                   + (One(tbl'[j].parent = k) - One(tbl[j].parent = k))
                   + (One(tbl'[k].opened > 0) - One(tbl[k].opened > 0))
              /\ tbl'[k].opened = tbl[k].opened + One(fileh'[t] = k) - One(fileh[t] = k)
              /\ tbl'[k].orphaned => tbl'[k].refcount > 0
  <2>1. /\ tbl'[k].opened = tbl[k].opened
        /\ tbl[k].opened \in Int /\ tbl[k].refcount \in Int
    BY <1>4, <1>5, <1>6 DEF TreeInv, Ranges, TypeOK
  <2>2. One(tbl'[j].parent = k) = One(k = i) /\ One(tbl[j].parent = k) = 0
    BY <1>4, <1>5 DEF One
  <2>3. Moved(t, k) \in Int
    <3>1. Times(held[t], k) \in 0..2
      BY TimesInHand DEF TreeInv
    <3>2. held'[t] \in Seq(TblIds)
      BY DEF InRange
    <3>3. Times(held'[t], k) \in 0..Len(held'[t])
      BY <3>2, TimesBound
    <3>4. Times(held'[t], k) \in Int
      BY <3>3
    <3> QED
      BY <3>1, <3>4 DEF Moved, One
  <2>4. tbl'[k].refcount = tbl[k].refcount + Moved(t, k) + One(k = i)
    OBVIOUS
  <2>5. /\ One(k = i) \in Int /\ One(tbl[k].opened > 0) \in Int
        /\ One(tbl'[k].opened > 0) = One(tbl[k].opened > 0)
        /\ One(fileh'[t] = k) = One(fileh[t] = k) /\ One(fileh[t] = k) \in Int
    BY <2>1 DEF One
  <2>6. tbl'[k].orphaned => tbl'[k].refcount > 0
    <3>1. tbl[k].orphaned => tbl[k].refcount > 0
      BY DEF TreeInv, ReleasedIsEvicted
    <3>2. CASE k = j
      BY <1>4, <3>2
    <3>3. CASE k = i
      <4>1. tbl'[i].refcount \in Int
        BY DEF Cells
      <4> QED
        BY <2>1, <3>1, <3>3, <4>1
    <3>4. CASE k # i /\ k # j
      BY <3>1, <3>4
    <3> QED
      BY <3>2, <3>3, <3>4
  <2> QED
    BY <2>1, <2>2, <2>3, <2>4, <2>5, <2>6
<1>11. \A k \in TblIds \ {j} : tbl'[k].parent = tbl[k].parent
  BY <1>6
<1> QED
  BY <1>3, <1>8, <1>9, <1>10, <1>11, Balanced

\* What the thread that comes back from a load finds.
LEMMA BackFromLoad ==
  ASSUME TreeInv, NEW t \in Threads, LoadOk(t)
  PROVE  /\ pc[t] = "load" /\ pc'[t] = "walk" /\ link_lock = None /\ link_lock' = t
         /\ op' = op /\ goal' = goal /\ held' = held /\ dirh' = dirh /\ fileh' = fileh
         /\ cur[t] \in TblIds /\ Live(cur[t]) /\ Hop(t) \in Dirs
         /\ Up(Hop(t)) = tbl[cur[t]].dir /\ tbl \in [TblIds -> Cells]
         /\ cur' = [cur EXCEPT ![t] = cur'[t]] /\ Moves(t)
         /\ \E n \in 0 .. Len(LinkDir(t)) : Hop(t) = SubSeq(goal[t], 1, n)
         /\ LinkDir(t)' = LinkDir(t) /\ OwnLock(t) /\ link_lock' \in Threads \cup {None}
<1>1. /\ pc[t] = "load" /\ pc'[t] = "walk" /\ link_lock = None /\ link_lock' = t
      /\ op' = op /\ goal' = goal /\ held' = held /\ dirh' = dirh /\ fileh' = fileh
  BY DEF LoadOk, Goto, handles, TreeInv, Ranges, TypeOK
<1>2. cur' = [cur EXCEPT ![t] = cur'[t]]
  BY DEF LoadOk, TreeInv, Ranges, TypeOK
<1>3. Moves(t)
  BY <1>1, <1>2 DEF LoadOk, Goto, Moves, TreeInv, Ranges, TypeOK
<1>4. /\ cur[t] \in TblIds /\ Live(cur[t]) /\ Hop(t) \in Dirs
      /\ Up(Hop(t)) = tbl[cur[t]].dir
  BY <1>1, HopIs
<1>5. \E n \in 0 .. Len(LinkDir(t)) : Hop(t) = SubSeq(goal[t], 1, n)
  <2>1. PICK n \in 0 .. Len(LinkDir(t)) :
          n + 1 \in 0 .. Len(LinkDir(t)) /\ Hop(t) = SubSeq(goal[t], 1, n + 1)
    BY <1>1, HopIs
  <2> QED
    BY <2>1
<1>6. LinkDir(t)' = LinkDir(t)
  BY <1>1 DEF LinkDir
<1>7. tbl \in [TblIds -> Cells]
  BY DEF TreeInv, Ranges, TypeOK, Cells
<1> QED
  BY <1>1, <1>2, <1>3, <1>4, <1>5, <1>6, <1>7 DEF OwnLock

\* And it walks on, in a table of the directory it loaded.
LEMMA WalksOn ==
  ASSUME TreeInv, NEW t \in Threads, LoadOk(t),
         cur'[t] \in TblIds, tbl'[cur'[t]].dir = Hop(t)
  PROVE  InRange(t)' /\ Stage(t)'
<1>1. /\ pc[t] = "load" /\ pc'[t] = "walk" /\ link_lock' = t
      /\ op' = op /\ goal' = goal /\ held' = held /\ dirh' = dirh /\ fileh' = fileh
      /\ Hop(t) \in Dirs /\ LinkDir(t)' = LinkDir(t)
      /\ \E n \in 0 .. Len(LinkDir(t)) : Hop(t) = SubSeq(goal[t], 1, n)
  BY BackFromLoad
<1>2. InRange(t)'
  BY <1>1, Here DEF InRange
<1>3. Hop(t) # None /\ cur'[t] # None
  BY <1>1, TreeAssumption DEF TreeAssumption, AllDirs
<1>4. OnPath(t)'
  BY <1>1, <1>3 DEF OnPath, Live
<1>5. Stage(t)'
  BY <1>1, <1>3, <1>4, Here DEF Stage
<1> QED
  BY <1>2, <1>5

\* A listing has come that nobody attached before: it is attached.
LEMMA LoadFirstStep ==
  ASSUME TreeInv, NEW t \in Threads, LoadOk(t), next_table[cur[t]][Hop(t)] = None
  PROVE  TreeInv'
<1> DEFINE i == cur[t]
           d == Hop(t)
<1>1. /\ pc[t] = "load" /\ pc'[t] = "walk" /\ held' = held /\ dirh' = dirh
      /\ fileh' = fileh /\ i \in TblIds /\ Live(i) /\ d \in Dirs
      /\ Up(d) = tbl[i].dir /\ tbl \in [TblIds -> Cells] /\ Moves(t)
      /\ OwnLock(t) /\ link_lock' \in Threads \cup {None}
  BY BackFromLoad
<1>2. PICK j \in TblIds : /\ tbl[j] = FreeTbl
                          /\ tbl' = [tbl EXCEPT ![j] = NewTbl(d, i, 0)]
                          /\ Attach(i, d, j) /\ cur'[t] = j
  BY DEF LoadOk, TreeInv, Ranges, TypeOK
<1>3. d \in AllDirs /\ 0 \in {0, 1}
  BY <1>1 DEF AllDirs
<1>4. /\ NewTbl(d, i, 0) \in Cells /\ NewTbl(d, i, 0).dir = d
      /\ NewTbl(d, i, 0).parent = i /\ NewTbl(d, i, 0).refcount = 0
      /\ NewTbl(d, i, 0).orphaned = FALSE /\ NewTbl(d, i, 0).opened = 0
  <2> HIDE DEF i, d
  <2> QED
    BY <1>1, <1>3, FreshCells
<1>5. j # i
  BY <1>1, <1>2 DEF Live, FreeTbl
<1>6. /\ tbl' \in [TblIds -> Cells] /\ tbl'[j] = NewTbl(d, i, 0)
      /\ \A k \in TblIds \ {j} : tbl'[k] = tbl[k]
  <2> HIDE DEF i, d
  <2> QED
    BY <1>1, <1>2, <1>4
<1>7. InRange(t)' /\ Stage(t)'
  BY <1>2, <1>4, <1>6, WalksOn
<1>8. ASSUME NEW k \in TblIds
      PROVE  tbl'[k].refcount = tbl[k].refcount + Moved(t, k) + One(k = i)
  <2>1. Times(held[t], k) \in 0..2
    BY TimesInHand DEF TreeInv
  <2>2. Moved(t, k) = 0 - One(k = i)
    BY <1>1, <2>1 DEF Moved, One
  <2>3. tbl'[k].refcount = tbl[k].refcount
    <3>1. CASE k = j
      BY <1>2, <1>4, <1>6, <3>1 DEF FreeTbl
    <3>2. CASE k # j
      BY <1>6, <3>2
    <3> QED
      BY <3>1, <3>2
  <2>4. tbl[k].refcount \in Int
    BY <1>1 DEF Cells
  <2> HIDE DEF i, d
  <2> QED
    BY <2>2, <2>3, <2>4 DEF One
<1>9. /\ tbl'[i] = tbl[i] /\ tbl[i].refcount \in Int
      /\ \A k \in TblIds \ {j, i} : tbl'[k] = tbl[k]
  BY <1>1, <1>5, <1>6 DEF Cells
<1>10. /\ tbl'[j].dir = d /\ tbl'[j].parent = i
       /\ tbl'[j].orphaned = FALSE /\ tbl'[j].opened = 0
  BY <1>4, <1>6
<1>11. /\ tbl'[i].dir = tbl[i].dir /\ tbl'[i].parent = tbl[i].parent
       /\ tbl'[i].orphaned = tbl[i].orphaned /\ tbl'[i].opened = tbl[i].opened
       /\ tbl'[i].refcount >= tbl[i].refcount
  BY <1>9
<1>12. next_table[i][d] = None /\ next_table' = [next_table EXCEPT ![i][d] = j]
  BY <1>2 DEF Attach
<1>13. tbl[j] = FreeTbl /\ fileh' = fileh /\ tbl' \in [TblIds -> Cells]
  BY <1>1, <1>2, <1>6
<1>14. /\ i \in TblIds /\ Live(i) /\ d \in Dirs /\ Up(d) = tbl[i].dir /\ Moves(t)
       /\ OwnLock(t) /\ link_lock' \in Threads \cup {None}
  BY <1>1
<1>15. \A k \in TblIds \ {j, i} : tbl'[k] = tbl[k]
  BY <1>9
<1> HIDE DEF i, d
<1> QED
  BY <1>7, <1>8, <1>10, <1>11, <1>12, <1>13, <1>14, <1>15, Grown

\* Another thread was faster: its listing is walked, and keeps the table above.
LEMMA LoadLateStep ==
  ASSUME TreeInv, NEW t \in Threads, LoadOk(t), next_table[cur[t]][Hop(t)] # None
  PROVE  TreeInv'
<1> DEFINE i == cur[t]
           j == next_table[i][Hop(t)]
           c == [tbl[i] EXCEPT !.refcount = @ - 1]
<1>1. /\ pc[t] = "load" /\ pc'[t] = "walk" /\ held' = held /\ dirh' = dirh
      /\ fileh' = fileh /\ i \in TblIds /\ Live(i) /\ Hop(t) \in Dirs
      /\ tbl \in [TblIds -> Cells] /\ Moves(t)
      /\ OwnLock(t) /\ link_lock' \in Threads \cup {None}
  BY BackFromLoad
<1>2. cur'[t] = j /\ next_table' = next_table /\ tbl' = [tbl EXCEPT ![i] = c]
  BY <1>1 DEF LoadOk, TreeInv, Ranges, TypeOK
<1>3. /\ j \in TblIds /\ tbl[j].dir = Hop(t) /\ tbl[j].parent = i
  <2>1. next_table[i][Hop(t)] \in TblIds \cup {None}
    BY <1>1 DEF TreeInv, Ranges, TypeOK
  <2>2. Linked(i, Hop(t))
    BY <1>1 DEF TreeInv, Shaped
  <2> QED
    BY <2>1, <2>2 DEF Linked
<1>4. /\ c \in Cells /\ c.dir = tbl[i].dir /\ c.parent = tbl[i].parent
      /\ c.opened = tbl[i].opened /\ c.refcount = tbl[i].refcount - 1
      /\ c.orphaned = tbl[i].orphaned /\ tbl[i] \in Cells
  BY <1>1 DEF Cells
<1> HIDE DEF j, c
<1>5. InRange(t)' /\ Stage(t)'
  <2>1. tbl'[j].dir = Hop(t)
    <3>1. CASE j = i
      BY <1>1, <1>2, <1>3, <1>4, <3>1
    <3>2. CASE j # i
      BY <1>1, <1>2, <1>3, <3>2
    <3> QED
      BY <3>1, <3>2
  <2> QED
    BY <1>2, <1>3, <2>1, WalksOn
<1>6. ASSUME NEW k \in TblIds PROVE Moved(t, k) = 0 - One(k = i)
  <2>1. Times(held[t], k) \in 0..2
    BY TimesInHand DEF TreeInv
  <2> QED
    BY <1>1, <2>1 DEF Moved, One
<1>7. /\ c.refcount = tbl[i].refcount + Moved(t, i)
                        + (One(c.opened > 0) - One(tbl[i].opened > 0))
      /\ c.opened = tbl[i].opened + One(fileh'[t] = i) - One(fileh[t] = i)
  <2>1. fileh' = fileh /\ tbl[i].opened \in Int /\ tbl[i].refcount \in Int
    BY <1>1, <1>4 DEF Cells
  <2>2. Moved(t, i) = 0 - 1
    BY <1>1, <1>6 DEF One
  <2> HIDE DEF i
  <2> QED
    BY <1>4, <2>1, <2>2 DEF One
<1>8. c.refcount > 0
  <2>1. tbl[i].refcount = RefsOf(i)
    BY <1>1, CountedIs DEF TreeInv, Counted
  <2>2. Loaders(i) \subseteq Threads /\ Children(i) \subseteq TblIds
    BY DEF Loaders, Children
  <2>3. t \in Loaders(i) /\ j \in Children(i)
    BY <1>1, <1>3 DEF Loaders, Children
  <2>4. Cardinality(Loaders(i)) \in Nat /\ Cardinality(Loaders(i)) # 0
    BY <2>2, <2>3, Sized
  <2>5. Cardinality(Children(i)) \in Nat /\ Cardinality(Children(i)) # 0
    BY <2>2, <2>3, Sized
  <2>6. One(tbl[i].opened > 0) \in Nat
    BY DEF One
  <2>7. Held(i) \in Nat /\ Cardinality(Openers(i)) \in Nat
    BY CountsAreNat
  <2> HIDE DEF i
  <2> QED
    BY <1>4, <2>1, <2>4, <2>5, <2>6, <2>7 DEF RefsOf
<1>9. i = RootTbl => ~c.orphaned
  BY <1>4 DEF TreeInv, Shaped, Rooted
<1>10. \A k \in TblIds \ {i} : Moved(t, k) = 0 /\ (fileh'[t] = k <=> fileh[t] = k)
  <2>1. \A k \in TblIds \ {i} : Moved(t, k) = 0
    BY <1>6 DEF One
  <2> QED
    BY <1>1, <2>1
<1> HIDE DEF i
<1> QED
  BY <1>1, <1>2, <1>4, <1>5, <1>7, <1>8, <1>9, <1>10, OneCell

\* A directory is opened in a listing that nobody attached before.
LEMMA OpenNewStep ==
  ASSUME TreeInv, NEW t \in Threads, OpenNew(t) PROVE TreeInv'
<1> DEFINE i == Head(held[t])
           d == goal[t]
<1>1. /\ pc[t] = "loaded" /\ pc'[t] = "unref" /\ link_lock' = link_lock
      /\ op' = op /\ goal' = goal /\ cur' = cur /\ held' = held /\ fileh' = fileh
      /\ next_table[i][d] = None
  BY DEF OpenNew, Goto, handles, TreeInv, Ranges, TypeOK
<1>2. PICK j \in TblIds : /\ tbl[j] = FreeTbl
                          /\ tbl' = [tbl EXCEPT ![j] = NewTbl(d, i, 1),
                                                ![i].refcount = @ + 1]
                          /\ Attach(i, d, j) /\ dirh' = [dirh EXCEPT ![t] = j]
  BY DEF OpenNew
<1>3. /\ i \in TblIds /\ Live(i) /\ tbl[i].dir = Up(d) /\ d \in Dirs
      /\ dirh[t] = None
  BY <1>1, Attaching
<1>4. tbl \in [TblIds -> Cells]
  BY DEF TreeInv, Ranges, TypeOK, Cells
<1>5. d \in AllDirs /\ 1 \in {0, 1} /\ j # i /\ j # None
  BY <1>2, <1>3, TreeAssumption DEF AllDirs, Live, FreeTbl, TreeAssumption
<1>6. /\ NewTbl(d, i, 1) \in Cells /\ NewTbl(d, i, 1).dir = d
      /\ NewTbl(d, i, 1).parent = i /\ NewTbl(d, i, 1).refcount = 1
      /\ NewTbl(d, i, 1).orphaned = FALSE /\ NewTbl(d, i, 1).opened = 0
  <2> HIDE DEF i, d
  <2> QED
    BY <1>3, <1>5, FreshCells
<1> DEFINE c == [tbl[i] EXCEPT !.refcount = @ + 1]
<1>7. /\ c \in Cells /\ c.dir = tbl[i].dir /\ c.parent = tbl[i].parent
      /\ c.opened = tbl[i].opened /\ c.refcount = tbl[i].refcount + 1
      /\ c.orphaned = tbl[i].orphaned /\ tbl[i].refcount \in Int
  <2>1. tbl[i] \in Cells
    BY <1>3, <1>4
  <2> HIDE DEF i
  <2> QED
    BY <2>1 DEF Cells
<1>8. /\ tbl' \in [TblIds -> Cells] /\ tbl'[j] = NewTbl(d, i, 1) /\ tbl'[i] = c
      /\ \A k \in TblIds \ {j, i} : tbl'[k] = tbl[k]
  <2> DEFINE more == [tbl EXCEPT ![j] = NewTbl(d, i, 1)]
  <2>1. /\ more \in [TblIds -> Cells] /\ more[j] = NewTbl(d, i, 1) /\ more[i] = tbl[i]
        /\ \A k \in TblIds \ {j} : more[k] = tbl[k]
    <3> HIDE DEF i, d
    <3> QED
      BY <1>3, <1>4, <1>5, <1>6
  <2>2. tbl' = [more EXCEPT ![i].refcount = tbl[i].refcount + 1]
    BY <1>2
  <2>3. tbl' = [more EXCEPT ![i] = c]
    BY <2>1, <2>2
  <2> HIDE DEF more, c, i, d
  <2> QED
    BY <1>3, <1>5, <1>7, <2>1, <2>3
<1>9. /\ Moves(t) /\ OwnLock(t) /\ link_lock' \in Threads \cup {None} /\ dirh'[t] = j
  <2>1. dirh'[t] = j /\ dirh' = [dirh EXCEPT ![t] = dirh'[t]]
    BY <1>2 DEF TreeInv, Ranges, TypeOK
  <2>2. pc' = [pc EXCEPT ![t] = pc'[t]]
    BY DEF OpenNew, Goto, TreeInv, Ranges, TypeOK
  <2>3. Moves(t)
    BY <1>1, <2>1, <2>2 DEF Moves, TreeInv, Ranges, TypeOK
  <2> QED
    BY <1>1, <2>1, <2>3, Here DEF OwnLock
<1>10. InRange(t)'
  BY <1>1, <1>9, Here DEF InRange
<1>11. Stage(t)'
  BY <1>1, <1>9, Here DEF Stage
<1> HIDE DEF i, d, c
<1>12. ASSUME NEW k \in TblIds
       PROVE  tbl'[k].refcount = tbl[k].refcount + Moved(t, k) + One(k = i)
  <2>1. Times(held[t], k) \in 0..2
    BY TimesInHand DEF TreeInv
  <2>2. dirh[t] # k /\ (dirh'[t] = k <=> k = j)
    BY <1>3, <1>9, TreeAssumption DEF TreeAssumption
  <2>3. ~(cur[t] = k /\ pc[t] = "load") /\ ~(cur'[t] = k /\ pc'[t] = "load")
    BY <1>1
  <2>4. Moved(t, k) = One(k = j)
    BY <1>1, <2>1, <2>2, <2>3 DEF Moved, One
  <2>5. CASE k = j
    <3>1. tbl'[k].refcount = 1 /\ tbl[k].refcount = 0
      BY <1>2, <1>6, <1>8, <2>5 DEF FreeTbl
    <3> QED
      BY <1>5, <2>4, <2>5, <3>1 DEF One
  <2>6. CASE k = i
    BY <1>5, <1>7, <1>8, <2>4, <2>6 DEF One
  <2>7. CASE k # i /\ k # j
    <3>1. tbl'[k] = tbl[k] /\ tbl[k].refcount \in Int
      BY <1>4, <1>8, <2>7 DEF Cells
    <3> QED
      BY <2>4, <2>7, <3>1 DEF One
  <2> QED
    BY <2>5, <2>6, <2>7
<1>13. /\ tbl'[j].dir = d /\ tbl'[j].parent = i
       /\ tbl'[j].orphaned = FALSE /\ tbl'[j].opened = 0
  BY <1>6, <1>8
<1>14. /\ tbl'[i].dir = tbl[i].dir /\ tbl'[i].parent = tbl[i].parent
       /\ tbl'[i].orphaned = tbl[i].orphaned /\ tbl'[i].opened = tbl[i].opened
       /\ tbl'[i].refcount >= tbl[i].refcount
  BY <1>7, <1>8
<1>15. next_table' = [next_table EXCEPT ![i][d] = j]
  BY <1>2 DEF Attach
<1>16. /\ Up(d) = tbl[i].dir /\ next_table[i][d] = None /\ fileh' = fileh
       /\ tbl[j] = FreeTbl
  BY <1>1, <1>2, <1>3
<1> HIDE DEF i, d, c
<1> QED
  BY <1>3, <1>8, <1>9, <1>10, <1>11, <1>12, <1>13, <1>14, <1>15, <1>16, Grown

\* Nothing hangs below the table that is evicted, and nobody else is in it.
LEMMA Unused ==
  ASSUME TreeInv, NEW t \in Threads, Evict(t), NEW i, i = LastHeld(t)
  PROVE  /\ i \in TblIds /\ Live(i) /\ i # RootTbl /\ Hung(i)
         /\ tbl[i].parent \in TblIds /\ tbl[i].parent # i
         /\ tbl[i].opened = 0 /\ tbl[i].refcount = 1
         /\ \A u \in Threads \ {t} : Times(held[u], i) = 0
         /\ \A u \in Threads : cur[u] # i /\ dirh[u] # i /\ fileh[u] # i
         /\ \A j \in TblIds : tbl[j].parent # i
         /\ Subtree(i) = {i}
<1>1. /\ pc[t] = "unref" /\ held[t] # <<>> /\ link_lock = None
      /\ tbl[i].refcount = 1 /\ tbl[i].orphaned
  BY DEF Evict, Evictable
<1>2. i \in TblIds /\ Live(i) /\ Times(held[t], i) > 0
  BY <1>1, InHand
<1>3. /\ tbl[i].opened = 0
      /\ \A u \in Threads \ {t} : Times(held[u], i) = 0
      /\ \A u \in Threads : /\ ~(cur[u] = i /\ pc[u] = "load")
                            /\ dirh[u] # i /\ fileh[u] # i
      /\ \A j \in TblIds : tbl[j].parent # i
  BY <1>1, <1>2, LastUse
<1>4. i # RootTbl /\ Hung(i)
  BY <1>1, <1>2 DEF TreeInv, Shaped, Rooted
<1>5. tbl[i].parent \in TblIds /\ tbl[i].parent # i
  BY <1>2, <1>3, <1>4 DEF Hung, TreeInv, Ranges, TypeOK
<1>6. ASSUME NEW u \in Threads PROVE cur[u] # i
  <2> SUFFICES ASSUME cur[u] = i PROVE FALSE
    OBVIOUS
  <2>1. cur[u] # None /\ u # None
    BY <1>2, TreeAssumption DEF TreeAssumption
  <2>2. pc[u] = "walk"
    BY <1>3, <2>1 DEF TreeInv, Staged, Stage
  <2>3. link_lock = u
    BY <2>2 DEF TreeInv, Staged, Stage
  <2> QED
    BY <1>1, <2>1, <2>3
<1>7. Below(i) = {}
  <2> SUFFICES ASSUME NEW d \in Dirs, next_table[i][d] # None PROVE FALSE
    BY DEF Below
  <2>1. next_table[i][d] \in TblIds
    BY <1>2 DEF TreeInv, Ranges, TypeOK
  <2>2. Linked(i, d)
    BY <1>2 DEF TreeInv, Shaped
  <2> QED
    BY <1>3, <2>1, <2>2 DEF Linked
<1>8. Subtree(i) = {i}
  <2>1. i \in Subtree(i)
    BY <1>2 DEF Subtree
  <2>2. ASSUME NEW j \in Subtree(i) PROVE j = i
    <3>1. {i} \in SUBSET TblIds /\ i \in {i} /\ \A k \in {i} : Below(k) \subseteq {i}
      BY <1>2, <1>7
    <3>2. \A gone \in SUBSET TblIds :
            (i \in gone /\ \A k \in gone : Below(k) \subseteq gone) => j \in gone
      BY DEF Subtree
    <3>3. j \in {i}
      BY <3>1, <3>2
    <3> QED
      BY <3>3
  <2> QED
    BY <2>1, <2>2
<1> QED
  BY <1>1, <1>2, <1>3, <1>4, <1>5, <1>6, <1>8

\* The table is taken off the tree, which stays one.
LEMMA Shrink ==
  ASSUME TreeInv, NEW i \in TblIds, i # RootTbl, Hung(i),
         \A j \in TblIds : tbl[j].parent # i, tbl'[i] = FreeTbl,
         \A k \in TblIds \ {i} : tbl'[k] = tbl[k],
         \A k \in TblIds, d \in Dirs :
           next_table'[k][d] = IF k = i \/ (k = tbl[i].parent /\ d = tbl[i].dir)
                               THEN None ELSE next_table[k][d]
  PROVE  Shaped'
<1>1. RootTbl \in TblIds
  BY TreeAssumption DEF TreeAssumption
<1>2. Rooted'
  BY <1>1 DEF TreeInv, Shaped, Rooted
<1>3. ~Live(i)' /\ \A k \in TblIds \ {i} : Live(k)' <=> Live(k)
  BY DEF Live, FreeTbl
<1>4. ASSUME NEW k \in TblIds, Live(k)', k # RootTbl PROVE Hung(k)'
  <2>1. k # i /\ Live(k) /\ Hung(k)
    BY <1>3, <1>4 DEF TreeInv, Shaped
  <2>2. /\ tbl[k].parent \in TblIds /\ tbl[k].parent # i /\ tbl[k].parent # None
        /\ Live(tbl[k].parent) /\ tbl[k].dir \in Dirs
        /\ Up(tbl[k].dir) = tbl[tbl[k].parent].dir
        /\ next_table[tbl[k].parent][tbl[k].dir] = k
    BY <2>1 DEF Hung, TreeInv, Ranges, TypeOK
  <2>3. tbl'[k] = tbl[k] /\ tbl'[tbl[k].parent] = tbl[tbl[k].parent]
    BY <2>1, <2>2
  <2>4. ~(tbl[k].parent = tbl[i].parent /\ tbl[k].dir = tbl[i].dir)
    BY <2>1, <2>2 DEF Hung
  <2>5. next_table'[tbl[k].parent][tbl[k].dir] = k
    BY <2>2, <2>4
  <2> QED
    BY <2>2, <2>3, <2>5 DEF Hung, Live
<1>5. ASSUME NEW k \in TblIds, NEW d \in Dirs PROVE Linked(k, d)'
  <2>1. CASE k = i \/ (k = tbl[i].parent /\ d = tbl[i].dir)
    BY <2>1 DEF Linked
  <2>2. CASE ~(k = i \/ (k = tbl[i].parent /\ d = tbl[i].dir))
    <3>1. next_table'[k][d] = next_table[k][d]
      BY <2>2
    <3>2. Linked(k, d) /\ next_table[k][d] \in TblIds \cup {None}
      BY DEF TreeInv, Shaped, Ranges, TypeOK
    <3>3. next_table[k][d] # i \/ next_table[k][d] = None
      BY <2>2, <3>2 DEF Linked
    <3> QED
      BY <1>3, <2>2, <3>1, <3>2, <3>3 DEF Linked
  <2> QED
    BY <2>1, <2>2
<1>6. FreeTbl' = FreeTbl
  BY DEF FreeTbl
<1>7. \A k \in TblIds : ~Live(k)' => tbl'[k] = FreeTbl
  BY <1>3 DEF TreeInv, Shaped
<1>8. \A k, l \in TblIds : Live(k)' /\ Live(l)' /\ k # l => tbl'[k].dir # tbl'[l].dir
  BY <1>3 DEF TreeInv, Shaped
<1> QED
  BY <1>2, <1>4, <1>5, <1>6, <1>7, <1>8 DEF Shaped

\* The last reference of a released directory is dropped, and with its table
\* goes the one it was on the table above.
LEMMA EvictStep ==
  ASSUME TreeInv, NEW t \in Threads, Evict(t) PROVE TreeInv'
<1> DEFINE i == LastHeld(t)
           up == tbl[i].parent
<1>1. /\ i \in TblIds /\ Live(i) /\ i # RootTbl /\ Hung(i)
      /\ up \in TblIds /\ up # i /\ tbl[i].opened = 0 /\ tbl[i].refcount = 1
      /\ \A u \in Threads \ {t} : Times(held[u], i) = 0
      /\ \A u \in Threads : cur[u] # i /\ dirh[u] # i /\ fileh[u] # i
      /\ \A j \in TblIds : tbl[j].parent # i
      /\ Subtree(i) = {i}
  BY Unused
<1>2. up # None
  BY <1>1 DEF Hung
<1>3. /\ pc[t] = "unref" /\ held[t] # <<>> /\ held'[t] = Append(Front(held[t]), up)
      /\ held' = [held EXCEPT ![t] = held'[t]]
      /\ tbl' = [j \in TblIds |-> IF j \in Subtree(i) THEN FreeTbl ELSE tbl[j]]
      /\ next_table' = [j \in TblIds |-> [d \in Dirs |->
                          IF j \in Subtree(i) \/ (j = up /\ d = tbl[i].dir)
                          THEN None ELSE next_table[j][d]]]
      /\ link_lock' = link_lock /\ pc' = pc /\ op' = op /\ goal' = goal /\ cur' = cur
      /\ dirh' = dirh /\ fileh' = fileh
  BY <1>2 DEF Evict, Front, handles, TreeInv, Ranges
<1>4. tbl \in [TblIds -> Cells] /\ FreeTbl \in Cells
  BY DEF TreeInv, Ranges, TypeOK, Cells, FreeTbl
<1>5. /\ tbl' \in [TblIds -> Cells] /\ tbl'[i] = FreeTbl
      /\ \A k \in TblIds \ {i} : tbl'[k] = tbl[k]
  <2> HIDE DEF i, up
  <2> QED
    BY <1>1, <1>3, <1>4
<1>6. /\ next_table' \in [TblIds -> [Dirs -> TblIds \cup {None}]]
      /\ \A k \in TblIds, d \in Dirs :
           next_table'[k][d] = IF k = i \/ (k = up /\ d = tbl[i].dir)
                               THEN None ELSE next_table[k][d]
  <2>1. next_table \in [TblIds -> [Dirs -> TblIds \cup {None}]]
    BY DEF TreeInv, Ranges, TypeOK
  <2> HIDE DEF i, up
  <2> QED
    BY <1>1, <1>3, <2>1
<1>7. Moves(t)
  BY <1>3 DEF Moves, TreeInv, Ranges, TypeOK
<1>8. held'[t] \in Seq(TblIds) /\ Len(held'[t]) <= 2
  <2>1. Front(held[t]) \in Seq(TblIds) /\ Len(Front(held[t])) <= 1
    BY <1>3, InHand
  <2> HIDE DEF i, up
  <2> QED
    BY <1>1, <1>3, <2>1
<1>9. InRange(t)'
  BY <1>3, <1>8, Here DEF InRange
<1>10. Stage(t)'
  BY <1>3, <1>8, Here DEF Stage
<1>11. Ranges' /\ Others(t)
  BY <1>3, <1>5, <1>6, <1>7, <1>8, <1>9, Here, RangesMove DEF TreeInv
<1>12. Shaped'
  <2> HIDE DEF i
  <2> QED
    BY <1>1, <1>5, <1>6, Shrink
<1>13. Staged'
  <2>1. ASSUME NEW u \in Threads \ {t}
        PROVE  /\ \A k \in 1..Len(held[u]) : tbl'[held[u][k]].dir = tbl[held[u][k]].dir
               /\ cur[u] # None => tbl'[cur[u]].dir = tbl[cur[u]].dir
    <3>1. \A k \in 1..Len(held[u]) : held[u][k] \in TblIds /\ held[u][k] # i
      <4>1. held[u] \in Seq(TblIds) /\ Times(held[u], i) = 0
        BY <1>1 DEF TreeInv, Ranges
      <4>2. \A k \in 1..Len(held[u]) : held[u][k] # i
        BY <4>1, TimesZero
      <4> QED
        BY <4>1, <4>2
    <3>2. cur[u] # None => cur[u] \in TblIds /\ cur[u] # i
      BY <1>1, InHandLive
    <3> QED
      BY <1>5, <3>1, <3>2
  <2>2. OwnLock(t)
    BY <1>3 DEF OwnLock
  <2> QED
    BY <1>10, <1>11, <2>1, <2>2, OthersStay
<1>14. ASSUME NEW k \in TblIds PROVE Moved(t, k) = One(k = up) - One(k = i)
  <2>1. /\ Times(held[t], k) \in 0..2 /\ Times(Front(held[t]), k) \in 0..1
        /\ Times(held[t], k) = Times(Front(held[t]), k) + One(k = i)
    BY <1>3, InHand
  <2>2. Times(Append(Front(held[t]), up), k) = Times(Front(held[t]), k) + One(k = up)
    <3>1. Front(held[t]) \in Seq(TblIds)
      BY <1>3, InHand
    <3> HIDE DEF up
    <3> QED
      BY <1>1, <3>1, TimesAppend
  <2>3. One(k = up) \in Int /\ One(k = i) \in Int
    BY DEF One
  <2>4. Moved(t, k) = Times(held'[t], k) - Times(held[t], k)
    <3>1. Times(held'[t], k) \in 0..Len(held'[t])
      BY <1>8, TimesBound
    <3>2. Times(held'[t], k) \in Int
      BY <3>1
    <3>3. ~(cur[t] = k /\ pc[t] = "load") /\ ~(cur'[t] = k /\ pc'[t] = "load")
      BY <1>3
    <3> QED
      BY <1>3, <2>1, <3>2, <3>3 DEF Moved, One
  <2>5. held'[t] = Append(Front(held[t]), up)
    BY <1>3
  <2> HIDE DEF i, up
  <2> QED
    BY <2>1, <2>2, <2>3, <2>4, <2>5
<1>15. ASSUME NEW k \in TblIds
       PROVE  /\ tbl'[k].refcount = tbl[k].refcount + Moved(t, k)
                   + (One(tbl'[i].parent = k) - One(tbl[i].parent = k))
                   + (One(tbl'[k].opened > 0) - One(tbl[k].opened > 0))
              /\ tbl'[k].opened = tbl[k].opened + One(fileh'[t] = k) - One(fileh[t] = k)
              /\ tbl'[k].orphaned => tbl'[k].refcount > 0
  <2>1. /\ FreeTbl.refcount = 0 /\ FreeTbl.opened = 0 /\ FreeTbl.orphaned = FALSE
        /\ FreeTbl.parent = None
    BY DEF FreeTbl
  <2>2. /\ tbl'[k].opened = tbl[k].opened
        /\ tbl[k].opened \in Int /\ tbl[k].refcount \in Int
    BY <1>1, <1>4, <1>5, <2>1 DEF Cells
  <2>3. One(tbl'[i].parent = k) = 0 /\ One(tbl[i].parent = k) = One(k = up)
    BY <1>5, <2>1, TreeAssumption DEF One, TreeAssumption
  <2>4. /\ One(tbl'[k].opened > 0) = One(tbl[k].opened > 0)
        /\ One(tbl[k].opened > 0) \in Int
        /\ One(fileh'[t] = k) = One(fileh[t] = k) /\ One(fileh[t] = k) \in Int
        /\ One(k = up) \in Int
    BY <1>3, <2>2 DEF One
  <2>5. Moved(t, k) = One(k = up) - One(k = i)
    BY <1>14
  <2>6. tbl'[k].refcount = tbl[k].refcount - One(k = i)
    <3>1. CASE k = i
      BY <1>1, <1>5, <2>1, <3>1 DEF One
    <3>2. CASE k # i
      BY <1>5, <2>2, <3>2 DEF One
    <3> QED
      BY <3>1, <3>2
  <2>7. tbl'[k].orphaned => tbl'[k].refcount > 0
    <3>1. CASE k = i
      BY <1>5, <2>1, <3>1
    <3>2. CASE k # i
      BY <1>5, <3>2 DEF TreeInv, ReleasedIsEvicted
    <3> QED
      BY <3>1, <3>2
  <2>8. One(k = i) \in Int
    BY DEF One
  <2>9. One(tbl'[i].parent = k) - One(tbl[i].parent = k) = 0 - One(k = up)
    BY <2>3, <2>4
  <2>10. One(tbl'[k].opened > 0) - One(tbl[k].opened > 0) = 0
    BY <2>4
  <2> DEFINE a == tbl[k].refcount
             b == Moved(t, k)
             c == One(tbl'[i].parent = k) - One(tbl[i].parent = k)
             e == One(tbl'[k].opened > 0) - One(tbl[k].opened > 0)
             x == One(k = up)
             y == One(k = i)
  <2>11. /\ a \in Int /\ x \in Int /\ y \in Int /\ b = x - y /\ c = 0 - x /\ e = 0
         /\ tbl'[k].refcount = a - y
    BY <2>2, <2>4, <2>5, <2>6, <2>8, <2>9, <2>10
  <2> HIDE DEF a, b, c, e, x, y
  <2>12. tbl'[k].refcount = a + b + c + e
    BY <2>11
  <2>13. tbl'[k].opened = tbl[k].opened + One(fileh'[t] = k) - One(fileh[t] = k)
    BY <2>2, <2>4
  <2> QED
    BY <2>7, <2>12, <2>13 DEF a, b, c, e
<1>16. \A k \in TblIds \ {i} : tbl'[k].parent = tbl[k].parent
  BY <1>5
<1> HIDE DEF i, up
<1> QED
  BY <1>1, <1>11, <1>12, <1>13, <1>15, <1>16, Balanced

-----------------------------------------------------------------------------
(* The invariant, and what it shows.                                      *)

\* Outside ID3 mode the tree begins with the root alone, which nothing uses.
LEMMA Begins == ASSUME ~Id3, Init PROVE TreeInv
<1> DEFINE root == NewTbl(Root, None, 0)
<1>1. /\ RootTbl \in TblIds /\ None \notin TblIds /\ None \notin Threads
      /\ Root \in AllDirs /\ Root # None /\ \A d \in Dirs : d # Root
  BY TreeAssumption DEF TreeAssumption, AllDirs
<1>2. /\ tbl = [i \in TblIds |-> IF i = RootTbl THEN root ELSE FreeTbl]
      /\ next_table = [i \in TblIds |-> [d \in Dirs |-> None]]
  <2>1. PICK cell \in [{} -> TblIds \ {RootTbl}] :
          /\ tbl = [i \in TblIds |->
                      IF i = RootTbl THEN root
                      ELSE IF \E d \in DOMAIN cell : cell[d] = i
                      THEN NewTbl(CHOOSE d \in DOMAIN cell : cell[d] = i, None, 0)
                      ELSE FreeTbl]
          /\ next_table = [i \in TblIds |-> [d \in Dirs |->
                             IF i = RootTbl /\ d \in DOMAIN cell THEN cell[d]
                             ELSE None]]
    BY DEF Init
  <2>2. DOMAIN cell = {}
    OBVIOUS
  <2> HIDE DEF root
  <2> QED
    BY <2>1, <2>2
<1>3. /\ link_lock = None
      /\ pc = [t \in Threads |-> "idle"] /\ op = [t \in Threads |-> "none"]
      /\ goal = [t \in Threads |-> Root] /\ cur = [t \in Threads |-> None]
      /\ held = [t \in Threads |-> <<>>]
      /\ dirh = [t \in Threads |-> None] /\ fileh = [t \in Threads |-> None]
  BY DEF Init
<1>4. /\ root \in Cells /\ root.dir = Root /\ root.parent = None /\ root.refcount = 0
      /\ root.orphaned = FALSE /\ root.opened = 0
  <2>1. None \in TblIds \cup {None} /\ 0 \in {0, 1}
    OBVIOUS
  <2> QED
    BY <1>1, <2>1, FreshCells
<1>5. /\ FreeTbl \in Cells /\ FreeTbl.dir = None /\ FreeTbl.parent = None
      /\ FreeTbl.refcount = 0 /\ FreeTbl.orphaned = FALSE /\ FreeTbl.opened = 0
  BY DEF FreeTbl, Cells
<1> HIDE DEF root
<1>6. /\ tbl \in [TblIds -> Cells] /\ tbl[RootTbl] = root
      /\ \A i \in TblIds \ {RootTbl} : tbl[i] = FreeTbl
      /\ \A i \in TblIds : /\ tbl[i].parent = None /\ tbl[i].refcount = 0
                           /\ tbl[i].orphaned = FALSE /\ tbl[i].opened = 0
                           /\ Live(i) <=> i = RootTbl
  <2>1. /\ tbl \in [TblIds -> Cells] /\ tbl[RootTbl] = root
        /\ \A i \in TblIds \ {RootTbl} : tbl[i] = FreeTbl
    BY <1>1, <1>2, <1>4, <1>5
  <2> QED
    BY <1>1, <1>4, <1>5, <2>1 DEF Live
<1>7. Ranges
  <2>1. /\ next_table \in [TblIds -> [Dirs -> TblIds \cup {None}]]
        /\ goal \in [Threads -> AllDirs] /\ cur \in [Threads -> TblIds \cup {None}]
        /\ dirh \in [Threads -> TblIds \cup {None}]
        /\ fileh \in [Threads -> TblIds \cup {None}]
    BY <1>1, <1>2, <1>3
  <2>2. <<>> \in Seq(TblIds) /\ Len(<<>>) = 0 /\ DOMAIN <<>> = {}
    OBVIOUS
  <2>3. held \in [Threads -> Seq(TblIds)]
    BY <1>3, <2>2
  <2>4. \A t \in Threads : Len(held[t]) <= 3 /\ \A k \in DOMAIN held[t] :
                                                    held[t][k] \in TblIds
    BY <1>3, <2>2
  <2>5. /\ pc \in [Threads -> {"idle", "lookup", "walk", "load", "attach", "loaded",
                               "cache", "unref", "exit"}]
        /\ op \in [Threads -> {"none", "stat", "open", "opendir", "release",
                               "releasedir"}]
    BY <1>3
  <2> QED
    BY <1>3, <1>6, <2>1, <2>3, <2>4, <2>5 DEF Ranges, TypeOK, Cells
<1>8. Shaped
  BY <1>1, <1>2, <1>4, <1>6 DEF Shaped, Rooted, Linked
<1>9. Staged
  <2> SUFFICES ASSUME NEW t \in Threads PROVE Stage(t)
    BY DEF Staged
  <2>1. /\ pc[t] = "idle" /\ op[t] = "none" /\ cur[t] = None /\ held[t] = <<>>
        /\ t # None
    BY <1>1, <1>3
  <2>2. Len(held[t]) <= 2
    BY <2>1
  <2> QED
    BY <1>3, <2>1, <2>2 DEF Stage
<1>10. ASSUME NEW i \in TblIds
       PROVE  RefsOf(i) = 0 /\ Cardinality(Filers(i)) = 0
  <2>1. Cardinality({}) = 0
    BY FS_EmptySet
  <2>2. \A t \in Threads : Times(held[t], i) = 0
    BY <1>3, TimesEmpty
  <2>3. Holders(1, i) = {} /\ Holders(2, i) = {}
    <3>1. \A t \in Threads : Holds(t, i) = 0
      BY <2>2 DEF Holds, Times
    <3> QED
      BY <3>1 DEF Holders
  <2>4. Loaders(i) = {} /\ Openers(i) = {} /\ Filers(i) = {}
    BY <1>1, <1>3 DEF Loaders, Openers, Filers
  <2>5. Children(i) = {}
    BY <1>1, <1>6 DEF Children
  <2>6. One(tbl[i].opened > 0) = 0
    BY <1>6 DEF One
  <2> QED
    BY <2>1, <2>3, <2>4, <2>5, <2>6 DEF RefsOf, Held
<1>11. RefsCounted /\ OpenedCounted
  <2>1. Counted
    BY <1>6, <1>10 DEF Counted
  <2>2. \A i \in TblIds : tbl[i].opened = Cardinality(Filers(i))
    BY <1>6, <1>10
  <2> QED
    BY <2>1, <2>2, CountedIs
<1>12. ReleasedIsEvicted
  BY <1>6 DEF ReleasedIsEvicted
<1> QED
  BY <1>7, <1>8, <1>9, <1>11, <1>12 DEF TreeInv

\* Every step keeps it.
LEMMA Continues == ASSUME TreeInv, [Next]_vars PROVE TreeInv'
<1>1. CASE UNCHANGED vars
  <2>1. /\ link_lock' = link_lock /\ tbl' = tbl /\ next_table' = next_table
        /\ pc' = pc /\ op' = op /\ goal' = goal /\ cur' = cur /\ held' = held
        /\ dirh' = dirh /\ fileh' = fileh
    BY <1>1 DEF vars
  <2>2. Ranges'
    BY <2>1 DEF TreeInv, Ranges, TypeOK
  <2>3. Shaped'
    <3>1. SameTree
      BY <2>1 DEF TreeInv, Shaped, Rooted, SameTree
    <3> QED
      BY <3>1, SameShape DEF TreeInv
  <2>4. Staged'
    BY <2>1 DEF TreeInv, Staged, Stage, OnPath, LinkDir, Live
  <2>5. RefsCounted'
    BY <2>1 DEF TreeInv, RefsCounted, Holds
  <2>6. OpenedCounted' /\ ReleasedIsEvicted'
    BY <2>1 DEF TreeInv, OpenedCounted, ReleasedIsEvicted
  <2> QED
    BY <2>2, <2>3, <2>4, <2>5, <2>6 DEF TreeInv
<1>2. ASSUME NEW t \in Threads, Step(t) PROVE TreeInv'
  <2>1. ASSUME NEW d \in AllDirs, Stat(t, d) PROVE TreeInv'
    <3>1. "stat" \in {"stat", "open", "opendir"} /\ "stat" # "opendir" /\ "stat" # "open"
      OBVIOUS
    <3> QED
      BY <2>1, <3>1, CallStep DEF Stat
  <2>2. ASSUME NEW d \in AllDirs, Open(t, d) PROVE TreeInv'
    <3>1. "open" \in {"stat", "open", "opendir"} /\ "open" # "opendir"
      OBVIOUS
    <3> QED
      BY <2>2, <3>1, CallStep DEF Open
  <2>3. ASSUME NEW d \in Dirs, Opendir(t, d) PROVE TreeInv'
    <3>1. "opendir" \in {"stat", "open", "opendir"} /\ "open" # "opendir"
      OBVIOUS
    <3>2. d \in AllDirs
      BY DEF AllDirs
    <3> QED
      BY <2>3, <3>1, <3>2, CallStep DEF Opendir
  <2>4. CASE OpendirRoot(t) \/ StartWalk(t) \/ Found(t)
    BY <2>4, OpendirRootStep, StartWalkStep, FoundStep
  <2>5. CASE NotFound(t) \/ Descend(t) \/ StartLoad(t)
    BY <2>5, NotFoundStep, DescendStep, StartLoadStep
  <2>6. CASE LoadOk(t)
    BY <2>6, LoadFirstStep, LoadLateStep
  <2>7. CASE LoadFail(t) \/ OpenAttached(t) \/ OpenLoad(t) \/ OpenNew(t)
    BY <2>7, LoadFailStep, OpenAttachedStep, OpenLoadStep, OpenNewStep
  <2>8. CASE CacheOpen(t) \/ CacheClose(t) \/ Releasedir(t)
    BY <2>8, CacheOpenStep, CacheCloseStep, ReleasedirStep
  <2>9. CASE Keep(t) \/ Evict(t) \/ Return(t)
    BY <2>9, KeepStep, EvictStep, ReturnStep
  <2> QED
    BY <1>2, <2>1, <2>2, <2>3, <2>4, <2>5, <2>6, <2>7, <2>8, <2>9 DEF Step
<1> QED
  BY <1>1, <1>2 DEF Next

\* Outside ID3 mode the tree of listings is always as TreeInv says.
THEOREM TreeInvariant == ASSUME ~Id3 PROVE Spec => []TreeInv
<1>1. Init => TreeInv
  BY Begins
<1>2. TreeInv /\ [Next]_vars => TreeInv'
  BY Continues
<1> QED
  BY <1>1, <1>2, PTL DEF Spec

\* Outside ID3 mode every variable stays in its range, and no call holds more
\* than the references its code has places for.
THEOREM TreeTypes == ASSUME ~Id3 PROVE Spec => []TypeOK
<1>1. TreeInv => TypeOK
  BY DEF TreeInv, Ranges
<1>2. Spec => []TreeInv
  BY TreeInvariant
<1> QED
  BY <1>1, <1>2, PTL

\* Outside ID3 mode no LinkTable is freed that a call under way, an open
\* directory or file, a link, or a table below it can still reach.
THEOREM NothingFreedInUse == ASSUME ~Id3 PROVE Spec => []NoUseAfterFree
<1>1. TreeInv => NoUseAfterFree
  <2> SUFFICES ASSUME TreeInv PROVE NoUseAfterFree
    OBVIOUS
  <2>1. RootTbl \in TblIds /\ Live(RootTbl)
    BY TreeAssumption DEF TreeInv, Shaped, Rooted, Live, TreeAssumption, AllDirs
  <2>2. ASSUME NEW t \in Threads
        PROVE  /\ cur[t] # None => Live(cur[t])
               /\ \A k \in DOMAIN held[t] : Live(held[t][k])
               /\ dirh[t] # None => Live(dirh[t])
               /\ fileh[t] # None => Live(fileh[t])
    <3>1. DOMAIN held[t] = 1..Len(held[t])
      BY DEF TreeInv, Ranges
    <3> QED
      BY <3>1, InHandLive
  <2>3. ASSUME NEW i \in TblIds, NEW d \in Dirs
        PROVE  next_table[i][d] # None => Live(next_table[i][d])
    BY DEF TreeInv, Shaped, Linked
  <2>4. ASSUME NEW i \in TblIds, tbl[i].parent # None PROVE Live(tbl[i].parent)
    <3>1. Live(i)
      <4>1. FreeTbl.parent = None
        BY DEF FreeTbl
      <4> QED
        BY <2>4, <4>1 DEF TreeInv, Shaped
    <3>2. i # RootTbl
      BY <2>4 DEF TreeInv, Shaped, Rooted
    <3> QED
      BY <3>1, <3>2 DEF TreeInv, Shaped, Hung
  <2> QED
    BY <2>1, <2>2, <2>3, <2>4 DEF NoUseAfterFree
<1>2. Spec => []TreeInv
  BY TreeInvariant
<1> QED
  BY <1>1, <1>2, PTL

\* Outside ID3 mode a table's reference count is the number of its users.
THEOREM CountsAreRight == ASSUME ~Id3 PROVE Spec => []RefsCounted
<1>1. TreeInv => RefsCounted
  BY DEF TreeInv
<1>2. Spec => []TreeInv
  BY TreeInvariant
<1> QED
  BY <1>1, <1>2, PTL

\* Outside ID3 mode every table in memory hangs on its directory's link, and no
\* directory has two, however many threads load one listing at once.
THEOREM OneTableEach == ASSUME ~Id3 PROVE Spec => []OneTablePerDirectory
<1>1. TreeInv => OneTablePerDirectory
  BY DEF TreeInv, Shaped, Hung, OneTablePerDirectory
<1>2. Spec => []TreeInv
  BY TreeInvariant
<1> QED
  BY <1>1, <1>2, PTL

\* Outside ID3 mode a released directory that nothing uses is not in memory.
THEOREM EvictedWhenUnused == ASSUME ~Id3 PROVE Spec => []ReleasedIsEvicted
<1>1. TreeInv => ReleasedIsEvicted
  BY DEF TreeInv
<1>2. Spec => []TreeInv
  BY TreeInvariant
<1> QED
  BY <1>1, <1>2, PTL
===============================================================================
